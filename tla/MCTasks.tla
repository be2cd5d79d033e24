------------------------------ MODULE MCTasks ------------------------------
(* Tasks on a table of four slots, with arguments task_wait must refuse. *)
EXTENDS Tasks

MCEvents   == {-1, 0, 1}
MCTimeouts == {-1, 0, 1, 2}
=============================================================================
