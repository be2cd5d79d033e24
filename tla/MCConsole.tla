------------------------------ MODULE MCConsole ------------------------------
(* The console on a ring of three bytes, with messages of one and two bytes,  *)
(* a dot every second tick and a panic report of two bytes.                   *)
EXTENDS Console

MCSizes == {1, 2}
MCCapacities == {1, 4}
=============================================================================
