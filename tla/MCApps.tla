------------------------------- MODULE MCApps -------------------------------
(* The image with two apps beside the shell: five slots, of which the      *)
(* heartbeat and the shell hold two.                                       *)
EXTENDS Apps

CONSTANTS sql, db, sh, hb

MCApps == {sh, sql, db}
MCArguments == {sh, sql, db, hb}
MCCodes == {0, 1, -1}
=============================================================================
