------------------------------- MODULE MCHeap -------------------------------
(* Fourteen granules: up to four of the smallest blocks, and sizes whose   *)
(* blocks leave a remainder too small to split off.                        *)
EXTENDS Heap

MCSizes == {-1, 0, 1, 17, 48, 65}
=============================================================================
