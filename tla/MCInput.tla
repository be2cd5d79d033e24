------------------------------- MODULE MCInput -------------------------------
(* A ring of three keys and two printable characters.                         *)
EXTENDS Input, TLC

CONSTANTS a, b
MCChars == {a, b}
CharSymmetry == Permutations(MCChars)
=============================================================================
