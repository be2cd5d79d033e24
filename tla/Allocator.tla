------------------------------ MODULE Allocator ------------------------------
(***************************************************************************)
(* What callers of kmalloc and kfree may rely on: a block handed out lies  *)
(* in the arena, is aligned and at least as long as asked for, and shares  *)
(* no byte with any other block until it is given back.  An allocation may *)
(* fail at any time.                                                       *)
(***************************************************************************)
EXTENDS Integers

CONSTANTS
    ArenaStart, ArenaEnd,   \* the bytes blocks are cut from
    Align,                  \* every block starts at a multiple of this
    Lengths                 \* the lengths callers ask for

VARIABLE blocks   \* allocated blocks, as [at, len]

Overlap(a, b) == a.at < b.at + b.len /\ b.at < a.at + a.len

Init == blocks = {}

Alloc ==
    \E at \in {a \in ArenaStart .. ArenaEnd : a % Align = 0}, len \in Lengths :
        LET new == [at |-> at, len |-> len]
        IN  /\ at + len <= ArenaEnd
            /\ \A b \in blocks : ~Overlap(new, b)
            /\ blocks' = blocks \cup {new}

Free == \E b \in blocks : blocks' = blocks \ {b}

Next == Alloc \/ Free

Spec == Init /\ [][Next]_blocks
=============================================================================
