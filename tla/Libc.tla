-------------------------------- MODULE Libc --------------------------------
(* The freestanding C library of ppos (libc.c), as functions on a memory: a   *)
(* function from addresses to bytes.  Each loop copies one byte at a time, so *)
(* what it reads may be what it wrote.                                        *)
EXTENDS Integers, FiniteSets

(* The memory after i rounds of a loop that begins with mem.                  *)
Loop(mem, n, Round(_, _)) ==
    LET after[i \in 0..n] == IF i = 0 THEN mem ELSE Round(after[i - 1], i - 1)
    IN  after[n]

Put1(mem, a, b) == [mem EXCEPT ![a] = b]

memcpy(mem, dest, src, n) ==
    Loop(mem, n, LAMBDA m, i : Put1(m, dest + i, m[src + i]))

memmove(mem, dest, src, n) ==
    IF dest < src
    THEN Loop(mem, n, LAMBDA m, i : Put1(m, dest + i, m[src + i]))
    ELSE Loop(mem, n, LAMBDA m, i : Put1(m, dest + n - 1 - i, m[src + n - 1 - i]))

memset(mem, s, c, n) == Loop(mem, n, LAMBDA m, i : Put1(m, s + i, c))

(* The first difference decides; where it is, the bytes subtracted.           *)
memcmp(mem, s1, s2, n) ==
    LET differ == {i \in 0..n - 1 : mem[s1 + i] # mem[s2 + i]}
        first == CHOOSE i \in differ : \A j \in differ : i <= j
    IN  IF differ = {} THEN 0 ELSE mem[s1 + first] - mem[s2 + first]

strlen(mem, s) ==
    LET zeros == {a \in DOMAIN mem : a >= s /\ mem[a] = 0}
    IN  (CHOOSE a \in zeros : \A b \in zeros : a <= b) - s

-----------------------------------------------------------------------------
(* What the copies are to do: the bytes that were at src are at dest, and no  *)
(* other cell changes.                                                        *)
Copied(mem, dest, src, n) ==
    [a \in DOMAIN mem |-> IF a \in dest..dest + n - 1 THEN mem[src + a - dest] ELSE mem[a]]

(* memmove whatever overlaps; memcpy unless the copy runs into its source.    *)
CopiesExactly(Memories, Addresses) ==
    \A mem \in Memories, d, s \in Addresses, n \in 0..2 * Cardinality(Addresses) :
        (d + n - 1 \in DOMAIN mem \/ n = 0) /\ (s + n - 1 \in DOMAIN mem \/ n = 0) =>
            /\ memmove(mem, d, s, n) = Copied(mem, d, s, n)
            /\ d <= s \/ d >= s + n => memcpy(mem, d, s, n) = Copied(mem, d, s, n)
            /\ memset(mem, d, 0, n) = [a \in DOMAIN mem |->
                                         IF a \in d..d + n - 1 THEN 0 ELSE mem[a]]
            /\ (memcmp(mem, d, s, n) = 0) <=> (\A i \in 0..n - 1 : mem[d + i] = mem[s + i])
=============================================================================
