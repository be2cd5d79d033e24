------------------------------- MODULE RxRing -------------------------------
(* The receive ring of uip_glue.c: rxbuf with its head (where bytes are put),  *)
(* its tail (where they are taken) and the flag that tells a full ring from    *)
(* an empty one.                                                               *)
EXTENDS Integers, Sequences

CONSTANTS RXBUF_CAP,    \* 16384
          NoByte        \* what a cell holds before it is written

ASSUME RingAssumption == RXBUF_CAP \in Nat \ {0}

Empty == [buf |-> [a \in 0..RXBUF_CAP - 1 |-> NoByte],
          head |-> 0, tail |-> 0, full |-> FALSE]

Reset(r) == [r EXCEPT !.head = 0, !.tail = 0, !.full = FALSE]

Free(r) == IF r.full THEN 0
           ELSE IF r.tail > r.head THEN r.tail - r.head
           ELSE RXBUF_CAP - r.head + r.tail

Put_RestAgain(r, d) ==    \* mutant: the second memcpy starts at uip_appdata again
    LET n == Len(d)
        first == IF n > RXBUF_CAP - r.head THEN RXBUF_CAP - r.head ELSE n
        head == (r.head + n) % RXBUF_CAP
    IN  [buf |-> [a \in 0..RXBUF_CAP - 1 |->
                    IF a >= r.head /\ a < r.head + first THEN d[a - r.head + 1]
                    ELSE IF a < n - first THEN d[a + 1]
                    ELSE r.buf[a]],
         head |-> head, tail |-> r.tail, full |-> head = r.tail]

(* memcpy of the bytes up to the end of rxbuf, then of the rest to its start.  *)
Put(r, d) ==
    LET n == Len(d)
        first == IF n > RXBUF_CAP - r.head THEN RXBUF_CAP - r.head ELSE n
        head == (r.head + n) % RXBUF_CAP
    IN  [buf |-> [a \in 0..RXBUF_CAP - 1 |->
                    IF a >= r.head /\ a < r.head + first THEN d[a - r.head + 1]
                    ELSE IF a < n - first THEN d[first + a + 1]
                    ELSE r.buf[a]],
         head |-> head, tail |-> r.tail, full |-> head = r.tail]

Held(r) == RXBUF_CAP - Free(r)

(* The bytes in the ring, oldest first.                                        *)
Content(r) == [i \in 1..Held(r) |-> r.buf[(r.tail + i - 1) % RXBUF_CAP]]

(* uip_glue_recv takes byte after byte while there are any.                    *)
Take(r, n) == [r EXCEPT !.tail = (r.tail + n) % RXBUF_CAP,
                        !.full = r.full /\ n = 0]
=============================================================================
