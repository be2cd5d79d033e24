------------------------------ MODULE TcpProofs ------------------------------
(* The receive ring of Tcp is a queue in every behaviour, and a connection is *)
(* two streams (Stream): for any number of slots and connections, any ring    *)
(* and bounds, a network that loses, repeats and reorders segments, and a     *)
(* server that may die at any moment.                                         *)
EXTENDS Tcp, Modulo, SequenceTheorems

Cells == 0..RXBUF_CAP - 1

Rings(Q) == {r \in [buf : [Cells -> Q], head : Cells, tail : Cells, full : BOOLEAN] :
                r.full => r.head = r.tail}

-----------------------------------------------------------------------------
(* Positions.  Cell(a, i) is the i-th cell from a.                            *)

Cell(a, i) == IF a + i < RXBUF_CAP THEN a + i ELSE a + i - RXBUF_CAP

LEMMA CellIsModulo ==
    ASSUME NEW a \in Cells, NEW i \in 0..RXBUF_CAP
    PROVE  (a + i) % RXBUF_CAP = Cell(a, i) /\ Cell(a, i) \in Cells
<1>1. RXBUF_CAP \in Nat /\ RXBUF_CAP > 0 BY RingAssumption
<1>2. CASE a + i < RXBUF_CAP BY <1>1, <1>2 DEF Cell, Cells
<1>3. CASE a + i >= RXBUF_CAP BY <1>1, <1>3 DEF Cell, Cells
<1> QED BY <1>1, <1>2, <1>3 DEF Cells

LEMMA CellOfCell ==
    ASSUME NEW a \in Cells, NEW i \in 0..RXBUF_CAP, NEW j \in 0..RXBUF_CAP, i + j <= RXBUF_CAP
    PROVE  Cell(Cell(a, i), j) = Cell(a, i + j)
BY RingAssumption DEF Cell, Cells

LEMMA CellsDiffer ==
    ASSUME NEW a \in Cells, NEW i \in 0..RXBUF_CAP - 1, NEW j \in 0..RXBUF_CAP - 1, i # j
    PROVE  Cell(a, i) # Cell(a, j)
BY RingAssumption DEF Cell, Cells

LEMMA CellAround ==
    ASSUME NEW a \in Cells, NEW i \in 1..RXBUF_CAP
    PROVE  Cell(a, i) = a <=> i = RXBUF_CAP
BY RingAssumption DEF Cell, Cells

-----------------------------------------------------------------------------
(* Free and held bytes fill the ring, and the held ones lie between the tail  *)
(* and the head; the flag tells the full ring from the empty one.             *)

LEMMA HeldAndFree ==
    ASSUME NEW Q, NEW r \in Rings(Q)
    PROVE  /\ Held(r) \in 0..RXBUF_CAP /\ Free(r) = RXBUF_CAP - Held(r)
           /\ r.head = Cell(r.tail, Held(r))
           /\ r.full <=> Held(r) = RXBUF_CAP
<1>1. RXBUF_CAP \in Nat /\ RXBUF_CAP > 0 BY RingAssumption
<1>2. r.head \in Cells /\ r.tail \in Cells /\ r.full \in BOOLEAN /\ (r.full => r.head = r.tail)
  BY DEF Rings
<1>3. CASE r.full BY <1>1, <1>2, <1>3 DEF Cell, Cells, Free, Held
<1>4. CASE ~r.full BY <1>1, <1>2, <1>4 DEF Cell, Cells, Free, Held
<1> QED BY <1>2, <1>3, <1>4

LEMMA HeldIs ==
    ASSUME NEW Q, NEW r \in Rings(Q), NEW k \in 0..RXBUF_CAP,
           r.head = Cell(r.tail, k), r.full <=> k = RXBUF_CAP
    PROVE  Held(r) = k
<1>1. RXBUF_CAP \in Nat /\ RXBUF_CAP > 0 BY RingAssumption
<1>2. r.head \in Cells /\ r.tail \in Cells /\ r.full \in BOOLEAN BY DEF Rings
<1>3. CASE r.full BY <1>1, <1>2, <1>3 DEF Cell, Cells, Free, Held
<1>4. CASE ~r.full BY <1>1, <1>2, <1>4 DEF Cell, Cells, Free, Held
<1> QED BY <1>2, <1>3, <1>4

(* Content reads the held cells in order.                                     *)
LEMMA ContentIsSeq ==
    ASSUME NEW Q, NEW r \in Rings(Q)
    PROVE  /\ Content(r) \in Seq(Q) /\ Len(Content(r)) = Held(r)
           /\ \A i \in 1..Held(r) : Content(r)[i] = r.buf[Cell(r.tail, i - 1)]
<1>1. RXBUF_CAP \in Nat /\ RXBUF_CAP > 0 /\ Held(r) \in 0..RXBUF_CAP
  BY RingAssumption, HeldAndFree
<1>2. r.buf \in [Cells -> Q] /\ r.tail \in Cells BY DEF Rings
<1>3. ASSUME NEW i \in 1..Held(r)
      PROVE  (r.tail + i - 1) % RXBUF_CAP = Cell(r.tail, i - 1) /\ Cell(r.tail, i - 1) \in Cells
  <2>1. i - 1 \in 0..RXBUF_CAP /\ r.tail + i - 1 = r.tail + (i - 1) BY <1>1, <1>2 DEF Cells
  <2> QED BY <2>1, <1>2, CellIsModulo
<1>4. \A i \in 1..Held(r) : r.buf[(r.tail + i - 1) % RXBUF_CAP] \in Q BY <1>2, <1>3
<1>5. Content(r) \in Seq(Q) BY <1>1, <1>4 DEF Content
<1>6. Len(Content(r)) = Held(r) BY <1>1, <1>4 DEF Content
<1>7. \A i \in 1..Held(r) : Content(r)[i] = r.buf[Cell(r.tail, i - 1)] BY <1>3 DEF Content
<1> QED BY <1>5, <1>6, <1>7

LEMMA RingFields ==
    ASSUME NEW Q, NEW r \in Rings(Q)
    PROVE  /\ r = [buf |-> r.buf, head |-> r.head, tail |-> r.tail, full |-> r.full]
           /\ r.buf \in [Cells -> Q] /\ r.head \in Cells /\ r.tail \in Cells
           /\ r.full \in BOOLEAN /\ (r.full => r.head = r.tail)
BY DEF Rings

(* A ring that was just reset is empty.                                       *)
LEMMA ResetIsEmpty ==
    ASSUME NEW Q, NEW r \in Rings(Q)
    PROVE  Reset(r) \in Rings(Q) /\ Content(Reset(r)) = << >>
<1>1. RXBUF_CAP \in Nat /\ RXBUF_CAP > 0 BY RingAssumption
<1>2. r \in [buf : [Cells -> Q], head : Cells, tail : Cells, full : BOOLEAN] BY DEF Rings
<1>3. Reset(r) \in Rings(Q) /\ Reset(r).head = 0 /\ Reset(r).tail = 0 /\ ~Reset(r).full
  <2>1. 0 \in Cells BY <1>1 DEF Cells
  <2> QED BY <1>2, <2>1 DEF Reset, Rings
<1>4. Held(Reset(r)) = 0 BY <1>1, <1>3 DEF Held, Free
<1>5. Content(Reset(r)) \in Seq(Q) /\ Len(Content(Reset(r))) = 0
  BY <1>3, <1>4, ContentIsSeq
<1> QED BY <1>3, <1>5, EmptySeq

-----------------------------------------------------------------------------
(* Where memcpy puts the bytes: the j-th of them in the j-th cell from the    *)
(* head, and all other cells keep theirs.                                     *)
Writes(r, d, n, new) ==
    /\ new.head = Cell(r.head, n) /\ new.tail = r.tail
    /\ new.full <=> Cell(r.head, n) = r.tail
    /\ \A j \in 0..n - 1 : new.buf[Cell(r.head, j)] = d[j + 1]
    /\ \A a \in Cells : (\A j \in 0..n - 1 : a # Cell(r.head, j)) => new.buf[a] = r.buf[a]

LEMMA PutWrites ==
    ASSUME NEW Q, NEW r \in Rings(Q), NEW d \in Seq(Q), NEW n \in 1..RXBUF_CAP, n = Len(d)
    PROVE  Put(r, d) \in Rings(Q) /\ Writes(r, d, n, Put(r, d))
<1>1. RXBUF_CAP \in Nat /\ RXBUF_CAP > 0 BY RingAssumption
<1>2. PICK head \in 0..RXBUF_CAP - 1 : head = r.head BY RingFields DEF Cells
<1>3. r.buf \in [Cells -> Q] /\ r.tail \in Cells /\ head \in Cells
  BY <1>2, RingFields DEF Cells
<1>4. PICK first \in Int : first = IF n > RXBUF_CAP - head THEN RXBUF_CAP - head ELSE n
  <2>1. (IF n > RXBUF_CAP - head THEN RXBUF_CAP - head ELSE n) \in Int BY <1>1
  <2> QED BY <2>1
<1>5. /\ first \in 1..n /\ head + first <= RXBUF_CAP
      /\ n > RXBUF_CAP - head => first = RXBUF_CAP - head
      /\ n <= RXBUF_CAP - head => first = n
  BY <1>1, <1>4
<1> DEFINE CellOf(a) == IF a >= head /\ a < head + first THEN d[a - head + 1]
                      ELSE IF a < n - first THEN d[first + a + 1]
                      ELSE r.buf[a]
<1>6. (head + n) % RXBUF_CAP = Cell(head, n) /\ Cell(head, n) \in Cells
  <2>1. n \in 0..RXBUF_CAP BY <1>1
  <2> QED BY <2>1, <1>3, CellIsModulo
<1>7. Put(r, d) = [buf |-> [a \in Cells |-> CellOf(a)], head |-> Cell(head, n),
                   tail |-> r.tail, full |-> Cell(head, n) = r.tail]
  BY <1>2, <1>4, <1>6 DEF Put, Cells
<1>8. \A i \in 1..n : d[i] \in Q BY ElementOfSeq
<1>9. ASSUME NEW a \in Cells PROVE CellOf(a) \in Q
  <2>1. a \in 0..RXBUF_CAP - 1 /\ r.buf[a] \in Q BY <1>3 DEF Cells
  <2>2. CASE a >= head /\ a < head + first
    <3>1. a - head + 1 \in 1..n BY <2>1, <2>2, <1>1, <1>5
    <3> QED BY <3>1, <2>2, <1>8
  <2>3. CASE ~(a >= head /\ a < head + first) /\ a < n - first
    <3>1. first + a + 1 \in 1..n BY <2>1, <2>3, <1>1, <1>5
    <3> QED BY <3>1, <2>3, <1>8
  <2> QED BY <2>1, <2>2, <2>3
<1>10. Put(r, d) \in Rings(Q)
  <2>1. [a \in Cells |-> CellOf(a)] \in [Cells -> Q] BY <1>9
  <2>2. PICK buf \in [Cells -> Q] : buf = [a \in Cells |-> CellOf(a)] BY <2>1
  <2>3. PICK full \in BOOLEAN : full <=> Cell(head, n) = r.tail OBVIOUS
  <2>4. Put(r, d) = [buf |-> buf, head |-> Cell(head, n), tail |-> r.tail, full |-> full]
    BY <1>7, <2>2, <2>3
  <2> QED BY <1>3, <1>6, <2>3, <2>4 DEF Rings
<1>11. ASSUME NEW j \in 0..n - 1 PROVE CellOf(Cell(head, j)) = d[j + 1] /\ Cell(head, j) \in Cells
  <2>1. CASE head + j < RXBUF_CAP
    <3>1. Cell(head, j) = head + j /\ head + j >= head BY <2>1, <1>1 DEF Cell
    <3>2. j < first BY <2>1, <1>1, <1>5
    <3>3. CellOf(head + j) = d[head + j - head + 1] BY <3>1, <3>2, <1>1, <1>5
    <3>4. head + j - head + 1 = j + 1 BY <1>1
    <3> QED BY <2>1, <3>1, <3>3, <3>4, <1>1 DEF Cells
  <2>2. CASE head + j >= RXBUF_CAP
    <3>1. first = RXBUF_CAP - head BY <2>2, <1>1, <1>5
    <3>2. PICK a \in 0..RXBUF_CAP - 1 : a = head + j - RXBUF_CAP BY <2>2, <1>1
    <3>3. Cell(head, j) = a BY <2>2, <3>2, <1>1 DEF Cell
    <3>4. a < head /\ a < n - first /\ first + a + 1 = j + 1 BY <3>1, <3>2, <1>1
    <3>5. CellOf(a) = d[j + 1] BY <3>4, <1>1, <1>5
    <3> QED BY <3>2, <3>3, <3>5 DEF Cells
  <2> QED BY <2>1, <2>2, <1>1
<1>12. ASSUME NEW a \in Cells, \A j \in 0..n - 1 : a # Cell(head, j)
       PROVE  CellOf(a) = r.buf[a]
  <2>1. a \in 0..RXBUF_CAP - 1 BY DEF Cells
  <2>2. ~(a >= head /\ a < head + first)
    <3>1. SUFFICES ASSUME a >= head, a < head + first PROVE FALSE OBVIOUS
    <3>2. a - head \in 0..n - 1 BY <3>1, <2>1, <1>1, <1>5
    <3>3. Cell(head, a - head) = a BY <3>1, <2>1, <1>1, <1>5 DEF Cell
    <3> QED BY <3>2, <3>3, <1>12
  <2>3. ~(a < n - first)
    <3>1. SUFFICES ASSUME a < n - first PROVE FALSE OBVIOUS
    <3>2. first = RXBUF_CAP - head BY <3>1, <2>1, <1>1, <1>5
    <3>3. PICK j \in 0..n - 1 : j = RXBUF_CAP - head + a BY <3>1, <3>2, <2>1, <1>1, <1>5
    <3>4. Cell(head, j) = a BY <3>3, <2>1, <1>1 DEF Cell
    <3> QED BY <3>4, <1>12
  <2> QED BY <2>2, <2>3
<1>13. Writes(r, d, n, Put(r, d))
  <2>1. \A a \in Cells : Put(r, d).buf[a] = CellOf(a) BY <1>7
  <2>2. /\ Put(r, d).head = Cell(head, n) /\ Put(r, d).tail = r.tail
        /\ Put(r, d).full <=> Cell(head, n) = r.tail
    <3>1. PICK full \in BOOLEAN : full <=> Cell(head, n) = r.tail OBVIOUS
    <3>2. /\ Put(r, d).head = Cell(head, n) /\ Put(r, d).tail = r.tail
          /\ Put(r, d).full = full
      BY <1>7, <3>1
    <3> QED BY <3>1, <3>2
  <2> HIDE DEF Byte
  <2>3. \A j \in 0..n - 1 : Put(r, d).buf[Cell(head, j)] = d[j + 1] BY <2>1, <1>11
  <2>4. \A a \in Cells : (\A j \in 0..n - 1 : a # Cell(head, j))
                            => Put(r, d).buf[a] = r.buf[a]
    BY <2>1, <1>12
  <2> QED BY <2>2, <2>3, <2>4, <1>2 DEF Writes
<1> QED BY <1>10, <1>13

(* Bytes that fit are appended.                                               *)
THEOREM PutAppends ==
    ASSUME NEW Q, NEW r \in Rings(Q), NEW d \in Seq(Q), d # << >>, Len(d) <= Free(r)
    PROVE  Put(r, d) \in Rings(Q) /\ Content(Put(r, d)) = Content(r) \o d
<1>1. RXBUF_CAP \in Nat /\ RXBUF_CAP > 0 BY RingAssumption
<1>2. PICK n \in 1..RXBUF_CAP : n = Len(d) /\ n <= Free(r)
  BY <1>1, EmptySeq, HeldAndFree
<1>3. PICK h \in 0..RXBUF_CAP : h = Held(r) /\ h + n <= RXBUF_CAP /\ r.head = Cell(r.tail, h)
  BY <1>1, <1>2, HeldAndFree
<1>4. PICK new \in Rings(Q) : new = Put(r, d) /\ Writes(r, d, n, new)
  BY <1>2, PutWrites
<1>5. r.tail \in Cells BY RingFields
<1>6. ASSUME NEW j \in 0..n PROVE Cell(r.head, j) = Cell(r.tail, h + j)
  <2>1. j \in 0..RXBUF_CAP /\ h + j <= RXBUF_CAP BY <1>1, <1>2, <1>3
  <2> QED BY <2>1, <1>3, <1>5, CellOfCell
<1>7. Held(new) = h + n
  <2>1. h + n \in 1..RXBUF_CAP BY <1>1, <1>2, <1>3
  <2>2. new.head = Cell(new.tail, h + n) BY <1>1, <1>2, <1>4, <1>6 DEF Writes
  <2>3. new.full <=> h + n = RXBUF_CAP BY <2>1, <2>2, <1>4, <1>5, CellAround DEF Writes
  <2>4. h + n \in 0..RXBUF_CAP BY <2>1
  <2> QED BY <2>2, <2>3, <2>4, HeldIs
<1>8. /\ Content(r) \in Seq(Q) /\ Len(Content(r)) = h
      /\ \A i \in 1..h : Content(r)[i] = r.buf[Cell(r.tail, i - 1)]
  BY <1>3, ContentIsSeq
<1>9. /\ Content(new) \in Seq(Q) /\ Len(Content(new)) = h + n
      /\ \A i \in 1..h + n : Content(new)[i] = new.buf[Cell(r.tail, i - 1)]
  BY SMTT(30), <1>4, <1>7, ContentIsSeq DEF Writes
<1>10. /\ Content(r) \o d \in Seq(Q) /\ Len(Content(r) \o d) = h + n
       /\ \A i \in 1..h + n : (Content(r) \o d)[i] = IF i <= h THEN Content(r)[i] ELSE d[i - h]
  <2> HIDE DEF Content
  <2>1. /\ Content(r) \o d \in Seq(Q) /\ Len(Content(r) \o d) = Len(Content(r)) + Len(d)
        /\ \A i \in 1..Len(Content(r)) + Len(d) :
              (Content(r) \o d)[i] = IF i <= Len(Content(r)) THEN Content(r)[i]
                                     ELSE d[i - Len(Content(r))]
    BY <1>8, ConcatProperties
  <2> QED BY <2>1, <1>2, <1>8
<1>11. ASSUME NEW i \in 1..h + n PROVE Content(new)[i] = (Content(r) \o d)[i]
  <2>1. CASE i <= h
    <3>1. i \in 1..h /\ i - 1 \in 0..RXBUF_CAP - 1 /\ i - 1 \in 0..RXBUF_CAP
      BY <2>1, <1>1, <1>2, <1>3
    <3>2. Cell(r.tail, i - 1) \in Cells BY <3>1, <1>5, CellIsModulo
    <3>3. ASSUME NEW j \in 0..n - 1 PROVE Cell(r.tail, i - 1) # Cell(r.head, j)
      <4>1. j \in 0..n /\ h + j \in 0..RXBUF_CAP - 1 /\ i - 1 # h + j
        BY <2>1, <1>1, <1>2, <1>3
      <4> QED BY <4>1, <3>1, <1>5, <1>6, CellsDiffer
    <3>4. new.buf[Cell(r.tail, i - 1)] = r.buf[Cell(r.tail, i - 1)] BY <3>2, <3>3, <1>4 DEF Writes
    <3> QED BY <3>1, <3>4, <2>1, <1>8, <1>9, <1>10
  <2>2. CASE i > h
    <3>1. i - h - 1 \in 0..n - 1 /\ i - h - 1 \in 0..n /\ h + (i - h - 1) = i - 1
          /\ (i - h - 1) + 1 = i - h
      BY <2>2, <1>2, <1>3
    <3>2. Cell(r.head, i - h - 1) = Cell(r.tail, i - 1) BY <3>1, <1>6
    <3>3. new.buf[Cell(r.tail, i - 1)] = d[i - h] BY <3>1, <3>2, <1>4 DEF Writes
    <3>4. ~(i <= h) BY <2>2, <1>3
    <3> QED BY <3>3, <3>4, <1>9, <1>10
  <2>3. i <= h \/ i > h BY <1>1
  <2> QED BY <2>1, <2>2, <2>3
<1>12. Content(new) = Content(r) \o d BY <1>9, <1>10, <1>11, SeqEqual
<1> QED BY <1>4, <1>12

(* What is taken is the oldest part of the content.                           *)
THEOREM TakeRemoves ==
    ASSUME NEW Q, NEW r \in Rings(Q), NEW n \in 1..Held(r)
    PROVE  /\ Take(r, n) \in Rings(Q)
           /\ SubSeq(Content(r), 1, n) \in Seq(Q)
           /\ Content(r) = SubSeq(Content(r), 1, n) \o Content(Take(r, n))
<1>1. RXBUF_CAP \in Nat /\ RXBUF_CAP > 0 BY RingAssumption
<1>2. PICK h \in 0..RXBUF_CAP : h = Held(r) /\ r.head = Cell(r.tail, h)
  BY HeldAndFree
<1>3. n \in 1..h /\ n \in 0..RXBUF_CAP /\ h - n \in 0..RXBUF_CAP - 1 /\ h - n \in 0..RXBUF_CAP
  BY <1>1, <1>2
<1>4. r.tail \in Cells BY RingFields
<1>5. (r.tail + n) % RXBUF_CAP = Cell(r.tail, n) /\ Cell(r.tail, n) \in Cells
  BY <1>3, <1>4, CellIsModulo
<1>6. /\ Take(r, n) \in Rings(Q)
      /\ Take(r, n).buf = r.buf /\ Take(r, n).head = r.head
      /\ Take(r, n).tail = Cell(r.tail, n) /\ Take(r, n).full = FALSE
  <2>1. r \in [buf : [Cells -> Q], head : Cells, tail : Cells, full : BOOLEAN] BY DEF Rings
  <2>2. n # 0 BY <1>1, <1>3
  <2> QED BY <2>1, <2>2, <1>5 DEF Take, Rings
<1>7. PICK new \in Rings(Q) :
         /\ new = Take(r, n) /\ new.buf = r.buf /\ new.head = r.head
         /\ new.tail = Cell(r.tail, n) /\ new.full = FALSE
  BY <1>6
<1>8. Held(new) = h - n
  <2>1. Cell(Cell(r.tail, n), h - n) = Cell(r.tail, n + (h - n)) /\ n + (h - n) = h
    BY <1>2, <1>3, <1>4, CellOfCell
  <2>2. new.head = Cell(new.tail, h - n) BY <2>1, <1>2, <1>7
  <2>3. new.full <=> h - n = RXBUF_CAP BY <1>1, <1>3, <1>7
  <2> QED BY <2>2, <2>3, <1>3, HeldIs
<1>9. /\ Content(r) \in Seq(Q) /\ Len(Content(r)) = h
      /\ \A i \in 1..h : Content(r)[i] = r.buf[Cell(r.tail, i - 1)]
  BY <1>2, ContentIsSeq
<1>10. /\ Content(new) \in Seq(Q) /\ Len(Content(new)) = h - n
       /\ \A i \in 1..h - n : Content(new)[i] = r.buf[Cell(Cell(r.tail, n), i - 1)]
  BY <1>7, <1>8, ContentIsSeq
<1>11. PICK taken \in Seq(Q) :
         /\ taken = SubSeq(Content(r), 1, n) /\ Len(taken) = n
         /\ \A i \in 1..n : taken[i] = Content(r)[i]
  <2>1. \A i \in 1..n : Content(r)[i] \in Q
    <3>1. \A i \in 1..n : i \in 1..Len(Content(r)) BY <1>2, <1>3, <1>9
    <3> QED BY <3>1, <1>9, ElementOfSeq
  <2>2. 1 \in Int /\ n \in Int BY <1>3
  <2>3. /\ SubSeq(Content(r), 1, n) \in Seq(Q)
        /\ Len(SubSeq(Content(r), 1, n)) = IF 1 <= n THEN n - 1 + 1 ELSE 0
        /\ \A i \in 1..n - 1 + 1 : SubSeq(Content(r), 1, n)[i] = Content(r)[1 + i - 1]
    BY <2>1, <2>2, SubSeqProperties
  <2>4. n - 1 + 1 = n /\ 1 <= n BY <1>3
  <2>5. \A i \in 1..n : 1 + i - 1 = i BY <1>3
  <2> QED BY <2>3, <2>4, <2>5
<1>12. /\ taken \o Content(new) \in Seq(Q) /\ Len(taken \o Content(new)) = h
       /\ \A i \in 1..h : (taken \o Content(new))[i] =
              IF i <= n THEN taken[i] ELSE Content(new)[i - n]
  <2>1. /\ taken \o Content(new) \in Seq(Q)
        /\ Len(taken \o Content(new)) = Len(taken) + Len(Content(new))
        /\ \A i \in 1..Len(taken) + Len(Content(new)) :
              (taken \o Content(new))[i] = IF i <= Len(taken) THEN taken[i]
                                           ELSE Content(new)[i - Len(taken)]
    BY <1>10, <1>11, ConcatProperties
  <2>2. n + (h - n) = h BY <1>2, <1>3
  <2> QED BY <2>1, <2>2, <1>10, <1>11
<1>13. ASSUME NEW i \in 1..h
       PROVE  Content(r)[i] = (taken \o Content(new))[i]
  <2>1. CASE i <= n
    <3>1. i \in 1..n BY <2>1, <1>2, <1>3
    <3> QED BY <3>1, <2>1, <1>11, <1>12
  <2>2. CASE i > n
    <3>1. /\ i - n \in 1..h - n /\ i - n - 1 \in 0..RXBUF_CAP /\ n + (i - n - 1) = i - 1
          /\ n + (i - n - 1) <= RXBUF_CAP /\ ~(i <= n)
      BY <2>2, <1>1, <1>2, <1>3
    <3>2. Cell(Cell(r.tail, n), i - n - 1) = Cell(r.tail, i - 1)
      BY <3>1, <1>3, <1>4, CellOfCell
    <3>3. Content(new)[i - n] = r.buf[Cell(r.tail, i - 1)] BY <3>1, <3>2, <1>10
    <3> QED BY <3>1, <3>3, <1>9, <1>12
  <2>3. i <= n \/ i > n BY <1>1, <1>3
  <2> QED BY <2>1, <2>2, <2>3
<1>14. Content(r) = taken \o Content(new) BY <1>9, <1>12, <1>13, SeqEqual
<1> QED BY <1>7, <1>11, <1>14

-----------------------------------------------------------------------------

ByteSet == (Connections \X Int) \cup {NoByte}

(* Segments for ppos carry sequences of bytes; the ring is well formed.       *)
FramesOK == \A f \in net : f.dir = "in" => f.data \in Seq(ByteSet)

QueueInv ==
    /\ rx \in Rings(ByteSet)
    /\ app \in [phase : {"idle", "connecting", "open"}, said : Int, got : Seq(ByteSet)]
    /\ fedNow \in Seq(ByteSet)
    /\ FramesOK
    /\ RingIsQueue

-----------------------------------------------------------------------------
(* What a step of the poll does to the ring, and what any step does to the    *)
(* segments for ppos.                                                         *)

Quiet == UNCHANGED <<rx, fedNow>>

Feeds(data) == /\ data # << >> /\ Len(data) <= Free(rx)
               /\ rx' = Put(rx, data) /\ fedNow' = fedNow \o data

Feeding == \E data \in Seq(ByteSet) : Feeds(data)

NothingNew == \A f \in net' : f \in net \/ f.dir = "out"

LEMMA NothingNewKeeps == FramesOK /\ NothingNew => FramesOK'
BY DEF FramesOK, NothingNew

LEMMA AppCallFeeds ==
    ASSUME NEW k, NEW flags, NEW data \in Seq(ByteSet), QueueInv, AppCall(k, flags, data)
    PROVE  Quiet \/ Feeding
<1>1. Len(data) \in Nat BY LenProperties
<1>2. Free(rx) \in Int
  <2>1. Held(rx) \in 0..RXBUF_CAP /\ Free(rx) = RXBUF_CAP - Held(rx)
    BY HeldAndFree DEF QueueInv
  <2> QED BY <2>1, RingAssumption
<1>3. CASE Len(data) > Free(rx) \/ data = << >>
  BY <1>3 DEF AppCall, Quiet
<1>4. CASE ~(Len(data) > Free(rx) \/ data = << >>)
  <2>1. rx' = Put(rx, data) /\ fedNow' = fedNow \o data BY <1>4 DEF AppCall
  <2>2. data # << >> /\ Len(data) <= Free(rx) BY <1>1, <1>2, <1>4
  <2> QED BY <2>1, <2>2 DEF Feeding, Feeds
<1> QED BY <1>3, <1>4

LEMMA TransmitsOut ==
    ASSUME NEW used, NEW out, used \subseteq net, \A f \in out : f.dir = "out",
           Transmit(used, out)
    PROVE  NothingNew
BY DEF Transmit, NothingNew

(* Whatever the poll does to the ring, it stays a queue.                      *)
LEMMA PollKeeps ==
    ASSUME QueueInv, Quiet \/ Feeding, NothingNew, UNCHANGED app
    PROVE  QueueInv'
<1>1. FramesOK' BY NothingNewKeeps DEF QueueInv
<1>2. CASE Quiet BY <1>1, <1>2 DEF Quiet, QueueInv, RingIsQueue
<1>3. CASE Feeding
  <2>1. PICK data \in Seq(ByteSet) : Feeds(data) BY <1>3 DEF Feeding
  <2>2. /\ Put(rx, data) \in Rings(ByteSet)
        /\ Content(Put(rx, data)) = Content(rx) \o data
    BY <2>1, PutAppends DEF Feeds, QueueInv
  <2>3. Content(rx) \in Seq(ByteSet) /\ app.got \in Seq(ByteSet) BY ContentIsSeq DEF QueueInv
  <2>4. (app.got \o Content(rx)) \o data = app.got \o (Content(rx) \o data)
    <3>1. PICK got \in Seq(ByteSet), held \in Seq(ByteSet) : got = app.got /\ held = Content(rx)
      BY <2>3
    <3>2. (got \o held) \o data = got \o (held \o data) BY ConcatAssociative
    <3> QED BY <3>1, <3>2
  <2>5. fedNow \o data \in Seq(ByteSet) BY ConcatProperties DEF QueueInv
  <2>6. app.got \o Content(rx') = fedNow' BY <2>1, <2>2, <2>4 DEF Feeds, QueueInv, RingIsQueue
  <2> QED BY <1>1, <2>1, <2>2, <2>5, <2>6 DEF Feeds, QueueInv, RingIsQueue
<1> QED BY <1>2, <1>3

-----------------------------------------------------------------------------
LEMMA TickPolls == ASSUME QueueInv, Tick PROVE (Quiet \/ Feeding) /\ NothingNew
<1>1. << >> \in Seq(ByteSet) BY EmptySeq
<1>2. CASE TimerSkip BY <1>2 DEF TimerSkip, histories, Quiet, NothingNew
<1>3. CASE TimerWait BY <1>3 DEF TimerWait, histories, Quiet, NothingNew
<1>4. CASE TimerGiveUp
  <2>1. Quiet \/ Feeding
    <3>1. AppCall(conns[Slot].conn, {"TIMEDOUT"}, << >>) BY <1>4 DEF TimerGiveUp
    <3> QED BY <1>1, <3>1, AppCallFeeds
  <2>2. NothingNew
    <3>1. Transmit({}, {Out(conns[Slot], {"RST", "ACK"}, << >>)}) BY <1>4 DEF TimerGiveUp
    <3> QED BY <3>1, TransmitsOut DEF Out, Segment
  <2> QED BY <2>1, <2>2
<1>5. CASE TimerResend
  <2>1. Quiet BY <1>5 DEF TimerResend, histories, Quiet
  <2>2. NothingNew
    <3>1. Transmit({}, Again(conns[Slot])) BY <1>5 DEF TimerResend
    <3>2. \A f \in Again(conns[Slot]) : f.dir = "out" BY DEF Again, Out, Segment
    <3> QED BY <3>1, <3>2, TransmitsOut
  <2> QED BY <2>1, <2>2
<1>6. CASE TimerPoll
  <2>1. Quiet BY <1>6 DEF TimerPoll, Quiet
  <2>2. PICK out : Transmit({}, out) /\ \A f \in out : f.dir = "out"
    BY <1>6 DEF TimerPoll, Out, Segment
  <2> QED BY <2>1, <2>2, TransmitsOut
<1> QED BY <1>2, <1>3, <1>4, <1>5, <1>6 DEF Tick

LEMMA ArpHeard == ASSUME RecvArpReply \/ RecvArpRequest PROVE Quiet /\ NothingNew
BY DEF RecvArpReply, RecvArpRequest, HeardOf, histories, Quiet, NothingNew

LEMMA CardQuiet == ASSUME CardFails PROVE Quiet /\ NothingNew
BY DEF CardFails, histories, Quiet, NothingNew

LEMMA SegmentFeeds ==
    ASSUME NEW f \in net, f.dir = "in", NEW s, QueueInv, RecvFor(f, s)
    PROVE  (Quiet \/ Feeding) /\ NothingNew
<1>1. << >> \in Seq(ByteSet) BY EmptySeq
<1>2. f.data \in Seq(ByteSet) BY DEF QueueInv, FramesOK
<1>3. CASE RecvRst(f, s)
  <2>1. Quiet \/ Feeding
    <3>1. AppCall(f.conn, {"ABORT"}, << >>) BY <1>3 DEF RecvRst
    <3> QED BY <1>1, <3>1, AppCallFeeds
  <2>2. NothingNew
    <3>1. Transmit({f}, {}) BY <1>3 DEF RecvRst
    <3> QED BY <3>1, TransmitsOut
  <2> QED BY <2>1, <2>2
<1>4. CASE RecvOutOfOrder(f, s)
  <2>1. Quiet BY <1>4 DEF RecvOutOfOrder, histories, Quiet
  <2>2. NothingNew
    <3>1. Transmit({f}, {Out(conns[s], {"ACK"}, << >>)}) BY <1>4 DEF RecvOutOfOrder
    <3> QED BY <3>1, TransmitsOut DEF Out, Segment
  <2> QED BY <2>1, <2>2
<1>5. CASE RecvLastAck(f, s)
  <2>1. Quiet \/ Feeding
    <3>1. AppCall(f.conn, {"CLOSE"}, << >>) BY <1>5 DEF RecvLastAck
    <3> QED BY <1>1, <3>1, AppCallFeeds
  <2>2. NothingNew
    <3>1. Transmit({f}, {}) BY <1>5 DEF RecvLastAck
    <3> QED BY <3>1, TransmitsOut
  <2> QED BY <2>1, <2>2
<1>6. CASE RecvDropped(f, s)
  <2>1. Quiet BY <1>6 DEF RecvDropped, histories, Quiet
  <2>2. NothingNew
    <3>1. Transmit({f}, {}) BY <1>6 DEF RecvDropped
    <3> QED BY <3>1, TransmitsOut
  <2> QED BY <2>1, <2>2
<1>7. ASSUME NEW r \in Rtos, RecvSynAck(f, s, r) PROVE (Quiet \/ Feeding) /\ NothingNew
  <2>1. Quiet \/ Feeding
    <3>1. AppCall(f.conn, {"CONNECTED"}, << >>) BY <1>7 DEF RecvSynAck
    <3> QED BY <1>1, <3>1, AppCallFeeds
  <2>2. NothingNew
    <3>1. PICK out : Transmit({f}, out) /\ \A g \in out : g.dir = "out"
      BY <1>7 DEF RecvSynAck, Out, Segment
    <3> QED BY <3>1, TransmitsOut
  <2> QED BY <2>1, <2>2
<1>8. ASSUME NEW r \in Rtos, RecvFin(f, s, r) PROVE (Quiet \/ Feeding) /\ NothingNew
  <2>1. Quiet \/ Feeding
    <3>1. AppCall(f.conn, {"CLOSE"}, f.data) BY <1>8 DEF RecvFin
    <3> QED BY <1>2, <3>1, AppCallFeeds
  <2>2. NothingNew
    <3>1. PICK out : Transmit({f}, out) /\ \A g \in out : g.dir = "out"
      BY <1>8 DEF RecvFin, Out, Segment
    <3> QED BY <3>1, TransmitsOut
  <2> QED BY <2>1, <2>2
<1>9. ASSUME NEW r \in Rtos, RecvData(f, s, r) PROVE (Quiet \/ Feeding) /\ NothingNew
  <2>1. Quiet \/ Feeding
    <3>1. AppCall(f.conn, {}, f.data) BY <1>9 DEF RecvData
    <3> QED BY <1>2, <3>1, AppCallFeeds
  <2>2. NothingNew
    <3>1. PICK out : Transmit({f}, out) /\ \A g \in out : g.dir = "out"
      BY <1>9 DEF RecvData, Out, Segment
    <3> QED BY <3>1, TransmitsOut
  <2> QED BY <2>1, <2>2
<1> QED BY <1>3, <1>4, <1>5, <1>6, <1>7, <1>8, <1>9 DEF RecvFor

LEMMA SegmentPolls ==
    ASSUME QueueInv, RecvSegment
    PROVE  (Quiet \/ Feeding) /\ NothingNew
<1>1. PICK f \in net : f.dir = "in" /\ (RecvNoConn(f) \/ \E s \in SlotsOf(f.conn) : RecvFor(f, s))
  BY DEF RecvSegment
<1>2. CASE RecvNoConn(f)
  <2>1. Quiet BY <1>2 DEF RecvNoConn, histories, Quiet
  <2>2. PICK out : Transmit({f}, out) /\ \A g \in out : g.dir = "out"
    BY <1>2 DEF RecvNoConn, Segment
  <2> QED BY <2>1, <2>2, TransmitsOut
<1>3. CASE \E s \in SlotsOf(f.conn) : RecvFor(f, s)
  BY <1>1, <1>3, SegmentFeeds
<1> QED BY <1>1, <1>2, <1>3

LEMMA PollStep == ASSUME QueueInv, Poll PROVE QueueInv'
<1>1. (Quiet \/ Feeding) /\ NothingNew BY TickPolls, CardQuiet, ArpHeard, SegmentPolls DEF Poll
<1>2. UNCHANGED app BY DEF Poll
<1> QED BY <1>1, <1>2, PollKeeps

-----------------------------------------------------------------------------
(* The command's own steps.                                                   *)

LEMMA ConnectKeeps == ASSUME QueueInv, AppConnect PROVE QueueInv'
<1>1. /\ rx' = Reset(rx) /\ fedNow' = << >> /\ net' = net
      /\ app' = [phase |-> "connecting", said |-> 0, got |-> << >>]
         \/ app' = [phase |-> "idle", said |-> 0, got |-> << >>]
  BY DEF AppConnect, Connect, ConnectRefused, ResetGlue
<1>2. Reset(rx) \in Rings(ByteSet) /\ Content(Reset(rx)) = << >>
  BY ResetIsEmpty DEF QueueInv
<1>3. << >> \in Seq(ByteSet) /\ << >> \o << >> = << >> BY EmptySeq, ConcatEmptySeq
<1>4. PICK none \in Seq(ByteSet) : none = << >> BY <1>3
<1>5. app' \in [phase : {"idle", "connecting", "open"}, said : Int, got : Seq(ByteSet)]
      /\ app'.got = none
  <2>1. PICK phase \in {"idle", "connecting"} : app' = [phase |-> phase, said |-> 0, got |-> none]
    BY <1>1, <1>4
  <2> QED BY <2>1
<1>6. RingIsQueue' BY <1>1, <1>2, <1>3, <1>4, <1>5 DEF RingIsQueue
<1>7. FramesOK' BY <1>1 DEF QueueInv, FramesOK
<1> QED BY <1>1, <1>2, <1>3, <1>5, <1>6, <1>7 DEF QueueInv

LEMMA SendKeeps == ASSUME QueueInv, NEW n \in Requests, AppSend(n) PROVE QueueInv'
<1>1. UNCHANGED <<rx, fedNow, net>> /\ app' = [app EXCEPT !.said = @ + n]
  BY DEF AppSend, GlueSend, histories
<1>2. n \in Int BY TcpAssumption
<1>3. app' \in [phase : {"idle", "connecting", "open"}, said : Int, got : Seq(ByteSet)]
      /\ app'.got = app.got
  BY <1>1, <1>2 DEF QueueInv
<1> QED BY <1>1, <1>3 DEF QueueInv, FramesOK, RingIsQueue

LEMMA RecvKeeps == ASSUME QueueInv, NEW n, AppRecv(n) PROVE QueueInv'
<1>1. /\ n \in 1..Held(rx) /\ rx' = Take(rx, n) /\ fedNow' = fedNow /\ net' = net
      /\ app' = [app EXCEPT !.got = @ \o SubSeq(Content(rx), 1, n)]
  BY DEF AppRecv, GlueRecv, histories
<1>2. PICK got \in Seq(ByteSet), taken \in Seq(ByteSet), left \in Seq(ByteSet) :
        /\ got = app.got /\ taken = SubSeq(Content(rx), 1, n) /\ left = Content(Take(rx, n))
        /\ Content(rx) = taken \o left /\ Take(rx, n) \in Rings(ByteSet)
  <2>1. /\ Take(rx, n) \in Rings(ByteSet) /\ SubSeq(Content(rx), 1, n) \in Seq(ByteSet)
        /\ Content(rx) = SubSeq(Content(rx), 1, n) \o Content(Take(rx, n))
    BY <1>1, TakeRemoves DEF QueueInv
  <2>2. Content(Take(rx, n)) \in Seq(ByteSet) BY <2>1, ContentIsSeq
  <2>3. app.got \in Seq(ByteSet) BY DEF QueueInv
  <2> QED BY <2>1, <2>2, <2>3
<1>3. got \o taken \in Seq(ByteSet) BY ConcatProperties
<1>4. app' \in [phase : {"idle", "connecting", "open"}, said : Int, got : Seq(ByteSet)]
      /\ app'.got = got \o taken
  BY <1>1, <1>2, <1>3 DEF QueueInv
<1>5. (got \o taken) \o left = got \o (taken \o left) BY ConcatAssociative
<1>6. RingIsQueue' BY <1>1, <1>2, <1>4, <1>5 DEF QueueInv, RingIsQueue
<1> QED BY <1>1, <1>2, <1>4, <1>6 DEF QueueInv, FramesOK

LEMMA AppStep == ASSUME QueueInv, App PROVE QueueInv'
<1>1. CASE AppConnect BY <1>1, ConnectKeeps
<1>2. CASE AppConnected \/ AppEnd
  <2>1. UNCHANGED <<rx, fedNow, net>> BY <1>2 DEF AppConnected, AppEnd, clientVars
  <2>2. app' = [app EXCEPT !.phase = "open"] \/ app' = [app EXCEPT !.phase = "idle"]
    BY <1>2 DEF AppConnected, AppEnd
  <2>3. app' \in [phase : {"idle", "connecting", "open"}, said : Int, got : Seq(ByteSet)]
        /\ app'.got = app.got
    BY <2>2 DEF QueueInv
  <2> QED BY <2>1, <2>3 DEF QueueInv, FramesOK, RingIsQueue
<1>3. ASSUME NEW n \in Requests, AppSend(n) PROVE QueueInv' BY <1>3, SendKeeps
<1>4. ASSUME NEW n \in 1..RXBUF_CAP, AppRecv(n) PROVE QueueInv' BY <1>4, RecvKeeps
<1> QED BY <1>1, <1>2, <1>3, <1>4 DEF App

-----------------------------------------------------------------------------
(* The server and the gateway change neither the ring nor what the command    *)
(* got; what the server sends is a sequence of bytes.                         *)

SentBytes(out) == \A f \in out : f.data \in Seq(ByteSet)

LEMMA SentKeeps ==
    ASSUME QueueInv, NEW used, NEW out, SentBytes(out), SrvSends(used, out)
    PROVE  QueueInv'
<1>1. UNCHANGED <<rx, app, fedNow>> BY DEF SrvSends, histories
<1>2. FramesOK' BY DEF SrvSends, SentBytes, QueueInv, FramesOK
<1> QED BY <1>1, <1>2 DEF QueueInv, RingIsQueue

LEMMA SentOne ==
    ASSUME NEW k, NEW flags, NEW seq, NEW data \in Seq(ByteSet)
    PROVE  SentBytes({In(k, flags, seq, data)})
BY DEF SentBytes, In, Segment

LEMMA ProgramKeeps == ASSUME QueueInv, NEW k, SrvProgram(k) PROVE QueueInv'
<1>1. SrvSends({}, {}) BY DEF SrvProgram
<1>2. SentBytes({}) BY DEF SentBytes
<1> QED BY <1>1, <1>2, SentKeeps

LEMMA TransmitKeeps == ASSUME QueueInv, NEW k \in Connections, SrvTransmit(k) PROVE QueueInv'
<1>1. PICK p \in srv[k].una..srv[k].wrote + 1, n \in 0..UIP_TCP_MSS, flags \in SUBSET {"ACK", "FIN"} :
        SrvSends({}, {In(k, flags, p, Bytes(k, p - 1, n))})
  BY DEF SrvTransmit
<1>2. Bytes(k, p - 1, n) \in Seq(ByteSet)
  <2>1. n \in Nat /\ p \in Int BY GlueAssumption
  <2>2. \A i \in 1..n : Byte(k, p - 1 + i) \in ByteSet BY <2>1 DEF Byte, ByteSet
  <2> QED BY <2>1, <2>2, IsASeq DEF Bytes
<1>3. SentBytes({In(k, flags, p, Bytes(k, p - 1, n))})
  BY <1>2, SentOne
<1> QED BY <1>1, <1>3, SentKeeps

LEMMA AnswerKeeps ==
    ASSUME QueueInv, NEW k, NEW f,
           SrvSyn(k, f) \/ SrvRst(k, f) \/ SrvRecv(k, f) \/ SrvRefuse(k, f)
    PROVE  QueueInv'
<1>1. << >> \in Seq(ByteSet) BY EmptySeq
<1>2. SentBytes({}) BY DEF SentBytes
<1>3. CASE SrvSyn(k, f)
  <2>1. SrvSends({f}, {In(k, {"SYN", "ACK"}, 0, << >>)}) BY <1>3 DEF SrvSyn
  <2>2. SentBytes({In(k, {"SYN", "ACK"}, 0, << >>)}) BY <1>1, SentOne
  <2> QED BY <2>1, <2>2, SentKeeps
<1>4. CASE SrvRst(k, f)
  <2>1. SrvSends({f}, {}) BY <1>4 DEF SrvRst
  <2> QED BY <1>2, <2>1, SentKeeps
<1>5. CASE SrvRecv(k, f)
  <2>1. SrvSends({f}, {}) \/ SrvSends({f}, {In(k, {"ACK"}, 0, << >>)})
    BY <1>5 DEF SrvRecv
  <2>2. SentBytes({In(k, {"ACK"}, 0, << >>)}) BY <1>1, SentOne
  <2> QED BY <1>2, <2>1, <2>2, SentKeeps
<1>6. CASE SrvRefuse(k, f)
  <2>1. SrvSends({f}, {In(k, {"RST"}, 0, << >>)}) BY <1>6 DEF SrvRefuse
  <2>2. SentBytes({In(k, {"RST"}, 0, << >>)}) BY <1>1, SentOne
  <2> QED BY <2>1, <2>2, SentKeeps
<1> QED BY <1>3, <1>4, <1>5, <1>6

LEMMA OutsideStep == ASSUME QueueInv, Outside PROVE QueueInv'
<1>1. CASE GatewayAsks
  <2>1. UNCHANGED <<rx, app, fedNow, net>> BY <1>1 DEF GatewayAsks, histories
  <2> QED BY <2>1 DEF QueueInv, FramesOK, RingIsQueue
<1>2. CASE Server BY <1>2, ProgramKeeps, TransmitKeeps, AnswerKeeps DEF Server
<1> QED BY <1>1, <1>2 DEF Outside

-----------------------------------------------------------------------------
LEMMA QueueInit == Init => QueueInv
<1> SUFFICES ASSUME Init PROVE QueueInv OBVIOUS
<1>1. << >> \in Seq(ByteSet) /\ << >> \o << >> = << >> BY EmptySeq, ConcatEmptySeq
<1>2. rx = Empty /\ net = {} /\ fedNow = << >> /\ app = [phase |-> "idle", said |-> 0, got |-> << >>]
  BY DEF Init, ClientInit
<1>3. RXBUF_CAP \in Nat /\ RXBUF_CAP > 0 BY RingAssumption
<1>4. Empty \in Rings(ByteSet)
  <2>1. 0 \in Cells BY <1>3 DEF Cells
  <2>2. [a \in 0..RXBUF_CAP - 1 |-> NoByte] \in [Cells -> ByteSet] BY DEF Cells, ByteSet
  <2> QED BY <2>1, <2>2 DEF Empty, Rings
<1>5. Content(Empty) = << >>
  <2>1. Held(Empty) = 0 BY <1>3 DEF Empty, Held, Free
  <2>2. Content(Empty) \in Seq(ByteSet) /\ Len(Content(Empty)) = 0
    BY <1>4, <2>1, ContentIsSeq
  <2> QED BY <2>2, EmptySeq
<1>6. RingIsQueue BY <1>1, <1>2, <1>5 DEF RingIsQueue
<1> QED BY <1>1, <1>2, <1>4, <1>6 DEF QueueInv, FramesOK

LEMMA QueueStep == QueueInv /\ [Next]_vars => QueueInv'
<1> SUFFICES ASSUME QueueInv, Next \/ UNCHANGED vars PROVE QueueInv' OBVIOUS
<1>1. CASE Next BY <1>1, AppStep, PollStep, OutsideStep DEF Next
<1>2. CASE UNCHANGED vars BY <1>2 DEF vars, QueueInv, FramesOK, RingIsQueue
<1> QED BY <1>1, <1>2

(* The receive ring is a queue through every wrap, overflow and reset: what   *)
(* the command got since its uip_glue_connect, followed by what rxbuf holds,  *)
(* is what uip_appcall put into it since, byte for byte and in order.         *)
THEOREM RingStaysQueue == Spec => []RingIsQueue
<1>1. QueueInv => RingIsQueue BY DEF QueueInv
<1> QED BY <1>1, QueueInit, QueueStep, PTL DEF Spec

-----------------------------------------------------------------------------
(* Slots.                                                                     *)

ConnFields == {"st", "conn", "snd", "len", "rcv", "timer", "rto", "nrtx"}

(* A step that touches slot t only.                                           *)
SlotGets(t, d) == conns' = [conns EXCEPT ![t] = d]

(* The slot uip_connect takes is a closed one.                                *)
LEMMA LowestFound ==
    ASSUME NEW I \in SUBSET Nat, I # {}
    PROVE  LowestIn(I) \in I
<1> DEFINE Less == OpToRel(<, Nat)
<1>1. IsWellFoundedOn(Less, Nat) BY NatLessThanWellFounded
<1>2. PICK i \in I : \A j \in I : ~(<<j, i>> \in Less)
  <2> HIDE DEF Less
  <2> QED BY <1>1, WFMin
<1>3. ASSUME NEW j \in I PROVE i <= j
  <2>1. i \in Nat /\ j \in Nat OBVIOUS
  <2>2. ~(j < i) BY <1>2, <2>1 DEF OpToRel
  <2> QED BY <2>1, <2>2
<1> QED BY <1>3 DEF LowestIn

-----------------------------------------------------------------------------
(* The streams.                                                               *)

Word == AllBytes
Texts == Seq(Word)

(* w is a prefix of v; d is the piece of w that follows its first n bytes.    *)
Begins(w, v) == Len(w) <= Len(v) /\ \A i \in 1..Len(w) : v[i] = w[i]
Piece(d, n, w) == n + Len(d) <= Len(w) /\ \A i \in 1..Len(d) : d[i] = w[n + i]

-----------------------------------------------------------------------------
(* The invariant.                                                             *)

SrvSet == [st : {"LISTEN", "SYN_RCVD", "OPEN", "DEAD"}, rcv : Nat, una : Nat,
           wrote : Nat, fin : BOOLEAN]

FrameSet == [dir : {"in", "out"}, conn : Nat, flags : SUBSET Flags,
             seq : Nat, ack : Nat, data : Texts]

Texting == [Connections -> Texts]

ConnTyped(c) == /\ DOMAIN c = ConnFields /\ c.st \in States
                /\ c.snd \in Nat /\ c.len \in Nat /\ c.rcv \in Nat

AppTyped == /\ DOMAIN app = {"phase", "said", "got"} /\ app.said \in Nat
            /\ app.phase # "idle" => opened \in Connections

StreamTypes ==
    /\ conns = [s \in Slots |-> conns[s]] /\ \A s \in Slots : ConnTyped(conns[s])
    /\ opened \in 0..OpenMax /\ at \in 0..UIP_CONNS - 1
    /\ pending \in Texts
    /\ asked \in Texting /\ fed \in Texting /\ told \in Texting /\ heard \in Texting
    /\ srv \in [Connections -> SrvSet]
    /\ net \subseteq FrameSet
    /\ AppTyped

(* The slot s is of a connection that still takes and gives.                  *)
Talking == {"SYN_SENT", "ESTABLISHED"}
Talks(s) == conns[s].st \in Talking
Open(k) == \E s \in Slots : Talks(s) /\ conns[s].conn = k

(* The client's numbers count the bytes of its streams; what it counts as     *)
(* acknowledged, the server has.                                              *)
Fits(c) ==
    LET k == c.conn
    IN  /\ c.st = "SYN_SENT" => /\ c.snd = 0 /\ c.len = 1 /\ c.rcv = 0
                                /\ asked[k] = << >> /\ fed[k] = << >>
                                /\ srv[k].st # "OPEN"
        /\ c.st = "ESTABLISHED" => /\ c.snd <= 1 + Len(heard[k])
                                   /\ c.snd + c.len = 1 + Len(asked[k])
                                   /\ c.rcv = 1 + Len(fed[k])
                                   /\ srv[k].una <= c.rcv
        /\ c.st = "LAST_ACK" => c.snd = 1 + Len(asked[k])

SlotOK(s) ==
    conns[s].st # "CLOSED" =>
        /\ conns[s].conn \in 1..opened
        /\ \A t \in Slots : t # s /\ conns[t].st # "CLOSED" => conns[t].conn # conns[s].conn
        /\ Fits(conns[s])

(* The server's numbers count the bytes of the same streams.  A FIN is the    *)
(* last it counts, and the client is done then.                               *)
SrvOK(k) ==
    LET v == srv[k]
    IN  /\ Begins(heard[k], asked[k]) /\ Begins(fed[k], told[k])
        /\ \A i \in 1..Len(told[k]) : told[k][i] = Byte(k, i)
        /\ k > opened => asked[k] = << >> /\ told[k] = << >> /\ v.st \in {"LISTEN", "DEAD"}
        /\ v.st \in {"LISTEN", "SYN_RCVD"} => told[k] = << >> /\ heard[k] = << >> /\ v.wrote = 0
        /\ v.st = "SYN_RCVD" => v.rcv = 1
        /\ v.st # "OPEN" => v.una = 0
        /\ v.st = "OPEN" => /\ v.una >= 1 /\ v.wrote = Len(told[k])
                            /\ \/ v.rcv = 1 + Len(heard[k])
                               \/ /\ v.rcv = 2 + Len(heard[k])
                                  /\ Len(heard[k]) = Len(asked[k]) /\ ~Open(k)

(* A segment for ppos carries bytes the server wrote at their place, and      *)
(* acknowledges no more than the server has.                                  *)
InOK(f) ==
    LET k == f.conn
    IN  /\ "SYN" \in f.flags => /\ f.flags = {"SYN", "ACK"} /\ f.seq = 0 /\ f.ack = 1
                                /\ f.data = << >>
        /\ f.data # << >> \/ "FIN" \in f.flags => f.seq >= 1
        /\ f.data # << >> => Piece(f.data, f.seq - 1, told[k])
        /\ Open(k) => f.ack <= 1 + Len(heard[k])

(* A segment of ppos likewise; a FIN comes after the last byte asked for.     *)
OutOK(f) ==
    LET k == f.conn
    IN  /\ f.data # << >> => f.seq >= 1 /\ Piece(f.data, f.seq - 1, asked[k])
        /\ "FIN" \in f.flags => f.data = << >> /\ f.seq = 1 + Len(asked[k]) /\ ~Open(k)
        /\ \A s \in Slots : Talks(s) /\ conns[s].conn = k => f.ack <= conns[s].rcv

FrameOK(f) ==
    /\ f.conn \in 1..opened
    /\ "RST" \notin f.flags => IF f.dir = "in" THEN InOK(f) ELSE OutOK(f)

StreamInv ==
    /\ StreamTypes
    /\ \A s \in Slots : SlotOK(s)
    /\ \A k \in Connections : SrvOK(k)
    /\ \A f \in net : FrameOK(f)

(* A step keeps the invariant, and is one of Stream's, or none there.         *)
Refines == [S!StreamNext]_(S!streamVars)
Goes == StreamInv' /\ Refines

-----------------------------------------------------------------------------
(* Prefixes and pieces.                                                       *)

(* A stream that gains a piece.                                               *)
LEMMA Joined ==
    ASSUME NEW w \in Texts, NEW d \in Texts
    PROVE  /\ w \o d \in Texts /\ Len(w \o d) = Len(w) + Len(d)
           /\ Begins(w, w \o d) /\ Piece(d, Len(w), w \o d)
<1>1. Len(w) \in Nat /\ Len(d) \in Nat BY DEF Texts
<1>2. w \o d \in Texts /\ Len(w \o d) = Len(w) + Len(d) BY ConcatProperties DEF Texts
<1>3. ASSUME NEW i \in 1..Len(w) PROVE (w \o d)[i] = w[i]
  BY <1>1, ConcatProperties DEF Texts
<1>4. ASSUME NEW i \in 1..Len(d) PROVE (w \o d)[Len(w) + i] = d[i]
  BY <1>1, ConcatProperties DEF Texts
<1>5. Begins(w, w \o d) BY <1>1, <1>2, <1>3 DEF Begins
<1>6. Piece(d, Len(w), w \o d) BY <1>1, <1>2, <1>4 DEF Piece
<1> QED BY <1>2, <1>5, <1>6

(* Every stream is a prefix of itself.                                        *)
LEMMA BeginsItself == ASSUME NEW w \in Texts PROVE Begins(w, w)
BY DEF Begins, Texts

(* A prefix of a prefix is one.                                               *)
LEMMA BeginsChain ==
    ASSUME NEW u \in Texts, NEW w \in Texts, NEW v \in Texts, Begins(u, w), Begins(w, v)
    PROVE  Begins(u, v)
BY DEF Begins, Texts

(* The empty stream is a prefix of every stream.                              *)
LEMMA NothingBegins ==
    ASSUME NEW w \in Texts
    PROVE  /\ << >> \in Texts /\ Len(<< >>) = 0 /\ Begins(<< >>, w)
           /\ Len(w) = 0 => w = << >>
           /\ Begins(w, << >>) => w = << >>
BY DEF Begins, Texts

(* A piece of a prefix is one of the whole.                                   *)
LEMMA PieceStays ==
    ASSUME NEW d \in Texts, NEW n \in Nat, NEW w \in Texts, NEW v \in Texts,
           Piece(d, n, w), Begins(w, v)
    PROVE  Piece(d, n, v)
BY DEF Begins, Piece, Texts

(* A piece right behind a prefix makes a longer prefix.                       *)
LEMMA PieceFollows ==
    ASSUME NEW w \in Texts, NEW d \in Texts, NEW v \in Texts,
           Begins(w, v), Piece(d, Len(w), v)
    PROVE  Begins(w \o d, v)
<1>1. Len(w) \in Nat /\ Len(d) \in Nat /\ Len(v) \in Nat BY DEF Texts
<1>2. PICK u \in Texts : u = w \o d BY Joined
<1>3. /\ Len(u) = Len(w) + Len(d) /\ Begins(w, u) /\ Piece(d, Len(w), u)
  BY <1>2, Joined
<1>4. ASSUME NEW i \in 1..Len(u) PROVE v[i] = u[i]
  <2>1. CASE i <= Len(w)
    <3>1. i \in 1..Len(w) BY <1>1, <2>1
    <3> QED BY <1>3, <3>1 DEF Begins
  <2>2. CASE ~(i <= Len(w))
    <3>1. PICK j \in 1..Len(d) : i = Len(w) + j
      <4>1. Len(u) \in Nat BY <1>1, <1>3
      <4>2. i \in Int /\ i - Len(w) \in 1..Len(d) BY <1>1, <1>3, <2>2, <4>1
      <4>3. i = Len(w) + (i - Len(w)) BY <1>1, <4>2
      <4> QED BY <4>2, <4>3
    <3> QED BY <1>3, <3>1 DEF Piece
  <2> QED BY <2>1, <2>2
<1>5. Len(u) <= Len(v) BY <1>3 DEF Piece
<1> QED BY <1>2, <1>4, <1>5 DEF Begins

-----------------------------------------------------------------------------
(* Segments under way stay right while the streams grow.                      *)

Kept(k) ==
    /\ Begins(asked[k], asked'[k]) /\ Begins(told[k], told'[k])
    /\ Len(heard[k]) <= Len(heard'[k])
    /\ asked'[k] # asked[k] => Open(k)
    /\ \A s \in Slots : Talks(s)' /\ conns'[s].conn = k =>
          Talks(s) /\ conns[s].conn = k /\ conns[s].rcv <= conns'[s].rcv

(* A connection that was not open does not open again.                        *)
LEMMA StillOpen == ASSUME NEW k, Kept(k), Open(k)' PROVE Open(k)
BY DEF Kept, Open

(* A segment under way stays right while its streams grow.                    *)
LEMMA FrameStays ==
    ASSUME StreamTypes, StreamTypes', NEW f \in FrameSet, FrameOK(f), Kept(f.conn),
           opened <= opened'
    PROVE  FrameOK(f)'
<1>1. PICK k : k = f.conn OBVIOUS
<1>2. k \in 1..opened' /\ k \in Connections
  <2>1. k \in 1..opened BY <1>1 DEF FrameOK
  <2>2. opened \in 0..OpenMax /\ opened' \in 0..OpenMax BY DEF StreamTypes
  <2> QED BY <2>1, <2>2, GlueAssumption DEF GlueAssumption, Connections
<1>3. /\ asked[k] \in Texts /\ asked'[k] \in Texts /\ told[k] \in Texts /\ told'[k] \in Texts
      /\ Len(heard[k]) \in Nat /\ Len(heard'[k]) \in Nat
  BY <1>2 DEF StreamTypes, Texting, Texts
<1>4. /\ f.flags \subseteq Flags /\ f.seq \in Nat /\ f.ack \in Nat /\ f.data \in Texts
  BY DEF FrameSet
<1>5. ASSUME f.data # << >>, f.seq >= 1, Piece(f.data, f.seq - 1, asked[k])
      PROVE  Piece(f.data, f.seq - 1, asked'[k])
  <2>1. f.seq - 1 \in Nat BY <1>4, <1>5
  <2>2. PICK n \in Nat : n = f.seq - 1 BY <2>1
  <2>3. Begins(asked[k], asked'[k]) BY <1>1 DEF Kept
  <2> QED BY <1>3, <1>4, <1>5, <2>2, <2>3, PieceStays
<1>6. ASSUME f.data # << >>, f.seq >= 1, Piece(f.data, f.seq - 1, told[k])
      PROVE  Piece(f.data, f.seq - 1, told'[k])
  <2>1. f.seq - 1 \in Nat BY <1>4, <1>6
  <2>2. PICK n \in Nat : n = f.seq - 1 BY <2>1
  <2>3. Begins(told[k], told'[k]) BY <1>1 DEF Kept
  <2> QED BY <1>3, <1>4, <1>6, <2>2, <2>3, PieceStays
<1>7. ASSUME InOK(f) PROVE InOK(f)'
  <2>1. Open(k)' => f.ack <= 1 + Len(heard'[k])
    <3>1. Open(k)' => f.ack <= 1 + Len(heard[k]) BY <1>1, <1>7, StillOpen DEF InOK
    <3>2. Len(heard[k]) <= Len(heard'[k]) BY <1>1 DEF Kept
    <3> QED BY <1>3, <1>4, <3>1, <3>2
  <2>2. f.data # << >> => f.seq >= 1 /\ Piece(f.data, f.seq - 1, told[k])
    BY <1>1, <1>7 DEF InOK
  <2>3. f.data # << >> => Piece(f.data, f.seq - 1, told'[k]) BY <1>6, <2>2
  <2> QED BY <1>1, <1>7, <2>1, <2>3 DEF InOK
<1>8. ASSUME OutOK(f) PROVE OutOK(f)'
  <2>1. f.data # << >> => f.seq >= 1 /\ Piece(f.data, f.seq - 1, asked[k])
    BY <1>1, <1>8 DEF OutOK
  <2>2. f.data # << >> => Piece(f.data, f.seq - 1, asked'[k]) BY <1>5, <2>1
  <2>3. ASSUME "FIN" \in f.flags
        PROVE  f.data = << >> /\ f.seq = 1 + Len(asked'[k]) /\ ~Open(k)'
    <3>1. f.data = << >> /\ f.seq = 1 + Len(asked[k]) /\ ~Open(k)
      BY <1>1, <1>8, <2>3 DEF OutOK
    <3>2. asked'[k] = asked[k] BY <1>1, <3>1 DEF Kept
    <3> QED BY <1>1, <3>1, <3>2, StillOpen
  <2>4. ASSUME NEW s \in Slots, Talks(s)', conns'[s].conn = k
        PROVE  f.ack <= conns'[s].rcv
    <3>1. f.ack <= conns[s].rcv /\ conns[s].rcv <= conns'[s].rcv
      BY <1>1, <1>8, <2>4 DEF OutOK, Kept
    <3>2. conns[s].rcv \in Nat /\ conns'[s].rcv \in Nat
      BY DEF StreamTypes, ConnTyped
    <3> QED BY <1>4, <3>1, <3>2
  <2> QED BY <1>1, <2>1, <2>2, <2>3, <2>4 DEF OutOK
<1> QED BY <1>1, <1>2, <1>7, <1>8 DEF FrameOK

(* So do all of them, beside the new ones that are right.                     *)
LEMMA FramesStay ==
    ASSUME StreamInv, StreamTypes', opened <= opened',
           \A k \in 1..opened : Kept(k),
           NEW out, net' \subseteq net \cup out, \A f \in out : FrameOK(f)'
    PROVE  \A f \in net' : FrameOK(f)'
<1>1. ASSUME NEW f \in net PROVE FrameOK(f)'
  <2>1. f \in FrameSet /\ FrameOK(f) /\ StreamTypes BY DEF StreamInv, StreamTypes
  <2>2. Kept(f.conn) BY <2>1 DEF FrameOK
  <2> QED BY <2>1, <2>2, FrameStays
<1> QED BY <1>1

-----------------------------------------------------------------------------
(* A step of the client for one slot.  Slot t becomes d; out is what it sends.*)

SameAt(j) == asked'[j] = asked[j] /\ fed'[j] = fed[j]

(* What the slot sends, given what it becomes and what was asked for by then. *)
Sends(f, d, k) ==
    /\ f \in FrameSet /\ f.dir = "out" /\ f.conn = k
    /\ "RST" \notin f.flags =>
         /\ f.data # << >> => f.seq >= 1 /\ Piece(f.data, f.seq - 1, asked'[k])
         /\ "FIN" \in f.flags => f.data = << >> /\ f.seq = 1 + Len(asked'[k]) /\ d.st \notin Talking
         /\ f.ack <= d.rcv

SlotTurns(t, d, k, out) ==
    /\ t \in Slots /\ conns[t].st # "CLOSED" /\ k = conns[t].conn
    /\ SlotGets(t, d) /\ ConnTyped(d)
    /\ d.st # "CLOSED" => d.conn = k
    /\ d.st \in Talking => Talks(t) /\ conns[t].rcv <= d.rcv
    /\ Fits(d)'
    /\ UNCHANGED <<heard, told, srv, opened, app>>
    /\ at' \in 0..UIP_CONNS - 1
    /\ pending' \in Texts /\ asked' \in Texting /\ fed' \in Texting
    /\ \A j \in Connections : j # k => SameAt(j)
    /\ Begins(asked[k], asked'[k]) /\ (asked'[k] # asked[k] => Talks(t))
    /\ Begins(fed'[k], told[k])
    /\ asked' = asked \/ fed' = fed
    /\ d.st = "CLOSED" => asked' = asked /\ fed' = fed
    /\ Begins(fed[k], fed'[k])
    /\ net' \subseteq net \cup out /\ \A f \in out : Sends(f, d, k)

(* A slot's turn keeps the invariant.                                         *)
LEMMA SlotTurnsInv ==
    ASSUME StreamInv, NEW t, NEW d, NEW k, NEW out, SlotTurns(t, d, k, out)
    PROVE  StreamInv'
<1>1. StreamTypes BY DEF StreamInv
<1>2. /\ t \in Slots /\ conns[t].st # "CLOSED" /\ k = conns[t].conn
      /\ ConnTyped(d) /\ (d.st # "CLOSED" => d.conn = k)
      /\ (d.st \in Talking => Talks(t) /\ conns[t].rcv <= d.rcv)
  BY DEF SlotTurns
<1>3. conns' = [s \in Slots |-> conns'[s]] /\ conns'[t] = d
  <2>1. conns = [s \in Slots |-> conns[s]] BY <1>1 DEF StreamTypes
  <2>2. conns' = [conns EXCEPT ![t] = d] BY DEF SlotTurns, SlotGets
  <2> QED BY <1>2, <2>1, <2>2
<1>4. ASSUME NEW s \in Slots, s # t PROVE conns'[s] = conns[s]
  BY <1>1, <1>4 DEF StreamTypes, SlotTurns, SlotGets
<1>5. StreamTypes'
  <2>1. \A f \in out : f \in FrameSet BY DEF SlotTurns, Sends
  <2>2. net' \subseteq FrameSet BY <1>1, <2>1 DEF StreamTypes, SlotTurns
  <2>3. ASSUME NEW s \in Slots PROVE ConnTyped(conns'[s])
    BY <1>1, <1>2, <1>3, <1>4 DEF StreamTypes
  <2>4. /\ UNCHANGED <<heard, told, srv, opened, app>>
        /\ pending' \in Texts /\ asked' \in Texting /\ fed' \in Texting
        /\ at' \in 0..UIP_CONNS - 1
    BY DEF SlotTurns
  <2>5. ConnTyped(d)' = ConnTyped(d) BY DEF ConnTyped
  <2>6. \A s \in Slots : ConnTyped(conns[s])' BY <2>3 DEF ConnTyped
  <2>7. AppTyped' BY <1>1, <2>4 DEF StreamTypes, AppTyped
  <2> QED BY <1>1, <1>3, <2>2, <2>4, <2>6, <2>7 DEF StreamTypes
<1>6. k \in 1..opened /\ opened' = opened
  <2>1. SlotOK(t) BY <1>2 DEF StreamInv
  <2> QED BY <1>2, <2>1 DEF SlotOK, SlotTurns
<1>7. ASSUME NEW j \in 1..opened PROVE j \in Connections /\ asked[j] \in Texts /\ told[j] \in Texts /\ heard[j] \in Texts
  <2>1. opened \in 0..OpenMax BY <1>1 DEF StreamTypes
  <2>2. j \in Connections BY <2>1, GlueAssumption DEF GlueAssumption, Connections
  <2> QED BY <1>1, <2>2 DEF StreamTypes, Texting
<1>8. ASSUME NEW s \in Slots, conns'[s].st # "CLOSED", conns'[s].conn = k
      PROVE  s = t
  <2>1. SUFFICES ASSUME s # t PROVE FALSE OBVIOUS
  <2>2. conns[s].st # "CLOSED" /\ conns[s].conn = k BY <1>4, <1>8, <2>1
  <2>3. SlotOK(t) BY <1>2 DEF StreamInv
  <2> QED BY <1>2, <2>1, <2>2, <2>3 DEF SlotOK
<1>9. ASSUME NEW j \in 1..opened PROVE Kept(j)
  <2>1. Begins(told[j], told'[j]) /\ Len(heard[j]) <= Len(heard'[j])
    <3>1. told' = told /\ heard' = heard BY DEF SlotTurns
    <3>2. Len(heard[j]) \in Nat BY <1>7 DEF Texts
    <3> QED BY <1>7, <3>1, <3>2, BeginsItself
  <2>2. Begins(asked[j], asked'[j]) /\ (asked'[j] # asked[j] => Open(j))
    <3>1. CASE j = k
      <4>1. Begins(asked[k], asked'[k]) /\ (asked'[k] # asked[k] => Talks(t)) BY DEF SlotTurns
      <4> QED BY <1>2, <3>1, <4>1 DEF Open
    <3>2. CASE j # k
      <4>1. asked'[j] = asked[j] BY <1>7, <3>2 DEF SlotTurns, SameAt
      <4> QED BY <1>7, <4>1, BeginsItself
    <3> QED BY <3>1, <3>2
  <2>3. ASSUME NEW s \in Slots, Talks(s)', conns'[s].conn = j
        PROVE  Talks(s) /\ conns[s].conn = j /\ conns[s].rcv <= conns'[s].rcv
    <3>1. CASE s = t
      <4>1. d.st \in Talking BY <1>3, <2>3, <3>1 DEF Talks
      <4>2. d.st # "CLOSED" BY <4>1 DEF Talking
      <4> QED BY <1>2, <1>3, <2>3, <3>1, <4>1, <4>2
    <3>2. CASE s # t
      <4>1. conns'[s] = conns[s] BY <1>4, <3>2
      <4>2. conns[s].rcv \in Nat BY <1>1 DEF StreamTypes, ConnTyped
      <4> QED BY <2>3, <4>1, <4>2 DEF Talks
    <3> QED BY <3>1, <3>2
  <2> QED BY <2>1, <2>2, <2>3 DEF Kept
<1>10. ASSUME NEW f \in out PROVE FrameOK(f)'
  <2>1. Sends(f, d, k) BY DEF SlotTurns
  <2>2. f.conn \in 1..opened' BY <1>6, <2>1 DEF Sends
  <2>3. ASSUME "RST" \notin f.flags PROVE OutOK(f)'
    <3>1. ASSUME NEW s \in Slots, Talks(s)', conns'[s].conn = k
          PROVE  s = t
      <4>1. conns'[s].st # "CLOSED" BY <3>1 DEF Talks, Talking
      <4> QED BY <1>8, <3>1, <4>1
    <3>2. d.st \notin Talking => ~Open(k)' BY <1>3, <3>1 DEF Open, Talks
    <3>3. ASSUME NEW s \in Slots, Talks(s)', conns'[s].conn = k PROVE f.ack <= conns'[s].rcv
      <4>1. s = t BY <3>1, <3>3
      <4> QED BY <1>3, <2>1, <2>3, <4>1 DEF Sends
    <3> QED BY <2>1, <2>3, <3>2, <3>3 DEF OutOK, Sends
  <2> QED BY <2>1, <2>2, <2>3 DEF FrameOK, Sends
<1>11. \A f \in net' : FrameOK(f)'
  <2>1. opened <= opened' BY <1>1, <1>6 DEF StreamTypes
  <2>2. net' \subseteq net \cup out BY DEF SlotTurns
  <2> QED BY <1>5, <1>9, <1>10, <2>1, <2>2, FramesStay
<1>12. ASSUME NEW s \in Slots PROVE SlotOK(s)'
  <2>1. SUFFICES ASSUME conns'[s].st # "CLOSED"
                 PROVE  /\ conns'[s].conn \in 1..opened
                        /\ \A u \in Slots : u # s /\ conns'[u].st # "CLOSED" => conns'[u].conn # conns'[s].conn
                        /\ Fits(conns[s])'
    BY <1>6 DEF SlotOK
  <2>2. CASE s = t
    <3>1. conns'[s] = d /\ d.conn = k BY <1>2, <1>3, <2>1, <2>2
    <3>2. Fits(d)' BY DEF SlotTurns
    <3>3. Fits(conns[s])' BY <3>1, <3>2 DEF Fits
    <3> QED BY <1>6, <1>8, <2>2, <3>1, <3>3
  <2>3. CASE s # t
    <3>1. conns'[s] = conns[s] BY <1>4, <2>3
    <3>2. SlotOK(s) BY DEF StreamInv
    <3>3. PICK j : j = conns[s].conn OBVIOUS
    <3>4. j \in 1..opened /\ j # k BY <1>8, <2>1, <2>3, <3>1, <3>2, <3>3 DEF SlotOK
    <3>5. SameAt(j) BY <1>7, <3>4 DEF SlotTurns
    <3>6. Fits(conns[s]) BY <2>1, <3>1, <3>2 DEF SlotOK
    <3>7. heard' = heard /\ srv' = srv BY DEF SlotTurns
    <3>8. Fits(conns[s])' BY <3>1, <3>3, <3>5, <3>6, <3>7 DEF Fits, SameAt
    <3>9. ASSUME NEW u \in Slots, u # s, conns'[u].st # "CLOSED" PROVE conns'[u].conn # j
      <4>1. CASE u = t BY <1>2, <1>3, <3>4, <3>9, <4>1
      <4>2. CASE u # t
        <5>1. conns'[u] = conns[u] BY <1>4, <4>2
        <5> QED BY <2>1, <3>1, <3>2, <3>3, <3>9, <5>1 DEF SlotOK
      <4> QED BY <4>1, <4>2
    <3> QED BY <3>1, <3>3, <3>4, <3>8, <3>9
  <2> QED BY <2>2, <2>3
<1>13. ASSUME NEW j \in Connections PROVE SrvOK(j)'
  <2>1. SrvOK(j) BY DEF StreamInv
  <2>2. heard' = heard /\ told' = told /\ srv' = srv /\ opened' = opened BY DEF SlotTurns
  <2>3. CASE j # k
    <3>1. SameAt(j) BY <2>3 DEF SlotTurns
    <3>2. Open(j)' => Open(j)
      <4>1. ASSUME NEW s \in Slots, Talks(s)', conns'[s].conn = j PROVE Talks(s) /\ conns[s].conn = j
        <5>1. CASE s = t
          <6>1. d.st # "CLOSED" /\ d.conn = j BY <1>3, <4>1, <5>1 DEF Talks, Talking
          <6> QED BY <1>2, <2>3, <6>1
        <5>2. CASE s # t
          <6>1. conns'[s] = conns[s] BY <1>4, <5>2
          <6> QED BY <4>1, <6>1 DEF Talks
        <5> QED BY <5>1, <5>2
      <4> QED BY <4>1 DEF Open
    <3> QED BY <2>1, <2>2, <3>1, <3>2 DEF SrvOK, SameAt
  <2>4. CASE j = k
    <3>1. Kept(j) BY <1>6, <1>9, <2>4
    <3>2. Begins(asked[j], asked'[j]) /\ (asked'[j] # asked[j] => Open(j)) BY <3>1 DEF Kept
    <3>3. Begins(heard'[j], asked'[j])
      <4>1. heard[j] \in Texts /\ asked[j] \in Texts /\ asked'[j] \in Texts
        BY <1>1, <1>5 DEF StreamTypes, Texting
      <4>2. Begins(heard[j], asked[j]) BY <2>1 DEF SrvOK
      <4> QED BY <2>2, <3>2, <4>1, <4>2, BeginsChain
    <3>4. Begins(fed'[j], told'[j]) BY <2>2, <2>4 DEF SlotTurns
    <3>5. ~(j > opened)
      <4>1. opened \in Int BY <1>1 DEF StreamTypes
      <4> QED BY <1>6, <2>4, <4>1
    <3>6. Open(j)' => Open(j) BY <3>1, StillOpen
    <3> QED BY <2>1, <2>2, <3>2, <3>3, <3>4, <3>5, <3>6 DEF SrvOK
  <2> QED BY <2>3, <2>4
<1> QED BY <1>5, <1>11, <1>12, <1>13 DEF StreamInv

(* Where the streams are over is where Stream takes it from.                  *)
Over == [k \in Connections |-> k <= opened /\ SlotsOf(k) = {}]

(* A step that moves no stream and ends none is no step of Stream.            *)
LEMMA Stutters ==
    ASSUME UNCHANGED <<asked, heard, told, fed>>, Over' = Over
    PROVE  Refines
BY DEF Refines, Over, S!streamVars

(* Begins is what Stream calls a prefix.                                      *)
LEMMA IsPrefixOf ==
    ASSUME NEW w \in Texts, NEW v \in Texts, Begins(w, v)
    PROVE  S!IsPrefix(w, v)
<1>1. Len(w) \in Nat /\ Len(v) \in Nat /\ Len(w) <= Len(v) BY DEF Texts, Begins
<1>2. SubSeq(w, 1, Len(w)) = w BY <1>1 DEF Texts
<1>3. SubSeq(v, 1, Len(w)) = w BY <1>1 DEF Texts, Begins
<1> QED BY <1>1, <1>2, <1>3 DEF S!IsPrefix

(* A stream that is longer on one connection has grown there.                 *)
LEMMA GrowsThere ==
    ASSUME NEW f \in Texting, NEW g \in Texting, NEW k \in Connections, g # f,
           \A j \in Connections : j # k => g[j] = f[j], Begins(f[k], g[k])
    PROVE  S!Grows(f, g, k)
<1>1. g[k] # f[k] BY DEF Texting
<1>2. g = [f EXCEPT ![k] = g[k]] BY DEF Texting
<1>3. S!IsPrefix(f[k], g[k]) BY IsPrefixOf DEF Texting
<1> QED BY <1>1, <1>2, <1>3 DEF S!Grows

(* A slot's turn asks, feeds, ends, or does nothing Stream sees.              *)
LEMMA SlotTurnsRefine ==
    ASSUME StreamInv, NEW t, NEW d, NEW k, NEW out, SlotTurns(t, d, k, out), StreamInv'
    PROVE  Refines
<1>1. /\ t \in Slots /\ conns[t].st # "CLOSED" /\ k = conns[t].conn /\ SlotGets(t, d)
      /\ d.st # "CLOSED" => d.conn = k
      /\ UNCHANGED <<heard, told, opened>>
  BY DEF SlotTurns
<1>2. conns = [s \in Slots |-> conns[s]] /\ asked \in Texting /\ fed \in Texting
      /\ asked' \in Texting /\ fed' \in Texting /\ told \in Texting
      /\ opened \in 0..OpenMax
  BY DEF StreamInv, StreamTypes
<1>3. SlotOK(t) BY <1>1 DEF StreamInv
<1>4. k \in 1..opened /\ k \in Connections /\ k <= opened
  BY <1>1, <1>2, <1>3, GlueAssumption DEF SlotOK, GlueAssumption, Connections
<1>5. conns'[t] = d /\ \A s \in Slots : s # t => conns'[s] = conns[s]
  BY <1>1, <1>2 DEF SlotGets
<1>6. ASSUME NEW j \in Connections, j # k PROVE SlotsOf(j)' = SlotsOf(j)
  <2>1. ASSUME NEW s \in Slots
        PROVE  (conns'[s].st # "CLOSED" /\ conns'[s].conn = j) <=> (conns[s].st # "CLOSED" /\ conns[s].conn = j)
    BY <1>1, <1>5, <1>6
  <2> QED BY <2>1 DEF SlotsOf, Live
<1>7. t \in SlotsOf(k) BY <1>1 DEF SlotsOf, Live
<1>8. Over[k] = FALSE BY <1>4, <1>7 DEF Over
<1>9. CASE d.st = "CLOSED"
  <2>1. UNCHANGED <<asked, heard, told, fed>> BY <1>1, <1>9 DEF SlotTurns
  <2>2. SlotsOf(k)' = {}
    <3>1. ASSUME NEW s \in Slots, conns'[s].st # "CLOSED", conns'[s].conn = k PROVE FALSE
      <4>1. s # t BY <1>5, <1>9, <3>1
      <4>2. conns'[s] = conns[s] BY <1>5, <4>1
      <4> QED BY <1>1, <1>3, <3>1, <4>1, <4>2 DEF SlotOK
    <3> QED BY <3>1 DEF SlotsOf, Live
  <2>3. Over' = [Over EXCEPT ![k] = TRUE]
    <3>1. ASSUME NEW j \in Connections PROVE Over'[j] = [Over EXCEPT ![k] = TRUE][j]
      <4>1. CASE j = k BY <1>1, <1>4, <2>2, <4>1 DEF Over
      <4>2. CASE j # k BY <1>1, <1>6, <4>2 DEF Over
      <4> QED BY <4>1, <4>2
    <3> QED BY <3>1 DEF Over
  <2>4. S!End(k) BY <1>8, <2>1, <2>3 DEF S!End, Over
  <2> QED BY <1>4, <2>4 DEF Refines, S!StreamNext
<1>10. CASE d.st # "CLOSED"
  <2>1. SlotsOf(k)' # {} BY <1>1, <1>5, <1>10 DEF SlotsOf, Live
  <2>2. Over' = Over
    <3>1. ASSUME NEW j \in Connections PROVE Over'[j] = Over[j]
      <4>1. CASE j = k BY <1>4, <1>7, <2>1, <4>1 DEF Over
      <4>2. CASE j # k BY <1>1, <1>6, <4>2 DEF Over
      <4> QED BY <4>1, <4>2
    <3> QED BY <3>1 DEF Over
  <2>3. CASE asked' = asked /\ fed' = fed BY <1>1, <2>2, <2>3, Stutters
  <2>4. CASE asked' # asked
    <3>1. fed' = fed BY <2>4 DEF SlotTurns
    <3>2. S!Grows(asked, asked', k)
      <4>1. (\A j \in Connections : j # k => asked'[j] = asked[j]) /\ Begins(asked[k], asked'[k])
        BY DEF SlotTurns, SameAt
      <4> QED BY <1>2, <1>4, <2>4, <4>1, GrowsThere
    <3>3. S!Ask(k) BY <1>1, <1>8, <2>2, <3>1, <3>2 DEF S!Ask, Over
    <3> QED BY <1>4, <3>3 DEF Refines, S!StreamNext
  <2>5. CASE fed' # fed
    <3>1. asked' = asked BY <2>5 DEF SlotTurns
    <3>2. S!Grows(fed, fed', k)
      <4>1. (\A j \in Connections : j # k => fed'[j] = fed[j]) /\ Begins(fed[k], fed'[k])
        BY DEF SlotTurns, SameAt
      <4> QED BY <1>2, <1>4, <2>5, <4>1, GrowsThere
    <3>3. S!IsPrefix(fed'[k], told[k])
      <4>1. Begins(fed'[k], told[k]) BY DEF SlotTurns
      <4>2. fed'[k] \in Texts /\ told[k] \in Texts BY <1>2, <1>4 DEF Texting
      <4> QED BY <4>1, <4>2, IsPrefixOf
    <3>4. S!Feed(k) BY <1>1, <1>8, <2>2, <3>1, <3>2, <3>3 DEF S!Feed, Over
    <3> QED BY <1>4, <3>4 DEF Refines, S!StreamNext
  <2> QED BY <2>3, <2>4, <2>5
<1> QED BY <1>9, <1>10

(* A slot's turn does both.                                                   *)
LEMMA SlotTurnsKeeps ==
    ASSUME StreamInv, NEW t, NEW d, NEW k, NEW out, SlotTurns(t, d, k, out)
    PROVE  Goes
BY SlotTurnsInv, SlotTurnsRefine DEF Goes

(* What is known of the slot of a connection.                                 *)
LEMMA SlotKnown ==
    ASSUME StreamInv, NEW t \in Slots, conns[t].st # "CLOSED", NEW k, k = conns[t].conn
    PROVE  /\ k \in 1..opened /\ k \in Connections /\ k \in Nat
           /\ asked[k] \in Texts /\ fed[k] \in Texts /\ told[k] \in Texts /\ heard[k] \in Texts
           /\ Len(asked[k]) \in Nat /\ Len(fed[k]) \in Nat
           /\ Begins(fed[k], told[k])
           /\ ConnTyped(conns[t]) /\ Fits(conns[t])
<1>1. StreamTypes /\ SlotOK(t) BY DEF StreamInv
<1>2. k \in 1..opened /\ k \in Connections /\ k \in Nat
  <2>1. opened \in 0..OpenMax BY <1>1 DEF StreamTypes
  <2>2. k \in 1..opened BY <1>1 DEF SlotOK
  <2> QED BY <2>1, <2>2, GlueAssumption DEF GlueAssumption, Connections
<1>3. asked[k] \in Texts /\ fed[k] \in Texts /\ told[k] \in Texts /\ heard[k] \in Texts
  BY <1>1, <1>2 DEF StreamTypes, Texting
<1>4. SrvOK(k) BY <1>2 DEF StreamInv
<1> QED BY <1>1, <1>2, <1>3, <1>4 DEF StreamTypes, SlotOK, SrvOK, Texts

(* What the network holds after a step of ppos.                               *)
LEMMA TransmitNet ==
    ASSUME NEW used, NEW out, used \subseteq net, Transmit(used, out)
    PROVE  net' \subseteq net \cup out
<1>1. PICK sent : sent \subseteq out /\ \E seen \in {{}, used} :
                    net' \in {(net \ used) \cup seen, (net \ used) \cup seen \cup sent}
  BY DEF Transmit
<1>2. PICK seen : seen \subseteq used /\ net' \in {(net \ used) \cup seen, (net \ used) \cup seen \cup sent}
  BY <1>1
<1> QED BY <1>1, <1>2

(* A segment without data.                                                    *)
LEMMA SendsBare ==
    ASSUME NEW c, NEW flags \in SUBSET Flags, NEW d, NEW k \in Nat,
           ConnTyped(c), c.conn = k, c.rcv <= d.rcv \/ "RST" \in flags,
           ("FIN" \in flags /\ "RST" \notin flags)
               => c.snd = 1 + Len(asked'[k]) /\ d.st \notin Talking
    PROVE  Sends(Out(c, flags, << >>), d, k)
<1>1. PICK f : f = Out(c, flags, << >>) OBVIOUS
<1>2. /\ f = [dir |-> "out", conn |-> k, flags |-> flags, seq |-> c.snd, ack |-> c.rcv, data |-> << >>]
  BY <1>1 DEF Out, Segment
<1>3. << >> \in Texts BY DEF Texts
<1>4. f \in FrameSet BY <1>2, <1>3 DEF FrameSet, ConnTyped
<1>5. f.dir = "out" /\ f.conn = k /\ f.flags = flags /\ f.seq = c.snd /\ f.ack = c.rcv /\ f.data = << >>
  BY <1>2
<1>6. Sends(f, d, k) BY <1>4, <1>5 DEF Sends
<1> QED BY <1>1, <1>6

(* A slot that keeps its numbers.                                             *)
LEMMA SlotLikeKeeps ==
    ASSUME StreamInv, NEW t \in Slots, conns[t].st # "CLOSED", NEW k, k = conns[t].conn,
           NEW d, SlotGets(t, d), ConnTyped(d), d.st = conns[t].st, d.conn = conns[t].conn,
           d.snd = conns[t].snd, d.len = conns[t].len, d.rcv = conns[t].rcv,
           UNCHANGED <<asked, fed, heard, told, srv, opened, app, pending>>,
           at' \in 0..UIP_CONNS - 1,
           NEW out, net' \subseteq net \cup out, \A f \in out : Sends(f, d, k)
    PROVE  Goes
<1>1. /\ k \in Connections /\ asked[k] \in Texts /\ fed[k] \in Texts
      /\ Fits(conns[t]) /\ ConnTyped(conns[t]) /\ Begins(fed[k], told[k])
  BY SlotKnown
<1>2. StreamTypes BY DEF StreamInv
<1>3. Fits(d)' BY <1>1 DEF Fits
<1>4. pending' \in Texts /\ asked' \in Texting /\ fed' \in Texting
  BY <1>2 DEF StreamTypes
<1>5. /\ Begins(asked[k], asked'[k]) /\ asked'[k] = asked[k] /\ Begins(fed'[k], told[k])
      /\ Begins(fed[k], fed'[k])
  BY <1>1, BeginsItself
<1>6. d.st \in Talking => Talks(t) /\ conns[t].rcv <= d.rcv
  BY <1>1 DEF Talks, ConnTyped
<1>7. SlotTurns(t, d, k, out)
  BY <1>3, <1>4, <1>5, <1>6 DEF SlotTurns, SameAt
<1> QED BY <1>7, SlotTurnsKeeps

(* The free slot.                                                             *)
LEMMA ClosedTyped == ConnTyped(Closed) /\ Closed.st = "CLOSED" /\ Fits(Closed)'
BY DEF ConnTyped, Closed, ConnFields, States, Fits

(* A slot that is closed.                                                     *)
LEMMA SlotClosesKeeps ==
    ASSUME StreamInv, NEW t \in Slots, conns[t].st # "CLOSED", NEW k, k = conns[t].conn,
           SlotGets(t, Closed), UNCHANGED <<asked, fed, heard, told, srv, opened, app, pending>>,
           at' \in 0..UIP_CONNS - 1,
           NEW out, net' \subseteq net \cup out, \A f \in out : Sends(f, Closed, k)
    PROVE  Goes
<1>1. k \in Connections /\ asked[k] \in Texts /\ fed[k] \in Texts /\ Begins(fed[k], told[k])
  BY SlotKnown
<1>2. StreamTypes BY DEF StreamInv
<1>3. pending' \in Texts /\ asked' \in Texting /\ fed' \in Texting
  BY <1>2 DEF StreamTypes
<1>4. /\ Begins(asked[k], asked'[k]) /\ asked'[k] = asked[k] /\ Begins(fed'[k], told[k])
      /\ Begins(fed[k], fed'[k])
  BY <1>1, BeginsItself
<1>5. PICK d : d = Closed OBVIOUS
<1>6. ConnTyped(d) /\ d.st = "CLOSED" /\ Fits(d)' /\ SlotGets(t, d)
  BY <1>5, ClosedTyped
<1>7. d.st \notin Talking BY <1>6 DEF Talking
<1>8. \A f \in out : Sends(f, d, k) BY <1>5
<1>9. SlotTurns(t, d, k, out)
  BY <1>3, <1>4, <1>6, <1>7, <1>8 DEF SlotTurns, SameAt
<1> QED BY <1>9, SlotTurnsKeeps

(* A step that leaves all slots and streams alone.                            *)
LEMMA StillInv ==
    ASSUME StreamInv, UNCHANGED <<conns, asked, fed, heard, told, srv, opened>>,
           pending' \in Texts, AppTyped', at' \in 0..UIP_CONNS - 1,
           NEW out, net' \subseteq net \cup out, \A f \in out : f \in FrameSet /\ FrameOK(f)'
    PROVE  StreamInv'
<1>1. StreamTypes BY DEF StreamInv
<1>2. StreamTypes' BY <1>1 DEF StreamTypes, ConnTyped
<1>3. ASSUME NEW k \in 1..opened PROVE Kept(k)
  <2>1. k \in Connections
    <3>1. opened \in 0..OpenMax BY <1>1 DEF StreamTypes
    <3> QED BY <3>1, GlueAssumption DEF GlueAssumption, Connections
  <2>2. asked[k] \in Texts /\ told[k] \in Texts /\ Len(heard[k]) \in Nat
    BY <1>1, <2>1 DEF StreamTypes, Texting, Texts
  <2>3. \A s \in Slots : conns[s].rcv \in Nat BY <1>1 DEF StreamTypes, ConnTyped
  <2> QED BY <2>2, <2>3, BeginsItself DEF Kept, Talks
<1>4. \A f \in net' : FrameOK(f)'
  <2>1. opened <= opened' BY <1>1 DEF StreamTypes
  <2> QED BY <1>2, <1>3, <2>1, FramesStay
<1>5. ASSUME NEW s \in Slots PROVE SlotOK(s)'
  <2>1. SlotOK(s) BY DEF StreamInv
  <2> QED BY <2>1 DEF SlotOK, Fits
<1>6. ASSUME NEW k \in Connections PROVE SrvOK(k)'
  <2>1. SrvOK(k) BY DEF StreamInv
  <2>2. Open(k)' = Open(k) BY DEF Open, Talks
  <2> QED BY <2>1, <2>2 DEF SrvOK
<1> QED BY <1>2, <1>4, <1>5, <1>6 DEF StreamInv

(* Such a step is none of Stream's.                                           *)
LEMMA StillKeeps ==
    ASSUME StreamInv, UNCHANGED <<conns, asked, fed, heard, told, srv, opened>>,
           pending' \in Texts, AppTyped', at' \in 0..UIP_CONNS - 1,
           NEW out, net' \subseteq net \cup out, \A f \in out : f \in FrameSet /\ FrameOK(f)'
    PROVE  Goes
<1>1. Over' = Over BY DEF Over, SlotsOf, Live
<1>2. Refines BY <1>1, Stutters
<1> QED BY <1>2, StillInv DEF Goes

-----------------------------------------------------------------------------
(* The loop over the slots.                                                   *)

(* The loop goes on to the next slot.                                         *)
LEMMA SlotLeft == ASSUME StreamTypes, LeaveSlot PROVE at' \in 0..UIP_CONNS - 1 /\ opened' = opened
<1>1. UIP_CONNS \in Nat \ {0} BY GlueAssumption DEF GlueAssumption
<1>2. at + 1 \in Nat BY DEF StreamTypes
<1>3. PICK r \in 0..UIP_CONNS - 1 : (at + 1) % UIP_CONNS = r BY <1>1, <1>2, Division
<1> QED BY <1>3 DEF LeaveSlot

(* The slot the loop is at.                                                   *)
LEMMA SlotIn == ASSUME StreamTypes PROVE Slot \in Slots
BY GlueAssumption DEF StreamTypes, Slot, Slots, GlueAssumption

(* uip_appcall without data feeds nothing.                                    *)
LEMMA BareCall == ASSUME NEW k, NEW flags, AppCall(k, flags, << >>) PROVE UNCHANGED <<rx, fed, fedNow>>
BY DEF AppCall

(* What the next visited slot sends of tcp_pending is the next piece asked for.*)
LEMMA PollStreams == ASSUME StreamInv, TimerPoll, UNCHANGED <<app, srv, told, heard>> PROVE Goes
<1>1. StreamTypes /\ pending \in Texts BY DEF StreamInv, StreamTypes
<1>2. PICK t \in Slots : t = Slot BY <1>1, SlotIn
<1>3. PICK c : c = conns[t] OBVIOUS
<1>4. PICK k : k = c.conn OBVIOUS
<1>5. c.st = "ESTABLISHED" /\ ~(c.len > 0) BY <1>2, <1>3 DEF TimerPoll, Outstanding
<1>6. /\ k \in Connections /\ k \in Nat /\ asked[k] \in Texts /\ fed[k] \in Texts /\ Fits(c) /\ ConnTyped(c)
      /\ Begins(fed[k], told[k]) /\ Len(asked[k]) \in Nat
  BY <1>3, <1>4, <1>5, SlotKnown
<1>7. c.len = 0 /\ c.snd = 1 + Len(asked[k]) /\ c.snd \in Nat /\ c.rcv \in Nat
  BY <1>4, <1>5, <1>6 DEF Fits, ConnTyped
<1>8. PICK n : n = IF Len(pending) > UIP_TCP_MSS THEN UIP_TCP_MSS ELSE Len(pending) OBVIOUS
<1>9. n \in 0..Len(pending) /\ Len(pending) \in Nat
  BY <1>1, <1>8, GlueAssumption DEF Texts, GlueAssumption
<1>10. PICK data : data = SubSeq(pending, 1, n) OBVIOUS
<1>11. data \in Texts /\ Len(data) = n
  BY <1>1, <1>9, <1>10, SubSeqProperties DEF Texts
<1>12. SubSeq(pending, n + 1, Len(pending)) \in Texts
  BY <1>1, <1>9, SubSeqProperties DEF Texts
<1>13. /\ Visit([c EXCEPT !.len = n, !.nrtx = 0])
       /\ pending' = SubSeq(pending, n + 1, Len(pending))
       /\ asked' = [asked EXCEPT ![k] = @ \o data]
       /\ Transmit({}, IF n > 0 THEN {Out(c, {"ACK"}, data)} ELSE {})
       /\ UNCHANGED fed
  BY <1>2, <1>3, <1>4, <1>8, <1>10 DEF TimerPoll
<1>14. PICK d : d = [c EXCEPT !.len = n, !.nrtx = 0] OBVIOUS
<1>15. /\ ConnTyped(d) /\ d.st = "ESTABLISHED" /\ d.conn = k /\ d.snd = c.snd /\ d.len = n
       /\ d.rcv = c.rcv
  BY <1>4, <1>5, <1>6, <1>9, <1>14 DEF ConnTyped, ConnFields
<1>16. LeaveSlot /\ SlotGets(t, d) BY <1>2, <1>13, <1>14 DEF Visit, SlotGets
<1>17. PICK more \in Texts : more = asked[k] \o data BY <1>6, <1>11, Joined
<1>18. /\ Len(more) = Len(asked[k]) + n /\ Begins(asked[k], more)
       /\ Piece(data, Len(asked[k]), more)
  BY <1>6, <1>11, <1>17, Joined
<1>19. /\ asked' = [asked EXCEPT ![k] = more] /\ asked' \in Texting /\ asked'[k] = more
       /\ \A j \in Connections : j # k => asked'[j] = asked[j]
  <2>1. asked \in Texting BY <1>1 DEF StreamTypes
  <2>2. asked' = [asked EXCEPT ![k] = more] BY <1>13, <1>17
  <2> QED BY <1>6, <2>1, <2>2 DEF Texting
<1>20. Fits(d)'
  <2>1. d.snd <= 1 + Len(heard[k]) /\ d.rcv = 1 + Len(fed[k]) /\ srv[k].una <= d.rcv
    BY <1>4, <1>5, <1>6, <1>15 DEF Fits
  <2>2. d.snd + d.len = 1 + Len(asked'[k])
    <3>1. PICK m \in Nat : m = Len(asked[k]) BY <1>6
    <3>2. d.snd = 1 + m /\ d.len = n /\ n \in Nat BY <1>7, <1>9, <1>15, <3>1
    <3>3. Len(asked'[k]) = m + n BY <1>18, <1>19, <3>1
    <3> QED BY <3>2, <3>3
  <2> QED BY <1>13, <1>15, <2>1, <2>2 DEF Fits
<1>21. PICK out : out = IF n > 0 THEN {Out(c, {"ACK"}, data)} ELSE {} OBVIOUS
<1>22. net' \subseteq net \cup out BY <1>13, <1>21, TransmitNet
<1>23. ASSUME NEW f \in out PROVE Sends(f, d, k)
  <2>1. f = [dir |-> "out", conn |-> k, flags |-> {"ACK"}, seq |-> c.snd, ack |-> c.rcv, data |-> data]
    BY <1>4, <1>21, <1>23 DEF Out, Segment
  <2>2. /\ f.dir = "out" /\ f.conn = k /\ f.flags = {"ACK"} /\ f.seq = c.snd /\ f.ack = c.rcv
        /\ f.data = data
    BY <2>1
  <2>3. f \in FrameSet BY <1>6, <1>7, <1>11, <2>1 DEF FrameSet, Flags
  <2>4. f.seq >= 1 /\ f.seq - 1 = Len(asked[k]) BY <1>6, <1>7, <2>2
  <2>5. Piece(f.data, f.seq - 1, asked'[k]) BY <1>18, <1>19, <2>2, <2>4
  <2>6. f.ack <= d.rcv BY <1>7, <1>15, <2>2
  <2> QED BY <2>2, <2>3, <2>4, <2>5, <2>6 DEF Sends
<1>24. at' \in 0..UIP_CONNS - 1 /\ opened' = opened BY <1>1, <1>16, SlotLeft
<1>25. Talks(t) /\ conns[t].rcv <= d.rcv BY <1>3, <1>5, <1>7, <1>15 DEF Talks, Talking
<1>26. fed' \in Texting /\ fed' = fed /\ Begins(fed'[k], told[k]) /\ \A j \in Connections : j # k => SameAt(j)
  BY <1>1, <1>6, <1>13, <1>19 DEF StreamTypes, SameAt
<1>27. pending' \in Texts BY <1>12, <1>13
<1>28. conns[t].st # "CLOSED" /\ k = conns[t].conn BY <1>3, <1>4, <1>5
<1>29. Begins(fed[k], fed'[k]) BY <1>6, <1>26, BeginsItself
<1>30. SlotTurns(t, d, k, out)
  BY <1>15, <1>16, <1>18, <1>19, <1>20, <1>22, <1>23, <1>24, <1>25, <1>26, <1>27, <1>28, <1>29 DEF SlotTurns
<1> QED BY <1>30, SlotTurnsKeeps

(* The slot's timer sends again what is unacknowledged, gives up or waits.    *)
LEMMA TickStreams == ASSUME StreamInv, Tick, UNCHANGED <<app, srv, told, heard>> PROVE Goes
<1>1. StreamTypes /\ pending \in Texts /\ AppTyped BY DEF StreamInv, StreamTypes
<1>2. PICK t \in Slots : t = Slot BY <1>1, SlotIn
<1>3. PICK c : c = conns[t] OBVIOUS
<1>4. ConnTyped(c) BY <1>1, <1>3 DEF StreamTypes
<1>5. PICK k : k = c.conn OBVIOUS
<1>6. ASSUME c.st # "CLOSED" PROVE k \in Nat /\ k \in Connections /\ Fits(c)
  BY <1>3, <1>5, <1>6, SlotKnown
<1>7. CASE TimerSkip
  <2>1. /\ UNCHANGED <<conns, asked, fed, pending, net>> /\ opened' = opened
        /\ at' \in 0..UIP_CONNS - 1
    BY <1>1, <1>7, SlotLeft DEF TimerSkip, histories
  <2>2. PICK out : out = {} OBVIOUS
  <2>3. net' \subseteq net \cup out BY <2>1
  <2>4. \A f \in out : f \in FrameSet /\ FrameOK(f)' BY <2>2
  <2>5. UNCHANGED <<conns, asked, fed, heard, told, srv, opened>> BY <2>1
  <2>6. pending' \in Texts /\ AppTyped' BY <1>1, <2>1 DEF AppTyped
  <2> QED BY <2>1, <2>3, <2>4, <2>5, <2>6, StillKeeps
<1>8. CASE TimerWait
  <2>1. LeaveSlot /\ UNCHANGED <<asked, fed, pending, net>> /\ c.st # "CLOSED"
    BY <1>2, <1>3, <1>8 DEF TimerWait, Visit, histories, Live
  <2>2. PICK timer : conns' = [conns EXCEPT ![t] = [c EXCEPT !.timer = timer]]
    BY <1>2, <1>3, <1>8 DEF TimerWait, Visit
  <2>3. PICK d : d = [c EXCEPT !.timer = timer] OBVIOUS
  <2>4. /\ SlotGets(t, d) /\ ConnTyped(d) /\ d.st = c.st /\ d.conn = c.conn
        /\ d.snd = c.snd /\ d.len = c.len /\ d.rcv = c.rcv
    BY <1>4, <2>2, <2>3 DEF SlotGets, ConnTyped, ConnFields
  <2>5. PICK out : out = {} OBVIOUS
  <2>6. net' \subseteq net \cup out /\ \A f \in out : Sends(f, d, k) BY <2>1, <2>5
  <2>7. at' \in 0..UIP_CONNS - 1 /\ opened' = opened BY <1>1, <2>1, SlotLeft
  <2> QED BY <1>3, <1>5, <2>1, <2>4, <2>6, <2>7, SlotLikeKeeps
<1>9. CASE TimerGiveUp
  <2>1. /\ LeaveSlot /\ SlotGets(t, Closed) /\ c.st # "CLOSED" /\ UNCHANGED <<asked, pending>>
        /\ Transmit({}, {Out(c, {"RST", "ACK"}, << >>)})
        /\ AppCall(k, {"TIMEDOUT"}, << >>)
    BY <1>2, <1>3, <1>5, <1>9 DEF TimerGiveUp, Visit, TimedOut, Live, SlotGets
  <2>2. UNCHANGED fed BY <2>1, BareCall
  <2>3. at' \in 0..UIP_CONNS - 1 /\ opened' = opened BY <1>1, <2>1, SlotLeft
  <2>4. PICK out : out = {Out(c, {"RST", "ACK"}, << >>)} OBVIOUS
  <2>5. net' \subseteq net \cup out BY <2>1, <2>4, TransmitNet
  <2>6. PICK flags \in SUBSET Flags : flags = {"RST", "ACK"} BY DEF Flags
  <2>7. Sends(Out(c, flags, << >>), Closed, k) BY <1>4, <1>5, <1>6, <2>1, <2>6, SendsBare
  <2>8. \A f \in out : Sends(f, Closed, k) BY <2>4, <2>6, <2>7
  <2> QED BY <1>3, <1>5, <2>1, <2>2, <2>3, <2>5, <2>8, SlotClosesKeeps
<1>10. CASE TimerResend
  <2>1. /\ LeaveSlot /\ c.st # "CLOSED" /\ UNCHANGED <<asked, fed, pending>>
        /\ Transmit({}, Again(c))
    BY <1>2, <1>3, <1>10 DEF TimerResend, Visit, TimedOut, Live, histories
  <2>2. PICK timer, nrtx : conns' = [conns EXCEPT ![t] = [c EXCEPT !.timer = timer, !.nrtx = nrtx]]
    BY <1>2, <1>3, <1>10 DEF TimerResend, Visit
  <2>3. PICK d : d = [c EXCEPT !.timer = timer, !.nrtx = nrtx] OBVIOUS
  <2>4. /\ SlotGets(t, d) /\ ConnTyped(d) /\ d.st = c.st /\ d.conn = c.conn
        /\ d.snd = c.snd /\ d.len = c.len /\ d.rcv = c.rcv
    BY <1>4, <2>2, <2>3 DEF SlotGets, ConnTyped, ConnFields
  <2>5. at' \in 0..UIP_CONNS - 1 /\ opened' = opened BY <1>1, <2>1, SlotLeft
  <2>6. PICK out : out = Again(c) OBVIOUS
  <2>7. net' \subseteq net \cup out BY <2>1, <2>6, TransmitNet
  <2>8. ASSUME NEW f \in out PROVE Sends(f, d, k)
    <3>1. c.rcv <= d.rcv BY <1>4, <2>4 DEF ConnTyped
    <3>2. CASE c.st = "SYN_SENT"
      <4>1. f = Out(c, {"SYN"}, << >>) BY <2>6, <2>8, <3>2 DEF Again
      <4>2. PICK flags \in SUBSET Flags : flags = {"SYN"} BY DEF Flags
      <4>3. Sends(Out(c, flags, << >>), d, k) BY <1>4, <1>5, <1>6, <2>1, <3>1, <4>2, SendsBare
      <4> QED BY <4>1, <4>2, <4>3
    <3>3. CASE c.st = "LAST_ACK"
      <4>1. f = Out(c, {"FIN", "ACK"}, << >>) BY <2>6, <2>8, <3>3 DEF Again
      <4>2. PICK flags \in SUBSET Flags : flags = {"FIN", "ACK"} BY DEF Flags
      <4>3. c.snd = 1 + Len(asked'[k]) /\ d.st \notin Talking
        BY <1>5, <1>6, <2>1, <2>4, <3>3 DEF Fits, Talking
      <4>4. Sends(Out(c, flags, << >>), d, k) BY <1>4, <1>5, <1>6, <2>1, <3>1, <4>2, <4>3, SendsBare
      <4> QED BY <4>1, <4>2, <4>4
    <3>4. CASE c.st # "SYN_SENT" /\ c.st # "LAST_ACK"
      BY <2>6, <2>8, <3>4 DEF Again
    <3> QED BY <3>2, <3>3, <3>4
  <2> QED BY <1>3, <1>5, <2>1, <2>4, <2>5, <2>7, <2>8, SlotLikeKeeps
<1>11. CASE TimerPoll
  BY <1>1, <1>2, <1>11, PollStreams
<1> QED BY <1>7, <1>8, <1>9, <1>10, <1>11 DEF Tick

-----------------------------------------------------------------------------
(* Segments for ppos.                                                         *)

(* A segment for ppos, and the slot it is for.                                *)
Comes(f, t, k) == /\ f \in net /\ f.dir = "in" /\ at = 0
                  /\ t \in Slots /\ conns[t].st # "CLOSED" /\ conns[t].conn = k /\ k = f.conn

(* What is known of a segment for ppos.                                       *)
LEMMA FrameKnown ==
    ASSUME StreamInv, NEW f \in net, f.dir = "in"
    PROVE  /\ f \in FrameSet /\ f.conn \in Nat /\ f.flags \in SUBSET Flags
           /\ f.seq \in Nat /\ f.ack \in Nat /\ f.data \in Texts /\ Len(f.data) \in Nat
           /\ "RST" \notin f.flags => InOK(f)
           /\ f.conn \in 1..opened
BY DEF StreamInv, StreamTypes, FrameSet, FrameOK, Texts

(* A segment for no connection is answered by a reset.                        *)
LEMMA NoConnStreams ==
    ASSUME StreamInv, NEW f \in net, f.dir = "in", RecvNoConn(f),
           UNCHANGED <<app, srv, told, heard>>
    PROVE  Goes
<1>1. StreamTypes BY DEF StreamInv
<1>2. /\ UNCHANGED <<conns, asked, fed, opened, pending, at>>
      /\ Transmit({f}, IF "RST" \in f.flags THEN {}
                       ELSE {Segment("out", f.conn, {"RST", "ACK"}, f.ack, f.seq + 1, << >>)})
  BY DEF RecvNoConn, histories
<1>3. PICK out : out = IF "RST" \in f.flags THEN {}
                       ELSE {Segment("out", f.conn, {"RST", "ACK"}, f.ack, f.seq + 1, << >>)}
  OBVIOUS
<1>4. net' \subseteq net \cup out BY <1>2, <1>3, TransmitNet
<1>5. ASSUME NEW g \in out PROVE g \in FrameSet /\ FrameOK(g)'
  <2>1. g = [dir |-> "out", conn |-> f.conn, flags |-> {"RST", "ACK"}, seq |-> f.ack,
             ack |-> f.seq + 1, data |-> << >>]
    BY <1>3, <1>5 DEF Segment
  <2>2. /\ f.conn \in Nat /\ f.conn \in 1..opened /\ f.ack \in Nat /\ f.seq + 1 \in Nat /\ << >> \in Texts
        /\ {"RST", "ACK"} \in SUBSET Flags
    BY FrameKnown DEF Texts, Flags
  <2>3. g \in FrameSet BY <2>1, <2>2 DEF FrameSet
  <2>4. g.conn = f.conn /\ "RST" \in g.flags BY <2>1
  <2> QED BY <1>2, <2>2, <2>3, <2>4 DEF FrameOK
<1>6. pending' \in Texts /\ AppTyped' /\ at' \in 0..UIP_CONNS - 1
  BY <1>1, <1>2 DEF StreamTypes, AppTyped
<1>7. UNCHANGED <<conns, asked, fed, heard, told, srv, opened>> BY <1>2
<1> QED BY <1>4, <1>5, <1>6, <1>7, StillKeeps

(* A reset, or the last acknowledgement, frees the slot.                      *)
LEMMA EndStreams ==
    ASSUME StreamInv, NEW f, NEW t, NEW k, Comes(f, t, k), RecvRst(f, t) \/ RecvLastAck(f, t),
           UNCHANGED <<app, srv, told, heard>>
    PROVE  Goes
<1>1. /\ SlotGets(t, Closed) /\ UNCHANGED <<pending, at, opened, asked>>
      /\ Transmit({f}, {}) /\ \E flags : AppCall(k, flags, << >>)
  BY DEF RecvRst, RecvLastAck, Becomes, SlotGets, Comes
<1>2. UNCHANGED fed BY <1>1, BareCall
<1>3. PICK out : out = {} OBVIOUS
<1>4. {f} \subseteq net BY DEF Comes
<1>5. net' \subseteq net \cup out /\ \A g \in out : Sends(g, Closed, k)
  BY <1>1, <1>3, <1>4, TransmitNet
<1>6. at' \in 0..UIP_CONNS - 1 BY <1>1 DEF StreamInv, StreamTypes
<1> QED BY <1>1, <1>2, <1>5, <1>6, SlotClosesKeeps DEF Comes

(* A segment that nothing is taken from.                                      *)
LEMMA DropStreams ==
    ASSUME StreamInv, NEW f, NEW t, NEW k, Comes(f, t, k), RecvOutOfOrder(f, t) \/ RecvDropped(f, t),
           UNCHANGED <<app, srv, told, heard>>
    PROVE  Goes
<1>1. /\ UNCHANGED <<conns, pending, at, opened, asked, fed>>
      /\ Transmit({f}, {}) \/ Transmit({f}, {Out(conns[t], {"ACK"}, << >>)})
  BY DEF RecvOutOfOrder, RecvDropped, histories
<1>2. PICK d : d = conns[t] OBVIOUS
<1>3. ConnTyped(d) /\ k \in Nat BY <1>2, SlotKnown DEF Comes
<1>4. SlotGets(t, d)
  <2>1. t \in Slots /\ conns = [s \in Slots |-> conns[s]] BY DEF Comes, StreamInv, StreamTypes
  <2>2. conns = [conns EXCEPT ![t] = conns[t]] BY <2>1
  <2> QED BY <1>1, <1>2, <2>2 DEF SlotGets
<1>5. PICK flags \in SUBSET Flags : flags = {"ACK"} BY DEF Flags
<1>6. Sends(Out(d, flags, << >>), d, k)
  <2>1. d.rcv <= d.rcv /\ d.conn = k BY <1>2, <1>3 DEF ConnTyped, Comes
  <2> QED BY <1>3, <1>5, <2>1, SendsBare
<1>7. {f} \subseteq net BY DEF Comes
<1>8. PICK out : out = {Out(d, flags, << >>)} OBVIOUS
<1>9. net' \subseteq net \cup out
  <2>1. CASE Transmit({f}, {}) BY <1>7, <2>1, TransmitNet
  <2>2. CASE Transmit({f}, {Out(conns[t], {"ACK"}, << >>)})
    <3>1. Transmit({f}, out) BY <1>2, <1>5, <1>8, <2>2
    <3> QED BY <1>7, <3>1, TransmitNet
  <2> QED BY <1>1, <2>1, <2>2
<1>10. \A g \in out : Sends(g, d, k) BY <1>6, <1>8
<1>11. at' \in 0..UIP_CONNS - 1 BY <1>1 DEF StreamInv, StreamTypes
<1>12. t \in Slots /\ conns[t].st # "CLOSED" /\ k = conns[t].conn BY DEF Comes
<1> QED BY <1>1, <1>2, <1>3, <1>4, <1>9, <1>10, <1>11, <1>12, SlotLikeKeeps

(* uip_appcall feeds the next piece of what the server wrote, or nothing.     *)
LEMMA CallFed ==
    ASSUME StreamTypes, NEW k \in Connections, NEW flags, NEW data \in Texts,
           AppCall(k, flags, data), Begins(fed[k], told[k]),
           data # << >> => Piece(data, Len(fed[k]), told[k])
    PROVE  /\ fed' \in Texting /\ \A j \in Connections : j # k => fed'[j] = fed[j]
           /\ Begins(fed[k], fed'[k]) /\ Begins(fed'[k], told[k])
           /\ ~(Len(data) > Free(rx)) => Len(fed'[k]) = Len(fed[k]) + Len(data)
<1>1. fed \in Texting /\ fed[k] \in Texts /\ told[k] \in Texts /\ Len(fed[k]) \in Nat
  BY DEF StreamTypes, Texting, Texts
<1>2. CASE Len(data) > Free(rx) \/ data = << >>
  <2>1. fed' = fed BY <1>2 DEF AppCall
  <2>2. data = << >> => Len(data) = 0 OBVIOUS
  <2> QED BY <1>1, <1>2, <2>1, <2>2, BeginsItself
<1>3. CASE ~(Len(data) > Free(rx) \/ data = << >>)
  <2>1. fed' = [fed EXCEPT ![k] = @ \o data] BY <1>3 DEF AppCall
  <2>2. PICK more \in Texts : more = fed[k] \o data BY <1>1, Joined
  <2>3. fed' = [fed EXCEPT ![k] = more] BY <2>1, <2>2
  <2>4. fed' \in Texting /\ fed'[k] = more /\ \A j \in Connections : j # k => fed'[j] = fed[j]
    BY <1>1, <2>3 DEF Texting
  <2>5. Begins(more, told[k]) BY <1>1, <1>3, <2>2, PieceFollows
  <2>6. Len(more) = Len(fed[k]) + Len(data) /\ Begins(fed[k], more) BY <1>1, <2>2, Joined
  <2> QED BY <2>4, <2>5, <2>6
<1> QED BY <1>2, <1>3

(* An acknowledgement moves what is outstanding behind snd, no further than   *)
(* the server has come.                                                       *)
LEMMA AckNumbers ==
    ASSUME StreamInv, NEW f, NEW t, NEW k, Comes(f, t, k), "RST" \notin f.flags,
           conns[t].st = "ESTABLISHED", NEW r, NEW a, a = AfterAck(f, conns[t], r)
    PROVE  /\ DOMAIN a = ConnFields /\ a.st = "ESTABLISHED" /\ a.conn = k
           /\ a.rcv = conns[t].rcv /\ a.snd \in Nat /\ a.len \in Nat
           /\ a.snd <= 1 + Len(heard[k]) /\ a.snd + a.len = 1 + Len(asked[k])
<1>1. PICK c : c = conns[t] OBVIOUS
<1>2. ConnTyped(c) /\ Fits(c) /\ c.conn = k /\ c.st = "ESTABLISHED" BY <1>1, SlotKnown DEF Comes
<1>3. Len(heard[k]) \in Nat /\ Len(asked[k]) \in Nat
  BY SlotKnown DEF Comes, Texts
<1>4. c.snd \in Nat /\ c.len \in Nat /\ c.snd <= 1 + Len(heard[k]) /\ c.snd + c.len = 1 + Len(asked[k])
  BY <1>2 DEF ConnTyped, Fits
<1>5. CASE ~Acks(f, c)
  <2>1. a = c BY <1>1, <1>5 DEF AfterAck
  <2> QED BY <1>1, <1>2, <1>4, <2>1 DEF ConnTyped
<1>6. CASE Acks(f, c)
  <2>1. f.ack = c.snd + c.len BY <1>6 DEF Acks
  <2>2. f.ack <= 1 + Len(heard[k])
    <3>1. Open(k) BY DEF Comes, Open, Talks, Talking
    <3>2. InOK(f) BY FrameKnown DEF Comes
    <3> QED BY <3>1, <3>2 DEF InOK, Comes
  <2>3. PICK rto : a = [c EXCEPT !.snd = @ + c.len, !.len = 0, !.timer = rto, !.rto = rto]
    BY <1>1, <1>6 DEF AfterAck
  <2>4. PICK m \in Nat : m = c.snd + c.len BY <1>4
  <2>5. a = [c EXCEPT !.snd = m, !.len = 0, !.timer = rto, !.rto = rto] BY <2>3, <2>4
  <2>6. /\ DOMAIN a = ConnFields /\ a.st = c.st /\ a.conn = c.conn /\ a.rcv = c.rcv
        /\ a.snd = m /\ a.len = 0
    BY <1>2, <2>5 DEF ConnTyped, ConnFields
  <2> QED BY <1>1, <1>2, <1>3, <1>4, <2>1, <2>2, <2>4, <2>6
<1> QED BY <1>5, <1>6

(* The handshake's answer opens the connection.                               *)
LEMMA SynAckStreams ==
    ASSUME StreamInv, NEW f, NEW t, NEW k, Comes(f, t, k), NEW r, RecvSynAck(f, t, r),
           UNCHANGED <<app, srv, told, heard>>
    PROVE  Goes
<1>1. PICK c : c = conns[t] OBVIOUS
<1>2. /\ k \in Connections /\ k \in Nat /\ ConnTyped(c) /\ Fits(c) /\ c.conn = k
      /\ asked[k] \in Texts /\ fed[k] \in Texts /\ Begins(fed[k], told[k]) /\ heard[k] \in Texts
  BY <1>1, SlotKnown DEF Comes
<1>3. c.st = "SYN_SENT" /\ Acks(f, c) /\ IsSynAck(f) /\ "RST" \notin f.flags
  BY <1>1 DEF RecvSynAck, Arrived
<1>4. /\ c.snd = 0 /\ c.len = 1 /\ c.rcv = 0 /\ asked[k] = << >> /\ fed[k] = << >>
      /\ srv[k].st # "OPEN"
  BY <1>2, <1>3 DEF Fits
<1>5. f.seq = 0
  <2>1. InOK(f) BY <1>3, FrameKnown DEF Comes
  <2> QED BY <1>3, <2>1 DEF InOK, IsSynAck
<1>6. PICK rto : AfterAck(f, c, r) = [c EXCEPT !.snd = @ + c.len, !.len = 0, !.timer = rto, !.rto = rto]
  BY <1>3 DEF AfterAck
<1>7. PICK d : d = [AfterAck(f, c, r) EXCEPT !.st = "ESTABLISHED", !.rcv = f.seq + 1, !.nrtx = 0]
  OBVIOUS
<1>8. AfterAck(f, c, r) = [c EXCEPT !.snd = 1, !.len = 0, !.timer = rto, !.rto = rto]
  BY <1>4, <1>6
<1>9. f.seq + 1 = 1 BY <1>5
<1>10. d = [AfterAck(f, c, r) EXCEPT !.st = "ESTABLISHED", !.rcv = 1, !.nrtx = 0]
  BY <1>7, <1>9
<1>11. /\ DOMAIN d = ConnFields /\ d.st = "ESTABLISHED" /\ d.conn = k /\ d.snd = 1 /\ d.len = 0
       /\ d.rcv = 1
  BY <1>2, <1>8, <1>10 DEF ConnTyped, ConnFields
<1>12. ConnTyped(d) BY <1>11 DEF ConnTyped, States
<1>13. /\ SlotGets(t, d) /\ Transmit({f}, {Out(d, {"ACK"}, << >>)})
       /\ AppCall(f.conn, {"CONNECTED"}, << >>) /\ UNCHANGED <<pending, at, opened, asked>>
  BY <1>1, <1>7 DEF RecvSynAck, Becomes, SlotGets
<1>14. UNCHANGED fed BY <1>13, BareCall
<1>15. Fits(d)'
  <2>1. SrvOK(k) BY <1>2 DEF StreamInv
  <2>2. srv[k].una = 0 BY <1>4, <2>1 DEF SrvOK
  <2>3. Len(asked[k]) = 0 /\ Len(fed[k]) = 0 /\ Len(heard[k]) \in Nat BY <1>2, <1>4 DEF Texts
  <2> QED BY <1>11, <1>13, <1>14, <2>2, <2>3 DEF Fits
<1>16. PICK flags \in SUBSET Flags : flags = {"ACK"} BY DEF Flags
<1>17. PICK out : out = {Out(d, flags, << >>)} OBVIOUS
<1>18. net' \subseteq net \cup out
  <2>1. Transmit({f}, out) /\ {f} \subseteq net BY <1>13, <1>16, <1>17 DEF Comes
  <2> QED BY <2>1, TransmitNet
<1>19. Sends(Out(d, flags, << >>), d, k)
  <2>1. d.rcv <= d.rcv BY <1>11
  <2> QED BY <1>2, <1>11, <1>12, <1>16, <2>1, SendsBare
<1>20. \A g \in out : Sends(g, d, k) BY <1>17, <1>19
<1>21. /\ at' \in 0..UIP_CONNS - 1 /\ pending' \in Texts /\ asked' \in Texting /\ fed' \in Texting
  BY <1>13, <1>14 DEF StreamInv, StreamTypes
<1>22. Talks(t) /\ conns[t].rcv <= d.rcv BY <1>1, <1>3, <1>4, <1>11 DEF Talks, Talking
<1>23. /\ Begins(asked[k], asked'[k]) /\ asked'[k] = asked[k] /\ Begins(fed'[k], told[k])
       /\ Begins(fed[k], fed'[k])
  BY <1>2, <1>13, <1>14, BeginsItself
<1>24. \A j \in Connections : SameAt(j) BY <1>13, <1>14 DEF SameAt
<1>25. t \in Slots /\ conns[t].st # "CLOSED" /\ k = conns[t].conn BY DEF Comes
<1>26. SlotTurns(t, d, k, out)
  BY <1>11, <1>12, <1>13, <1>14, <1>15, <1>18, <1>20, <1>21, <1>22, <1>23, <1>24, <1>25 DEF SlotTurns
<1> QED BY <1>26, SlotTurnsKeeps

(* What an open slot takes in order follows what it took.                     *)
LEMMA NextPiece ==
    ASSUME StreamInv, NEW f, NEW t, NEW k, Comes(f, t, k), Arrived(f, t),
           conns[t].st = "ESTABLISHED"
    PROVE  f.data # << >> => Piece(f.data, Len(fed[k]), told[k])
<1>1. SUFFICES ASSUME f.data # << >> PROVE Piece(f.data, Len(fed[k]), told[k]) OBVIOUS
<1>2. "RST" \notin f.flags /\ f.seq = conns[t].rcv BY <1>1 DEF Arrived, InOrder
<1>3. Piece(f.data, f.seq - 1, told[k])
  <2>1. InOK(f) BY <1>2, FrameKnown DEF Comes
  <2> QED BY <1>1, <2>1 DEF InOK, Comes
<1>4. conns[t].rcv = 1 + Len(fed[k]) /\ Len(fed[k]) \in Nat
  <2>1. Fits(conns[t]) /\ Len(fed[k]) \in Nat BY SlotKnown DEF Comes
  <2> QED BY <2>1 DEF Fits, Comes
<1>5. f.seq - 1 = Len(fed[k]) BY <1>2, <1>4
<1> QED BY <1>3, <1>5

(* The server's FIN, with its last data or without.                           *)
LEMMA FinStreams ==
    ASSUME StreamInv, NEW f, NEW t, NEW k, Comes(f, t, k), NEW r, RecvFin(f, t, r),
           UNCHANGED <<app, srv, told, heard>>
    PROVE  Goes
<1>1. PICK c : c = conns[t] OBVIOUS
<1>2. /\ k \in Connections /\ k \in Nat /\ asked[k] \in Texts /\ Begins(fed[k], told[k])
      /\ Len(asked[k]) \in Nat
  BY SlotKnown DEF Comes
<1>3. Arrived(f, t) /\ c.st = "ESTABLISHED" /\ "RST" \notin f.flags
  BY <1>1 DEF RecvFin, Arrived
<1>4. PICK a : a = AfterAck(f, c, r) OBVIOUS
<1>5. /\ DOMAIN a = ConnFields /\ a.st = "ESTABLISHED" /\ a.conn = k /\ a.rcv = c.rcv
      /\ a.snd \in Nat /\ a.len \in Nat /\ a.snd + a.len = 1 + Len(asked[k])
  BY <1>1, <1>3, <1>4, AckNumbers
<1>6. f.data \in Texts /\ Len(f.data) \in Nat BY FrameKnown DEF Comes
<1>7. c.rcv \in Nat BY <1>1 DEF StreamInv, StreamTypes, ConnTyped, Comes
<1>8. PICK m \in Nat : m = a.rcv + Len(f.data) + 1 BY <1>5, <1>6, <1>7
<1>9. PICK d : d = [a EXCEPT !.rcv = m, !.len = 1, !.st = "LAST_ACK", !.nrtx = 0] OBVIOUS
<1>10. /\ ~(a.len > 0) /\ SlotGets(t, d) /\ AppCall(k, {"CLOSE"}, f.data)
       /\ Transmit({f}, {Out(d, {"FIN", "ACK"}, << >>)})
       /\ UNCHANGED <<pending, at, opened, asked>>
  BY <1>1, <1>4, <1>8, <1>9 DEF RecvFin, Becomes, SlotGets, Outstanding, Comes
<1>11. /\ DOMAIN d = ConnFields /\ d.st = "LAST_ACK" /\ d.conn = k /\ d.snd = a.snd /\ d.len = 1
       /\ d.rcv = m
  BY <1>5, <1>9 DEF ConnFields
<1>12. ConnTyped(d) BY <1>5, <1>11 DEF ConnTyped, States
<1>13. d.snd = 1 + Len(asked'[k]) /\ d.st \notin Talking
  BY <1>2, <1>5, <1>10, <1>11 DEF Talking
<1>14. Fits(d)' BY <1>11, <1>13 DEF Fits
<1>15. StreamTypes BY DEF StreamInv
<1>16. /\ fed' \in Texting /\ \A j \in Connections : j # k => fed'[j] = fed[j]
       /\ Begins(fed[k], fed'[k]) /\ Begins(fed'[k], told[k])
  BY <1>2, <1>3, <1>1, <1>6, <1>10, <1>15, NextPiece, CallFed
<1>17. PICK flags \in SUBSET Flags : flags = {"FIN", "ACK"} BY DEF Flags
<1>18. PICK out : out = {Out(d, flags, << >>)} OBVIOUS
<1>19. net' \subseteq net \cup out
  <2>1. Transmit({f}, out) /\ {f} \subseteq net BY <1>10, <1>17, <1>18 DEF Comes
  <2> QED BY <2>1, TransmitNet
<1>20. \A g \in out : Sends(g, d, k)
  <2>1. d.rcv <= d.rcv BY <1>11
  <2>2. Sends(Out(d, flags, << >>), d, k) BY <1>2, <1>11, <1>12, <1>13, <2>1, SendsBare
  <2> QED BY <1>18, <2>2
<1>21. at' \in 0..UIP_CONNS - 1 /\ pending' \in Texts /\ asked' \in Texting
  BY <1>10, <1>15 DEF StreamTypes
<1>22. Begins(asked[k], asked'[k]) /\ asked'[k] = asked[k] BY <1>2, <1>10, BeginsItself
<1>23. \A j \in Connections : j # k => SameAt(j) BY <1>10, <1>16 DEF SameAt
<1>24. t \in Slots /\ conns[t].st # "CLOSED" /\ k = conns[t].conn BY DEF Comes
<1>25. SlotTurns(t, d, k, out)
  BY <1>10, <1>11, <1>12, <1>13, <1>14, <1>16, <1>19, <1>20, <1>21, <1>22, <1>23, <1>24 DEF SlotTurns
<1> QED BY <1>25, SlotTurnsKeeps

(* Data and acknowledgements of an open connection.                           *)
LEMMA DataStreams ==
    ASSUME StreamInv, NEW f, NEW t, NEW k, Comes(f, t, k), NEW r, RecvData(f, t, r),
           UNCHANGED <<app, srv, told, heard>>
    PROVE  Goes
<1>1. PICK c : c = conns[t] OBVIOUS
<1>2. /\ k \in Connections /\ k \in Nat /\ asked[k] \in Texts /\ Begins(fed[k], told[k])
      /\ Len(asked[k]) \in Nat /\ Len(fed[k]) \in Nat /\ Fits(c) /\ ConnTyped(c)
  BY <1>1, SlotKnown DEF Comes
<1>3. Arrived(f, t) /\ c.st = "ESTABLISHED" /\ "RST" \notin f.flags
  BY <1>1 DEF RecvData, Arrived
<1>4. PICK a : a = AfterAck(f, c, r) OBVIOUS
<1>5. /\ DOMAIN a = ConnFields /\ a.st = "ESTABLISHED" /\ a.conn = k /\ a.rcv = c.rcv
      /\ a.snd \in Nat /\ a.len \in Nat /\ a.snd + a.len = 1 + Len(asked[k])
      /\ a.snd <= 1 + Len(heard[k])
  BY <1>1, <1>3, <1>4, AckNumbers
<1>6. f.data \in Texts /\ Len(f.data) \in Nat BY FrameKnown DEF Comes
<1>7. c.rcv \in Nat /\ c.rcv = 1 + Len(fed[k]) /\ srv[k].una <= c.rcv
  BY <1>1, <1>2, <1>3 DEF ConnTyped, Fits, Comes
<1>8. PICK m \in Nat : m = a.rcv + Len(f.data)
  <2>1. a.rcv \in Nat BY <1>5, <1>7
  <2> QED BY <1>6, <2>1
<1>9. PICK d : d = [a EXCEPT !.rcv = m, !.nrtx = 0] OBVIOUS
<1>10. /\ DOMAIN d = ConnFields /\ d.st = "ESTABLISHED" /\ d.conn = k /\ d.snd = a.snd /\ d.len = a.len
       /\ d.rcv = m
  BY <1>5, <1>9 DEF ConnFields
<1>11. ConnTyped(d) BY <1>5, <1>10 DEF ConnTyped, States
<1>12. /\ AppCall(k, {}, f.data) /\ UNCHANGED <<pending, at, opened, asked>>
       /\ SlotGets(t, IF Len(f.data) > Free(rx) THEN Closed ELSE d)
       /\ Transmit({f}, IF Len(f.data) > Free(rx) THEN {Out(d, {"RST", "ACK"}, << >>)}
                        ELSE IF f.data # << >> THEN {Out(d, {"ACK"}, << >>)} ELSE {})
  BY <1>1, <1>4, <1>8, <1>9 DEF RecvData, Becomes, SlotGets, Comes
<1>13. StreamTypes BY DEF StreamInv
<1>14. {f} \subseteq net /\ t \in Slots /\ conns[t].st # "CLOSED" /\ k = conns[t].conn BY DEF Comes
<1>15. at' \in 0..UIP_CONNS - 1 /\ pending' \in Texts /\ asked' \in Texting
  BY <1>12, <1>13 DEF StreamTypes
<1>16. CASE Len(f.data) > Free(rx)
  <2>1. SlotGets(t, Closed) /\ Transmit({f}, {Out(d, {"RST", "ACK"}, << >>)}) BY <1>12, <1>16
  <2>2. UNCHANGED fed BY <1>12, <1>16 DEF AppCall
  <2>3. PICK flags \in SUBSET Flags : flags = {"RST", "ACK"} BY DEF Flags
  <2>4. PICK out : out = {Out(d, flags, << >>)} OBVIOUS
  <2>5. net' \subseteq net \cup out
    <3>1. Transmit({f}, out) BY <2>1, <2>3, <2>4
    <3> QED BY <1>14, <3>1, TransmitNet
  <2>6. Sends(Out(d, flags, << >>), Closed, k) BY <1>2, <1>10, <1>11, <2>3, SendsBare
  <2>7. \A g \in out : Sends(g, Closed, k) BY <2>4, <2>6
  <2> QED BY <1>12, <1>14, <1>15, <2>1, <2>2, <2>5, <2>7, SlotClosesKeeps
<1>17. CASE ~(Len(f.data) > Free(rx))
  <2>1. SlotGets(t, d) BY <1>12, <1>17
  <2>2. PICK out : out = IF f.data # << >> THEN {Out(d, {"ACK"}, << >>)} ELSE {} OBVIOUS
  <2>3. net' \subseteq net \cup out
    <3>1. Transmit({f}, out) BY <1>12, <1>17, <2>2
    <3> QED BY <1>14, <3>1, TransmitNet
  <2>4. PICK flags \in SUBSET Flags : flags = {"ACK"} BY DEF Flags
  <2>5. Sends(Out(d, flags, << >>), d, k)
    <3>1. d.rcv <= d.rcv BY <1>10
    <3> QED BY <1>2, <1>10, <1>11, <2>4, <3>1, SendsBare
  <2>6. \A g \in out : Sends(g, d, k) BY <2>2, <2>4, <2>5
  <2>7. /\ fed' \in Texting /\ (\A j \in Connections : j # k => fed'[j] = fed[j])
        /\ Begins(fed[k], fed'[k]) /\ Begins(fed'[k], told[k])
        /\ Len(fed'[k]) = Len(fed[k]) + Len(f.data)
    BY <1>1, <1>2, <1>3, <1>6, <1>12, <1>13, <1>17, NextPiece, CallFed
  <2>8. Fits(d)'
    <3>1. d.rcv = 1 + Len(fed'[k])
      <4>1. PICK n \in Nat : n = Len(fed[k]) BY <1>2
      <4>2. PICK l \in Nat : l = Len(f.data) BY <1>6
      <4>3. d.rcv = (1 + n) + l BY <1>5, <1>7, <1>8, <1>10, <4>1, <4>2
      <4>4. Len(fed'[k]) = n + l BY <2>7, <4>1, <4>2
      <4> QED BY <4>3, <4>4
    <3>2. srv[k].una <= d.rcv
      <4>1. srv[k].una \in Nat BY <1>2, <1>13 DEF StreamTypes, SrvSet
      <4> QED BY <1>5, <1>6, <1>7, <1>8, <1>10, <4>1
    <3>3. d.snd <= 1 + Len(heard[k]) /\ d.snd + d.len = 1 + Len(asked[k]) BY <1>5, <1>10
    <3> QED BY <1>10, <1>12, <3>1, <3>2, <3>3 DEF Fits
  <2>9. Talks(t) /\ conns[t].rcv <= d.rcv
    BY <1>1, <1>3, <1>5, <1>6, <1>7, <1>8, <1>10 DEF Talks, Talking
  <2>10. Begins(asked[k], asked'[k]) /\ asked'[k] = asked[k] BY <1>2, <1>12, BeginsItself
  <2>11. \A j \in Connections : j # k => SameAt(j) BY <1>12, <2>7 DEF SameAt
  <2>12. SlotTurns(t, d, k, out)
    BY <1>10, <1>11, <1>12, <1>14, <1>15, <2>1, <2>3, <2>6, <2>7, <2>8, <2>9, <2>10, <2>11 DEF SlotTurns
  <2> QED BY <2>12, SlotTurnsKeeps
<1> QED BY <1>16, <1>17

(* tcp_input, whatever the segment is.                                        *)
LEMMA SegmentStreams ==
    ASSUME StreamInv, RecvSegment, UNCHANGED <<app, srv, told, heard>>
    PROVE  Goes
<1>1. PICK f \in net : /\ f.dir = "in" /\ at = 0
                       /\ RecvNoConn(f) \/ \E s \in SlotsOf(f.conn) : RecvFor(f, s)
  BY DEF RecvSegment
<1>2. ASSUME NEW s \in SlotsOf(f.conn), RecvFor(f, s) PROVE Goes
  <2>1. PICK k : k = f.conn OBVIOUS
  <2>2. Comes(f, s, k) BY <1>1, <1>2, <2>1 DEF Comes, SlotsOf, Live
  <2> QED BY <1>2, <2>2, EndStreams, DropStreams, SynAckStreams, FinStreams, DataStreams DEF RecvFor
<1> QED BY <1>1, <1>2, NoConnStreams

-----------------------------------------------------------------------------
(* The command, and what concerns no connection.                              *)

(* A step that sends nothing and changes no slot.                             *)
LEMMA QuietStreams ==
    ASSUME StreamInv, UNCHANGED <<conns, asked, fed, heard, told, srv, opened, net>>,
           pending' \in Texts, AppTyped', at' \in 0..UIP_CONNS - 1
    PROVE  Goes
<1>1. PICK out : out = {} OBVIOUS
<1>2. net' \subseteq net \cup out /\ \A f \in out : f \in FrameSet /\ FrameOK(f)' BY <1>1
<1> QED BY <1>2, StillKeeps

(* uip_connect takes a free slot for a connection that has no byte yet.       *)
LEMMA OpenInv == ASSUME StreamInv, Connect, UNCHANGED <<srv, told, heard>>, AppTyped' PROVE StreamInv'
<1>1. StreamTypes BY DEF StreamInv
<1>2. PICK t : t = LowestIn(ClosedSlots) OBVIOUS
<1>3. t \in Slots /\ conns[t].st = "CLOSED"
  <2>1. ClosedSlots \in SUBSET Nat /\ ClosedSlots # {} BY DEF Connect, ClosedSlots, Slots
  <2>2. t \in ClosedSlots BY <1>2, <2>1, LowestFound
  <2> QED BY <2>2 DEF ClosedSlots, Live
<1>4. PICK k \in Nat : k = opened + 1 BY <1>1 DEF StreamTypes
<1>5. k \in Connections /\ opened \in Nat /\ opened \in 0..OpenMax BY <1>1, <1>4 DEF Connect, StreamTypes
<1>6. PICK d : d = Opening(k) OBVIOUS
<1>7. /\ d.st = "SYN_SENT" /\ d.conn = k /\ d.snd = 0 /\ d.len = 1 /\ d.rcv = 0 /\ DOMAIN d = ConnFields
  BY <1>6 DEF Opening, ConnFields
<1>8. /\ opened' = k /\ conns' = [conns EXCEPT ![t] = d] /\ pending' = << >>
      /\ UNCHANGED <<at, net, asked, fed>>
  BY <1>2, <1>4, <1>6 DEF Connect, ResetGlue
<1>9. conns' = [s \in Slots |-> conns'[s]] /\ conns'[t] = d
  <2>1. conns = [s \in Slots |-> conns[s]] BY <1>1 DEF StreamTypes
  <2> QED BY <1>3, <1>8, <2>1
<1>10. ASSUME NEW s \in Slots, s # t PROVE conns'[s] = conns[s]
  <2>1. conns = [u \in Slots |-> conns[u]] BY <1>1 DEF StreamTypes
  <2> QED BY <1>8, <1>10, <2>1
<1>11. ConnTyped(d) BY <1>7 DEF ConnTyped, States
<1>12. opened' \in 0..OpenMax /\ opened <= opened' /\ k > opened
  BY <1>4, <1>5, <1>8, GlueAssumption DEF Connections, GlueAssumption
<1>13. StreamTypes'
  <2>1. ASSUME NEW s \in Slots PROVE ConnTyped(conns'[s])
    BY <1>1, <1>9, <1>10, <1>11 DEF StreamTypes
  <2>2. \A s \in Slots : ConnTyped(conns[s])' BY <2>1 DEF ConnTyped
  <2>3. << >> \in Texts BY DEF Texts
  <2> QED BY <1>1, <1>8, <1>9, <1>12, <2>2, <2>3 DEF StreamTypes
<1>14. SrvOK(k) BY <1>5 DEF StreamInv
<1>15. asked[k] = << >> /\ told[k] = << >> /\ fed[k] = << >> /\ srv[k].st # "OPEN"
  <2>1. asked[k] = << >> /\ told[k] = << >> /\ srv[k].st # "OPEN" BY <1>12, <1>14 DEF SrvOK
  <2>2. fed[k] \in Texts /\ Begins(fed[k], told[k]) BY <1>1, <1>5, <1>14 DEF StreamTypes, Texting, SrvOK
  <2> QED BY <2>1, <2>2, NothingBegins
<1>16. ASSUME NEW s \in Slots, conns[s].st # "CLOSED"
       PROVE  s # t /\ conns[s].conn \in 1..opened /\ conns[s].conn \in 1..opened' /\ conns[s].conn # k
  <2>1. SlotOK(s) BY DEF StreamInv
  <2>2. conns[s].conn \in 1..opened BY <1>16, <2>1 DEF SlotOK
  <2> QED BY <1>3, <1>5, <1>8, <1>12, <1>16, <2>2
<1>17. ASSUME NEW s \in Slots PROVE SlotOK(s)'
  <2>1. SUFFICES ASSUME conns'[s].st # "CLOSED"
                 PROVE  /\ conns'[s].conn \in 1..opened'
                        /\ \A u \in Slots : u # s /\ conns'[u].st # "CLOSED" => conns'[u].conn # conns'[s].conn
                        /\ Fits(conns[s])'
    BY DEF SlotOK
  <2>2. CASE s = t
    <3>1. conns'[s].conn = k BY <1>7, <1>9, <2>2
    <3>2. conns'[s].conn \in 1..opened' BY <1>4, <1>5, <1>8, <3>1
    <3>3. Fits(conns[s])' BY <1>7, <1>8, <1>9, <1>15, <2>2 DEF Fits
    <3>4. \A u \in Slots : u # s /\ conns'[u].st # "CLOSED" => conns'[u].conn # k
      BY <1>10, <1>16, <2>2
    <3> QED BY <3>1, <3>2, <3>3, <3>4
  <2>3. CASE s # t
    <3>1. conns'[s] = conns[s] BY <1>10, <2>3
    <3>2. SlotOK(s) BY DEF StreamInv
    <3>3. Fits(conns[s])' BY <1>8, <2>1, <3>1, <3>2 DEF SlotOK, Fits
    <3>4. conns'[s].conn \in 1..opened' /\ conns'[s].conn # k BY <1>16, <2>1, <3>1
    <3>5. ASSUME NEW u \in Slots, u # s, conns'[u].st # "CLOSED" PROVE conns'[u].conn # conns'[s].conn
      <4>1. CASE u = t BY <1>7, <1>9, <3>4, <4>1
      <4>2. CASE u # t
        <5>1. conns'[u] = conns[u] BY <1>10, <4>2
        <5> QED BY <2>1, <3>1, <3>2, <3>5, <5>1 DEF SlotOK
      <4> QED BY <4>1, <4>2
    <3> QED BY <3>3, <3>4, <3>5
  <2> QED BY <2>2, <2>3
<1>18. ASSUME NEW j \in 1..opened PROVE Kept(j)
  <2>1. j \in Connections /\ j # k
    BY <1>5, <1>12, GlueAssumption DEF Connections, GlueAssumption
  <2>2. asked[j] \in Texts /\ told[j] \in Texts /\ Len(heard[j]) \in Nat
    BY <1>1, <2>1 DEF StreamTypes, Texting, Texts
  <2>3. ASSUME NEW s \in Slots, Talks(s)', conns'[s].conn = j
        PROVE  Talks(s) /\ conns[s].conn = j /\ conns[s].rcv <= conns'[s].rcv
    <3>1. s # t BY <1>7, <1>9, <2>1, <2>3
    <3>2. conns'[s] = conns[s] /\ conns[s].rcv \in Nat BY <1>1, <1>10, <3>1 DEF StreamTypes, ConnTyped
    <3> QED BY <2>3, <3>2 DEF Talks
  <2>4. Begins(asked[j], asked'[j]) /\ Begins(told[j], told'[j]) BY <1>8, <2>2, BeginsItself
  <2>5. Len(heard[j]) <= Len(heard'[j]) /\ asked'[j] = asked[j] BY <1>8, <2>2
  <2> QED BY <2>3, <2>4, <2>5 DEF Kept
<1>19. \A f \in net' : FrameOK(f)'
  <2>1. PICK out : out = {} OBVIOUS
  <2>2. net' \subseteq net \cup out /\ \A f \in out : FrameOK(f)' BY <1>8, <2>1
  <2> QED BY <1>12, <1>13, <1>18, <2>2, FramesStay
<1>20. ASSUME NEW j \in Connections PROVE SrvOK(j)'
  <2>1. SrvOK(j) BY DEF StreamInv
  <2>2. j > opened' => j > opened
    <3>1. j \in Nat BY DEF Connections
    <3> QED BY <1>4, <1>5, <1>8, <3>1
  <2>3. CASE j = k
    <3>1. srv[j].st # "OPEN" BY <1>15, <2>3
    <3> QED BY <1>8, <2>1, <2>2, <3>1 DEF SrvOK
  <2>4. CASE j # k
    <3>1. Open(j)' => Open(j)
      <4>1. ASSUME NEW s \in Slots, Talks(s)', conns'[s].conn = j PROVE Talks(s) /\ conns[s].conn = j
        <5>1. s # t BY <1>7, <1>9, <2>4, <4>1
        <5> QED BY <1>10, <4>1, <5>1 DEF Talks
      <4> QED BY <4>1 DEF Open
    <3> QED BY <1>8, <2>1, <2>2, <3>1 DEF SrvOK
  <2> QED BY <2>3, <2>4
<1> QED BY <1>13, <1>17, <1>19, <1>20 DEF StreamInv

(* To Stream it is nothing.                                                   *)
LEMMA OpenStreams ==
    ASSUME StreamInv, Connect, UNCHANGED <<srv, told, heard>>, AppTyped'
    PROVE  Goes
<1>1. StreamInv' BY OpenInv
<1>2. PICK t : t = LowestIn(ClosedSlots) OBVIOUS
<1>3. t \in Slots /\ conns[t].st = "CLOSED"
  <2>1. ClosedSlots \in SUBSET Nat /\ ClosedSlots # {} BY DEF Connect, ClosedSlots, Slots
  <2>2. t \in ClosedSlots BY <1>2, <2>1, LowestFound
  <2> QED BY <2>2 DEF ClosedSlots, Live
<1>4. conns = [s \in Slots |-> conns[s]] /\ opened \in Nat BY DEF StreamInv, StreamTypes
<1>5. PICK d : d = Opening(opened + 1) OBVIOUS
<1>6. d.st = "SYN_SENT" /\ d.conn = opened + 1 BY <1>5 DEF Opening
<1>7. conns' = [conns EXCEPT ![t] = d] /\ opened' = opened + 1 /\ UNCHANGED <<asked, fed>>
  BY <1>2, <1>5 DEF Connect
<1>8. conns'[t] = d /\ \A s \in Slots : s # t => conns'[s] = conns[s] BY <1>3, <1>4, <1>7
<1>9. ASSUME NEW k \in Connections PROVE Over'[k] = Over[k]
  <2>1. k \in Nat BY DEF Connections
  <2>2. CASE k = opened + 1
    <3>1. t \in SlotsOf(k)' BY <1>3, <1>6, <1>8, <2>2 DEF SlotsOf, Live
    <3>2. ~(k <= opened) BY <1>4, <2>2
    <3> QED BY <3>1, <3>2 DEF Over
  <2>3. CASE k # opened + 1
    <3>1. ASSUME NEW s \in Slots
          PROVE  (conns'[s].st # "CLOSED" /\ conns'[s].conn = k) <=> (conns[s].st # "CLOSED" /\ conns[s].conn = k)
      BY <1>3, <1>6, <1>8, <2>3
    <3>2. SlotsOf(k)' = SlotsOf(k) BY <3>1 DEF SlotsOf, Live
    <3>3. k <= opened' <=> k <= opened BY <1>4, <1>7, <2>1, <2>3
    <3> QED BY <3>2, <3>3 DEF Over
  <2> QED BY <2>2, <2>3
<1>10. Over' = Over BY <1>9 DEF Over
<1>11. Refines BY <1>7, <1>10, Stutters
<1> QED BY <1>1, <1>11 DEF Goes

(* The steps of the command.                                                  *)
LEMMA AppStreams == ASSUME StreamInv, App PROVE Goes
<1>1. /\ pending \in Texts /\ AppTyped /\ app.said \in Nat /\ at \in 0..UIP_CONNS - 1 /\ << >> \in Texts
      /\ opened \in Nat
  BY DEF StreamInv, StreamTypes, Texts, AppTyped
<1>2. CASE AppConnect
  <2>1. AppTyped' /\ UNCHANGED <<srv, told, heard>>
    BY <1>2 DEF AppConnect, AppTyped, Connect, ConnectRefused
  <2>2. CASE Connect BY <2>1, <2>2, OpenStreams
  <2>3. CASE ConnectRefused
    <3>1. UNCHANGED <<conns, asked, fed, opened, net, at>> /\ pending' \in Texts
      BY <1>1, <2>3 DEF ConnectRefused, ResetGlue
    <3> QED BY <1>1, <2>1, <3>1, QuietStreams
  <2> QED BY <1>2, <2>2, <2>3 DEF AppConnect
<1>3. CASE AppConnected \/ AppEnd
  <2>1. UNCHANGED <<conns, asked, fed, heard, told, srv, opened, net, pending, at>>
    BY <1>3 DEF AppConnected, AppEnd, clientVars
  <2>2. PICK p : app' = [app EXCEPT !.phase = p] /\ (p # "idle" => app.phase # "idle")
    BY <1>3 DEF AppConnected, AppEnd
  <2>3. AppTyped' BY <1>1, <2>1, <2>2 DEF AppTyped
  <2> QED BY <1>1, <2>1, <2>3, QuietStreams
<1>4. ASSUME NEW n \in Requests, AppSend(n) PROVE Goes
  <2>1. n \in Nat BY TcpAssumption DEF TcpAssumption
  <2>2. UNCHANGED <<conns, asked, fed, heard, told, srv, opened, net, at>>
    BY <1>4 DEF AppSend, GlueSend, histories
  <2>3. PICK data : data = Bytes(opened, app.said, n) OBVIOUS
  <2>4. data \in Texts
    <3>1. opened \in Connections BY <1>1, <1>4 DEF AppTyped, AppSend
    <3> QED BY <1>1, <2>1, <2>3, <3>1 DEF Bytes, Byte, Texts, Word, AllBytes
  <2>5. pending' = pending \o data BY <1>4, <2>3 DEF AppSend, GlueSend
  <2>6. pending' \in Texts BY <1>1, <2>4, <2>5, Joined
  <2>7. PICK m \in Nat : m = app.said + n BY <1>1, <2>1
  <2>8. app' = [app EXCEPT !.said = m] BY <1>4, <2>7 DEF AppSend
  <2>9. AppTyped' BY <1>1, <2>2, <2>8 DEF AppTyped
  <2> QED BY <1>1, <2>2, <2>6, <2>9, QuietStreams
<1>5. ASSUME NEW n \in 1..RXBUF_CAP, AppRecv(n) PROVE Goes
  <2>1. UNCHANGED <<conns, asked, fed, heard, told, srv, opened, net, pending, at>>
    BY <1>5 DEF AppRecv, GlueRecv, histories
  <2>2. PICK g : app' = [app EXCEPT !.got = g] BY <1>5 DEF AppRecv
  <2>3. AppTyped' BY <1>1, <2>1, <2>2 DEF AppTyped
  <2> QED BY <1>1, <2>1, <2>3, QuietStreams
<1> QED BY <1>2, <1>3, <1>4, <1>5 DEF App

(* The steps of tcp_poll_once.                                                *)
LEMMA PollStreamsAll == ASSUME StreamInv, Poll PROVE Goes
<1>1. UNCHANGED <<app, srv, told, heard>> BY DEF Poll
<1>2. CASE Tick BY <1>1, <1>2, TickStreams
<1>3. CASE RecvSegment BY <1>1, <1>3, SegmentStreams
<1>4. CASE CardFails \/ RecvArpReply \/ RecvArpRequest
  <2>1. UNCHANGED <<conns, pending, at, opened, net, asked, fed>>
    BY <1>4 DEF CardFails, RecvArpReply, RecvArpRequest, HeardOf, histories
  <2>2. pending' \in Texts /\ AppTyped' /\ at' \in 0..UIP_CONNS - 1
    BY <1>1, <2>1 DEF StreamInv, StreamTypes, AppTyped
  <2> QED BY <1>1, <2>1, <2>2, QuietStreams
<1> QED BY <1>2, <1>3, <1>4 DEF Poll

-----------------------------------------------------------------------------
(* The server of connection k becomes v; out is what it sends.                *)

ServerTurns(k, v, out) ==
    /\ k \in Connections /\ v \in SrvSet /\ ServerIs(k, v)
    /\ UNCHANGED <<conns, at, opened, asked, fed, app, pending>>
    /\ told' \in Texting /\ heard' \in Texting
    /\ \A j \in Connections : j # k => told'[j] = told[j] /\ heard'[j] = heard[j]
    /\ Begins(told[k], told'[k]) /\ Begins(heard[k], heard'[k])
    /\ told' = told \/ heard' = heard
    /\ SrvOK(k)'
    /\ \A s \in Slots : conns[s].conn = k =>
          /\ conns[s].st = "SYN_SENT" => v.st # "OPEN"
          /\ conns[s].st = "ESTABLISHED" => v.una <= conns[s].rcv
    /\ net' \subseteq net \cup out /\ \A f \in out : f \in FrameSet /\ FrameOK(f)'

(* A server's turn keeps the invariant.                                       *)
LEMMA ServerTurnsInv ==
    ASSUME StreamInv, NEW k, NEW v, NEW out, ServerTurns(k, v, out)
    PROVE  StreamInv'
<1>1. StreamTypes BY DEF StreamInv
<1>2. k \in Connections /\ v \in SrvSet BY DEF ServerTurns
<1>3. srv' = [srv EXCEPT ![k] = v] BY DEF ServerTurns, ServerIs
<1>4. srv'[k] = v /\ srv' \in [Connections -> SrvSet] BY <1>1, <1>2, <1>3 DEF StreamTypes
<1>5. ASSUME NEW j \in Connections, j # k
      PROVE  srv'[j] = srv[j] /\ told'[j] = told[j] /\ heard'[j] = heard[j]
  BY <1>1, <1>3, <1>5 DEF StreamTypes, ServerTurns
<1>6. UNCHANGED <<conns, at, opened, asked, fed, app, pending>> BY DEF ServerTurns
<1>7. net' \subseteq net \cup out /\ \A f \in out : f \in FrameSet /\ FrameOK(f)' BY DEF ServerTurns
<1>8. StreamTypes'
  <2>1. told' \in Texting /\ heard' \in Texting BY DEF ServerTurns
  <2>2. net' \subseteq FrameSet BY <1>1, <1>7 DEF StreamTypes
  <2> QED BY <1>1, <1>4, <1>6, <2>1, <2>2 DEF StreamTypes, ConnTyped, AppTyped
<1>9. ASSUME NEW j \in Connections
      PROVE  /\ asked[j] \in Texts /\ told[j] \in Texts /\ heard[j] \in Texts
             /\ Begins(told[j], told'[j]) /\ Begins(heard[j], heard'[j])
             /\ Len(heard[j]) \in Nat /\ Len(heard'[j]) \in Nat /\ Len(heard[j]) <= Len(heard'[j])
  <2>1. asked[j] \in Texts /\ told[j] \in Texts /\ heard[j] \in Texts /\ heard'[j] \in Texts
    BY <1>1, <1>8 DEF StreamTypes, Texting
  <2>2. CASE j = k BY <2>1, <2>2 DEF ServerTurns, Begins, Texts
  <2>3. CASE j # k BY <1>5, <2>1, <2>3, BeginsItself DEF Begins, Texts
  <2> QED BY <2>2, <2>3
<1>10. ASSUME NEW j \in 1..opened PROVE Kept(j)
  <2>1. j \in Connections
    <3>1. opened \in 0..OpenMax BY <1>1 DEF StreamTypes
    <3> QED BY <3>1, GlueAssumption DEF GlueAssumption, Connections
  <2>2. \A s \in Slots : conns[s].rcv \in Nat BY <1>1 DEF StreamTypes, ConnTyped
  <2>3. Begins(asked[j], asked'[j]) /\ asked'[j] = asked[j] BY <1>6, <1>9, <2>1, BeginsItself
  <2> QED BY <1>6, <1>9, <2>1, <2>2, <2>3 DEF Kept, Talks
<1>11. \A f \in net' : FrameOK(f)'
  <2>1. opened <= opened' BY <1>1, <1>6 DEF StreamTypes
  <2> QED BY <1>7, <1>8, <1>10, <2>1, FramesStay
<1>12. ASSUME NEW s \in Slots PROVE SlotOK(s)'
  <2>1. SUFFICES ASSUME conns[s].st # "CLOSED"
                 PROVE  /\ conns[s].conn \in 1..opened
                        /\ \A u \in Slots : u # s /\ conns[u].st # "CLOSED" => conns[u].conn # conns[s].conn
                        /\ Fits(conns[s])'
    BY <1>6 DEF SlotOK
  <2>2. SlotOK(s) BY DEF StreamInv
  <2>3. PICK c : c = conns[s] OBVIOUS
  <2>4. PICK j : j = c.conn OBVIOUS
  <2>5. j \in Connections /\ Fits(c) /\ ConnTyped(c) BY <2>1, <2>3, <2>4, SlotKnown
  <2>6. Fits(c)'
    <3>1. c.st = "SYN_SENT" => srv'[j].st # "OPEN"
      <4>1. CASE j = k BY <1>4, <2>3, <2>4, <4>1 DEF ServerTurns
      <4>2. CASE j # k BY <1>5, <2>4, <2>5, <4>2 DEF Fits
      <4> QED BY <4>1, <4>2
    <3>2. c.st = "ESTABLISHED" => srv'[j].una <= c.rcv
      <4>1. CASE j = k BY <1>4, <2>3, <2>4, <4>1 DEF ServerTurns
      <4>2. CASE j # k BY <1>5, <2>4, <2>5, <4>2 DEF Fits
      <4> QED BY <4>1, <4>2
    <3>3. c.st = "ESTABLISHED" => c.snd <= 1 + Len(heard'[j])
      <4>1. c.st = "ESTABLISHED" => c.snd <= 1 + Len(heard[j]) BY <2>4, <2>5 DEF Fits
      <4>2. c.snd \in Nat BY <2>5 DEF ConnTyped
      <4> QED BY <1>9, <2>5, <4>1, <4>2
    <3> QED BY <1>6, <2>4, <2>5, <3>1, <3>2, <3>3 DEF Fits
  <2>7. Fits(conns[s])' BY <1>6, <2>3, <2>6 DEF Fits
  <2> QED BY <2>1, <2>2, <2>7 DEF SlotOK
<1>13. ASSUME NEW j \in Connections PROVE SrvOK(j)'
  <2>1. CASE j = k BY <2>1 DEF ServerTurns
  <2>2. CASE j # k
    <3>1. SrvOK(j) BY DEF StreamInv
    <3>2. Open(j)' = Open(j) BY <1>6 DEF Open, Talks
    <3> QED BY <1>5, <1>6, <2>2, <3>1, <3>2 DEF SrvOK
  <2> QED BY <2>1, <2>2
<1> QED BY <1>8, <1>11, <1>12, <1>13 DEF StreamInv

(* A server's turn tells, hears, or does nothing Stream sees.                 *)
LEMMA ServerTurnsRefine ==
    ASSUME StreamInv, NEW k, NEW v, NEW out, ServerTurns(k, v, out), StreamInv'
    PROVE  Refines
<1>1. k \in Connections /\ UNCHANGED <<conns, opened, asked, fed>> BY DEF ServerTurns
<1>2. Over' = Over BY <1>1 DEF Over, SlotsOf, Live
<1>3. /\ told \in Texting /\ told' \in Texting /\ heard \in Texting /\ heard' \in Texting
      /\ asked \in Texting
  BY DEF StreamInv, StreamTypes
<1>4. CASE told' = told /\ heard' = heard BY <1>1, <1>2, <1>4, Stutters
<1>5. CASE told' # told
  <2>1. heard' = heard BY <1>5 DEF ServerTurns
  <2>2. S!Grows(told, told', k)
    <3>1. (\A j \in Connections : j # k => told'[j] = told[j]) /\ Begins(told[k], told'[k])
      BY DEF ServerTurns
    <3> QED BY <1>1, <1>3, <1>5, <3>1, GrowsThere
  <2>3. S!Tell(k) BY <1>1, <1>2, <2>1, <2>2 DEF S!Tell, Over
  <2> QED BY <1>1, <2>3 DEF Refines, S!StreamNext
<1>6. CASE heard' # heard
  <2>1. told' = told BY <1>6 DEF ServerTurns
  <2>2. S!Grows(heard, heard', k)
    <3>1. (\A j \in Connections : j # k => heard'[j] = heard[j]) /\ Begins(heard[k], heard'[k])
      BY DEF ServerTurns
    <3> QED BY <1>1, <1>3, <1>6, <3>1, GrowsThere
  <2>3. S!IsPrefix(heard'[k], asked[k])
    <3>1. SrvOK(k)' BY DEF ServerTurns
    <3>2. Begins(heard'[k], asked[k]) BY <1>1, <3>1 DEF SrvOK
    <3>3. heard'[k] \in Texts /\ asked[k] \in Texts BY <1>1, <1>3 DEF Texting
    <3> QED BY <3>2, <3>3, IsPrefixOf
  <2>4. S!Hear(k) BY <1>1, <1>2, <2>1, <2>2, <2>3 DEF S!Hear, Over
  <2> QED BY <1>1, <2>4 DEF Refines, S!StreamNext
<1> QED BY <1>4, <1>5, <1>6

(* A server's turn does both.                                                 *)
LEMMA ServerTurnsKeeps ==
    ASSUME StreamInv, NEW k, NEW v, NEW out, ServerTurns(k, v, out)
    PROVE  Goes
BY ServerTurnsInv, ServerTurnsRefine DEF Goes

(* What is known of a server.                                                 *)
LEMMA ServerKnown ==
    ASSUME StreamInv, NEW k \in Connections
    PROVE  /\ srv[k] \in SrvSet /\ SrvOK(k)
           /\ told \in Texting /\ heard \in Texting
           /\ asked[k] \in Texts /\ fed[k] \in Texts /\ told[k] \in Texts /\ heard[k] \in Texts
           /\ Len(asked[k]) \in Nat /\ Len(told[k]) \in Nat /\ Len(heard[k]) \in Nat
           /\ Begins(told[k], told[k]) /\ Begins(heard[k], heard[k])
<1>1. /\ srv[k] \in SrvSet /\ SrvOK(k) /\ told \in Texting /\ heard \in Texting
      /\ asked[k] \in Texts /\ fed[k] \in Texts /\ told[k] \in Texts /\ heard[k] \in Texts
  BY DEF StreamInv, StreamTypes, Texting
<1> QED BY <1>1, BeginsItself DEF Texts

(* A connection that was opened.                                              *)
LEMMA OpenedIn == ASSUME StreamInv, NEW k \in 1..opened PROVE k \in Connections
<1>1. opened \in 0..OpenMax BY DEF StreamInv, StreamTypes
<1> QED BY <1>1, GlueAssumption DEF GlueAssumption, Connections

(* What the network holds after a step of a server.                           *)
LEMMA ServerNet ==
    ASSUME NEW used, NEW out, SrvSends(used, out)
    PROVE  /\ net' \subseteq net \cup out
           /\ UNCHANGED <<conns, at, opened, asked, fed, app, pending>>
BY DEF SrvSends, histories

(* A segment of a server is one for ppos.                                     *)
LEMMA InFrame ==
    ASSUME StreamInv, NEW k \in 1..opened, opened' = opened,
           NEW v, srv'[k] = v, v.rcv \in Nat,
           NEW flags \in SUBSET Flags, NEW seq \in Nat, NEW data \in Texts,
           NEW f, f = In(k, flags, seq, data)
    PROVE  /\ f \in FrameSet /\ f.conn = k /\ f.flags = flags /\ f.seq = seq /\ f.ack = v.rcv
           /\ f.data = data /\ f.dir = "in" /\ f.conn \in 1..opened'
<1>1. f = [dir |-> "in", conn |-> k, flags |-> flags, seq |-> seq, ack |-> v.rcv, data |-> data]
  BY DEF In, Segment
<1>2. k \in Nat BY OpenedIn DEF Connections
<1>3. /\ f.dir = "in" /\ f.conn = k /\ f.flags = flags /\ f.seq = seq /\ f.ack = v.rcv
      /\ f.data = data
  BY <1>1
<1>4. f \in FrameSet BY <1>1, <1>2 DEF FrameSet
<1> QED BY <1>3, <1>4 DEF FrameOK

(* A server that starts, ends or only answers: its streams stay.              *)
LEMMA SameTexts ==
    ASSUME StreamInv, NEW k \in Connections, UNCHANGED <<told, heard>>
    PROVE  /\ told' \in Texting /\ heard' \in Texting
           /\ \A j \in Connections : j # k => told'[j] = told[j] /\ heard'[j] = heard[j]
           /\ Begins(told[k], told'[k]) /\ Begins(heard[k], heard'[k])
BY ServerKnown

(* The server takes a SYN.                                                    *)
LEMMA SynStreams ==
    ASSUME StreamInv, NEW f \in net, f.dir = "out", SrvSyn(f.conn, f)
    PROVE  Goes
<1>1. PICK k : k = f.conn OBVIOUS
<1>2. k \in 1..opened BY <1>1 DEF StreamInv, FrameOK
<1>3. k \in Connections BY <1>2, OpenedIn
<1>4. PICK v : v = [srv[k] EXCEPT !.st = "SYN_RCVD", !.rcv = 1] OBVIOUS
<1>5. srv[k] \in SrvSet /\ SrvOK(k) /\ Len(heard[k]) \in Nat BY <1>3, ServerKnown
<1>6. /\ v \in SrvSet /\ v.st = "SYN_RCVD" /\ v.rcv = 1 /\ v.una = srv[k].una /\ v.wrote = srv[k].wrote
  BY <1>4, <1>5 DEF SrvSet
<1>7. /\ srv[k].st \in {"LISTEN", "SYN_RCVD"} /\ ServerIs(k, v) /\ UNCHANGED <<told, heard>>
      /\ SrvSends({f}, {In(k, {"SYN", "ACK"}, 0, << >>)})
  BY <1>1, <1>4 DEF SrvSyn
<1>8. PICK g : g = In(k, {"SYN", "ACK"}, 0, << >>) OBVIOUS
<1>9. PICK out : out = {g} OBVIOUS
<1>10. net' \subseteq net \cup out /\ UNCHANGED <<conns, at, opened, asked, fed, app, pending>>
  BY <1>7, <1>8, <1>9, ServerNet
<1>11. srv'[k] = v
  <2>1. srv \in [Connections -> SrvSet] BY DEF StreamInv, StreamTypes
  <2> QED BY <1>3, <1>7, <2>1 DEF ServerIs
<1>12. g \in FrameSet /\ FrameOK(g)'
  <2>1. PICK flags \in SUBSET Flags : flags = {"SYN", "ACK"} BY DEF Flags
  <2>2. << >> \in Texts BY DEF Texts
  <2>3. PICK data \in Texts : data = << >> BY <2>2
  <2>4. /\ g \in FrameSet /\ g.conn = k /\ g.flags = flags /\ g.seq = 0 /\ g.ack = v.rcv
        /\ g.data = data /\ g.dir = "in" /\ g.conn \in 1..opened'
    <3>1. v.rcv \in Nat /\ opened' = opened BY <1>6, <1>10
    <3>2. PICK seq \in Nat : seq = 0 OBVIOUS
    <3>3. g = In(k, flags, seq, data) BY <1>8, <2>1, <2>3, <3>2
    <3> QED BY <1>2, <1>11, <3>1, <3>2, <3>3, InFrame
  <2>5. g.ack <= 1 + Len(heard'[k]) BY <1>5, <1>6, <1>7, <2>4
  <2>6. InOK(g)' BY <1>6, <2>1, <2>3, <2>4, <2>5 DEF InOK
  <2> QED BY <2>4, <2>6 DEF FrameOK
<1>13. SrvOK(k)'
  <2>1. ~(k > opened)
    <3>1. opened \in Int BY DEF StreamInv, StreamTypes
    <3> QED BY <1>2, <3>1
  <2> QED BY <1>5, <1>6, <1>7, <1>10, <1>11, <2>1 DEF SrvOK
<1>14. \A s \in Slots : conns[s].conn = k /\ conns[s].st = "ESTABLISHED" => v.una <= conns[s].rcv
  <2>1. ASSUME NEW s \in Slots, conns[s].conn = k, conns[s].st = "ESTABLISHED"
        PROVE  srv[k].una <= conns[s].rcv
    <3>1. Fits(conns[s]) BY <2>1, SlotKnown
    <3> QED BY <2>1, <3>1 DEF Fits
  <2> QED BY <1>6, <2>1
<1>15. ServerTurns(k, v, out)
  BY <1>3, <1>6, <1>7, <1>9, <1>10, <1>12, <1>13, <1>14, SameTexts DEF ServerTurns
<1> QED BY <1>15, ServerTurnsKeeps

(* A server that ends.                                                        *)
LEMMA DeadStreams ==
    ASSUME StreamInv, NEW k \in Connections, ServerIs(k, NoServer), UNCHANGED <<told, heard>>,
           NEW used, SrvSends(used, {})
    PROVE  Goes
<1>1. PICK v : v = NoServer OBVIOUS
<1>2. v \in SrvSet /\ v.st = "DEAD" /\ v.una = 0 /\ ServerIs(k, v) BY <1>1 DEF NoServer, SrvSet
<1>3. PICK out : out = {} OBVIOUS
<1>4. net' \subseteq net \cup out /\ UNCHANGED <<conns, at, opened, asked, fed, app, pending>>
  BY <1>3, ServerNet
<1>5. srv'[k] = v
  <2>1. srv \in [Connections -> SrvSet] BY DEF StreamInv, StreamTypes
  <2> QED BY <1>2, <2>1 DEF ServerIs
<1>6. SrvOK(k) BY ServerKnown
<1>7. SrvOK(k)' BY <1>2, <1>4, <1>5, <1>6 DEF SrvOK
<1>8. \A s \in Slots : conns[s].rcv \in Nat BY DEF StreamInv, StreamTypes, ConnTyped
<1>9. \A s \in Slots : v.una <= conns[s].rcv BY <1>2, <1>8
<1>10. \A f \in out : f \in FrameSet /\ FrameOK(f)' BY <1>3
<1>11. ServerTurns(k, v, out)
  BY <1>2, <1>4, <1>7, <1>9, <1>10, SameTexts DEF ServerTurns
<1> QED BY <1>11, ServerTurnsKeeps

(* A server that stays as it is, but for its FIN.                             *)
LEMMA SameServer ==
    ASSUME StreamInv, NEW k \in Connections, UNCHANGED <<told, heard>>,
           NEW v \in SrvSet, ServerIs(k, v),
           v.st = srv[k].st, v.rcv = srv[k].rcv, v.una = srv[k].una, v.wrote = srv[k].wrote,
           NEW used, NEW out, SrvSends(used, out), \A f \in out : f \in FrameSet /\ FrameOK(f)'
    PROVE  Goes
<1>1. net' \subseteq net \cup out /\ UNCHANGED <<conns, at, opened, asked, fed, app, pending>>
  BY ServerNet
<1>2. srv'[k] = v
  <2>1. srv \in [Connections -> SrvSet] BY DEF StreamInv, StreamTypes
  <2> QED BY <2>1 DEF ServerIs
<1>3. SrvOK(k) BY ServerKnown
<1>4. Open(k)' = Open(k) BY <1>1 DEF Open, Talks
<1>5. SrvOK(k)' BY <1>1, <1>2, <1>3, <1>4 DEF SrvOK
<1>6. ASSUME NEW s \in Slots, conns[s].conn = k
      PROVE  /\ conns[s].st = "SYN_SENT" => v.st # "OPEN"
             /\ conns[s].st = "ESTABLISHED" => v.una <= conns[s].rcv
  <2>1. conns[s].st # "CLOSED" => Fits(conns[s]) BY <1>6, SlotKnown
  <2> QED BY <1>6, <2>1 DEF Fits
<1>7. ServerTurns(k, v, out)
  BY <1>1, <1>5, <1>6, SameTexts DEF ServerTurns
<1> QED BY <1>7, ServerTurnsKeeps

(* A server that died answers a reset.                                        *)
LEMMA RefuseStreams ==
    ASSUME StreamInv, NEW f \in net, f.dir = "out", SrvRefuse(f.conn, f)
    PROVE  Goes
<1>1. PICK k : k = f.conn OBVIOUS
<1>2. k \in 1..opened BY <1>1 DEF StreamInv, FrameOK
<1>3. k \in Connections BY <1>2, OpenedIn
<1>4. PICK v : v = srv[k] OBVIOUS
<1>5. v \in SrvSet /\ v.rcv \in Nat BY <1>3, <1>4, ServerKnown DEF SrvSet
<1>6. UNCHANGED <<srv, told, heard>> /\ SrvSends({f}, {In(k, {"RST"}, 0, << >>)})
  BY <1>1 DEF SrvRefuse
<1>7. ServerIs(k, v)
  <2>1. srv \in [Connections -> SrvSet] BY DEF StreamInv, StreamTypes
  <2> QED BY <1>3, <1>4, <1>6, <2>1 DEF ServerIs
<1>8. PICK g : g = In(k, {"RST"}, 0, << >>) OBVIOUS
<1>9. PICK out : out = {g} OBVIOUS
<1>10. SrvSends({f}, out) BY <1>6, <1>8, <1>9
<1>11. g \in FrameSet /\ FrameOK(g)'
  <2>1. PICK flags \in SUBSET Flags : flags = {"RST"} BY DEF Flags
  <2>2. g = In(k, flags, 0, << >>) /\ << >> \in Texts BY <1>8, <2>1 DEF Texts
  <2>3. opened' = opened /\ srv'[k] = v BY <1>4, <1>6, <1>10, ServerNet
  <2>4. g \in FrameSet /\ g.flags = flags /\ g.conn \in 1..opened' BY <1>2, <1>5, <2>1, <2>2, <2>3, InFrame
  <2> QED BY <2>1, <2>4 DEF FrameOK
<1> QED BY <1>3, <1>4, <1>5, <1>6, <1>7, <1>9, <1>10, <1>11, SameServer

(* The server's program writes one more byte.                                 *)
LEMMA WriteStreams ==
    ASSUME StreamInv, NEW k \in Connections, SrvWrite(k), UNCHANGED heard, SrvSends({}, {})
    PROVE  Goes
<1>1. /\ srv[k] \in SrvSet /\ SrvOK(k) /\ told \in Texting /\ heard \in Texting
      /\ told[k] \in Texts /\ fed[k] \in Texts /\ heard[k] \in Texts /\ Len(told[k]) \in Nat
      /\ Begins(heard[k], heard[k])
  BY ServerKnown
<1>2. srv[k].st = "OPEN" /\ srv[k].wrote \in Nat BY <1>1 DEF SrvWrite, SrvSet
<1>3. srv[k].wrote = Len(told[k]) BY <1>1, <1>2 DEF SrvOK
<1>4. PICK n \in Nat : n = srv[k].wrote + 1 BY <1>2
<1>5. PICK v : v = [srv[k] EXCEPT !.wrote = n] OBVIOUS
<1>6. /\ v \in SrvSet /\ v.st = "OPEN" /\ v.rcv = srv[k].rcv /\ v.una = srv[k].una /\ v.wrote = n
  BY <1>1, <1>2, <1>5 DEF SrvSet
<1>7. PICK b \in Word : b = Byte(k, n)
  <2>1. Byte(k, n) \in Word BY DEF Byte, Word, AllBytes, Connections
  <2> QED BY <2>1
<1>8. PICK more \in Texts : more = Append(told[k], b) BY <1>1, AppendProperties DEF Texts
<1>9. /\ Len(more) = Len(told[k]) + 1 /\ more[n] = b
      /\ \A i \in 1..Len(told[k]) : more[i] = told[k][i]
  BY <1>1, <1>3, <1>4, <1>8, AppendProperties DEF Texts
<1>10. ServerIs(k, v) /\ told' = [told EXCEPT ![k] = more]
  BY <1>4, <1>5, <1>7, <1>8 DEF SrvWrite
<1>11. told' \in Texting /\ told'[k] = more /\ \A j \in Connections : j # k => told'[j] = told[j]
  BY <1>1, <1>10 DEF Texting
<1>12. Begins(told[k], more) BY <1>1, <1>9 DEF Begins
<1>13. PICK out : out = {} OBVIOUS
<1>14. net' \subseteq net \cup out /\ UNCHANGED <<conns, at, opened, asked, fed, app, pending>>
  BY <1>13, ServerNet
<1>15. srv'[k] = v
  <2>1. srv \in [Connections -> SrvSet] BY DEF StreamInv, StreamTypes
  <2> QED BY <1>10, <2>1 DEF ServerIs
<1>16. SrvOK(k)'
  <2>1. Begins(fed[k], more)
    <3>1. Begins(fed[k], told[k]) BY <1>1 DEF SrvOK
    <3> QED BY <1>1, <1>12, <3>1, BeginsChain
  <2>2. ASSUME NEW i \in 1..Len(more) PROVE more[i] = Byte(k, i)
    <3>1. CASE i = n BY <1>7, <1>9, <3>1
    <3>2. CASE i # n
      <4>1. i \in 1..Len(told[k]) BY <1>1, <1>3, <1>4, <1>9, <3>2
      <4> QED BY <1>1, <1>9, <4>1 DEF SrvOK
    <3> QED BY <3>1, <3>2
  <2>3. v.wrote = Len(more) BY <1>3, <1>4, <1>6, <1>9
  <2>4. ~(k > opened) BY <1>1, <1>2 DEF SrvOK
  <2>5. Open(k)' = Open(k) BY <1>14 DEF Open, Talks
  <2> QED BY <1>1, <1>2, <1>6, <1>11, <1>14, <1>15, <2>1, <2>2, <2>3, <2>4, <2>5 DEF SrvOK
<1>17. ASSUME NEW s \in Slots, conns[s].conn = k
       PROVE  /\ conns[s].st = "SYN_SENT" => v.st # "OPEN"
              /\ conns[s].st = "ESTABLISHED" => v.una <= conns[s].rcv
  <2>1. conns[s].st # "CLOSED" => Fits(conns[s]) BY <1>17, SlotKnown
  <2> QED BY <1>2, <1>6, <1>17, <2>1 DEF Fits
<1>18. \A f \in out : f \in FrameSet /\ FrameOK(f)' BY <1>13
<1>19. ServerTurns(k, v, out)
  BY <1>1, <1>6, <1>10, <1>11, <1>12, <1>14, <1>16, <1>17, <1>18 DEF ServerTurns
<1> QED BY <1>19, ServerTurnsKeeps

(* The steps of the server's program.                                         *)
LEMMA ProgramStreams == ASSUME StreamInv, NEW k \in Connections, SrvProgram(k) PROVE Goes
<1>1. SrvSends({}, {}) /\ UNCHANGED heard BY DEF SrvProgram
<1>2. CASE SrvWrite(k) BY <1>1, <1>2, WriteStreams
<1>3. CASE SrvFin(k)
  <2>1. PICK v : v = [srv[k] EXCEPT !.fin = TRUE] OBVIOUS
  <2>2. srv[k] \in SrvSet BY ServerKnown
  <2>3. /\ v \in SrvSet /\ v.st = srv[k].st /\ v.rcv = srv[k].rcv /\ v.una = srv[k].una
        /\ v.wrote = srv[k].wrote
    BY <2>1, <2>2 DEF SrvSet
  <2>4. ServerIs(k, v) /\ UNCHANGED told BY <1>3, <2>1 DEF SrvFin
  <2>5. PICK out : out = {} OBVIOUS
  <2>6. SrvSends({}, out) /\ \A f \in out : f \in FrameSet /\ FrameOK(f)' BY <1>1, <2>5
  <2> QED BY <1>1, <2>3, <2>4, <2>6, SameServer
<1>4. CASE SrvDies(k)
  <2>1. ServerIs(k, NoServer) /\ UNCHANGED told BY <1>4 DEF SrvDies
  <2> QED BY <1>1, <2>1, DeadStreams
<1> QED BY <1>2, <1>3, <1>4 DEF SrvProgram

(* The server sends a piece of what it wrote, as often as it likes.           *)
LEMMA TransmitStreams == ASSUME StreamInv, NEW k \in Connections, SrvTransmit(k) PROVE Goes
<1>1. PICK v : v = srv[k] OBVIOUS
<1>2. v \in SrvSet /\ SrvOK(k) /\ Len(told[k]) \in Nat /\ told[k] \in Texts BY <1>1, ServerKnown
<1>3. v.st = "OPEN" /\ v.una \in Nat /\ v.wrote \in Nat /\ v.rcv \in Nat
  BY <1>1, <1>2 DEF SrvTransmit, SrvSet
<1>4. v.una >= 1 /\ v.wrote = Len(told[k]) /\ ~(k > opened) BY <1>1, <1>2, <1>3 DEF SrvOK
<1>5. PICK p \in v.una..v.wrote + 1, n \in 0..UIP_TCP_MSS, fin \in BOOLEAN :
         /\ p + n <= v.wrote + 1
         /\ UNCHANGED srv
         /\ SrvSends({}, {In(k, {"ACK"} \cup (IF fin THEN {"FIN"} ELSE {}), p, Bytes(k, p - 1, n))})
  BY <1>1 DEF SrvTransmit
<1>6. p \in Nat /\ n \in Nat /\ p >= 1
  BY <1>3, <1>4, <1>5, GlueAssumption DEF GlueAssumption
<1>7. PICK flags \in SUBSET Flags : flags = {"ACK"} \cup (IF fin THEN {"FIN"} ELSE {}) BY DEF Flags
<1>8. Bytes(k, p - 1, n) \in Texts BY <1>6 DEF Bytes, Byte, Texts, Word, AllBytes, Connections
<1>9. PICK data \in Texts : data = Bytes(k, p - 1, n) BY <1>8
<1>10. Len(data) = n /\ \A i \in 1..n : data[i] = Byte(k, p - 1 + i) BY <1>6, <1>9 DEF Bytes
<1>11. PICK g : g = In(k, flags, p, data) OBVIOUS
<1>12. PICK out : out = {g} OBVIOUS
<1>13. SrvSends({}, out) BY <1>5, <1>7, <1>9, <1>11, <1>12
<1>14. UNCHANGED <<told, heard, srv>> BY <1>5 DEF SrvTransmit
<1>15. k \in 1..opened
  <2>1. opened \in Nat /\ k \in Nat /\ k >= 1 BY DEF StreamInv, StreamTypes, Connections
  <2> QED BY <1>4, <2>1
<1>16. opened' = opened /\ UNCHANGED conns BY <1>13, ServerNet
<1>17. /\ g \in FrameSet /\ g.conn = k /\ g.flags = flags /\ g.seq = p /\ g.ack = v.rcv
       /\ g.data = data /\ g.dir = "in" /\ g.conn \in 1..opened'
  <2>1. srv'[k] = v BY <1>1, <1>14
  <2> QED BY <1>3, <1>6, <1>11, <1>15, <1>16, <2>1, InFrame
<1>18. Piece(data, p - 1, told[k])
  <2>1. p - 1 + Len(data) <= Len(told[k]) BY <1>3, <1>4, <1>5, <1>6, <1>10
  <2>2. ASSUME NEW i \in 1..Len(data) PROVE data[i] = told[k][p - 1 + i]
    <3>1. p - 1 + i \in 1..Len(told[k]) BY <1>2, <1>6, <1>10, <2>1
    <3>2. told[k][p - 1 + i] = Byte(k, p - 1 + i) BY <1>2, <3>1 DEF SrvOK
    <3> QED BY <1>10, <3>2
  <2> QED BY <2>1, <2>2 DEF Piece
<1>19. Open(k)' => v.rcv <= 1 + Len(heard'[k])
  <2>1. Open(k)' = Open(k) BY <1>16 DEF Open, Talks
  <2>2. Len(heard[k]) \in Nat BY ServerKnown
  <2> QED BY <1>1, <1>2, <1>3, <1>14, <2>1, <2>2 DEF SrvOK
<1>20. InOK(g)'
  <2>1. "SYN" \notin g.flags BY <1>7, <1>17
  <2>2. Piece(g.data, g.seq - 1, told'[k]) BY <1>14, <1>17, <1>18
  <2> QED BY <1>6, <1>17, <1>19, <2>1, <2>2 DEF InOK
<1>21. \A f \in out : f \in FrameSet /\ FrameOK(f)' BY <1>12, <1>17, <1>20 DEF FrameOK
<1>22. ServerIs(k, v)
  <2>1. srv \in [Connections -> SrvSet] BY DEF StreamInv, StreamTypes
  <2> QED BY <1>1, <1>14, <2>1 DEF ServerIs
<1> QED BY <1>1, <1>2, <1>13, <1>14, <1>21, <1>22, SameServer

(* The server takes a segment: new bytes, old ones or an acknowledgement.     *)
LEMMA TakeStreams ==
    ASSUME StreamInv, NEW f \in net, f.dir = "out", SrvRecv(f.conn, f)
    PROVE  Goes
<1>1. PICK k : k = f.conn OBVIOUS
<1>2. k \in 1..opened /\ f \in FrameSet /\ "RST" \notin f.flags /\ OutOK(f)
  BY <1>1 DEF StreamInv, StreamTypes, FrameOK, SrvRecv
<1>3. k \in Connections BY <1>2, OpenedIn
<1>4. PICK v : v = srv[k] OBVIOUS
<1>5. /\ v \in SrvSet /\ SrvOK(k) /\ told \in Texting /\ heard \in Texting
      /\ asked[k] \in Texts /\ heard[k] \in Texts /\ told[k] \in Texts
      /\ Len(asked[k]) \in Nat /\ Len(heard[k]) \in Nat
      /\ Begins(told[k], told[k]) /\ Begins(heard[k], heard[k])
  BY <1>3, <1>4, ServerKnown
<1>6. /\ v.rcv \in Nat /\ v.una \in Nat /\ v.wrote \in Nat /\ v.st \in {"SYN_RCVD", "OPEN"}
  BY <1>1, <1>4, <1>5 DEF SrvSet, SrvRecv
<1>7. f.seq \in Nat /\ f.ack \in Nat /\ f.data \in Texts /\ Len(f.data) \in Nat
  BY <1>2 DEF FrameSet, Texts
<1>8. ~(k > opened)
  <2>1. opened \in Int BY DEF StreamInv, StreamTypes
  <2> QED BY <1>2, <2>1
<1>9. PICK last : last = v.wrote + 1 + (IF v.fin THEN 1 ELSE 0) OBVIOUS
<1>10. last \in Nat /\ last >= v.wrote + 1 BY <1>6, <1>9
<1>11. PICK una : una = IF v.una < f.ack /\ f.ack <= last THEN f.ack ELSE v.una OBVIOUS
<1>12. una \in Nat /\ (una = f.ack \/ una = v.una) /\ una >= v.una BY <1>6, <1>7, <1>10, <1>11
<1>13. PICK len : len = Len(f.data) + (IF "FIN" \in f.flags THEN 1 ELSE 0) OBVIOUS
<1>14. len \in Nat
  <2>1. CASE "FIN" \in f.flags
    <3>1. len = Len(f.data) + 1 BY <1>13, <2>1
    <3> QED BY <1>7, <3>1
  <2>2. CASE "FIN" \notin f.flags
    <3>1. len = Len(f.data) + 0 BY <1>13, <2>2
    <3> QED BY <1>7, <3>1
  <2> QED BY <2>1, <2>2
<1>15. PICK rcv : rcv = IF f.seq = v.rcv THEN v.rcv + len ELSE v.rcv OBVIOUS
<1>16. rcv \in Nat BY <1>6, <1>14, <1>15
<1>17. PICK w : w = [v EXCEPT !.st = "OPEN", !.una = una, !.rcv = rcv] OBVIOUS
<1>18. /\ w \in SrvSet /\ w.st = "OPEN" /\ w.una = una /\ w.rcv = rcv /\ w.wrote = v.wrote
  BY <1>5, <1>12, <1>16, <1>17 DEF SrvSet
<1>19. PICK more : more = IF f.seq = v.rcv THEN heard[k] \o f.data ELSE heard[k] OBVIOUS
<1>20. PICK g : g = In(k, {"ACK"}, 0, << >>) OBVIOUS
<1>21. PICK out : out = IF len > 0 THEN {g} ELSE {} OBVIOUS
<1>22. /\ v.st = "OPEN" \/ f.ack = 1
       /\ ServerIs(k, w) /\ UNCHANGED told /\ heard' = [heard EXCEPT ![k] = more]
       /\ SrvSends({f}, out)
  <2>1. /\ v.st = "OPEN" \/ f.ack = 1
        /\ ServerIs(k, [v EXCEPT !.st = "OPEN", !.una = una,
                                 !.rcv = IF f.seq = v.rcv THEN @ + len ELSE @])
        /\ UNCHANGED told
        /\ heard' = [heard EXCEPT ![k] = IF f.seq = v.rcv THEN @ \o f.data ELSE @]
        /\ SrvSends({f}, IF len > 0 THEN {In(k, {"ACK"}, 0, << >>)} ELSE {})
    BY <1>1, <1>4, <1>9, <1>11, <1>13 DEF SrvRecv
  <2>2. [v EXCEPT !.st = "OPEN", !.una = una, !.rcv = IF f.seq = v.rcv THEN @ + len ELSE @] = w
    BY <1>15, <1>17
  <2>3. ServerIs(k, w) BY <2>1, <2>2
  <2>4. heard' = [heard EXCEPT ![k] = more] BY <1>19, <2>1
  <2>5. SrvSends({f}, out) BY <1>20, <1>21, <2>1
  <2> QED BY <2>1, <2>3, <2>4, <2>5
<1>23. net' \subseteq net \cup out /\ UNCHANGED <<conns, at, opened, asked, fed, app, pending>>
  BY <1>22, ServerNet
<1>24. srv'[k] = w
  <2>1. srv \in [Connections -> SrvSet] BY DEF StreamInv, StreamTypes
  <2> QED BY <1>3, <1>22, <2>1 DEF ServerIs
(* Where the server is in its stream.                                         *)
<1>25. /\ \/ v.rcv = 1 + Len(heard[k])
          \/ v.rcv = 2 + Len(heard[k]) /\ Len(heard[k]) = Len(asked[k]) /\ ~Open(k)
       /\ v.wrote = Len(told[k])
  <2>1. CASE v.st = "OPEN" BY <1>4, <1>5, <2>1 DEF SrvOK
  <2>2. CASE v.st = "SYN_RCVD"
    <3>1. v.rcv = 1 /\ heard[k] = << >> /\ told[k] = << >> /\ v.wrote = 0 BY <1>4, <1>5, <2>2 DEF SrvOK
    <3>2. Len(heard[k]) = 0 /\ Len(told[k]) = 0 BY <3>1
    <3> QED BY <3>1, <3>2
  <2> QED BY <1>6, <2>1, <2>2
<1>26. una >= 1
  <2>1. CASE v.st = "OPEN"
    <3>1. v.una >= 1 BY <1>4, <1>5, <2>1 DEF SrvOK
    <3> QED BY <1>6, <1>12, <3>1
  <2>2. CASE v.st = "SYN_RCVD"
    <3>1. v.una = 0 /\ f.ack = 1 BY <1>4, <1>5, <1>22, <2>2 DEF SrvOK
    <3> QED BY <1>6, <1>10, <1>11, <3>1
  <2> QED BY <1>6, <2>1, <2>2
(* What it takes follows what it has.                                         *)
<1>27. more \in Texts /\ Begins(heard[k], more) /\ Begins(more, asked[k])
  <2>1. Begins(heard[k], asked[k]) BY <1>5 DEF SrvOK
  <2>2. CASE f.seq # v.rcv BY <1>5, <1>19, <2>1, <2>2
  <2>3. CASE f.seq = v.rcv /\ f.data = << >>
    <3>1. more = heard[k] BY <1>5, <1>19, <2>3 DEF Texts
    <3> QED BY <1>5, <2>1, <3>1
  <2>4. CASE f.seq = v.rcv /\ f.data # << >>
    <3>1. f.seq >= 1 /\ Piece(f.data, f.seq - 1, asked[k]) BY <1>1, <1>2, <2>4 DEF OutOK
    <3>2. Len(f.data) # 0 BY <1>7, <2>4, NothingBegins
    <3>3. f.seq - 1 + Len(f.data) <= Len(asked[k]) BY <3>1 DEF Piece
    <3>4. v.rcv = 1 + Len(heard[k]) BY <1>5, <1>7, <1>25, <2>4, <3>2, <3>3
    <3>5. f.seq - 1 = Len(heard[k]) BY <1>5, <2>4, <3>4
    <3>6. Piece(f.data, Len(heard[k]), asked[k]) BY <3>1, <3>5
    <3>7. more = heard[k] \o f.data BY <1>19, <2>4
    <3> QED BY <1>5, <1>7, <2>1, <3>6, <3>7, Joined, PieceFollows
  <2> QED BY <2>2, <2>3, <2>4
<1>28. heard' \in Texting /\ heard'[k] = more /\ \A j \in Connections : j # k => heard'[j] = heard[j]
  BY <1>3, <1>5, <1>22, <1>27 DEF Texting
<1>29. \/ rcv = 1 + Len(more)
       \/ rcv = 2 + Len(more) /\ Len(more) = Len(asked[k]) /\ ~Open(k)
  <2>1. CASE f.seq # v.rcv BY <1>15, <1>19, <1>25, <2>1
  <2>2. CASE f.seq = v.rcv
    <3>1. Len(more) = Len(heard[k]) + Len(f.data) BY <1>5, <1>7, <1>19, <2>2, Joined
    <3>2. rcv = v.rcv + len BY <1>15, <2>2
    <3>3. CASE "FIN" \in f.flags
      <4>1. f.data = << >> /\ f.seq = 1 + Len(asked[k]) /\ ~Open(k) BY <1>1, <1>2, <3>3 DEF OutOK
      <4>2. Len(f.data) = 0 BY <4>1
      <4>3. len = 1 BY <1>13, <3>3, <4>2
      <4> QED BY <1>5, <1>25, <2>2, <3>1, <3>2, <4>1, <4>2, <4>3
    <3>4. CASE "FIN" \notin f.flags
      <4>1. PICK l \in Nat, h \in Nat : l = Len(f.data) /\ h = Len(heard[k]) BY <1>5, <1>7
      <4>2. len = l
        <5>1. len = Len(f.data) + 0 BY <1>13, <3>4
        <5> QED BY <4>1, <5>1
      <4>3. Len(more) = h + l /\ rcv = v.rcv + l BY <3>1, <3>2, <4>1, <4>2
      <4>4. CASE v.rcv = 1 + h BY <4>3, <4>4
      <4>5. CASE v.rcv = 2 + h /\ h = Len(asked[k]) /\ ~Open(k)
        <5>1. Len(more) <= h BY <1>27, <4>5 DEF Begins
        <5>2. l = 0
          <6>1. l \in Nat /\ h \in Nat /\ h + l <= h BY <4>1, <4>3, <5>1
          <6> QED BY <6>1
        <5>3. Len(more) = h /\ rcv = 2 + h BY <4>1, <4>3, <4>5, <5>2
        <5> QED BY <4>5, <5>3
      <4> QED BY <1>25, <4>1, <4>4, <4>5
    <3> QED BY <3>3, <3>4
  <2> QED BY <2>1, <2>2
<1>30. SrvOK(k)'
  <2>1. Open(k)' = Open(k) BY <1>23 DEF Open, Talks
  <2> QED BY <1>5, <1>8, <1>18, <1>22, <1>23, <1>24, <1>25, <1>26, <1>27, <1>28, <1>29, <2>1 DEF SrvOK
<1>31. ASSUME NEW s \in Slots, conns[s].conn = k
       PROVE  /\ conns[s].st = "SYN_SENT" => w.st # "OPEN"
              /\ conns[s].st = "ESTABLISHED" => w.una <= conns[s].rcv
  <2>1. conns[s].st # "CLOSED" => Fits(conns[s]) BY <1>31, SlotKnown
  <2>2. Talks(s) => f.ack <= conns[s].rcv BY <1>1, <1>2, <1>31 DEF OutOK
  <2>3. conns[s].st # "SYN_SENT"
    <3>1. SUFFICES ASSUME conns[s].st = "SYN_SENT" PROVE FALSE OBVIOUS
    <3>2. conns[s].rcv = 0 /\ v.st # "OPEN" BY <1>4, <1>31, <2>1, <3>1 DEF Fits
    <3>3. f.ack = 1 BY <1>22, <3>2
    <3> QED BY <2>2, <3>1, <3>2, <3>3 DEF Talks, Talking
  <2>4. ASSUME conns[s].st = "ESTABLISHED" PROVE una <= conns[s].rcv
    <3>1. v.una <= conns[s].rcv BY <1>4, <1>31, <2>1, <2>4 DEF Fits
    <3>2. f.ack <= conns[s].rcv BY <2>2, <2>4 DEF Talks, Talking
    <3> QED BY <1>12, <3>1, <3>2
  <2> QED BY <1>18, <2>3, <2>4
<1>32. g \in FrameSet /\ FrameOK(g)'
  <2>1. PICK flags \in SUBSET Flags : flags = {"ACK"} BY DEF Flags
  <2>2. << >> \in Texts BY DEF Texts
  <2>3. PICK data \in Texts : data = << >> BY <2>2
  <2>4. /\ g \in FrameSet /\ g.conn = k /\ g.flags = flags /\ g.ack = rcv
        /\ g.data = data /\ g.dir = "in" /\ g.conn \in 1..opened'
    <3>1. PICK seq \in Nat : seq = 0 OBVIOUS
    <3>2. g = In(k, flags, seq, data) BY <1>20, <2>1, <2>3, <3>1
    <3>3. w.rcv \in Nat /\ opened' = opened BY <1>16, <1>18, <1>23
    <3> QED BY <1>2, <1>18, <1>24, <3>2, <3>3, InFrame
  <2>5. Open(k)' => rcv <= 1 + Len(heard'[k])
    <3>1. Open(k)' = Open(k) BY <1>23 DEF Open, Talks
    <3>2. Len(more) \in Nat BY <1>27 DEF Texts
    <3> QED BY <1>28, <1>29, <3>1, <3>2
  <2>6. InOK(g)' BY <2>1, <2>3, <2>4, <2>5 DEF InOK
  <2> QED BY <2>4, <2>6 DEF FrameOK
<1>33. \A h \in out : h \in FrameSet /\ FrameOK(h)' BY <1>21, <1>32
<1>34. told' \in Texting /\ (\A j \in Connections : j # k => told'[j] = told[j]) /\ Begins(told[k], told'[k])
  BY <1>5, <1>22
<1>35. Begins(heard[k], heard'[k]) BY <1>27, <1>28
<1>36. ServerTurns(k, w, out)
  BY <1>3, <1>18, <1>22, <1>23, <1>28, <1>30, <1>31, <1>33, <1>34, <1>35 DEF ServerTurns
<1> QED BY <1>36, ServerTurnsKeeps

(* The steps outside ppos.                                                    *)
LEMMA OutsideStreams == ASSUME StreamInv, Outside PROVE Goes
<1>1. ASSUME GatewayAsks PROVE Goes
  <2>1. UNCHANGED <<conns, asked, fed, heard, told, srv, opened, net, pending, at, app>>
    BY <1>1 DEF GatewayAsks, histories
  <2>2. pending' \in Texts /\ AppTyped' /\ at' \in 0..UIP_CONNS - 1
    BY <2>1 DEF StreamInv, StreamTypes, AppTyped
  <2> QED BY <2>1, <2>2, QuietStreams
<1>2. ASSUME NEW k \in Connections, SrvProgram(k) \/ SrvTransmit(k) PROVE Goes
  BY <1>2, ProgramStreams, TransmitStreams
<1>3. ASSUME NEW f \in net, f.dir = "out", SrvRst(f.conn, f) PROVE Goes
  <2>1. PICK k : k = f.conn OBVIOUS
  <2>2. k \in Connections BY <2>1, OpenedIn DEF StreamInv, FrameOK
  <2>3. ServerIs(k, NoServer) /\ SrvSends({f}, {}) /\ UNCHANGED <<told, heard>>
    BY <1>3, <2>1 DEF SrvRst
  <2> QED BY <2>2, <2>3, DeadStreams
<1>4. ASSUME NEW f \in net, f.dir = "out",
             SrvSyn(f.conn, f) \/ SrvRecv(f.conn, f) \/ SrvRefuse(f.conn, f)
      PROVE  Goes
  BY <1>4, SynStreams, TakeStreams, RefuseStreams
<1> QED BY <1>1, <1>2, <1>3, <1>4 DEF Outside, Server

(* Every step.                                                                *)
LEMMA StreamsStep == ASSUME StreamInv, [Next]_vars PROVE Goes
<1>1. CASE App BY <1>1, AppStreams
<1>2. CASE Poll BY <1>2, PollStreamsAll
<1>3. CASE Outside BY <1>3, OutsideStreams
<1>4. CASE UNCHANGED vars
  <2>1. UNCHANGED <<conns, asked, fed, heard, told, srv, opened, net, pending, at, app>>
    BY <1>4 DEF vars
  <2>2. pending' \in Texts /\ AppTyped' /\ at' \in 0..UIP_CONNS - 1
    BY <2>1 DEF StreamInv, StreamTypes, AppTyped
  <2> QED BY <2>1, <2>2, QuietStreams
<1> QED BY <1>1, <1>2, <1>3, <1>4 DEF Next

(* The beginning.                                                             *)
LEMMA StreamsBegin == ASSUME Init PROVE StreamInv /\ S!StreamInit
<1>1. /\ conns = [s \in Slots |-> Closed] /\ pending = << >> /\ at = 0 /\ opened = 0 /\ net = {}
      /\ asked = [k \in Connections |-> << >>] /\ fed = [k \in Connections |-> << >>]
      /\ told = [k \in Connections |-> << >>] /\ heard = [k \in Connections |-> << >>]
      /\ app = [phase |-> "idle", said |-> 0, got |-> << >>]
  BY DEF Init, ClientInit
<1>2. PICK v : v = [NoServer EXCEPT !.st = "LISTEN"] OBVIOUS
<1>3. v \in SrvSet /\ v.st = "LISTEN" /\ v.una = 0 /\ v.wrote = 0
  BY <1>2 DEF NoServer, SrvSet
<1>4. srv = [k \in Connections |-> v] BY <1>2 DEF Init
<1>5. << >> \in Texts /\ Len(<< >>) = 0 BY DEF Texts
<1>6. StreamTypes
  <2>1. conns = [s \in Slots |-> conns[s]] /\ \A s \in Slots : ConnTyped(conns[s])
    BY <1>1, ClosedTyped
  <2>2. opened \in 0..OpenMax /\ at \in 0..UIP_CONNS - 1 BY <1>1, GlueAssumption DEF GlueAssumption
  <2>3. AppTyped BY <1>1 DEF AppTyped
  <2>4. asked \in Texting /\ fed \in Texting /\ told \in Texting /\ heard \in Texting
    BY <1>1, <1>5 DEF Texting
  <2> QED BY <1>1, <1>3, <1>4, <1>5, <2>1, <2>2, <2>3, <2>4 DEF StreamTypes
<1>7. ASSUME NEW s \in Slots PROVE SlotOK(s) BY <1>1, ClosedTyped DEF SlotOK
<1>8. ASSUME NEW k \in Connections PROVE SrvOK(k)
  <2>1. asked[k] = << >> /\ fed[k] = << >> /\ told[k] = << >> /\ heard[k] = << >> /\ srv[k] = v
    BY <1>1, <1>4
  <2> QED BY <1>3, <1>5, <2>1, BeginsItself DEF SrvOK
<1>9. StreamInv BY <1>1, <1>6, <1>7, <1>8 DEF StreamInv
<1>10. ASSUME NEW k \in Connections PROVE Over[k] = FALSE
  <2>1. k \in Nat /\ k >= 1 BY DEF Connections
  <2>2. ~(k <= opened) BY <1>1, <2>1
  <2> QED BY <2>2 DEF Over
<1>11. Over = [k \in Connections |-> FALSE] BY <1>10 DEF Over
<1>12. S!StreamInit BY <1>1, <1>11 DEF S!StreamInit, Over
<1> QED BY <1>9, <1>12

-----------------------------------------------------------------------------
(* The numbers of an open connection count its bytes and its two ends agree   *)
(* (uip_process against a peer), for any number of slots and connections, any *)
(* bounds, a network that loses, repeats and reorders, and a server that may  *)
(* die.                                                                       *)
THEOREM EndsStayInStep == Spec => []EndsAgree
<1>1. Init => StreamInv BY StreamsBegin
<1>2. StreamInv /\ [Next]_vars => StreamInv' BY StreamsStep DEF Goes
<1>3. StreamInv => EndsAgree
  <2>1. ASSUME StreamInv, NEW s \in Slots, NEW c, c = conns[s], NEW k, k = c.conn, c.st = "ESTABLISHED"
        PROVE  /\ c.snd + c.len = 1 + Len(asked[k])
               /\ c.rcv = 1 + Len(fed[k])
               /\ srv[k].st = "OPEN" => /\ srv[k].rcv \in c.snd..c.snd + c.len
                                        /\ srv[k].una <= c.rcv
    <3>1. k \in Connections /\ Fits(c) /\ ConnTyped(c) BY <2>1, SlotKnown
    <3>2. /\ c.snd + c.len = 1 + Len(asked[k]) /\ c.rcv = 1 + Len(fed[k])
          /\ c.snd <= 1 + Len(heard[k]) /\ srv[k].una <= c.rcv
      BY <2>1, <3>1 DEF Fits
    <3>3. ASSUME srv[k].st = "OPEN" PROVE srv[k].rcv \in c.snd..c.snd + c.len
      <4>1. SrvOK(k) /\ Len(heard[k]) \in Nat /\ Len(asked[k]) \in Nat BY <2>1, <3>1, ServerKnown
      <4>2. Open(k) BY <2>1 DEF Open, Talks, Talking
      <4>3. srv[k].rcv = 1 + Len(heard[k]) BY <3>3, <4>1, <4>2 DEF SrvOK
      <4>4. Len(heard[k]) <= Len(asked[k]) BY <4>1 DEF SrvOK, Begins
      <4>5. c.snd \in Nat BY <3>1 DEF ConnTyped
      <4> QED BY <3>2, <4>1, <4>3, <4>4, <4>5
    <3> QED BY <3>2, <3>3
  <2> QED BY <2>1 DEF EndsAgree
<1> QED BY <1>1, <1>2, <1>3, PTL DEF Spec

(* Each connection of uip_glue.c is two streams that give every byte once and *)
(* in order, and nothing after the connection's end (Stream).                 *)
THEOREM ConnectionsAreStreams == Spec => ImplementsStream
<1>1. Init => StreamInv /\ S!StreamInit BY StreamsBegin
<1>2. StreamInv /\ [Next]_vars => StreamInv' /\ [S!StreamNext]_(S!streamVars)
  BY StreamsStep DEF Goes, Refines
<1> QED BY <1>1, <1>2, PTL DEF Spec, ImplementsStream, S!StreamSpec
-----------------------------------------------------------------------------
(* Types.  What TcpTypeOK says beyond StreamInv and QueueInv.                 *)

ConnSet == [st : States, conn : 0..OpenMax, snd : Nat, len : Nat, rcv : Nat,
            timer : Nat, rto : Nat, nrtx : Nat]
GlueSet == [established : BOOLEAN, closed : BOOLEAN, error : BOOLEAN]

TypesInv == /\ conns \in [Slots -> ConnSet] /\ glue \in GlueSet
            /\ Len(pending) <= PENDING_CAP

LEMMA SlotTypes ==
    ASSUME TypesInv, NEW t, NEW d \in ConnSet, SlotGets(t, d)
    PROVE  conns' \in [Slots -> ConnSet]
BY DEF TypesInv, SlotGets

LEMMA ClosedInSet == Closed \in ConnSet
BY GlueAssumption DEF Closed, ConnSet, States, GlueAssumption

(* uip_appcall sets flags and clears none.                                    *)
LEMMA CallTypes ==
    ASSUME TypesInv, NEW k, NEW flags, NEW data, AppCall(k, flags, data)
    PROVE  glue' \in GlueSet
<1>1. PICK a, b, c : glue' = [established |-> glue.established \/ a, closed |-> glue.closed \/ b \/ c,
                              error |-> glue.error \/ b]
  BY DEF AppCall
<1> QED BY <1>1 DEF TypesInv, GlueSet

(* The timeout doubles at most four times.                                    *)
LEMMA BackoffTypes == ASSUME NEW n \in Nat PROVE UIP_RTO * 2 ^ (IF n > 4 THEN 4 ELSE n) \in Nat
<1>1. 2^0 = 1 /\ 2^1 = 2 /\ 2^2 = 4 /\ 2^3 = 8 /\ 2^4 = 16 OBVIOUS
<1>2. PICK k \in 0..4 : k = IF n > 4 THEN 4 ELSE n OBVIOUS
<1>3. k = 0 \/ k = 1 \/ k = 2 \/ k = 3 \/ k = 4 OBVIOUS
<1>4. PICK p \in Nat : p = 2^k BY <1>1, <1>3
<1>5. UIP_RTO * p \in Nat BY GlueAssumption DEF GlueAssumption
<1> QED BY <1>2, <1>4, <1>5

LEMMA TickTypes == ASSUME StreamInv, TypesInv, Tick PROVE TypesInv'
<1>1. PICK t \in Slots : t = Slot BY SlotIn DEF StreamInv
<1>2. PICK c \in ConnSet : c = conns[t] BY DEF TypesInv
<1>3. ASSUME NEW d \in ConnSet, Visit(d) PROVE conns' \in [Slots -> ConnSet]
  BY <1>1, <1>3, SlotTypes DEF Visit, SlotGets
<1>4. CASE TimerSkip BY <1>4 DEF TimerSkip, TypesInv
<1>5. CASE TimerWait
  <2>1. PICK d : d = [c EXCEPT !.timer = c.timer - 1] OBVIOUS
  <2>2. Visit(d) /\ c.timer # 0 /\ UNCHANGED <<glue, pending>> BY <1>1, <1>2, <1>5, <2>1 DEF TimerWait
  <2>3. d \in ConnSet BY <2>1, <2>2 DEF ConnSet
  <2> QED BY <1>3, <2>2, <2>3 DEF TypesInv
<1>6. CASE TimerGiveUp
  <2>1. Visit(Closed) /\ UNCHANGED pending /\ AppCall(conns[Slot].conn, {"TIMEDOUT"}, << >>)
    BY <1>6 DEF TimerGiveUp
  <2> QED BY <1>3, <2>1, ClosedInSet, CallTypes DEF TypesInv
<1>7. CASE TimerResend
  <2>1. PICK wait \in Nat : wait = UIP_RTO * 2 ^ (IF c.nrtx > 4 THEN 4 ELSE c.nrtx)
    BY BackoffTypes DEF ConnSet
  <2>2. PICK d : d = [c EXCEPT !.timer = wait, !.nrtx = c.nrtx + 1] OBVIOUS
  <2>3. Visit(d) /\ UNCHANGED <<glue, pending>> BY <1>1, <1>2, <1>7, <2>1, <2>2 DEF TimerResend
  <2>4. d \in ConnSet
    <3>1. PICK more \in Nat : more = c.nrtx + 1 BY DEF ConnSet
    <3> QED BY <2>2, <3>1 DEF ConnSet
  <2> QED BY <1>3, <2>3, <2>4 DEF TypesInv
<1>8. CASE TimerPoll
  <2>1. PICK m : m = Len(pending) OBVIOUS
  <2>2. m \in Nat /\ pending \in Texts BY <2>1 DEF StreamInv, StreamTypes, Texts
  <2>3. PICK n : n = IF m > UIP_TCP_MSS THEN UIP_TCP_MSS ELSE m OBVIOUS
  <2>4. n \in Nat /\ n <= m BY <2>2, <2>3, GlueAssumption DEF GlueAssumption
  <2>5. PICK d : d = [c EXCEPT !.len = n, !.nrtx = 0] OBVIOUS
  <2>6. Visit(d) /\ UNCHANGED glue /\ pending' = SubSeq(pending, n + 1, m)
    BY <1>1, <1>2, <1>8, <2>1, <2>3, <2>5 DEF TimerPoll
  <2>7. d \in ConnSet BY <2>4, <2>5 DEF ConnSet
  <2>8. Len(pending') = m - n BY <2>1, <2>2, <2>4, <2>6 DEF Texts
  <2>9. Len(pending') <= PENDING_CAP BY <2>1, <2>2, <2>4, <2>8, GlueAssumption DEF GlueAssumption, TypesInv
  <2> QED BY <1>3, <2>6, <2>7, <2>9 DEF TypesInv
<1> QED BY <1>4, <1>5, <1>6, <1>7, <1>8 DEF Tick

(* What an acknowledgement makes of a slot.                                   *)
LEMMA AckTypes ==
    ASSUME NEW f, NEW c \in ConnSet, NEW r \in Rtos
    PROVE  AfterAck(f, c, r) \in ConnSet /\ AfterAck(f, c, r).st = c.st
<1>1. r \in Nat BY GlueAssumption DEF GlueAssumption
<1>2. PICK rto \in Nat : rto = IF c.nrtx = 0 THEN r ELSE c.rto BY <1>1 DEF ConnSet
<1>3. PICK d : d = [c EXCEPT !.snd = c.snd + c.len, !.len = 0, !.timer = rto, !.rto = rto] OBVIOUS
<1>4. d \in ConnSet /\ d.st = c.st
  <2>1. PICK snd \in Nat : snd = c.snd + c.len BY DEF ConnSet
  <2> QED BY <1>3, <2>1 DEF ConnSet
<1> QED BY <1>2, <1>3, <1>4 DEF AfterAck

LEMMA SegmentTypes == ASSUME StreamInv, TypesInv, RecvSegment PROVE TypesInv'
<1>1. PICK f \in net : f.dir = "in" /\ (RecvNoConn(f) \/ \E t \in SlotsOf(f.conn) : RecvFor(f, t))
  BY DEF RecvSegment
<1>2. f.seq \in Nat /\ Len(f.data) \in Nat BY <1>1, FrameKnown
<1>3. PICK n \in Nat, len \in Nat : n = f.seq /\ len = Len(f.data) BY <1>2
<1>4. CASE RecvNoConn(f) BY <1>4 DEF RecvNoConn, TypesInv
<1>5. ASSUME NEW t \in SlotsOf(f.conn), RecvFor(f, t) PROVE TypesInv'
  <2>1. PICK c \in ConnSet : c = conns[t] BY DEF TypesInv, SlotsOf
  <2>2. ASSUME NEW d \in ConnSet, Becomes(t, d), UNCHANGED pending,
               NEW flags, NEW data, AppCall(f.conn, flags, data)
        PROVE  TypesInv'
    BY <2>2, SlotTypes, CallTypes DEF Becomes, SlotGets, TypesInv
  <2>3. CASE RecvRst(f, t) BY <2>2, <2>3, ClosedInSet DEF RecvRst
  <2>4. CASE RecvLastAck(f, t) BY <2>2, <2>4, ClosedInSet DEF RecvLastAck
  <2>5. CASE RecvOutOfOrder(f, t) \/ RecvDropped(f, t)
    BY <2>5 DEF RecvOutOfOrder, RecvDropped, TypesInv
  <2>6. ASSUME NEW r \in Rtos, RecvSynAck(f, t, r) PROVE TypesInv'
    <3>1. PICK a \in ConnSet : a = AfterAck(f, c, r) BY AckTypes
    <3>2. PICK d : d = [a EXCEPT !.st = "ESTABLISHED", !.rcv = n + 1, !.nrtx = 0] OBVIOUS
    <3>3. d \in ConnSet
      <4>1. PICK rcv \in Nat : rcv = n + 1 OBVIOUS
      <4> QED BY <3>2, <4>1 DEF ConnSet, States
    <3>4. Becomes(t, d) /\ UNCHANGED pending /\ AppCall(f.conn, {"CONNECTED"}, << >>)
      BY <1>3, <2>1, <2>6, <3>1, <3>2 DEF RecvSynAck
    <3> QED BY <2>2, <3>3, <3>4
  <2>7. ASSUME NEW r \in Rtos, RecvFin(f, t, r) PROVE TypesInv'
    <3>1. PICK a \in ConnSet : a = AfterAck(f, c, r) BY AckTypes
    <3>2. PICK d : d = [a EXCEPT !.rcv = a.rcv + len + 1, !.len = 1, !.st = "LAST_ACK", !.nrtx = 0]
      OBVIOUS
    <3>3. d \in ConnSet
      <4>1. PICK rcv \in Nat : rcv = a.rcv + len + 1 BY DEF ConnSet
      <4> QED BY <3>2, <4>1 DEF ConnSet, States
    <3>4. Becomes(t, d) /\ UNCHANGED pending /\ AppCall(f.conn, {"CLOSE"}, f.data)
      BY <1>3, <2>1, <2>7, <3>1, <3>2 DEF RecvFin
    <3> QED BY <2>2, <3>3, <3>4
  <2>8. ASSUME NEW r \in Rtos, RecvData(f, t, r) PROVE TypesInv'
    <3>1. PICK a \in ConnSet : a = AfterAck(f, c, r) BY AckTypes
    <3>2. PICK e : e = [a EXCEPT !.rcv = a.rcv + len, !.nrtx = 0] OBVIOUS
    <3>3. e \in ConnSet
      <4>1. PICK rcv \in Nat : rcv = a.rcv + len BY DEF ConnSet
      <4> QED BY <3>2, <4>1 DEF ConnSet
    <3>4. PICK d \in {e, Closed} : Becomes(t, d)
      BY <1>3, <2>1, <2>8, <3>1, <3>2 DEF RecvData
    <3>5. UNCHANGED pending /\ AppCall(f.conn, {}, f.data) BY <2>8 DEF RecvData
    <3> QED BY <2>2, <3>3, <3>4, <3>5, ClosedInSet
  <2> QED BY <1>5, <2>3, <2>4, <2>5, <2>6, <2>7, <2>8 DEF RecvFor
<1> QED BY <1>1, <1>4, <1>5

LEMMA AppTypes == ASSUME StreamInv, TypesInv, App PROVE TypesInv'
<1>1. Len(<< >>) = 0 /\ PENDING_CAP \in Nat /\ NoFlags \in GlueSet
  BY GlueAssumption DEF GlueAssumption, NoFlags, GlueSet
<1>2. CASE Connect
  <2>1. PICK d, t : d = Opening(opened + 1) /\ t = LowestIn(ClosedSlots) OBVIOUS
  <2>2. d \in ConnSet
    BY <1>2, <2>1, GlueAssumption
       DEF GlueAssumption, Connect, Opening, ConnSet, States, Connections
  <2>3. SlotGets(t, d) BY <1>2, <2>1 DEF Connect, SlotGets
  <2> QED BY <1>1, <1>2, <2>2, <2>3, SlotTypes DEF Connect, ResetGlue, TypesInv
<1>3. CASE ConnectRefused
  BY <1>1, <1>3 DEF ConnectRefused, ResetGlue, TypesInv
<1>4. CASE AppConnected \/ AppEnd
  BY <1>4 DEF AppConnected, AppEnd, clientVars, TypesInv
<1>5. ASSUME NEW n \in Requests, AppSend(n) PROVE TypesInv'
  <2>1. PICK data : data = Bytes(opened, app.said, n) OBVIOUS
  <2>2. data \in Texts /\ pending \in Texts
    <3>1. opened \in Connections /\ app.said \in Nat /\ n \in Nat
      BY <1>5, TcpAssumption DEF StreamInv, StreamTypes, AppTyped, AppSend, TcpAssumption
    <3>2. data \in Texts BY <2>1, <3>1 DEF Bytes, Byte, Texts, Word, AllBytes
    <3> QED BY <3>2 DEF StreamInv, StreamTypes
  <2>3. pending' = pending \o data /\ UNCHANGED <<conns, glue>> /\ Len(pending) + Len(data) <= PENDING_CAP
    BY <1>5, <2>1 DEF AppSend, GlueSend, Accepts
  <2>4. Len(pending') = Len(pending) + Len(data) BY <2>2, <2>3, Joined
  <2> QED BY <2>3, <2>4 DEF TypesInv
<1>6. ASSUME NEW n, AppRecv(n) PROVE TypesInv'
  BY <1>6 DEF AppRecv, GlueRecv, TypesInv
<1> QED BY <1>2, <1>3, <1>4, <1>5, <1>6 DEF App, AppConnect

LEMMA TypesStep == ASSUME StreamInv, TypesInv, [Next]_vars PROVE TypesInv'
<1>1. CASE App BY <1>1, AppTypes
<1>2. CASE Poll
  <2>1. CASE RecvArpReply \/ RecvArpRequest
    BY <2>1 DEF RecvArpReply, RecvArpRequest, HeardOf, TypesInv
  <2>2. CASE CardFails BY <2>2 DEF CardFails, TypesInv, GlueSet
  <2> QED BY <1>2, <2>1, <2>2, TickTypes, SegmentTypes DEF Poll
<1>3. CASE UNCHANGED <<conns, glue, pending>> BY <1>3 DEF TypesInv
<1>4. CASE Outside
  <2>1. UNCHANGED <<conns, glue, pending>>
    BY ZenonT(30), <1>4 DEF Outside, GatewayAsks, Server, SrvProgram, SrvTransmit, SrvSyn, SrvRst,
       SrvRecv, SrvRefuse, SrvSends
  <2> QED BY <1>3, <2>1
<1> QED BY <1>1, <1>2, <1>3, <1>4 DEF Next, vars

LEMMA TypesBegin == ASSUME Init PROVE TypesInv
BY ClosedInSet, GlueAssumption DEF Init, ClientInit, TypesInv, NoFlags, GlueSet, GlueAssumption

(* For any number of slots and connections: a slot of uip_conns in use        *)
(* belongs to a connection that was opened and to no other slot's, tcp_pending *)
(* never holds more than its array, and a segment under way belongs to a      *)
(* connection that was opened.                                                *)
THEOREM TcpTyped == Spec => []TcpTypeOK
<1> DEFINE Inv == StreamInv /\ QueueInv /\ TypesInv
<1>1. Init => Inv BY StreamsBegin, QueueInit, TypesBegin
<1>2. Inv /\ [Next]_vars => Inv'
  BY StreamsStep, QueueStep, TypesStep DEF Goes
<1>3. Inv => TcpTypeOK
  <2> SUFFICES ASSUME StreamInv, QueueInv, TypesInv PROVE TcpTypeOK OBVIOUS
  <2>1. ASSUME NEW s \in Slots, Live(s) PROVE conns[s].conn \in 1..opened /\ SlotsOf(conns[s].conn) = {s}
    <3>1. SlotOK(s) BY DEF StreamInv
    <3> QED BY <2>1, <3>1 DEF SlotOK, SlotsOf, Live
  <2>2. rx.head \in 0..RXBUF_CAP - 1 /\ rx.tail \in 0..RXBUF_CAP - 1
    BY DEF QueueInv, Rings, Cells
  <2>3. ASSUME NEW f \in net
        PROVE  /\ f.dir \in {"in", "out"} /\ f.conn \in 1..opened
               /\ f.flags \subseteq Flags /\ f.data \in Seq(AllBytes)
    BY DEF StreamInv, StreamTypes, FrameSet, FrameOK, Texts, Word
  <2> QED BY <2>1, <2>2, <2>3
          DEF TcpTypeOK, TypesInv, ConnSet, GlueSet, StreamInv, StreamTypes, Texts, Word
<1> QED BY <1>1, <1>2, <1>3, PTL DEF Spec

-----------------------------------------------------------------------------
(* What the command hears of.                                                 *)

(* What uip takes is in the ring or both flags are set.                       *)
Stored(f) ==
    IF Len(f.data) > Free(rx) THEN glue'.error /\ glue'.closed /\ UNCHANGED <<rx, fed>>
    ELSE fed' = [fed EXCEPT ![f.conn] = @ \o f.data]

LEMMA TakenStored ==
    ASSUME StreamInv, NEW f \in net, NEW s, Takes(f, s)
    PROVE  Stored(f)
<1>1. f.conn \in Connections /\ fed \in Texting
  <2>1. f.conn \in 1..opened /\ opened \in 0..OpenMax
    BY FrameKnown DEF Takes, StreamInv, StreamTypes
  <2> QED BY <2>1, GlueAssumption DEF GlueAssumption, Connections, StreamInv, StreamTypes
<1>2. \E flags : AppCall(f.conn, flags, f.data) BY DEF Takes, RecvData, RecvFin
<1>3. PICK flags : AppCall(f.conn, flags, f.data) BY <1>2
<1>4. CASE Len(f.data) > Free(rx) BY <1>3, <1>4 DEF AppCall, Stored
<1>5. CASE ~(Len(f.data) > Free(rx)) /\ f.data # << >>
  BY <1>3, <1>5 DEF AppCall, Stored
<1>6. CASE ~(Len(f.data) > Free(rx)) /\ f.data = << >>
  <2>1. fed' = fed BY <1>3, <1>6 DEF AppCall
  <2>2. PICK w \in Texts : w = fed[f.conn] BY <1>1 DEF Texting
  <2>3. w \o << >> = w BY <2>2, ConcatEmptySeq DEF Texts
  <2>4. fed = [fed EXCEPT ![f.conn] = w] BY <1>1, <2>2 DEF Texting
  <2> QED BY <1>6, <2>1, <2>2, <2>3, <2>4 DEF Stored
<1> QED BY <1>4, <1>5, <1>6

(* No open connection ends without conn_closed, and the flags last.           *)
EndsHeard == \A s \in Slots :
    conns[s].st = "ESTABLISHED" /\ conns'[s].st # "ESTABLISHED" => glue'.closed
FlagsLast == (glue.error /\ ~glue'.error) \/ (glue.closed /\ ~glue'.closed) => ResetGlue

LEMMA CallFlags ==
    ASSUME NEW k, NEW flags, NEW data, AppCall(k, flags, data)
    PROVE  /\ FlagsLast
           /\ flags \cap {"ABORT", "CLOSE", "TIMEDOUT"} # {} => glue'.closed
           /\ Len(data) > Free(rx) => glue'.closed
<1>1. PICK a, b, c : /\ a = ("CONNECTED" \in flags) /\ b = (Len(data) > Free(rx))
                     /\ c = (flags \cap {"ABORT", "CLOSE", "TIMEDOUT"} # {})
  OBVIOUS
<1>2. glue' = [established |-> glue.established \/ a, closed |-> glue.closed \/ b \/ c,
               error |-> glue.error \/ b]
  BY <1>1 DEF AppCall
<1>3. glue'.closed = (glue.closed \/ b \/ c) /\ glue'.error = (glue.error \/ b) BY <1>2
<1> QED BY <1>1, <1>3 DEF FlagsLast

(* One slot changes: it is enough to look at that one.                        *)
LEMMA SlotEnds ==
    ASSUME TypesInv, NEW t, NEW d, SlotGets(t, d),
           t \in Slots /\ conns[t].st = "ESTABLISHED" /\ d.st # "ESTABLISHED" => glue'.closed
    PROVE  EndsHeard
BY DEF TypesInv, SlotGets, EndsHeard

LEMMA TickHeard == ASSUME StreamInv, TypesInv, Tick PROVE EndsHeard /\ FlagsLast
<1>1. PICK t \in Slots : t = Slot BY SlotIn DEF StreamInv
<1>2. PICK c \in ConnSet : c = conns[t] BY <1>1 DEF TypesInv
<1>3. ASSUME NEW d, Visit(d), d.st = c.st PROVE EndsHeard
  BY <1>1, <1>2, <1>3, SlotEnds DEF Visit, SlotGets
<1>4. CASE TimerSkip BY <1>4 DEF TimerSkip, EndsHeard, FlagsLast
<1>5. CASE TimerWait
  <2>1. PICK d : d = [c EXCEPT !.timer = c.timer - 1] OBVIOUS
  <2>2. Visit(d) /\ glue' = glue BY <1>1, <1>2, <1>5, <2>1 DEF TimerWait
  <2>3. d.st = c.st BY <2>1 DEF ConnSet
  <2> QED BY <1>3, <2>2, <2>3 DEF FlagsLast
<1>6. CASE TimerGiveUp
  <2>1. SlotGets(t, Closed) BY <1>1, <1>6 DEF TimerGiveUp, Visit, SlotGets
  <2>2. AppCall(conns[Slot].conn, {"TIMEDOUT"}, << >>) BY <1>6 DEF TimerGiveUp
  <2>3. glue'.closed /\ FlagsLast BY <2>2, CallFlags
  <2> QED BY <2>1, <2>3, SlotEnds
<1>7. CASE TimerResend
  <2>1. \E timer, nrtx : Visit([c EXCEPT !.timer = timer, !.nrtx = nrtx])
    BY <1>1, <1>2, <1>7 DEF TimerResend
  <2>2. PICK timer, nrtx : Visit([c EXCEPT !.timer = timer, !.nrtx = nrtx]) BY <2>1
  <2>3. PICK d : d = [c EXCEPT !.timer = timer, !.nrtx = nrtx] OBVIOUS
  <2>4. d.st = c.st BY <2>3 DEF ConnSet
  <2>5. glue' = glue BY <1>7 DEF TimerResend
  <2> QED BY <1>3, <2>2, <2>3, <2>4, <2>5 DEF FlagsLast
<1>8. CASE TimerPoll
  <2>1. \E n : Visit([c EXCEPT !.len = n, !.nrtx = 0])
    BY <1>1, <1>2, <1>8 DEF TimerPoll
  <2>2. PICK n : Visit([c EXCEPT !.len = n, !.nrtx = 0]) BY <2>1
  <2>3. PICK d : d = [c EXCEPT !.len = n, !.nrtx = 0] OBVIOUS
  <2>4. d.st = c.st BY <2>3 DEF ConnSet
  <2>5. glue' = glue BY <1>8 DEF TimerPoll
  <2> QED BY <1>3, <2>2, <2>3, <2>4, <2>5 DEF FlagsLast
<1> QED BY <1>4, <1>5, <1>6, <1>7, <1>8 DEF Tick

LEMMA SegmentHeard ==
    ASSUME TypesInv, NEW f, NEW t \in SlotsOf(f.conn), RecvFor(f, t)
    PROVE  EndsHeard /\ FlagsLast
<1>1. PICK c \in ConnSet : c = conns[t] BY DEF TypesInv, SlotsOf
<1>2. ASSUME NEW flags, NEW data, AppCall(f.conn, flags, data), NEW d, Becomes(t, d),
             flags \cap {"ABORT", "CLOSE", "TIMEDOUT"} # {}
      PROVE  EndsHeard /\ FlagsLast
  <2>1. glue'.closed /\ FlagsLast BY <1>2, CallFlags
  <2> QED BY <2>1 DEF EndsHeard
<1>3. CASE RecvRst(f, t)
  <2>1. AppCall(f.conn, {"ABORT"}, << >>) /\ Becomes(t, Closed) BY <1>3 DEF RecvRst
  <2> QED BY <1>2, <2>1
<1>4. CASE RecvLastAck(f, t)
  <2>1. AppCall(f.conn, {"CLOSE"}, << >>) /\ Becomes(t, Closed) BY <1>4 DEF RecvLastAck
  <2> QED BY <1>2, <2>1
<1>5. CASE RecvOutOfOrder(f, t) \/ RecvDropped(f, t)
  BY <1>5 DEF RecvOutOfOrder, RecvDropped, EndsHeard, FlagsLast
<1>6. ASSUME NEW r \in Rtos, RecvSynAck(f, t, r) PROVE EndsHeard /\ FlagsLast
  <2>1. \E d : Becomes(t, d) /\ c.st = "SYN_SENT" /\ AppCall(f.conn, {"CONNECTED"}, << >>)
    BY <1>1, <1>6 DEF RecvSynAck
  <2>2. PICK d : Becomes(t, d) /\ c.st = "SYN_SENT" /\ AppCall(f.conn, {"CONNECTED"}, << >>)
    BY <2>1
  <2>3. FlagsLast BY <2>2, CallFlags
  <2> QED BY <1>1, <2>2, <2>3, SlotEnds DEF Becomes, SlotGets
<1>7. ASSUME NEW r \in Rtos, RecvFin(f, t, r) PROVE EndsHeard /\ FlagsLast
  <2>1. \E d : Becomes(t, d) /\ AppCall(f.conn, {"CLOSE"}, f.data) BY <1>7 DEF RecvFin
  <2>2. PICK d : Becomes(t, d) /\ AppCall(f.conn, {"CLOSE"}, f.data) BY <2>1
  <2> QED BY <1>2, <2>2
<1>8. ASSUME NEW r \in Rtos, RecvData(f, t, r) PROVE EndsHeard /\ FlagsLast
  <2>1. c.st = "ESTABLISHED" /\ AppCall(f.conn, {}, f.data) BY <1>1, <1>8 DEF RecvData
  <2>2. FlagsLast /\ (Len(f.data) > Free(rx) => glue'.closed) BY <2>1, CallFlags
  <2>3. CASE Len(f.data) > Free(rx) BY <2>2, <2>3 DEF EndsHeard
  <2>4. CASE ~(Len(f.data) > Free(rx))
    <3>1. PICK a \in ConnSet : a = AfterAck(f, c, r) /\ a.st = c.st
      BY AckTypes
    <3>2. PICK d : d = [a EXCEPT !.rcv = @ + Len(f.data), !.nrtx = 0] OBVIOUS
    <3>3. Becomes(t, d) BY <1>1, <1>8, <2>4, <3>1, <3>2 DEF RecvData
    <3>4. d.st = "ESTABLISHED" BY <2>1, <3>1, <3>2 DEF ConnSet
    <3> QED BY <2>2, <3>3, <3>4, SlotEnds DEF Becomes, SlotGets
  <2> QED BY <2>3, <2>4
<1> QED BY <1>3, <1>4, <1>5, <1>6, <1>7, <1>8 DEF RecvFor

LEMMA StepHeard == ASSUME StreamInv, TypesInv, [Next]_vars PROVE EndsHeard /\ FlagsLast
<1>1. CASE UNCHANGED <<conns, glue>> BY <1>1 DEF EndsHeard, FlagsLast
<1>2. CASE CardFails
  <2>1. conns' = conns /\ glue' = [glue EXCEPT !.error = TRUE] BY <1>2 DEF CardFails
  <2>2. glue'.error /\ glue'.closed = glue.closed BY <2>1 DEF TypesInv, GlueSet
  <2> QED BY <2>1, <2>2 DEF EndsHeard, FlagsLast
<1>3. CASE RecvSegment
  <2>1. PICK f \in net : RecvNoConn(f) \/ \E t \in SlotsOf(f.conn) : RecvFor(f, t)
    BY <1>3 DEF RecvSegment
  <2>2. CASE RecvNoConn(f) BY <1>1, <2>2 DEF RecvNoConn
  <2> QED BY <2>1, <2>2, SegmentHeard
<1>4. CASE Poll
  <2>1. CASE RecvArpReply \/ RecvArpRequest
    BY <1>1, <2>1 DEF RecvArpReply, RecvArpRequest, HeardOf
  <2> QED BY <1>2, <1>3, <1>4, <2>1, TickHeard DEF Poll
<1>5. CASE Connect
  <2>1. PICK t, d : t = LowestIn(ClosedSlots) /\ d = Opening(opened + 1) OBVIOUS
  <2>2. t \in ClosedSlots
    <3>1. ClosedSlots \in SUBSET Nat /\ ClosedSlots # {}
      BY <1>5, GlueAssumption DEF ClosedSlots, Slots, Connect
    <3> QED BY <2>1, <3>1, LowestFound
  <2>3. SlotGets(t, d) /\ ResetGlue BY <1>5, <2>1 DEF Connect, SlotGets
  <2>4. t \in Slots /\ conns[t].st = "CLOSED" BY <2>2 DEF ClosedSlots, Live
  <2> QED BY <2>3, <2>4, SlotEnds DEF FlagsLast
<1>6. CASE ConnectRefused BY <1>6 DEF ConnectRefused, EndsHeard, FlagsLast
<1>7. CASE App
  BY <1>1, <1>5, <1>6, <1>7 DEF App, AppConnect, AppConnected, AppEnd, AppSend, AppRecv, GlueSend,
     GlueRecv, clientVars
<1>8. CASE Outside
  <2>1. UNCHANGED <<conns, glue>>
    BY ZenonT(30), <1>8 DEF Outside, GatewayAsks, Server, SrvProgram, SrvTransmit, SrvSyn, SrvRst,
       SrvRecv, SrvRefuse, SrvSends
  <2> QED BY <1>1, <2>1
<1> QED BY <1>1, <1>4, <1>7, <1>8 DEF Next, vars

(* Data that overflows the ring sets both flags and leaves ring and history   *)
(* as they were, on the data path and on the FIN path; all other data uip     *)
(* takes is put into the ring; no open connection ends without conn_closed;   *)
(* and the flags last until the next uip_glue_connect: for any number of      *)
(* slots and connections, any buffer, any network and any server.             *)
THEOREM LossesReported == Spec => LossReported
<1> DEFINE Inv == StreamInv /\ TypesInv
           Heard == /\ \A s \in Slots :
                         /\ \A f \in net : Takes(f, s) => Stored(f)
                         /\ conns[s].st = "ESTABLISHED" /\ conns'[s].st # "ESTABLISHED"
                            => glue'.closed
                    /\ FlagsLast
<1>1. Init => Inv BY StreamsBegin, TypesBegin
<1>2. Inv /\ [Next]_vars => Inv' BY StreamsStep, TypesStep DEF Goes
<1>3. Inv /\ [Next]_vars => Heard BY TakenStored, StepHeard DEF EndsHeard
<1>4. (Inv /\ [Next]_vars => [Heard]_vars) BY <1>3
<1>5. (Heard =>
        /\ \A s \in Slots :
             /\ \A f \in net : Takes(f, s) =>
                  IF Len(f.data) > Free(rx)
                  THEN glue'.error /\ glue'.closed /\ UNCHANGED <<rx, fed>>
                  ELSE fed' = [fed EXCEPT ![f.conn] = @ \o f.data]
             /\ conns[s].st = "ESTABLISHED" /\ conns'[s].st # "ESTABLISHED" => glue'.closed
        /\ (glue.error /\ ~glue'.error) \/ (glue.closed /\ ~glue'.closed) => ResetGlue)
  BY DEF Stored, FlagsLast
<1> QED BY <1>1, <1>2, <1>4, <1>5, PTL DEF Spec, LossReported
=============================================================================
