------------------------------ MODULE DbProofs ------------------------------
(* The relational kernel of ppdb keeps its pages, rows and indexes in order:  *)
(* for any number of pages, tables, indexes and rows, any page and record     *)
(* sizes and any statements.                                                  *)
EXTENDS Db, SequenceTheorems, FiniteSetTheorems, WellFoundedInduction, TLAPS

-----------------------------------------------------------------------------
(* Numbers and loops.                                                         *)

LEMMA LeastNumber ==
    ASSUME NEW I \in SUBSET Nat, I # {}
    PROVE  \E i \in I : \A j \in I : i <= j
<1> DEFINE Less == OpToRel(<, Nat)
<1>1. IsWellFoundedOn(Less, Nat) BY NatLessThanWellFounded
<1>2. PICK i \in I : \A j \in I : ~(<<j, i>> \in Less)
  <2> HIDE DEF Less
  <2> QED BY <1>1, WFMin
<1>3. ASSUME NEW j \in I PROVE i <= j
  <2>1. i \in Nat /\ j \in Nat OBVIOUS
  <2>2. ~(j < i) BY <1>2, <2>1 DEF OpToRel
  <2> QED BY <2>1, <2>2
<1> QED BY <1>3

(* What holds at 0 and follows from one number to the next holds of all up to *)
(* n: the set H of the numbers it holds of is everything.                     *)
LEMMA Upwards ==
    ASSUME NEW n \in Nat, NEW H, 0 \in H, \A i \in 1..n : i - 1 \in H => i \in H
    PROVE  0..n \subseteq H
<1> SUFFICES ASSUME NEW k \in 0..n, k \notin H PROVE FALSE OBVIOUS
<1>1. PICK Bad : Bad = {i \in 0..n : i \notin H} OBVIOUS
<1>2. Bad \in SUBSET Nat /\ Bad # {} BY <1>1
<1>3. PICK i \in Bad : \A j \in Bad : i <= j BY <1>2, LeastNumber
<1>4. i \in 1..n BY <1>1, <1>3
<1>5. i - 1 \in 0..n /\ i - 1 \notin Bad BY <1>3, <1>4
<1> QED BY <1>1, <1>3, <1>4, <1>5

(* Two loops that start alike and go on alike give the same.                  *)
LEMMA SameLoop ==
    ASSUME NEW n \in Nat, NEW f, NEW g, f[0] = g[0],
           \A i \in 1..n : f[i - 1] = g[i - 1] => f[i] = g[i]
    PROVE  \A i \in 0..n : f[i] = g[i]
<1>1. PICK H : H = {i \in 0..n : f[i] = g[i]} OBVIOUS
<1>2. 0 \in H /\ \A i \in 1..n : i - 1 \in H => i \in H BY <1>1
<1>3. 0..n \subseteq H BY <1>2, Upwards
<1> QED BY <1>1, <1>3

(* A loop of n rounds over states: there is a function of its states, and the *)
(* state after round i is in T[i] when every round leads from T[i - 1] there. *)
Loop(f, n, base, F) == f = [i \in 0..n |-> IF i = 0 THEN base ELSE F[<<f[i - 1], i>>]]

LEMMA LoopExists ==
    ASSUME NEW n \in Nat, NEW base, NEW F
    PROVE  \E f : Loop(f, n, base, F)
<1>1. PICK H : H = {m \in 0..n : \E f : Loop(f, m, base, F)} OBVIOUS
<1>2. 0 \in H
  <2>1. Loop([i \in 0..0 |-> base], 0, base, F) BY DEF Loop
  <2> QED BY <1>1, <2>1
<1>3. ASSUME NEW m \in 1..n, m - 1 \in H PROVE m \in H
  <2>1. PICK g : Loop(g, m - 1, base, F) BY <1>1, <1>3
  <2>2. PICK last : last = F[<<g[m - 1], m>>] OBVIOUS
  <2>3. PICK f : f = [i \in 0..m |-> IF i = m THEN last ELSE g[i]] OBVIOUS
  <2>4. ASSUME NEW i \in 0..m PROVE f[i] = IF i = 0 THEN base ELSE F[<<f[i - 1], i>>]
    <3>1. CASE i = m
      <4>1. f[i] = last /\ f[i - 1] = g[m - 1] /\ i # 0 BY <2>3, <3>1
      <4> QED BY <2>2, <3>1, <4>1
    <3>2. CASE i # m
      <4>1. i \in 0..m - 1 /\ f[i] = g[i] BY <2>3, <3>2
      <4>2. g[i] = IF i = 0 THEN base ELSE F[<<g[i - 1], i>>] BY <2>1, <4>1 DEF Loop
      <4>3. i # 0 => i - 1 \in 0..m /\ i - 1 # m BY <4>1
      <4>4. i # 0 => f[i - 1] = g[i - 1] BY <2>3, <4>3
      <4> QED BY <4>1, <4>2, <4>4
    <3> QED BY <3>1, <3>2
  <2>5. f = [i \in 0..m |-> f[i]] BY <2>3
  <2>6. f = [i \in 0..m |-> IF i = 0 THEN base ELSE F[<<f[i - 1], i>>]] BY <2>4, <2>5
  <2>7. Loop(f, m, base, F) BY <2>6 DEF Loop
  <2> QED BY <1>1, <2>7
<1>4. n \in H BY <1>2, <1>3, Upwards
<1> QED BY <1>1, <1>4

LEMMA LoopStays ==
    ASSUME NEW n \in Nat, NEW base, NEW F, NEW f, Loop(f, n, base, F), NEW T,
           base \in T[0], \A i \in 1..n : \A x \in T[i - 1] : F[<<x, i>>] \in T[i]
    PROVE  \A i \in 0..n : f[i] \in T[i]
<1>1. PICK H : H = {i \in 0..n : f[i] \in T[i]} OBVIOUS
<1>2. 0 \in H BY <1>1 DEF Loop
<1>3. ASSUME NEW i \in 1..n, i - 1 \in H PROVE i \in H
  <2>1. f[i] = F[<<f[i - 1], i>>] /\ f[i - 1] \in T[i - 1] BY <1>1, <1>3 DEF Loop
  <2> QED BY <1>1, <2>1
<1>4. 0..n \subseteq H BY <1>2, <1>3, Upwards
<1> QED BY <1>1, <1>4

-----------------------------------------------------------------------------
(* Chains of pages.                                                           *)

Distinct(s) == \A i, j \in DOMAIN s : s[i] = s[j] => i = j

IsChain(pg, c) ==
    /\ c \in Seq(Pages) /\ c # << >> /\ Distinct(c)
    /\ \A i \in 1..Len(c) - 1 : pg[c[i]].next = c[i + 1]
    /\ pg[c[Len(c)]].next = 0

(* A sequence of different pages is no longer than there are pages.           *)
LEMMA ChainFits ==
    ASSUME NEW c \in Seq(Pages), Distinct(c)
    PROVE  Len(c) \in 0..NPages
<1>1. NPages \in Nat /\ Len(c) \in Nat BY DbAssumptions DEF DbAssumptions
<1>2. c \in Injection(1..Len(c), Pages)
  <2>1. c \in [1..Len(c) -> Pages] /\ DOMAIN c = 1..Len(c) BY LenProperties
  <2> QED BY <2>1 DEF Distinct, Injection, IsInjective
<1>3. IsFiniteSet(Pages) /\ Cardinality(Pages) = NPages BY <1>1, FS_Interval DEF Pages
<1>4. PICK n \in Nat : n = Len(c) BY <1>1
<1>5. IsFiniteSet(1..n) /\ Cardinality(1..n) = n
  <2>1. 1 \in Int /\ n \in Int OBVIOUS
  <2>2. IsFiniteSet(1..n) /\ Cardinality(1..n) = IF 1 > n THEN 0 ELSE n - 1 + 1 BY <2>1, FS_Interval
  <2> QED BY <2>2
<1> QED BY <1>1, <1>2, <1>3, <1>4, <1>5, FS_Injection

(* Following next from the first page of a chain gives the chain.             *)
LEMMA ChainFollowed ==
    ASSUME NEW pg, NEW c, IsChain(pg, c)
    PROVE  Chain(pg, c[1]) = c
<1>1. /\ c \in Seq(Pages) /\ NPages \in Nat /\ NPages >= 1 /\ Len(c) \in 1..NPages
      /\ \A i \in 1..Len(c) : c[i] \in Pages
  <2>1. c \in Seq(Pages) /\ c # << >> /\ Distinct(c) BY DEF IsChain
  <2> QED BY <2>1, ChainFits, EmptySeq, DbAssumptions DEF DbAssumptions
<1>2. PICK len \in 1..NPages : len = Len(c) BY <1>1
<1> DEFINE grow(d) == IF pg[Last(d)].next = 0 THEN d ELSE Append(d, pg[Last(d)].next)
           upto(i) == IF i < len THEN i + 1 ELSE len
           Is(g) == g = [i \in 0..NPages |-> IF i = 0 THEN <<c[1]>> ELSE grow(g[i - 1])]
<1>3. PICK f : f = [i \in 0..NPages |-> SubSeq(c, 1, upto(i))] OBVIOUS
<1>4. f[0] = <<c[1]>>
  <2>1. upto(0) = 1 BY <1>2
  <2>2. f[0] = SubSeq(c, 1, 1) BY <1>1, <1>3, <2>1
  <2>3. SubSeq(c, 1, 1) \in Seq(Pages) /\ Len(SubSeq(c, 1, 1)) = 1 /\ SubSeq(c, 1, 1)[1] = c[1]
    BY <1>1, SubSeqProperties
  <2>4. <<c[1]>> \in Seq(Pages) /\ Len(<<c[1]>>) = 1 /\ <<c[1]>>[1] = c[1]
    <3>1. PICK x \in Pages : x = c[1] BY <1>1
    <3>2. <<x>> \in Seq(Pages) /\ Len(<<x>>) = 1 /\ <<x>>[1] = x OBVIOUS
    <3> QED BY <3>1, <3>2
  <2>5. PICK s \in Seq(Pages), t \in Seq(Pages) : s = SubSeq(c, 1, 1) /\ t = <<c[1]>>
    BY <2>3, <2>4
  <2>6. Len(s) = Len(t) /\ \A i \in 1..Len(s) : s[i] = t[i] BY <2>3, <2>4, <2>5
  <2>7. s = t BY <2>6, SeqEqual
  <2> QED BY <2>2, <2>5, <2>7
<1>5. ASSUME NEW i \in 1..NPages PROVE f[i] = grow(f[i - 1])
  <2>1. i - 1 \in 0..NPages /\ i \in 0..NPages BY <1>1
  <2>2. PICK m \in 1..len : m = upto(i - 1) BY <1>2, <2>1
  <2>3. PICK d : d = SubSeq(c, 1, m) OBVIOUS
  <2>4. f[i - 1] = d BY <1>3, <2>1, <2>2, <2>3
  <2>5. d \in Seq(Pages) /\ Len(d) = m /\ Last(d) = c[m] BY <1>1, <1>2, <2>2, <2>3 DEF Last
  <2>6. CASE m = len
    <3>1. upto(i) = len /\ pg[Last(d)].next = 0 BY <1>2, <2>1, <2>2, <2>5, <2>6 DEF IsChain
    <3>2. f[i] = SubSeq(c, 1, len) BY <1>3, <2>1, <3>1
    <3> QED BY <2>3, <2>4, <2>6, <3>1, <3>2
  <2>7. CASE m # len
    <3>1. m < len /\ upto(i) = m + 1 /\ m \in 1..Len(c) - 1 BY <1>2, <2>1, <2>2, <2>7
    <3>2. pg[Last(d)].next = c[m + 1] /\ c[m + 1] # 0
      BY <1>1, <1>2, <2>5, <3>1 DEF IsChain, Pages
    <3>3. f[i] = SubSeq(c, 1, m + 1) BY <1>3, <2>1, <3>1
    <3>4. SubSeq(c, 1, m + 1) = Append(SubSeq(c, 1, m), c[m + 1]) BY <1>1, <1>2, <3>1
    <3> QED BY <2>3, <2>4, <3>2, <3>3, <3>4
  <2> QED BY <2>6, <2>7
<1>6. Is(f)
  <2>1. \A i \in 0..NPages : f[i] = IF i = 0 THEN <<c[1]>> ELSE grow(f[i - 1])
    <3> HIDE DEF grow
    <3> QED BY <1>1, <1>4, <1>5
  <2>2. f = [i \in 0..NPages |-> f[i]] BY <1>3
  <2> HIDE DEF grow
  <2> QED BY <2>1, <2>2
<1>7. PICK g : g = (CHOOSE h : Is(h)) /\ Is(g)
  <2> HIDE DEF Is
  <2> QED BY <1>6
<1>8. g[0] = <<c[1]>> /\ \A i \in 1..NPages : g[i] = grow(g[i - 1])
  <2>1. \A i \in 0..NPages : g[i] = IF i = 0 THEN <<c[1]>> ELSE grow(g[i - 1])
    <3> HIDE DEF grow
    <3> QED BY <1>7
  <2>2. g[0] = <<c[1]>> BY <1>1, <2>1
  <2>3. ASSUME NEW i \in 1..NPages PROVE g[i] = grow(g[i - 1])
    <3> HIDE DEF grow
    <3>1. i \in 0..NPages /\ i # 0 BY <1>1
    <3> QED BY <2>1, <3>1
  <2> QED BY <2>2, <2>3
<1>9. \A i \in 0..NPages : f[i] = g[i]
  <2>1. ASSUME NEW i \in 1..NPages, f[i - 1] = g[i - 1] PROVE f[i] = g[i]
    <3>1. f[i] = grow(f[i - 1]) BY <1>5
    <3>2. g[i] = grow(g[i - 1]) BY <1>8
    <3> QED BY <2>1, <3>1, <3>2
  <2>2. f[0] = g[0] BY <1>4, <1>8
  <2>3. \A i \in 1..NPages : f[i - 1] = g[i - 1] => f[i] = g[i] BY <2>1
  <2>4. NPages \in Nat BY <1>1
  <2> HIDE DEF grow
  <2> QED BY <2>2, <2>3, <2>4, SameLoop
<1>10. Chain(pg, c[1]) = g[NPages]
  BY <1>1, <1>7 DEF Chain, Iterate
<1>11. f[NPages] = c
  <2>1. upto(NPages) = len BY <1>1, <1>2
  <2>2. f[NPages] = SubSeq(c, 1, len) BY <1>1, <1>3, <2>1
  <2> QED BY <1>1, <1>2, <2>2, SubSeqFull
<1> QED BY <1>1, <1>9, <1>10, <1>11

-----------------------------------------------------------------------------
(* A loop over states that stay in a set T.                                   *)

LEMMA LoopIn ==
    ASSUME NEW n \in Nat, NEW T, NEW base \in T, NEW F,
           \A x \in T, i \in 1..n : F[<<x, i>>] \in T
    PROVE  \E f : Loop(f, n, base, F) /\ \A i \in 0..n : f[i] \in T
<1>1. PICK f : Loop(f, n, base, F) BY LoopExists
<1>2. PICK Ts : Ts = [i \in 0..n |-> T] OBVIOUS
<1>3. base \in Ts[0] /\ \A i \in 1..n : \A x \in Ts[i - 1] : F[<<x, i>>] \in Ts[i] BY <1>2
<1>4. \A i \in 0..n : f[i] \in Ts[i] BY <1>1, <1>3, LoopStays
<1>5. \A i \in 0..n : f[i] \in T BY <1>2, <1>4
<1> QED BY <1>1, <1>5

-----------------------------------------------------------------------------
(* A sequence that has each member of a set S once.                           *)

Lists(s, S) ==
    /\ s \in Seq(S)
    /\ \A x \in S : \E i \in 1..Len(s) : s[i] = x
    /\ \A i, j \in 1..Len(s) : s[i] = s[j] => i = j

Disjoint(S, T) == S \cap T = {}

LEMMA ListsConcat ==
    ASSUME NEW S, NEW T, NEW a, NEW b, Lists(a, S), Lists(b, T), Disjoint(S, T)
    PROVE  Lists(a \o b, S \cup T)
<1>1. a \in Seq(S) /\ b \in Seq(T) /\ S \subseteq S \cup T /\ T \subseteq S \cup T BY DEF Lists
<1>2. a \in Seq(S \cup T) /\ b \in Seq(S \cup T) BY <1>1, SeqMonotonic
<1>3. PICK m \in Nat, n \in Nat : m = Len(a) /\ n = Len(b) BY <1>1, LenProperties
<1>4. PICK c \in Seq(S \cup T) : c = a \o b BY <1>2, ConcatProperties
<1>5. Len(c) = m + n /\ \A i \in 1..m + n : c[i] = IF i <= m THEN a[i] ELSE b[i - m]
  BY <1>2, <1>3, <1>4, ConcatProperties
<1>6. (\A i \in 1..m : c[i] = a[i] /\ a[i] \in S) /\ (\A i \in 1..n : c[m + i] = b[i] /\ b[i] \in T)
  <2>1. ASSUME NEW i \in 1..m PROVE c[i] = a[i] /\ a[i] \in S
    <3>1. i \in 1..m + n /\ i <= m OBVIOUS
    <3>2. a[i] \in S BY <1>1, <1>3, ElementOfSeq
    <3> QED BY <1>5, <3>1, <3>2
  <2>2. ASSUME NEW i \in 1..n PROVE c[m + i] = b[i] /\ b[i] \in T
    <3>1. m + i \in 1..m + n /\ ~(m + i <= m) /\ m + i - m = i OBVIOUS
    <3>2. b[i] \in T BY <1>1, <1>3, ElementOfSeq
    <3> QED BY <1>5, <3>1, <3>2
  <2> QED BY <2>1, <2>2
<1>7. ASSUME NEW x \in S \cup T PROVE \E i \in 1..Len(c) : c[i] = x
  <2>1. CASE x \in S
    <3>1. PICK i \in 1..m : a[i] = x BY <1>3, <2>1 DEF Lists
    <3>2. i \in 1..Len(c) BY <1>5
    <3> QED BY <1>6, <3>1, <3>2
  <2>2. CASE x \in T
    <3>1. PICK i \in 1..n : b[i] = x BY <1>3, <2>2 DEF Lists
    <3>2. m + i \in 1..Len(c) BY <1>5
    <3> QED BY <1>6, <3>1, <3>2
  <2> QED BY <2>1, <2>2
<1>8. ASSUME NEW i \in 1..Len(c), NEW j \in 1..Len(c), c[i] = c[j] PROVE i = j
  <2>1. i \in 1..m + n /\ j \in 1..m + n BY <1>5
  <2>2. CASE i <= m /\ j <= m
    <3>1. i \in 1..m /\ j \in 1..m /\ a[i] = a[j] BY <1>6, <1>8, <2>1, <2>2
    <3> QED BY <1>3, <3>1 DEF Lists
  <2>3. CASE i > m /\ j > m
    <3>1. PICK k \in 1..n, l \in 1..n : i = m + k /\ j = m + l
      <4>1. i - m \in 1..n /\ j - m \in 1..n /\ i = m + (i - m) /\ j = m + (j - m) BY <2>1, <2>3
      <4> QED BY <4>1
    <3>2. b[k] = b[l] BY <1>6, <1>8, <3>1
    <3> QED BY <1>3, <3>1, <3>2 DEF Lists
  <2>4. CASE i <= m /\ j > m
    <3>1. PICK l \in 1..n : j = m + l
      <4>1. j - m \in 1..n /\ j = m + (j - m) BY <2>1, <2>4
      <4> QED BY <4>1
    <3>2. i \in 1..m BY <2>1, <2>4
    <3>3. a[i] \in S /\ b[l] \in T /\ a[i] = b[l] BY <1>6, <1>8, <3>1, <3>2
    <3> QED BY <3>3 DEF Disjoint
  <2>5. CASE i > m /\ j <= m
    <3>1. PICK k \in 1..n : i = m + k
      <4>1. i - m \in 1..n /\ i = m + (i - m) BY <2>1, <2>5
      <4> QED BY <4>1
    <3>2. j \in 1..m BY <2>1, <2>5
    <3>3. a[j] \in S /\ b[k] \in T /\ a[j] = b[k] BY <1>6, <1>8, <3>1, <3>2
    <3> QED BY <3>3 DEF Disjoint
  <2> QED BY <2>1, <2>2, <2>3, <2>4, <2>5
<1> QED BY <1>4, <1>7, <1>8 DEF Lists

(* Pieces g[1], ..., g[n] put behind each other.                              *)
Joined(f, g, n) == f[0] = << >> /\ \A i \in 1..n : f[i] = f[i - 1] \o g[i]

Apart(S, n) == \A i, j \in 1..n : i # j => Disjoint(S[i], S[j])

UpTo(S, n) == UNION {S[k] : k \in 1..n}

LEMMA ListsJoined ==
    ASSUME NEW n \in Nat, NEW f, NEW g, NEW S, Joined(f, g, n),
           \A i \in 1..n : Lists(g[i], S[i]), Apart(S, n)
    PROVE  Lists(f[n], UpTo(S, n))
<1>1. PICK H : H = {i \in 0..n : Lists(f[i], UpTo(S, i))} OBVIOUS
<1>2. 0 \in H
  <2>1. UpTo(S, 0) = {} BY DEF UpTo
  <2>2. Lists(<< >>, {}) BY EmptySeq DEF Lists
  <2>3. f[0] = << >> /\ 0 \in 0..n BY DEF Joined
  <2> QED BY <1>1, <2>1, <2>2, <2>3
<1>3. ASSUME NEW i \in 1..n, i - 1 \in H PROVE i \in H
  <2>1. i \in 0..n /\ i - 1 \in 0..n /\ 1..i = (1..i - 1) \cup {i} OBVIOUS
  <2>2. UpTo(S, i) = UpTo(S, i - 1) \cup S[i] BY <2>1 DEF UpTo
  <2>3. Disjoint(UpTo(S, i - 1), S[i])
    <3>1. ASSUME NEW x \in UpTo(S, i - 1), NEW y \in S[i] PROVE x # y
      <4>1. PICK k \in 1..i - 1 : x \in S[k] BY DEF UpTo
      <4>2. k \in 1..n /\ k # i OBVIOUS
      <4>3. Disjoint(S[k], S[i]) BY <4>2 DEF Apart
      <4> QED BY <4>1, <4>3 DEF Disjoint
    <3> QED BY <3>1 DEF Disjoint
  <2>4. Lists(f[i - 1], UpTo(S, i - 1)) /\ Lists(g[i], S[i]) BY <1>1, <1>3
  <2>5. Lists(f[i - 1] \o g[i], UpTo(S, i)) BY <2>2, <2>3, <2>4, ListsConcat
  <2>6. f[i] = f[i - 1] \o g[i] BY DEF Joined
  <2> QED BY <1>1, <2>1, <2>5, <2>6
<1>4. n \in H BY <1>2, <1>3, Upwards
<1> QED BY <1>1, <1>4

-----------------------------------------------------------------------------
(* The rows of pages and of tables.                                           *)

RowsAt(pg, p) == {PageRows(pg, p)[i] : i \in 1..Len(pg[p].slots)}

RowsDiffer(pg) ==
    /\ \A p \in Pages : Lists(PageRows(pg, p), RowsAt(pg, p))
    /\ \A p, q \in Pages : p # q => Disjoint(RowsAt(pg, p), RowsAt(pg, q))

RowsOf(pg, c) == UNION {RowsAt(pg, c[k]) : k \in 1..Len(c)}

EveryRow(pg) == UNION {RowsAt(pg, p) : p \in Pages}

LEMMA TableRowsAre ==
    ASSUME NEW pg, NEW tab, NEW c, IsChain(pg, c), c[1] = tab.first, RowsDiffer(pg)
    PROVE  Lists(TableRows(pg, tab), RowsOf(pg, c))
<1>1. c \in Seq(Pages) /\ c # << >> /\ Distinct(c) BY DEF IsChain
<1>2. PICK n \in Nat : n = Len(c) /\ n >= 1 BY <1>1, EmptySeq, LenProperties
<1>3. \A i \in 1..n : c[i] \in Pages BY <1>1, <1>2, ElementOfSeq
<1>4. Chain(pg, tab.first) = c BY ChainFollowed
<1>5. PICK T : T = Seq(EveryRow(pg)) OBVIOUS
<1>6. PICK g : g = [i \in 1..n |-> PageRows(pg, c[i])] OBVIOUS
<1>7. PICK S : S = [i \in 1..n |-> RowsAt(pg, c[i])] OBVIOUS
<1>8. \A i \in 1..n : Lists(g[i], S[i]) BY <1>3, <1>6, <1>7 DEF RowsDiffer
<1>9. Apart(S, n)
  <2>1. ASSUME NEW i \in 1..n, NEW j \in 1..n, i # j PROVE Disjoint(S[i], S[j])
    <3>1. c[i] # c[j] BY <1>1, <1>2, <2>1, LenProperties DEF Distinct
    <3>2. Disjoint(RowsAt(pg, c[i]), RowsAt(pg, c[j])) BY <1>3, <3>1 DEF RowsDiffer
    <3> QED BY <1>7, <3>2
  <2> QED BY <2>1 DEF Apart
<1>10. \A i \in 1..n : g[i] \in T
  <2>1. ASSUME NEW i \in 1..n PROVE g[i] \in T
    <3>1. g[i] \in Seq(S[i]) BY <1>8 DEF Lists
    <3>2. S[i] \subseteq EveryRow(pg) BY <1>3, <1>7 DEF EveryRow
    <3> QED BY <1>5, <3>1, <3>2, SeqMonotonic
  <2> QED BY <2>1
<1>11. PICK F : F = [z \in T \X (1..n) |-> z[1] \o g[z[2]]] OBVIOUS
<1>12. ASSUME NEW x \in T, NEW i \in 1..n PROVE F[<<x, i>>] = x \o g[i]
  <2>1. <<x, i>> \in T \X (1..n) OBVIOUS
  <2>2. <<x, i>>[1] = x /\ <<x, i>>[2] = i OBVIOUS
  <2>3. F[<<x, i>>] = <<x, i>>[1] \o g[<<x, i>>[2]] BY <1>11, <2>1, Zenon
  <2> QED BY <2>2, <2>3
<1>13. ASSUME NEW x \in T, NEW i \in 1..n PROVE F[<<x, i>>] \in T
  <2>1. x \in Seq(EveryRow(pg)) /\ g[i] \in Seq(EveryRow(pg)) BY <1>5, <1>10
  <2>2. x \o g[i] \in Seq(EveryRow(pg)) BY <2>1, ConcatProperties
  <2> QED BY <1>5, <1>12, <2>2
<1>14. << >> \in T BY <1>5
<1>15. PICK f : Loop(f, n, << >>, F) /\ \A i \in 0..n : f[i] \in T
  BY <1>13, <1>14, LoopIn
<1> DEFINE Is(h) == h = [i \in 0..n |-> IF i = 0 THEN << >> ELSE h[i - 1] \o PageRows(pg, c[i])]
<1>16. Is(f)
  <2>1. ASSUME NEW i \in 0..n PROVE f[i] = IF i = 0 THEN << >> ELSE f[i - 1] \o PageRows(pg, c[i])
    <3>1. f[i] = IF i = 0 THEN << >> ELSE F[<<f[i - 1], i>>] BY <1>15 DEF Loop
    <3>2. i # 0 => i \in 1..n /\ i - 1 \in 0..n BY <1>2
    <3>3. i # 0 => F[<<f[i - 1], i>>] = f[i - 1] \o g[i] BY <1>12, <1>15, <3>2
    <3>4. i # 0 => g[i] = PageRows(pg, c[i]) BY <1>6, <3>2
    <3> QED BY <3>1, <3>3, <3>4
  <2>2. f = [i \in 0..n |-> f[i]] BY <1>15 DEF Loop
  <2> QED BY <2>1, <2>2
<1>17. PICK h : h = (CHOOSE x : Is(x)) /\ Is(h)
  <2> HIDE DEF Is
  <2> QED BY <1>16
<1>18. TableRows(pg, tab) = h[n]
  <2>1. ~(n <= 0) BY <1>2
  <2> QED BY <1>2, <1>4, <1>17, <2>1 DEF TableRows, Iterate
<1>19. Joined(h, g, n)
  <2>1. \A i \in 0..n : h[i] = IF i = 0 THEN << >> ELSE h[i - 1] \o PageRows(pg, c[i]) BY <1>17
  <2>2. h[0] = << >> BY <1>2, <2>1
  <2>3. ASSUME NEW i \in 1..n PROVE h[i] = h[i - 1] \o g[i]
    <3>1. i \in 0..n /\ i # 0 BY <1>2
    <3> QED BY <1>6, <2>1, <3>1
  <2> QED BY <2>2, <2>3 DEF Joined
<1>20. Lists(h[n], UpTo(S, n)) BY <1>8, <1>9, <1>19, ListsJoined
<1>21. UpTo(S, n) = RowsOf(pg, c) BY <1>2, <1>7 DEF UpTo, RowsOf
<1> QED BY <1>18, <1>20, <1>21

(* The chain of table number t, whose pages are those tagged t.               *)
Holds(pg, tab, t, c) ==
    /\ IsChain(pg, c) /\ c[1] = tab.first /\ c[Len(c)] = tab.last
    /\ \A p \in Pages : pg[p].tid = t <=> \E i \in 1..Len(c) : c[i] = p

TablesHold(pg, ts) == \A t \in 1..Len(ts) : \E c : Holds(pg, ts[t], t, c)

TagRows(pg, t) == UNION {RowsAt(pg, p) : p \in {q \in Pages : pg[q].tid = t}}

LEMMA ChainIn ==
    ASSUME NEW pg, NEW c, IsChain(pg, c)
    PROVE  /\ Len(c) \in 1..NPages /\ DOMAIN c = 1..Len(c) /\ NPages \in Nat
           /\ \A i \in 1..Len(c) : c[i] \in Pages
           /\ \A i, j \in 1..Len(c) : c[i] = c[j] => i = j
<1>1. c \in Seq(Pages) /\ c # << >> /\ Distinct(c) BY DEF IsChain
<1>2. Len(c) \in Nat /\ Len(c) # 0 /\ DOMAIN c = 1..Len(c) BY <1>1, EmptySeq, LenProperties
<1>3. Len(c) \in 0..NPages /\ NPages \in Nat BY <1>1, ChainFits, DbAssumptions DEF DbAssumptions
<1>4. \A i \in 1..Len(c) : c[i] \in Pages BY <1>1, ElementOfSeq
<1> QED BY <1>1, <1>2, <1>3, <1>4 DEF Distinct

LEMMA TagRowsListed ==
    ASSUME NEW pg, NEW tab, NEW t, NEW c, Holds(pg, tab, t, c), RowsDiffer(pg)
    PROVE  Lists(TableRows(pg, tab), TagRows(pg, t))
<1>1. IsChain(pg, c) /\ c[1] = tab.first BY DEF Holds
<1>2. Lists(TableRows(pg, tab), RowsOf(pg, c)) BY <1>1, TableRowsAre
<1>3. ASSUME NEW x PROVE x \in RowsOf(pg, c) <=> x \in TagRows(pg, t)
  <2>1. ASSUME NEW k \in 1..Len(c), x \in RowsAt(pg, c[k]) PROVE x \in TagRows(pg, t)
    <3>1. c[k] \in Pages /\ pg[c[k]].tid = t BY <1>1, ChainIn DEF Holds
    <3> QED BY <2>1, <3>1 DEF TagRows
  <2>2. ASSUME NEW p \in Pages, pg[p].tid = t, x \in RowsAt(pg, p) PROVE x \in RowsOf(pg, c)
    <3>1. PICK k \in 1..Len(c) : c[k] = p BY <2>2 DEF Holds
    <3> QED BY <2>2, <3>1 DEF RowsOf
  <2>3. x \in RowsOf(pg, c) => \E k \in 1..Len(c) : x \in RowsAt(pg, c[k]) BY DEF RowsOf
  <2>4. x \in TagRows(pg, t) => \E p \in Pages : pg[p].tid = t /\ x \in RowsAt(pg, p) BY DEF TagRows
  <2> QED BY <2>1, <2>2, <2>3, <2>4
<1>4. RowsOf(pg, c) = TagRows(pg, t) BY <1>3
<1> QED BY <1>2, <1>4

LEMMA TagsApart ==
    ASSUME NEW pg, RowsDiffer(pg), NEW s, NEW t, s # t
    PROVE  Disjoint(TagRows(pg, s), TagRows(pg, t))
<1>1. ASSUME NEW x \in TagRows(pg, s), NEW y \in TagRows(pg, t) PROVE x # y
  <2>1. PICK p \in Pages : pg[p].tid = s /\ x \in RowsAt(pg, p) BY DEF TagRows
  <2>2. PICK q \in Pages : pg[q].tid = t /\ y \in RowsAt(pg, q) BY DEF TagRows
  <2>3. Disjoint(RowsAt(pg, p), RowsAt(pg, q)) BY <2>1, <2>2 DEF RowsDiffer
  <2> QED BY <2>1, <2>2, <2>3 DEF Disjoint
<1> QED BY <1>1 DEF Disjoint

LEMMA AllRowsAre ==
    ASSUME NEW pg, NEW ts, Len(ts) \in Nat, TablesHold(pg, ts), RowsDiffer(pg)
    PROVE  Lists(AllRows(pg, ts), UNION {TagRows(pg, t) : t \in 1..Len(ts)})
<1>1. PICK n \in Nat : n = Len(ts) OBVIOUS
<1>2. PICK T : T = Seq(EveryRow(pg)) OBVIOUS
<1>3. PICK g : g = [t \in 1..n |-> TableRows(pg, ts[t])] OBVIOUS
<1>4. PICK S : S = [t \in 1..n |-> TagRows(pg, t)] OBVIOUS
<1>5. ASSUME NEW t \in 1..n PROVE Lists(g[t], S[t])
  <2>1. PICK c : Holds(pg, ts[t], t, c) BY <1>1 DEF TablesHold
  <2> QED BY <1>3, <1>4, <2>1, TagRowsListed
<1>6. Apart(S, n)
  <2>1. ASSUME NEW i \in 1..n, NEW j \in 1..n, i # j PROVE Disjoint(S[i], S[j])
    <3>1. Disjoint(TagRows(pg, i), TagRows(pg, j)) BY <2>1, TagsApart
    <3> QED BY <1>4, <3>1
  <2> QED BY <2>1 DEF Apart
<1>7. ASSUME NEW i \in 1..n PROVE g[i] \in Seq(EveryRow(pg))
  <2>1. g[i] \in Seq(S[i]) BY <1>5 DEF Lists
  <2>2. S[i] \subseteq EveryRow(pg) BY <1>4 DEF EveryRow, TagRows
  <2> QED BY <2>1, <2>2, SeqMonotonic
<1>8. PICK F : F = [z \in T \X (1..n) |-> z[1] \o g[z[2]]] OBVIOUS
<1>9. ASSUME NEW x \in T, NEW i \in 1..n PROVE F[<<x, i>>] = x \o g[i] /\ F[<<x, i>>] \in T
  <2>1. <<x, i>> \in T \X (1..n) OBVIOUS
  <2>2. <<x, i>>[1] = x /\ <<x, i>>[2] = i OBVIOUS
  <2>3. F[<<x, i>>] = <<x, i>>[1] \o g[<<x, i>>[2]] BY <1>8, <2>1, Zenon
  <2>4. F[<<x, i>>] = x \o g[i] BY <2>2, <2>3
  <2>5. x \in Seq(EveryRow(pg)) /\ g[i] \in Seq(EveryRow(pg)) BY <1>2, <1>7
  <2>6. x \o g[i] \in Seq(EveryRow(pg)) BY <2>5, ConcatProperties
  <2> QED BY <1>2, <2>4, <2>6
<1>10. << >> \in T BY <1>2
<1>11. PICK f : Loop(f, n, << >>, F) /\ \A i \in 0..n : f[i] \in T
  <2>1. \A x \in T, i \in 1..n : F[<<x, i>>] \in T BY <1>9
  <2> QED BY <1>10, <2>1, LoopIn
<1> DEFINE Is(h) == h = [i \in 0..n |-> IF i = 0 THEN << >> ELSE h[i - 1] \o TableRows(pg, ts[i])]
<1>12. Is(f)
  <2>1. ASSUME NEW i \in 0..n PROVE f[i] = IF i = 0 THEN << >> ELSE f[i - 1] \o TableRows(pg, ts[i])
    <3>1. f[i] = IF i = 0 THEN << >> ELSE F[<<f[i - 1], i>>] BY <1>11 DEF Loop
    <3>2. i # 0 => i \in 1..n /\ i - 1 \in 0..n BY <1>1
    <3>3. i # 0 => F[<<f[i - 1], i>>] = f[i - 1] \o g[i] BY <1>9, <1>11, <3>2
    <3>4. i # 0 => g[i] = TableRows(pg, ts[i]) BY <1>3, <3>2
    <3> QED BY <3>1, <3>3, <3>4
  <2>2. f = [i \in 0..n |-> f[i]] BY <1>11 DEF Loop
  <2> QED BY <2>1, <2>2
<1>13. PICK h : h = (CHOOSE x : Is(x)) /\ Is(h)
  <2> HIDE DEF Is
  <2> QED BY <1>12
<1>14. Joined(h, g, n)
  <2>1. \A i \in 0..n : h[i] = IF i = 0 THEN << >> ELSE h[i - 1] \o TableRows(pg, ts[i]) BY <1>13
  <2>2. h[0] = << >> BY <1>1, <2>1
  <2>3. ASSUME NEW i \in 1..n PROVE h[i] = h[i - 1] \o g[i]
    <3>1. i \in 0..n /\ i # 0 BY <1>1
    <3> QED BY <1>3, <2>1, <3>1
  <2> QED BY <2>2, <2>3 DEF Joined
<1>15. AllRows(pg, ts) = h[n]
  <2>1. CASE n = 0 BY <1>1, <1>14, <2>1 DEF AllRows, Iterate, Joined
  <2>2. CASE n # 0
    <3>1. ~(n <= 0) BY <1>1, <2>2
    <3> QED BY <1>1, <1>13, <3>1 DEF AllRows, Iterate
  <2> QED BY <2>1, <2>2
<1>16. Lists(h[n], UpTo(S, n)) BY <1>5, <1>6, <1>14, ListsJoined
<1>17. UpTo(S, n) = UNION {TagRows(pg, t) : t \in 1..Len(ts)} BY <1>1, <1>4 DEF UpTo
<1> QED BY <1>15, <1>16, <1>17

(* Sequences put behind each other by FlattenSeq.                             *)
LEMMA FlattenIs ==
    ASSUME NEW n \in Nat, NEW S, NEW g, g = [t \in 1..n |-> g[t]],
           \A i \in 1..n : Lists(g[i], S[i]), Apart(S, n)
    PROVE  Lists(FlattenSeq(g), UpTo(S, n))
<1>1. PICK U : U = UpTo(S, n) OBVIOUS
<1>2. ASSUME NEW i \in 1..n PROVE g[i] \in Seq(U)
  <2>1. g[i] \in Seq(S[i]) BY DEF Lists
  <2>2. S[i] \subseteq U BY <1>1 DEF UpTo
  <2> QED BY <2>1, <2>2, SeqMonotonic
<1>3. g \in Seq(Seq(U)) /\ Len(g) = n
  <2>1. g \in [1..n -> Seq(U)] BY <1>2
  <2> QED BY <2>1
<1>4. CASE n = 0
  <2>1. g = << >> BY <1>3, <1>4, EmptySeq
  <2>2. UpTo(S, n) = {} BY <1>4 DEF UpTo
  <2>3. Lists(<< >>, {}) BY EmptySeq DEF Lists
  <2>4. FlattenSeq(g) = g BY <1>3, <1>4 DEF FlattenSeq
  <2> QED BY <2>1, <2>2, <2>3, <2>4
<1>5. CASE n # 0
  <2>1. n >= 1 /\ 1 \in 1..n BY <1>5
  <2>2. PICK T : T = Seq(U) OBVIOUS
  <2>3. PICK F : F = [z \in T \X (1..n) |-> z[1] \o g[z[2]]] OBVIOUS
  <2>4. ASSUME NEW x \in T, NEW i \in 1..n PROVE F[<<x, i>>] = x \o g[i] /\ F[<<x, i>>] \in T
    <3>1. <<x, i>> \in T \X (1..n) OBVIOUS
    <3>2. <<x, i>>[1] = x /\ <<x, i>>[2] = i OBVIOUS
    <3>3. F[<<x, i>>] = <<x, i>>[1] \o g[<<x, i>>[2]] BY <2>3, <3>1, Zenon
    <3>4. F[<<x, i>>] = x \o g[i] BY <3>2, <3>3
    <3>5. x \in Seq(U) /\ g[i] \in Seq(U) BY <1>2, <2>2
    <3>6. x \o g[i] \in Seq(U) BY <3>5, ConcatProperties
    <3> QED BY <2>2, <3>4, <3>6
  <2>5. << >> \in T BY <2>2
  <2>6. PICK f : Loop(f, n, << >>, F) /\ \A i \in 0..n : f[i] \in T
    <3>1. \A x \in T, i \in 1..n : F[<<x, i>>] \in T BY <2>4
    <3> QED BY <2>5, <3>1, LoopIn
  <2> DEFINE Is(h) == h = [i \in 1..n |-> IF i = 1 THEN g[i] ELSE h[i - 1] \o g[i]]
  <2>7. ASSUME NEW i \in 1..n PROVE f[i] = f[i - 1] \o g[i]
    <3>1. i \in 0..n /\ i # 0 /\ i - 1 \in 0..n OBVIOUS
    <3>2. f[i] = F[<<f[i - 1], i>>] BY <2>6, <3>1 DEF Loop
    <3> QED BY <2>4, <2>6, <3>1, <3>2
  <2>8. f[0] = << >> BY <2>6 DEF Loop
  <2>9. PICK k : k = [i \in 1..n |-> f[i]] OBVIOUS
  <2>10. Is(k)
    <3>1. ASSUME NEW i \in 1..n PROVE k[i] = IF i = 1 THEN g[i] ELSE k[i - 1] \o g[i]
      <4>1. CASE i = 1
        <5>1. f[1] = f[0] \o g[1]
          <6>1. 1 - 1 = 0 OBVIOUS
          <6> QED BY <2>1, <2>7, <6>1
        <5>2. f[1] = g[1] BY <1>2, <2>1, <2>8, <5>1, ConcatEmptySeq
        <5> QED BY <2>9, <4>1, <5>2
      <4>2. CASE i # 1
        <5>1. i - 1 \in 1..n BY <4>2
        <5> QED BY <2>7, <2>9, <4>2, <5>1
      <4> QED BY <4>1, <4>2
    <3>2. k = [i \in 1..n |-> k[i]] BY <2>9
    <3> QED BY <3>1, <3>2
  <2>11. PICK h : h = (CHOOSE x : Is(x)) /\ Is(h)
    <3> HIDE DEF Is
    <3> QED BY <2>10
  <2>12. FlattenSeq(g) = h[n] BY <1>3, <1>5, <2>11 DEF FlattenSeq
  <2>13. PICK j : j = [i \in 0..n |-> IF i = 0 THEN << >> ELSE h[i]] OBVIOUS
  <2>14. \A i \in 1..n : h[i] = IF i = 1 THEN g[i] ELSE h[i - 1] \o g[i] BY <2>11
  <2>15. Joined(j, g, n)
    <3>1. ASSUME NEW i \in 1..n PROVE j[i] = j[i - 1] \o g[i]
      <4>1. i \in 0..n /\ i # 0 /\ i - 1 \in 0..n /\ j[i] = h[i] BY <2>13
      <4>2. CASE i = 1
        <5>1. j[i - 1] = << >> BY <2>13, <4>1, <4>2
        <5>2. << >> \o g[i] = g[i] BY <1>2, ConcatEmptySeq
        <5> QED BY <2>14, <4>1, <4>2, <5>1, <5>2
      <4>3. CASE i # 1
        <5>1. i - 1 # 0 /\ j[i - 1] = h[i - 1] BY <2>13, <4>1, <4>3
        <5> QED BY <2>14, <4>1, <4>3, <5>1
      <4> QED BY <4>2, <4>3
    <3>2. j[0] = << >> BY <2>13
    <3> QED BY <3>1, <3>2 DEF Joined
  <2>16. Lists(j[n], UpTo(S, n)) BY <2>15, ListsJoined
  <2>17. j[n] = h[n] BY <1>5, <2>13
  <2> QED BY <2>12, <2>16, <2>17
<1> QED BY <1>4, <1>5

-----------------------------------------------------------------------------
(* The invariant, about pages pg, catalogue ts, the pool of pages (np, fl) and *)
(* the addresses ptr of the rows numbered below nr.                           *)

TabRecs  == [name : Names, types : Schemas, first : Pages, last : Pages]
SlotRecs == [off : Nat, row : RowIds]
Values   == UNION {RowVals(s) : s \in Schemas}
PageRecs == [tid : 0..MaxTables, slots : Seq(SlotRecs), recs : Seq(Values), next : 0..NPages]

Catalogue(ts) == ts \in Seq(TabRecs) /\ Len(ts) <= MaxTables

PagesIn(pg, n) ==
    /\ pg \in [Pages -> PageRecs]
    /\ \A p \in Pages : pg[p].tid <= n
    /\ \A p \in Pages : pg[p].tid = 0 => pg[p].slots = << >> /\ pg[p].recs = << >>

(* A page x of records of the given column types: every slot has the record at *)
(* its own place, and all fit.                                                *)
Tidy(x, types) ==
    /\ x.recs \in Seq(RowVals(types)) /\ Len(x.recs) = Len(x.slots)
    /\ \A j \in 1..Len(x.slots) : x.slots[j].off = j
    /\ HeaderSize + Len(x.slots) * (SlotSize + RecSize(types)) <= PageSize

Tidied(pg, ts) == \A p \in Pages : pg[p].tid # 0 => Tidy(pg[p], ts[pg[p].tid].types)

Tagged(pg, t) == {p \in Pages : pg[p].tid = t}

FreePages(pg, np) == {p \in 1..np : pg[p].tid = 0}

Pool(pg, np, fl) ==
    /\ np \in 0..NPages
    /\ Lists(fl, FreePages(pg, np))
    /\ \A p \in Pages : p > np => pg[p].tid = 0

Located(pg, ptr, nr) ==
    /\ \A p \in Pages : \A j \in 1..Len(pg[p].slots) :
          pg[p].slots[j].row < nr /\ ptr[pg[p].slots[j].row] = <<p, j>>
    /\ \A r \in RowIds : ptr[r] = NoRow
          \/ \E p \in Pages : \E j \in 1..Len(pg[p].slots) : pg[p].slots[j].row = r

(* What a statement may change rows in: tables and addresses.                 *)
RowsGood(pg, ts, ptr, nr) ==
    /\ PagesIn(pg, Len(ts)) /\ Tidied(pg, ts)
    /\ nr \in 1..RowLimit /\ ptr \in [RowIds -> (Pages \X Nat) \cup {NoRow}]
    /\ Located(pg, ptr, nr)

StoreInv ==
    /\ Catalogue(tabs) /\ TablesHold(page, tabs)
    /\ Pool(page, next_page, free_list)
    /\ RowsGood(page, tabs, row_ptr, next_rowid)

-----------------------------------------------------------------------------
(* Constants.                                                                 *)

LEMMA Sizes ==
    /\ NPages \in Nat /\ NPages >= 1 /\ MaxTables \in Nat /\ MaxTables >= 1
    /\ MaxIndexes \in Nat /\ RowLimit \in Nat /\ RowLimit >= 1 /\ IndexRows \in Nat
    /\ PageSize \in Nat /\ HeaderSize \in Nat /\ SlotSize \in Nat /\ SlotSize >= 1
    /\ IntSize \in Nat /\ StrSize \in Nat /\ IntRange \in Nat /\ IntRange >= 1
BY DbAssumptions DEF DbAssumptions

LEMMA SchemaIs ==
    ASSUME NEW s \in Schemas
    PROVE  /\ s \in Seq({0, 1}) /\ DOMAIN s = 1..Len(s) /\ Len(s) \in 1..4
           /\ RecSize(s) \in Nat /\ HeaderSize + SlotSize + RecSize(s) <= PageSize
<1>1. s \in Seq({0, 1}) /\ Len(s) \in 1..4 /\ HeaderSize + SlotSize + RecSize(s) <= PageSize
  BY DbAssumptions DEF DbAssumptions
<1>2. DOMAIN s = 1..Len(s) BY <1>1
<1>3. PICK A, B : A = {c \in DOMAIN s : s[c] = 0} /\ B = {c \in DOMAIN s : s[c] = 1} OBVIOUS
<1>4. IsFiniteSet(1..Len(s)) BY <1>1, FS_Interval
<1>5. A \subseteq 1..Len(s) /\ B \subseteq 1..Len(s) BY <1>2, <1>3
<1>6. IsFiniteSet(A) /\ IsFiniteSet(B) BY <1>4, <1>5, FS_Subset
<1>7. PICK a \in Nat, b \in Nat : a = Cardinality(A) /\ b = Cardinality(B) BY <1>6, FS_CardinalityType
<1>8. RecSize(s) = IntSize * a + StrSize * b BY <1>3, <1>7 DEF RecSize
<1>9. RecSize(s) \in Nat BY <1>7, <1>8, Sizes
<1> QED BY <1>1, <1>2, <1>9

LEMMA ListsLen ==
    ASSUME NEW n \in Nat, NEW s, Lists(s, 1..n)
    PROVE  Len(s) = n
<1>1. s \in Seq(1..n) /\ Len(s) \in Nat BY LenProperties DEF Lists
<1>2. s \in [1..Len(s) -> 1..n] BY <1>1, LenProperties
<1>3. s \in Bijection(1..Len(s), 1..n)
  <2>1. \A i, j \in 1..Len(s) : s[i] = s[j] => i = j BY DEF Lists
  <2>2. \A x \in 1..n : \E i \in 1..Len(s) : s[i] = x BY DEF Lists
  <2> QED BY <1>2, <2>1, <2>2 DEF Bijection, Injection, Surjection, IsInjective
<1>4. ASSUME NEW m \in Nat PROVE IsFiniteSet(1..m) /\ Cardinality(1..m) = m
  BY FS_Interval
<1>5. PICK m \in Nat : m = Len(s) BY <1>1
<1>6. s \in Bijection(1..m, 1..n) BY <1>3, <1>5
<1>7. Cardinality(1..m) = Cardinality(1..n) BY <1>4, <1>6, FS_Bijection DEF ExistsBijection
<1> QED BY <1>4, <1>5, <1>7

LEMMA ListsFront ==
    ASSUME NEW S, NEW s, Lists(s, S), s # << >>
    PROVE  Last(s) \in S /\ Lists(Front(s), S \ {Last(s)})
<1>1. s \in Seq(S) BY DEF Lists
<1>2. PICK n \in Nat : n = Len(s) /\ n >= 1 BY <1>1, EmptySeq, LenProperties
<1>3. \A i \in 1..n : s[i] \in S BY <1>1, <1>2, ElementOfSeq
<1>4. PICK x \in S : x = s[n] /\ x = Last(s) BY <1>2, <1>3 DEF Last
<1>5. ASSUME NEW i \in 1..n - 1 PROVE s[i] \in S \ {x}
  <2>1. i \in 1..n /\ n \in 1..n /\ i # n BY <1>2
  <2>2. s[i] # s[n] BY <1>2, <2>1 DEF Lists
  <2> QED BY <1>3, <1>4, <2>1, <2>2
<1>6. PICK f : f = Front(s) OBVIOUS
<1>7. f \in Seq(S \ {x}) /\ Len(f) = n - 1 /\ \A i \in 1..n - 1 : f[i] = s[i]
  <2>1. f = SubSeq(s, 1, n - 1) BY <1>2, <1>6 DEF Front
  <2>2. 1 \in Int /\ n - 1 \in Int OBVIOUS
  <2>3. /\ SubSeq(s, 1, n - 1) \in Seq(S \ {x})
        /\ Len(SubSeq(s, 1, n - 1)) = IF 1 <= n - 1 THEN n - 1 - 1 + 1 ELSE 0
        /\ \A i \in 1..n - 1 - 1 + 1 : SubSeq(s, 1, n - 1)[i] = s[1 + i - 1]
    BY <1>5, <2>2, SubSeqProperties
  <2>4. \A i \in 1..n - 1 : i \in 1..n - 1 - 1 + 1 /\ 1 + i - 1 = i BY <1>2
  <2> QED BY <1>2, <2>1, <2>3, <2>4
<1>8. ASSUME NEW y \in S \ {x} PROVE \E i \in 1..Len(f) : f[i] = y
  <2>1. PICK i \in 1..n : s[i] = y BY <1>2 DEF Lists
  <2>2. y # x OBVIOUS
  <2>3. i # n BY <1>4, <2>1, <2>2
  <2>4. i \in 1..n - 1 BY <1>2, <2>3
  <2> QED BY <1>7, <2>1, <2>4
<1>9. ASSUME NEW i \in 1..Len(f), NEW j \in 1..Len(f), f[i] = f[j] PROVE i = j
  <2>1. i \in 1..n - 1 /\ j \in 1..n - 1 BY <1>7
  <2>2. i \in 1..n /\ j \in 1..n /\ s[i] = s[j] BY <1>7, <1>9, <2>1
  <2> QED BY <1>2, <2>2 DEF Lists
<1>10. Lists(f, S \ {x}) BY <1>7, <1>8, <1>9 DEF Lists
<1> QED BY <1>4, <1>6, <1>10

-----------------------------------------------------------------------------
(* What a tidy store shows.                                                   *)

LEMMA PageIs ==
    ASSUME NEW pg, NEW n, PagesIn(pg, n), NEW p \in Pages
    PROVE  /\ pg[p].tid \in 0..MaxTables /\ pg[p].next \in 0..NPages
           /\ pg[p].slots \in Seq(SlotRecs) /\ pg[p].recs \in Seq(Values)
           /\ Len(pg[p].slots) \in Nat /\ DOMAIN pg[p].slots = 1..Len(pg[p].slots)
           /\ Len(pg[p].recs) \in Nat /\ DOMAIN pg[p].recs = 1..Len(pg[p].recs)
           /\ \A j \in 1..Len(pg[p].slots) : pg[p].slots[j].off \in Nat /\ pg[p].slots[j].row \in RowIds
<1>1. PICK x \in PageRecs : x = pg[p] BY DEF PagesIn
<1>2. x.tid \in 0..MaxTables /\ x.next \in 0..NPages /\ x.slots \in Seq(SlotRecs) /\ x.recs \in Seq(Values)
  BY DEF PageRecs
<1>3. ASSUME NEW j \in 1..Len(x.slots) PROVE x.slots[j].off \in Nat /\ x.slots[j].row \in RowIds
  <2>1. x.slots[j] \in SlotRecs BY <1>2, ElementOfSeq
  <2> QED BY <2>1 DEF SlotRecs
<1>4. Len(x.slots) \in Nat /\ DOMAIN x.slots = 1..Len(x.slots) BY <1>2, LenProperties
<1>5. Len(x.recs) \in Nat /\ DOMAIN x.recs = 1..Len(x.recs) BY <1>2, LenProperties
<1> QED BY <1>1, <1>2, <1>3, <1>4, <1>5

LEMMA PagePlaces ==
    ASSUME NEW pg, NEW ts, PagesIn(pg, Len(ts)), Tidied(pg, ts), NEW p \in Pages
    PROVE  /\ Len(pg[p].recs) = Len(pg[p].slots)
           /\ \A j \in 1..Len(pg[p].slots) : pg[p].slots[j].off = j
<1>1. CASE pg[p].tid = 0
  <2>1. pg[p].slots = << >> /\ pg[p].recs = << >> BY <1>1 DEF PagesIn
  <2>2. 1..Len(pg[p].slots) = {} BY <2>1
  <2> QED BY <2>1, <2>2
<1>2. CASE pg[p].tid # 0 BY <1>2 DEF Tidied, Tidy
<1> QED BY <1>1, <1>2

LEMMA PageRowsAre ==
    ASSUME NEW pg, NEW ts, PagesIn(pg, Len(ts)), Tidied(pg, ts), NEW p \in Pages,
           NEW j \in 1..Len(pg[p].slots)
    PROVE  PageRows(pg, p)[j] = [id |-> pg[p].slots[j].row, at |-> <<p, j>>, val |-> pg[p].recs[j]]
<1>1. j \in DOMAIN pg[p].slots BY PageIs
<1>2. pg[p].slots[j].off = j BY PagePlaces
<1> QED BY <1>1, <1>2 DEF PageRows

LEMMA RowsAreListed ==
    ASSUME NEW pg, NEW ts, PagesIn(pg, Len(ts)), Tidied(pg, ts)
    PROVE  RowsDiffer(pg)
<1>1. ASSUME NEW p \in Pages PROVE Lists(PageRows(pg, p), RowsAt(pg, p))
  <2>1. PICK n \in Nat : n = Len(pg[p].slots) BY PageIs
  <2>2. DOMAIN pg[p].slots = 1..n BY <2>1, PageIs
  <2>3. PICK s : s = PageRows(pg, p) OBVIOUS
  <2>4. s = [i \in 1..n |-> s[i]] BY <2>2, <2>3 DEF PageRows
  <2>5. \A i \in 1..n : s[i] \in RowsAt(pg, p) BY <2>1, <2>3 DEF RowsAt
  <2>6. s \in [1..n -> RowsAt(pg, p)] BY <2>4, <2>5
  <2>7. s \in Seq(RowsAt(pg, p)) /\ Len(s) = n BY <2>6
  <2>8. \A x \in RowsAt(pg, p) : \E i \in 1..n : s[i] = x BY <2>1, <2>3 DEF RowsAt
  <2>9. ASSUME NEW i \in 1..n, NEW j \in 1..n, s[i] = s[j] PROVE i = j
    <3>1. PageRows(pg, p)[i] = [id |-> pg[p].slots[i].row, at |-> <<p, i>>, val |-> pg[p].recs[i]]
      BY <2>1, PageRowsAre
    <3>2. PageRows(pg, p)[j] = [id |-> pg[p].slots[j].row, at |-> <<p, j>>, val |-> pg[p].recs[j]]
      BY <2>1, PageRowsAre
    <3>3. s[i].at = <<p, i>> /\ s[j].at = <<p, j>> BY <2>3, <3>1, <3>2
    <3> QED BY <2>9, <3>3
  <2> QED BY <2>3, <2>7, <2>8, <2>9 DEF Lists
<1>2. ASSUME NEW p \in Pages, NEW q \in Pages, p # q PROVE Disjoint(RowsAt(pg, p), RowsAt(pg, q))
  <2>1. ASSUME NEW x \in RowsAt(pg, p), NEW y \in RowsAt(pg, q) PROVE x # y
    <3>1. PICK i \in 1..Len(pg[p].slots) : x = PageRows(pg, p)[i] BY DEF RowsAt
    <3>2. PICK j \in 1..Len(pg[q].slots) : y = PageRows(pg, q)[j] BY DEF RowsAt
    <3>3. PageRows(pg, p)[i] = [id |-> pg[p].slots[i].row, at |-> <<p, i>>, val |-> pg[p].recs[i]]
      BY PageRowsAre
    <3>4. PageRows(pg, q)[j] = [id |-> pg[q].slots[j].row, at |-> <<q, j>>, val |-> pg[q].recs[j]]
      BY PageRowsAre
    <3>5. x.at = <<p, i>> /\ y.at = <<q, j>> BY <3>1, <3>2, <3>3, <3>4
    <3> QED BY <1>2, <3>5
  <2> QED BY <2>1 DEF Disjoint
<1> QED BY <1>1, <1>2 DEF RowsDiffer

LEMMA RowIn ==
    ASSUME NEW pg, NEW ts, PagesIn(pg, Len(ts)), Tidied(pg, ts), NEW t, NEW x \in TagRows(pg, t)
    PROVE  \E p \in Pages : \E j \in 1..Len(pg[p].slots) :
              /\ pg[p].tid = t /\ x.id = pg[p].slots[j].row /\ x.at = <<p, j>> /\ x.val = pg[p].recs[j]
<1>1. PICK p \in Pages : pg[p].tid = t /\ x \in RowsAt(pg, p) BY DEF TagRows
<1>2. PICK j \in 1..Len(pg[p].slots) : x = PageRows(pg, p)[j] BY <1>1 DEF RowsAt
<1>3. PageRows(pg, p)[j] = [id |-> pg[p].slots[j].row, at |-> <<p, j>>, val |-> pg[p].recs[j]]
  BY PageRowsAre
<1>4. x.id = pg[p].slots[j].row /\ x.at = <<p, j>> /\ x.val = pg[p].recs[j] BY <1>2, <1>3
<1> QED BY <1>1, <1>4

LEMMA InRow ==
    ASSUME NEW pg, NEW ts, PagesIn(pg, Len(ts)), Tidied(pg, ts),
           NEW p \in Pages, NEW j \in 1..Len(pg[p].slots)
    PROVE  \E x \in TagRows(pg, pg[p].tid) :
              x.id = pg[p].slots[j].row /\ x.at = <<p, j>> /\ x.val = pg[p].recs[j]
<1>1. PICK x : x = PageRows(pg, p)[j] OBVIOUS
<1>2. x \in TagRows(pg, pg[p].tid) BY <1>1 DEF TagRows, RowsAt
<1>3. PageRows(pg, p)[j] = [id |-> pg[p].slots[j].row, at |-> <<p, j>>, val |-> pg[p].recs[j]]
  BY PageRowsAre
<1>4. x.id = pg[p].slots[j].row /\ x.at = <<p, j>> /\ x.val = pg[p].recs[j] BY <1>1, <1>3
<1> QED BY <1>2, <1>4

LEMMA FirstIsChain ==
    ASSUME NEW pg, NEW ts, NEW t \in 1..Len(ts), TablesHold(pg, ts)
    PROVE  Holds(pg, ts[t], t, Chain(pg, ts[t].first))
<1>1. PICK c : Holds(pg, ts[t], t, c) BY DEF TablesHold
<1>2. Chain(pg, ts[t].first) = c BY <1>1, ChainFollowed DEF Holds
<1> QED BY <1>1, <1>2

LEMMA ChainLists ==
    ASSUME NEW pg, NEW tab, NEW t, NEW c, Holds(pg, tab, t, c)
    PROVE  Lists(c, Tagged(pg, t))
<1>1. /\ \A i \in 1..Len(c) : c[i] \in Pages
      /\ \A i, j \in 1..Len(c) : c[i] = c[j] => i = j
      /\ Len(c) \in Nat /\ DOMAIN c = 1..Len(c) /\ c \in Seq(Pages)
  BY ChainIn DEF Holds, IsChain
<1>2. \A i \in 1..Len(c) : c[i] \in Tagged(pg, t) BY <1>1 DEF Holds, Tagged
<1>3. c \in Seq(Tagged(pg, t))
  <2>1. c \in [1..Len(c) -> Pages] BY <1>1
  <2>2. c \in [1..Len(c) -> Tagged(pg, t)] BY <1>2, <2>1
  <2> QED BY <1>1, <2>2, SeqDef
<1>4. \A p \in Tagged(pg, t) : \E i \in 1..Len(c) : c[i] = p BY DEF Holds, Tagged
<1> QED BY <1>1, <1>3, <1>4 DEF Lists

-----------------------------------------------------------------------------
(* The properties follow from the invariant.                                  *)

LEMMA TabsIn ==
    ASSUME NEW ts, Catalogue(ts)
    PROVE  /\ Len(ts) \in 0..MaxTables /\ DOMAIN ts = 1..Len(ts)
           /\ \A t \in 1..Len(ts) :
                 ts[t] \in TabRecs /\ ts[t].types \in Schemas /\ ts[t].first \in Pages /\ ts[t].last \in Pages
<1>1. ts \in Seq(TabRecs) /\ Len(ts) <= MaxTables BY DEF Catalogue
<1>2. Len(ts) \in Nat /\ DOMAIN ts = 1..Len(ts) BY <1>1, LenProperties
<1>3. \A t \in 1..Len(ts) : ts[t] \in TabRecs BY <1>1, ElementOfSeq
<1>4. \A x \in TabRecs : x.types \in Schemas /\ x.first \in Pages /\ x.last \in Pages BY DEF TabRecs
<1> QED BY <1>1, <1>2, <1>3, <1>4, Sizes

TablePages(pg, n) == {p \in Pages : pg[p].tid \in 1..n}

LEMMA Covered ==
    ASSUME StoreInv
    PROVE  /\ next_page \in Nat
           /\ TablePages(page, Len(tabs)) \cup FreePages(page, next_page) = 1..next_page
<1>1. next_page \in 0..NPages /\ NPages \in Nat BY Sizes DEF StoreInv, Pool
<1>2. PICK n \in Nat : n = Len(tabs) BY TabsIn DEF StoreInv
<1>3. ASSUME NEW p \in Pages PROVE page[p].tid \in 0..n /\ (p > next_page => page[p].tid = 0)
  <2>1. page[p].tid \in 0..MaxTables BY PageIs DEF StoreInv, RowsGood
  <2>2. page[p].tid <= n BY <1>2 DEF StoreInv, RowsGood, PagesIn
  <2> QED BY <2>1, <2>2, <1>2 DEF StoreInv, Pool
<1>4. ASSUME NEW p PROVE p \in 1..next_page <=> p \in TablePages(page, n) \/ p \in FreePages(page, next_page)
  <2>1. p \in 1..next_page <=> p \in Pages /\ ~(p > next_page) BY <1>1 DEF Pages
  <2>2. p \in FreePages(page, next_page) <=> p \in 1..next_page /\ page[p].tid = 0 BY DEF FreePages
  <2>3. p \in TablePages(page, n) <=> p \in Pages /\ page[p].tid \in 1..n BY DEF TablePages
  <2>4. p \in Pages => (page[p].tid \in 1..n <=> page[p].tid # 0) BY <1>2, <1>3
  <2>5. p \in Pages /\ p > next_page => page[p].tid = 0 BY <1>3
  <2> QED BY <2>1, <2>2, <2>3, <2>4, <2>5
<1>5. TablePages(page, n) \cup FreePages(page, next_page) = 1..next_page BY <1>4
<1> QED BY <1>1, <1>2, <1>5

LEMMA ConservedFollows == StoreInv => PagesConserved
<1> SUFFICES ASSUME StoreInv PROVE PagesConserved OBVIOUS
<1>1. PICK n \in Nat : n = Len(tabs) BY TabsIn DEF StoreInv
<1>2. DOMAIN tabs = 1..n BY <1>1, TabsIn DEF StoreInv
<1>3. PICK cs : cs = [t \in DOMAIN tabs |-> Chain(page, tabs[t].first)] OBVIOUS
<1>4. PICK S : S = [t \in 1..n |-> Tagged(page, t)] OBVIOUS
<1>5. ASSUME NEW t \in 1..n PROVE Holds(page, tabs[t], t, cs[t])
  <2>1. Holds(page, tabs[t], t, Chain(page, tabs[t].first)) BY <1>1, FirstIsChain DEF StoreInv
  <2> QED BY <1>2, <1>3, <2>1
<1>6. \A t \in 1..n : Lists(cs[t], S[t]) BY <1>4, <1>5, ChainLists
<1>7. Apart(S, n) BY <1>4 DEF Apart, Disjoint, Tagged
<1>8. cs = [t \in 1..n |-> cs[t]] BY <1>2, <1>3
<1>9. Lists(FlattenSeq(cs), UpTo(S, n)) BY <1>6, <1>7, <1>8, FlattenIs
<1>10. UpTo(S, n) = TablePages(page, n)
  <2>1. ASSUME NEW p PROVE p \in UpTo(S, n) <=> p \in TablePages(page, n)
    <3>1. p \in UpTo(S, n) <=> \E t \in 1..n : p \in S[t] BY DEF UpTo
    <3>2. \A t \in 1..n : p \in S[t] <=> p \in Pages /\ page[p].tid = t BY <1>4 DEF Tagged
    <3>3. p \in TablePages(page, n) <=> p \in Pages /\ page[p].tid \in 1..n BY DEF TablePages
    <3> QED BY <3>1, <3>2, <3>3
  <2> QED BY <2>1
<1>11. Disjoint(UpTo(S, n), FreePages(page, next_page))
  <2>1. ASSUME NEW p \in UpTo(S, n), p \in FreePages(page, next_page) PROVE FALSE
    <3>1. page[p].tid \in 1..n BY <1>10 DEF TablePages
    <3>2. page[p].tid = 0 BY <2>1 DEF FreePages
    <3> QED BY <3>1, <3>2
  <2> QED BY <2>1 DEF Disjoint
<1>12. Lists(free_list, FreePages(page, next_page)) BY DEF StoreInv, Pool
<1>13. PICK all : all = FlattenSeq(cs) \o free_list OBVIOUS
<1>14. next_page \in Nat /\ Lists(all, 1..next_page)
  <2>1. Lists(all, UpTo(S, n) \cup FreePages(page, next_page)) BY <1>9, <1>11, <1>12, <1>13, ListsConcat
  <2>2. next_page \in Nat /\ UpTo(S, n) \cup FreePages(page, next_page) = 1..next_page
    BY <1>1, <1>10, Covered
  <2> QED BY <2>1, <2>2
<1>15. Len(all) = next_page BY <1>14, ListsLen
<1>16. ToSet(all) = 1..next_page
  <2>1. all \in Seq(1..next_page) BY <1>14 DEF Lists
  <2>2. DOMAIN all = 1..Len(all) /\ \A i \in 1..Len(all) : all[i] \in 1..next_page
    BY <2>1, LenProperties, ElementOfSeq
  <2>3. \A p \in 1..next_page : \E i \in 1..Len(all) : all[i] = p BY <1>14 DEF Lists
  <2> QED BY <2>2, <2>3 DEF ToSet
<1>17. ASSUME NEW t \in 1..n
       PROVE  Last(cs[t]) = tabs[t].last /\ \A i \in DOMAIN cs[t] : page[cs[t][i]].tid = t
  <2>1. Last(cs[t]) = tabs[t].last BY <1>5 DEF Holds, Last
  <2>2. IsChain(page, cs[t]) BY <1>5 DEF Holds
  <2>3. ASSUME NEW i \in 1..Len(cs[t]) PROVE page[cs[t][i]].tid = t
    <3>1. cs[t][i] \in Pages BY <2>2, ChainIn
    <3> QED BY <1>5, <3>1 DEF Holds
  <2>4. DOMAIN cs[t] = 1..Len(cs[t]) BY <2>2, ChainIn
  <2> QED BY <2>1, <2>3, <2>4
<1> QED BY <1>2, <1>3, <1>13, <1>15, <1>16, <1>17 DEF PagesConserved

LEMMA LocatedFollows == StoreInv => RowsLocated
<1> SUFFICES ASSUME StoreInv PROVE RowsLocated OBVIOUS
<1>1. PICK n \in Nat : n = Len(tabs) BY TabsIn DEF StoreInv
<1>2. PICK rows : rows = AllRows(page, tabs) OBVIOUS
<1>3. PICK S : S = UNION {TagRows(page, t) : t \in 1..n} OBVIOUS
<1>4. PagesIn(page, Len(tabs)) /\ Tidied(page, tabs) /\ TablesHold(page, tabs) BY DEF StoreInv, RowsGood
<1>5. RowsDiffer(page) BY <1>4, RowsAreListed
<1>6. Lists(rows, S) BY <1>1, <1>2, <1>3, <1>4, <1>5, AllRowsAre
<1>7. DOMAIN rows = 1..Len(rows) /\ \A i \in 1..Len(rows) : rows[i] \in S
  <2>1. rows \in Seq(S) BY <1>6 DEF Lists
  <2> QED BY <2>1, LenProperties, ElementOfSeq
<1>8. ASSUME NEW x \in S
      PROVE  /\ x.id \in RowIds /\ x.id < next_rowid /\ row_ptr[x.id] = x.at /\ x.at # NoRow
             /\ \E p \in Pages : \E j \in 1..Len(page[p].slots) : x = PageRows(page, p)[j] /\ x.at = <<p, j>>
  <2>1. PICK t \in 1..n : x \in TagRows(page, t) BY <1>3
  <2>2. PICK p \in Pages : x \in RowsAt(page, p) BY <2>1 DEF TagRows
  <2>3. PICK j \in 1..Len(page[p].slots) : x = PageRows(page, p)[j] BY <2>2 DEF RowsAt
  <2>4. PageRows(page, p)[j] = [id |-> page[p].slots[j].row, at |-> <<p, j>>, val |-> page[p].recs[j]]
    BY <1>4, PageRowsAre
  <2>5. x.id = page[p].slots[j].row /\ x.at = <<p, j>> BY <2>3, <2>4
  <2>6. page[p].slots[j].row \in RowIds BY <1>4, PageIs
  <2>7. page[p].slots[j].row < next_rowid /\ row_ptr[page[p].slots[j].row] = <<p, j>>
    BY DEF StoreInv, RowsGood, Located
  <2>8. p # 0 BY DEF Pages
  <2>9. <<p, j>> # <<0, 0>> BY <2>8
  <2> QED BY <2>3, <2>5, <2>6, <2>7, <2>9 DEF NoRow
<1>9. ASSUME NEW x \in S, NEW y \in S, x.id = y.id PROVE x = y
  <2>1. PICK p \in Pages : \E j \in 1..Len(page[p].slots) : x = PageRows(page, p)[j] /\ x.at = <<p, j>> BY <1>8
  <2>2. PICK i \in 1..Len(page[p].slots) : x = PageRows(page, p)[i] /\ x.at = <<p, i>> BY <2>1
  <2>3. PICK q \in Pages : \E j \in 1..Len(page[q].slots) : y = PageRows(page, q)[j] /\ y.at = <<q, j>> BY <1>8
  <2>4. PICK j \in 1..Len(page[q].slots) : y = PageRows(page, q)[j] /\ y.at = <<q, j>> BY <2>3
  <2>5. x.at = y.at BY <1>8, <1>9
  <2>6. p = q /\ i = j BY <2>2, <2>4, <2>5
  <2> QED BY <2>2, <2>4, <2>6
<1>10. ASSUME NEW i \in DOMAIN rows, NEW j \in DOMAIN rows, rows[i].id = rows[j].id PROVE i = j
  <2>1. rows[i] = rows[j] BY <1>7, <1>9, <1>10
  <2> QED BY <1>6, <1>7, <2>1 DEF Lists
<1>11. ASSUME NEW i \in DOMAIN rows PROVE rows[i].id < next_rowid BY <1>7, <1>8
<1>12. ToSet(rows) = S
  <2>1. \A x \in S : \E i \in 1..Len(rows) : rows[i] = x BY <1>6 DEF Lists
  <2> QED BY <1>7, <2>1 DEF ToSet
<1>13. ASSUME NEW r \in RowIds
       PROVE  row_ptr[r] = IF \E i \in DOMAIN rows : rows[i].id = r
                           THEN (CHOOSE x \in ToSet(rows) : x.id = r).at ELSE NoRow
  <2>1. CASE \E i \in DOMAIN rows : rows[i].id = r
    <3>1. \E x \in S : x.id = r BY <1>7, <2>1
    <3>2. PICK x \in S : x.id = r /\ x = CHOOSE y \in S : y.id = r BY <3>1
    <3>3. row_ptr[r] = x.at BY <1>8, <3>2
    <3> QED BY <1>12, <2>1, <3>2, <3>3
  <2>2. CASE ~ \E i \in DOMAIN rows : rows[i].id = r
    <3>1. ASSUME NEW p \in Pages, NEW j \in 1..Len(page[p].slots), page[p].slots[j].row = r PROVE FALSE
      <4>1. PICK x \in TagRows(page, page[p].tid) :
               x.id = page[p].slots[j].row /\ x.at = <<p, j>> /\ x.val = page[p].recs[j]
        BY ZenonT(30), <1>4, InRow
      <4>2. page[p].tid \in 1..n
        <5>1. page[p].tid # 0
          <6>1. 1..Len(<< >>) = {} OBVIOUS
          <6> QED BY <1>4, <6>1 DEF PagesIn
        <5>2. page[p].tid \in 0..MaxTables /\ page[p].tid <= n BY <1>1, <1>4, PageIs DEF PagesIn
        <5> QED BY <1>1, <5>1, <5>2
      <4>3. x \in S BY <1>3, <4>1, <4>2
      <4>4. PICK i \in 1..Len(rows) : rows[i] = x BY <1>6, <4>3 DEF Lists
      <4> QED BY <1>7, <2>2, <3>1, <4>1, <4>4
    <3>2. row_ptr[r] = NoRow BY <3>1 DEF StoreInv, RowsGood, Located
    <3> QED BY <2>2, <3>2
  <2> QED BY <2>1, <2>2
<1> QED BY <1>2, <1>10, <1>11, <1>13 DEF RowsLocated

-----------------------------------------------------------------------------
(* Statements keep it.  First what several of them do.                        *)

LEMMA NoPlaces == 1..0 = {} /\ Len(<< >>) = 0 /\ 1..Len(<< >>) = {}
OBVIOUS

LEMMA Allocated ==
    ASSUME StoreInv, AllocPage # 0, TakePage
    PROVE  /\ AllocPage \in Pages /\ page[AllocPage].tid = 0
           /\ \A pg : (\A q \in Pages : pg[q].tid = 0 <=> page[q].tid = 0 /\ q # AllocPage)
                      => Pool(pg, next_page', free_list')
<1>1. /\ next_page \in 0..NPages /\ NPages \in Nat
      /\ Lists(free_list, FreePages(page, next_page))
      /\ \A p \in Pages : p > next_page => page[p].tid = 0
  BY Sizes DEF StoreInv, Pool
<1>2. CASE free_list # << >>
  <2>1. PICK p : p = AllocPage /\ p = Last(free_list) BY <1>2 DEF AllocPage
  <2>2. p \in FreePages(page, next_page) /\ Lists(Front(free_list), FreePages(page, next_page) \ {p})
    BY <1>1, <1>2, <2>1, ListsFront
  <2>3. free_list' = Front(free_list) /\ next_page' = next_page BY <1>2 DEF TakePage
  <2>4. p \in Pages /\ page[p].tid = 0 BY <1>1, <2>2 DEF FreePages, Pages
  <2>5. ASSUME NEW pg, \A q \in Pages : pg[q].tid = 0 <=> page[q].tid = 0 /\ q # p
        PROVE  Pool(pg, next_page', free_list')
    <3>1. 1..next_page \subseteq Pages BY <1>1 DEF Pages
    <3>2. FreePages(pg, next_page) = FreePages(page, next_page) \ {p} BY <2>5, <3>1 DEF FreePages
    <3>3. ASSUME NEW q \in Pages, q > next_page PROVE pg[q].tid = 0
      <4>1. p <= next_page BY <1>1, <2>2 DEF FreePages
      <4>2. q # p BY <1>1, <3>3, <4>1, <2>4 DEF Pages
      <4> QED BY <1>1, <2>5, <3>3, <4>2
    <3> QED BY <1>1, <2>2, <2>3, <3>2, <3>3 DEF Pool
  <2> QED BY <2>1, <2>4, <2>5
<1>3. CASE free_list = << >>
  <2>1. next_page < NPages BY <1>3 DEF AllocPage
  <2>2. PICK p \in Nat : p = AllocPage /\ p = next_page + 1 BY <1>1, <1>3, <2>1 DEF AllocPage
  <2>3. free_list' = free_list /\ next_page' = p BY <1>3, <2>2 DEF TakePage
  <2>4. p \in Pages /\ p > next_page BY <1>1, <2>1, <2>2 DEF Pages
  <2>5. page[p].tid = 0 BY <1>1, <2>4
  <2>6. FreePages(page, next_page) = {} BY <1>1, <1>3, NoPlaces DEF Lists
  <2>7. ASSUME NEW pg, \A q \in Pages : pg[q].tid = 0 <=> page[q].tid = 0 /\ q # p
        PROVE  Pool(pg, next_page', free_list')
    <3>1. ASSUME NEW q \in 1..p, pg[q].tid = 0 PROVE FALSE
      <4>1. q \in Pages BY <1>1, <2>4 DEF Pages
      <4>2. page[q].tid = 0 /\ q # p BY <2>7, <3>1, <4>1
      <4>3. q \in 1..next_page BY <1>1, <2>2, <4>2
      <4> QED BY <2>6, <4>2, <4>3 DEF FreePages
    <3>2. FreePages(pg, p) = {} BY <3>1 DEF FreePages
    <3>3. ASSUME NEW q \in Pages, q > p PROVE pg[q].tid = 0
      <4>1. q # p /\ q > next_page BY <1>1, <2>2, <3>3 DEF Pages
      <4> QED BY <1>1, <2>7, <4>1
    <3>4. p \in 0..NPages BY <1>1, <2>4 DEF Pages
    <3> QED BY <1>1, <2>3, <2>6, <3>2, <3>3, <3>4 DEF Pool
  <2> QED BY <2>2, <2>4, <2>5, <2>7
<1> QED BY <1>2, <1>3

LEMMA HoldsMoved ==
    ASSUME NEW pg, NEW new, NEW tab, NEW s, NEW t, NEW c, Holds(pg, tab, s, c),
           \A q \in Pages : pg[q].tid = s => new[q].next = pg[q].next,
           \A q \in Pages : pg[q].tid = s <=> new[q].tid = t
    PROVE  Holds(new, tab, t, c)
<1>1. IsChain(pg, c) BY DEF Holds
<1>2. Len(c) \in 1..NPages /\ NPages \in Nat /\ \A i \in 1..Len(c) : c[i] \in Pages BY <1>1, ChainIn
<1>3. \A i \in 1..Len(c) : pg[c[i]].tid = s BY <1>2 DEF Holds
<1>4. \A i \in 1..Len(c) : new[c[i]].next = pg[c[i]].next BY <1>2, <1>3
<1>5. ASSUME NEW i \in 1..Len(c) - 1 PROVE new[c[i]].next = c[i + 1]
  <2>1. i \in 1..Len(c) BY <1>2
  <2> QED BY <1>1, <1>4, <2>1 DEF IsChain
<1>6. new[c[Len(c)]].next = 0 BY <1>1, <1>2, <1>4 DEF IsChain
<1>7. IsChain(new, c) BY <1>1, <1>5, <1>6 DEF IsChain
<1> QED BY <1>7 DEF Holds

LEMMA HoldsSame ==
    ASSUME NEW pg, NEW new, NEW tab, NEW t, NEW c, Holds(pg, tab, t, c),
           \A q \in Pages : pg[q].tid = t => new[q].next = pg[q].next,
           \A q \in Pages : pg[q].tid = t <=> new[q].tid = t
    PROVE  Holds(new, tab, t, c)
BY HoldsMoved

LEMMA LocatedSame ==
    ASSUME NEW pg, NEW new, NEW ptr, NEW nr, Located(pg, ptr, nr),
           \A q \in Pages : new[q].slots = pg[q].slots
    PROVE  Located(new, ptr, nr)
<1>1. ASSUME NEW p \in Pages, NEW j \in 1..Len(new[p].slots)
      PROVE  new[p].slots[j].row < nr /\ ptr[new[p].slots[j].row] = <<p, j>>
  <2>1. new[p].slots = pg[p].slots OBVIOUS
  <2> QED BY <2>1 DEF Located
<1>2. ASSUME NEW r \in RowIds, ptr[r] # NoRow
      PROVE  \E p \in Pages : \E j \in 1..Len(new[p].slots) : new[p].slots[j].row = r
  <2>1. PICK p \in Pages : \E j \in 1..Len(pg[p].slots) : pg[p].slots[j].row = r BY <1>2 DEF Located
  <2>2. new[p].slots = pg[p].slots OBVIOUS
  <2> QED BY <2>1, <2>2
<1> QED BY <1>1, <1>2 DEF Located

LEMMA EmptyIsTidy ==
    ASSUME NEW s \in Schemas, NEW t \in 0..MaxTables
    PROVE  EmptyPage(t) \in PageRecs /\ Tidy(EmptyPage(t), s)
<1>1. PICK x : x = EmptyPage(t) OBVIOUS
<1>2. x = [tid |-> t, slots |-> << >>, recs |-> << >>, next |-> 0] BY <1>1 DEF EmptyPage
<1>3. << >> \in Seq(SlotRecs) /\ << >> \in Seq(Values) /\ << >> \in Seq(RowVals(s)) /\ 0 \in 0..NPages
  BY Sizes
<1>4. x \in PageRecs BY <1>2, <1>3 DEF PageRecs
<1>5. x.slots = << >> /\ x.recs = << >> BY <1>2
<1>6. Len(x.slots) = 0 /\ Len(x.recs) = 0 /\ 1..Len(x.slots) = {} BY <1>5, NoPlaces
<1>7. HeaderSize + 0 * (SlotSize + RecSize(s)) <= PageSize BY Sizes, SchemaIs
<1>8. Tidy(x, s) BY <1>3, <1>5, <1>6, <1>7 DEF Tidy
<1> QED BY <1>1, <1>4, <1>8

LEMMA StartsGood == DbInit => StoreInv
<1> SUFFICES ASSUME DbInit PROVE StoreInv OBVIOUS
<1>1. /\ next_page = 0 /\ free_list = << >> /\ page = [p \in Pages |-> EmptyPage(0)] /\ tabs = << >>
      /\ next_rowid = 1 /\ row_ptr = [r \in RowIds |-> NoRow]
  BY DEF DbInit
<1>2. ASSUME NEW p \in Pages
      PROVE  page[p].tid = 0 /\ page[p].slots = << >> /\ page[p].recs = << >> /\ page[p] \in PageRecs
  <2>1. page[p] = [tid |-> 0, slots |-> << >>, recs |-> << >>, next |-> 0] BY <1>1 DEF EmptyPage
  <2>2. << >> \in Seq(SlotRecs) /\ << >> \in Seq(Values) OBVIOUS
  <2> QED BY <2>1, <2>2, Sizes DEF PageRecs
<1>3. Len(tabs) = 0 /\ tabs \in Seq(TabRecs) /\ 1..Len(tabs) = {} BY <1>1
<1>4. Catalogue(tabs) BY <1>3, Sizes DEF Catalogue
<1>5. TablesHold(page, tabs) BY <1>3 DEF TablesHold
<1>6. PagesIn(page, Len(tabs)) BY <1>1, <1>2, <1>3 DEF PagesIn
<1>7. Tidied(page, tabs) BY <1>2 DEF Tidied
<1>8. Located(page, row_ptr, next_rowid)
  <2>1. \A p \in Pages : 1..Len(page[p].slots) = {} BY <1>2, NoPlaces
  <2>2. \A r \in RowIds : row_ptr[r] = NoRow BY <1>1
  <2> QED BY <2>1, <2>2 DEF Located
<1>9. Pool(page, next_page, free_list)
  <2>1. FreePages(page, 0) = {} BY NoPlaces DEF FreePages
  <2>2. Lists(<< >>, {}) BY EmptySeq DEF Lists
  <2>3. 0 \in 0..NPages BY Sizes
  <2> QED BY <1>1, <1>2, <2>1, <2>2, <2>3 DEF Pool
<1>10. next_rowid \in 1..RowLimit /\ row_ptr \in [RowIds -> (Pages \X Nat) \cup {NoRow}] BY <1>1, Sizes
<1> QED BY <1>4, <1>5, <1>6, <1>7, <1>8, <1>9, <1>10 DEF StoreInv, RowsGood

(* A page p put to use as the first and last of table t.                      *)
LEMMA OnePageChain ==
    ASSUME NEW pg, NEW tab, NEW t, NEW p \in Pages, tab.first = p, tab.last = p, pg[p].next = 0,
           \A q \in Pages : pg[q].tid = t <=> q = p
    PROVE  Holds(pg, tab, t, <<p>>)
<1>1. PICK c : c = <<p>> OBVIOUS
<1>2. c \in Seq(Pages) /\ Len(c) = 1 /\ c[1] = p /\ c # << >> /\ DOMAIN c = 1..1 BY <1>1
<1>3. Distinct(c) BY <1>2 DEF Distinct
<1>4. 1..Len(c) - 1 = {} BY <1>2
<1>5. IsChain(pg, c) BY <1>2, <1>3, <1>4 DEF IsChain
<1> QED BY <1>1, <1>2, <1>5 DEF Holds

LEMMA CreateStep ==
    ASSUME StoreInv, NEW n \in Names, NEW s \in Schemas, CreateTable(n, s)
    PROVE  StoreInv'
<1>1. PICK p, t : p = AllocPage /\ t = Len(tabs) + 1 OBVIOUS
<1>2. PICK tab : tab = [name |-> n, types |-> s, first |-> p, last |-> p] OBVIOUS
<1>3. /\ Len(tabs) < MaxTables /\ AllocPage # 0 /\ TakePage
      /\ page' = [page EXCEPT ![p] = EmptyPage(t)]
      /\ tabs' = Append(tabs, tab)
      /\ next_rowid' = next_rowid /\ row_ptr' = row_ptr
  BY <1>1, <1>2 DEF CreateTable
<1>4. /\ Catalogue(tabs) /\ TablesHold(page, tabs) /\ PagesIn(page, Len(tabs)) /\ Tidied(page, tabs)
      /\ next_rowid \in 1..RowLimit /\ row_ptr \in [RowIds -> (Pages \X Nat) \cup {NoRow}]
      /\ Located(page, row_ptr, next_rowid)
  BY DEF StoreInv, RowsGood
<1>5. PICK k \in Nat : k = Len(tabs) BY <1>4, TabsIn
<1>6. t = k + 1 /\ t \in 1..MaxTables /\ k \in 0..MaxTables BY <1>1, <1>3, <1>4, <1>5, TabsIn, Sizes
<1>7. p \in Pages /\ page[p].tid = 0 BY <1>1, <1>3, Allocated
<1>8. tab \in TabRecs /\ tab.first = p /\ tab.last = p /\ tab.types = s BY <1>2, <1>7 DEF TabRecs
<1>9. /\ tabs' \in Seq(TabRecs) /\ Len(tabs') = t /\ tabs'[t] = tab
      /\ \A i \in 1..k : tabs'[i] = tabs[i]
  <2>1. tabs \in Seq(TabRecs) BY <1>4 DEF Catalogue
  <2> QED BY <1>3, <1>5, <1>6, <1>8, <2>1, AppendProperties
<1>10. /\ page'[p] = [tid |-> t, slots |-> << >>, recs |-> << >>, next |-> 0]
       /\ \A q \in Pages : q # p => page'[q] = page[q]
       /\ page \in [Pages -> PageRecs]
  <2>1. page \in [Pages -> PageRecs] BY <1>4 DEF PagesIn
  <2> QED BY <1>3, <1>7, <2>1 DEF EmptyPage
<1>11. EmptyPage(t) \in PageRecs /\ Tidy(EmptyPage(t), s) BY <1>6, EmptyIsTidy
<1>12. page' \in [Pages -> PageRecs] BY <1>3, <1>10, <1>11
<1>13. ASSUME NEW q \in Pages
       PROVE  page[q].tid \in 0..k /\ page'[q].tid = (IF q = p THEN t ELSE page[q].tid)
              /\ page'[q].slots = page[q].slots /\ page'[q].recs = page[q].recs
              /\ (q # p => page'[q].next = page[q].next)
  <2>1. page[q].tid \in 0..k
    <3>1. page[q].tid \in 0..MaxTables BY <1>4, PageIs
    <3> QED BY <1>4, <1>5, <3>1 DEF PagesIn
  <2>2. CASE q = p
    <3>1. page[p].slots = << >> /\ page[p].recs = << >> BY <1>4, <1>7 DEF PagesIn
    <3> QED BY <1>10, <2>1, <2>2, <3>1
  <2>3. CASE q # p BY <1>10, <2>1, <2>3
  <2> QED BY <2>2, <2>3
<1>14. Catalogue(tabs') BY <1>6, <1>9 DEF Catalogue
<1>15. PagesIn(page', Len(tabs'))
  <2>1. \A q \in Pages : page'[q].tid <= t BY <1>6, <1>13
  <2>2. ASSUME NEW q \in Pages, page'[q].tid = 0 PROVE page'[q].slots = << >> /\ page'[q].recs = << >>
    <3>1. page[q].tid = 0 BY <1>6, <1>13, <2>2
    <3> QED BY <1>4, <1>13, <3>1 DEF PagesIn
  <2> QED BY <1>9, <1>12, <2>1, <2>2 DEF PagesIn
<1>16. Tidied(page', tabs')
  <2>1. ASSUME NEW q \in Pages, page'[q].tid # 0 PROVE Tidy(page'[q], tabs'[page'[q].tid].types)
    <3>1. CASE q = p
      <4>1. page'[q] = EmptyPage(t) /\ tabs'[page'[q].tid].types = s
        BY <1>8, <1>9, <1>10, <3>1 DEF EmptyPage
      <4> QED BY <1>11, <4>1
    <3>2. CASE q # p
      <4>1. page'[q] = page[q] /\ page[q].tid \in 1..k BY <1>10, <1>13, <2>1, <3>2
      <4>2. tabs'[page[q].tid] = tabs[page[q].tid] BY <1>9, <4>1
      <4> QED BY <1>4, <4>1, <4>2 DEF Tidied
    <3> QED BY <3>1, <3>2
  <2> QED BY <2>1 DEF Tidied
<1>17. TablesHold(page', tabs')
  <2>1. ASSUME NEW i \in 1..k PROVE \E c : Holds(page', tabs'[i], i, c)
    <3>1. PICK c : Holds(page, tabs[i], i, c) BY <1>4, <1>5 DEF TablesHold
    <3>2. \A q \in Pages : page[q].tid = i => page'[q].next = page[q].next BY <1>7, <1>13
    <3>3. \A q \in Pages : page[q].tid = i <=> page'[q].tid = i BY <1>6, <1>7, <1>13
    <3>4. Holds(page', tabs[i], i, c) BY <3>1, <3>2, <3>3, HoldsSame
    <3> QED BY <1>9, <3>4
  <2>2. Holds(page', tab, t, <<p>>)
    <3>1. \A q \in Pages : page'[q].tid = t <=> q = p BY <1>6, <1>13
    <3>2. page'[p].next = 0 BY <1>10
    <3> QED BY <1>7, <1>8, <3>1, <3>2, OnePageChain
  <2>3. \A i \in 1..t : i \in 1..k \/ i = t BY <1>6
  <2> QED BY <1>9, <2>1, <2>2, <2>3 DEF TablesHold
<1>18. Pool(page', next_page', free_list')
  <2>1. \A q \in Pages : page'[q].tid = 0 <=> page[q].tid = 0 /\ q # AllocPage BY <1>1, <1>6, <1>13
  <2> QED BY <1>3, <2>1, Allocated
<1>19. Located(page', row_ptr', next_rowid') BY <1>3, <1>4, <1>13, LocatedSame
<1>20. next_rowid' \in 1..RowLimit /\ row_ptr' \in [RowIds -> (Pages \X Nat) \cup {NoRow}] BY <1>3, <1>4
<1> QED BY <1>14, <1>15, <1>16, <1>17, <1>18, <1>19, <1>20 DEF StoreInv, RowsGood

(* A page p put behind the last page of table t.                              *)
GrownBy(pg, new, t, p, last) ==
    /\ pg[p].tid # t /\ new[p].tid = t /\ new[p].next = 0 /\ new[last].next = p
    /\ \A q \in Pages : q # p => new[q].tid = pg[q].tid
    /\ \A q \in Pages : q # p /\ q # last => new[q].next = pg[q].next

LEMMA ChainGrows ==
    ASSUME NEW pg, NEW new, NEW tab, NEW tab2, NEW t, NEW c, Holds(pg, tab, t, c),
           NEW p \in Pages, GrownBy(pg, new, t, p, tab.last),
           tab2.first = tab.first, tab2.last = p
    PROVE  \E d : Holds(new, tab2, t, d)
<1> USE DEF GrownBy
<1>1. IsChain(pg, c) /\ c[1] = tab.first /\ c[Len(c)] = tab.last BY DEF Holds
<1>2. /\ Len(c) \in 1..NPages /\ NPages \in Nat /\ c \in Seq(Pages) /\ DOMAIN c = 1..Len(c)
      /\ \A i \in 1..Len(c) : c[i] \in Pages
      /\ \A i, j \in 1..Len(c) : c[i] = c[j] => i = j
      /\ \A i \in 1..Len(c) - 1 : pg[c[i]].next = c[i + 1]
  <2>1. c \in Seq(Pages) /\ \A i \in 1..Len(c) - 1 : pg[c[i]].next = c[i + 1] BY <1>1 DEF IsChain
  <2> QED BY <1>1, <2>1, ChainIn
<1>3. PICK n \in Nat : n = Len(c) /\ n >= 1
  <2>1. Len(c) \in Nat /\ Len(c) >= 1 BY <1>2
  <2> QED BY <2>1
<1>4. ASSUME NEW i \in 1..n PROVE c[i] \in Pages /\ pg[c[i]].tid = t /\ c[i] # p
  BY <1>2, <1>3 DEF Holds
<1>5. PICK d : d = Append(c, p) OBVIOUS
<1>6. d \in Seq(Pages) /\ Len(d) = n + 1 /\ d # << >> /\ d[n + 1] = p /\ \A i \in 1..n : d[i] = c[i]
  BY <1>2, <1>3, <1>5, AppendProperties
<1>7. ASSUME NEW i \in 1..n + 1, NEW j \in 1..n + 1, d[i] = d[j] PROVE i = j
  <2>1. CASE i \in 1..n /\ j \in 1..n BY <1>2, <1>3, <1>6, <1>7, <2>1
  <2>2. CASE i \in 1..n /\ j = n + 1 BY <1>4, <1>6, <1>7, <2>2
  <2>3. CASE i = n + 1 /\ j \in 1..n BY <1>4, <1>6, <1>7, <2>3
  <2>4. CASE i = n + 1 /\ j = n + 1 BY <2>4
  <2> QED BY <1>3, <2>1, <2>2, <2>3, <2>4
<1>8. DOMAIN d = 1..n + 1 BY <1>6, LenProperties
<1>9. Distinct(d) BY <1>7, <1>8 DEF Distinct
<1>10. ASSUME NEW i \in 1..n PROVE new[d[i]].next = d[i + 1]
  <2>1. d[i] = c[i] /\ c[i] \in Pages /\ c[i] # p BY <1>4, <1>6
  <2>2. CASE i = n
    <3>1. c[i] = tab.last BY <1>1, <1>3, <2>2
    <3> QED BY <1>6, <2>1, <2>2, <3>1
  <2>3. CASE i # n
    <3>1. i \in 1..n - 1 /\ i + 1 \in 1..n /\ n \in 1..n BY <1>3, <2>3
    <3>2. c[i] # c[n] BY <1>2, <1>3, <2>3, <3>1
    <3>3. c[i] # tab.last BY <1>1, <1>3, <3>2
    <3>4. new[c[i]].next = pg[c[i]].next BY <2>1, <3>3
    <3>5. pg[c[i]].next = c[i + 1] BY <1>2, <1>3, <3>1
    <3> QED BY <1>6, <2>1, <3>1, <3>4, <3>5
  <2> QED BY <2>2, <2>3
<1>11. new[d[Len(d)]].next = 0 BY <1>6
<1>12. IsChain(new, d)
  <2>1. Len(d) - 1 = n BY <1>6
  <2> QED BY <1>6, <1>9, <1>10, <1>11, <2>1 DEF IsChain
<1>13. d[1] = tab2.first /\ d[Len(d)] = tab2.last
  <2>1. 1 \in 1..n BY <1>3
  <2> QED BY <1>1, <1>6, <2>1
<1>14. ASSUME NEW q \in Pages PROVE new[q].tid = t <=> \E i \in 1..n + 1 : d[i] = q
  <2>1. CASE q = p
    <3>1. n + 1 \in 1..n + 1 BY <1>3
    <3> QED BY <1>6, <2>1, <3>1
  <2>2. CASE q # p
    <3>1. new[q].tid = t <=> \E i \in 1..n : c[i] = q BY <1>3, <2>2 DEF Holds
    <3>2. \A i \in 1..n + 1 : d[i] = q => i \in 1..n BY <1>3, <1>6, <2>2
    <3>3. \A i \in 1..n : i \in 1..n + 1 BY <1>3
    <3> QED BY <1>6, <3>1, <3>2, <3>3
  <2> QED BY <2>1, <2>2
<1>15. \A q \in Pages : new[q].tid = t <=> \E i \in 1..Len(d) : d[i] = q BY <1>6, <1>14
<1> QED BY <1>12, <1>13, <1>15 DEF Holds

(* A row put behind the others of page p.                                     *)
LEMMA Distribute == \A n, a, b \in Nat : (n + 1) * (a + b) = n * a + n * b + a + b
OBVIOUS

RowPut(pg, p, off, nr, v) ==
    [pg EXCEPT ![p].slots = Append(@, [off |-> off, row |-> nr]), ![p].recs  = Append(@, v)]

LEMMA RowAdded ==
    ASSUME NEW pg, NEW new, NEW ts, NEW ptr, NEW nr, RowsGood(pg, ts, ptr, nr), Catalogue(ts),
           NEW p \in Pages, pg[p].tid # 0, nr < RowLimit, NEW v \in RowVals(ts[pg[p].tid].types),
           HeaderSize + (Len(pg[p].slots) + 1) * (SlotSize + RecSize(ts[pg[p].tid].types)) <= PageSize,
           NEW off, off = Len(pg[p].recs) + 1, new = RowPut(pg, p, off, nr, v)
    PROVE  RowsGood(new, ts, [ptr EXCEPT ![nr] = <<p, off>>], nr + 1)
<1>1. /\ PagesIn(pg, Len(ts)) /\ Tidied(pg, ts) /\ pg \in [Pages -> PageRecs]
      /\ nr \in 1..RowLimit /\ ptr \in [RowIds -> (Pages \X Nat) \cup {NoRow}] /\ Located(pg, ptr, nr)
  BY DEF RowsGood, PagesIn
<1>2. PICK t : t = pg[p].tid OBVIOUS
<1>3. t \in 1..Len(ts) /\ Len(ts) \in 0..MaxTables
  <2>1. pg[p].tid \in 0..MaxTables /\ pg[p].tid <= Len(ts) BY <1>1, PageIs DEF PagesIn
  <2> QED BY <1>2, <2>1, TabsIn
<1>4. PICK ty \in Schemas : ty = ts[t].types BY <1>3, TabsIn
<1>5. PICK n \in Nat : n = Len(pg[p].slots) BY <1>1, PageIs
<1>6. off = n + 1 /\ Len(pg[p].recs) = n /\ \A j \in 1..n : pg[p].slots[j].off = j BY <1>1, <1>5, PagePlaces
<1>7. nr \in RowIds BY <1>1, Sizes DEF RowIds
<1>8. PICK sl : sl = [off |-> off, row |-> nr] OBVIOUS
<1>9. sl \in SlotRecs /\ sl.off = n + 1 /\ sl.row = nr BY <1>5, <1>6, <1>7, <1>8 DEF SlotRecs
<1>10. PICK x : x = new[p] OBVIOUS
<1>11. /\ x.slots = Append(pg[p].slots, sl) /\ x.recs = Append(pg[p].recs, v)
       /\ x.tid = t /\ x.next = pg[p].next
       /\ \A q \in Pages : q # p => new[q] = pg[q]
  <2>1. new = [pg EXCEPT ![p].slots = Append(@, sl), ![p].recs  = Append(@, v)] BY <1>8 DEF RowPut
  <2>2. PICK y \in PageRecs : y = pg[p] BY <1>1
  <2>3. new[p] = [y EXCEPT !.slots = Append(@, sl), !.recs = Append(@, v)] BY <1>1, <2>1, <2>2
  <2>4. y = [tid |-> y.tid, slots |-> y.slots, recs |-> y.recs, next |-> y.next] BY DEF PageRecs
  <2>5. x = [tid |-> y.tid, slots |-> Append(y.slots, sl), recs |-> Append(y.recs, v), next |-> y.next]
    BY <1>10, <2>3, <2>4
  <2> QED BY <1>1, <1>2, <2>1, <2>2, <2>5
<1>12. /\ x.slots \in Seq(SlotRecs) /\ Len(x.slots) = n + 1 /\ x.slots[n + 1] = sl
       /\ \A j \in 1..n : x.slots[j] = pg[p].slots[j]
  <2>1. pg[p].slots \in Seq(SlotRecs) BY <1>1, PageIs
  <2> QED BY <1>5, <1>9, <1>11, <2>1, AppendProperties
<1>13. Tidy(pg[p], ty) BY <1>1, <1>2, <1>4 DEF Tidied
<1>14. x.recs \in Seq(RowVals(ty)) /\ Len(x.recs) = n + 1
  <2>1. pg[p].recs \in Seq(RowVals(ty)) BY <1>13 DEF Tidy
  <2>2. v \in RowVals(ty) BY <1>2, <1>4
  <2> QED BY <1>6, <1>11, <2>1, <2>2, AppendProperties
<1>15. x.recs \in Seq(Values)
  <2>1. RowVals(ty) \subseteq Values BY DEF Values
  <2> QED BY <1>14, <2>1, SeqMonotonic
<1>16. Tidy(x, ty)
  <2>1. HeaderSize + (n + 1) * (SlotSize + RecSize(ty)) <= PageSize BY <1>2, <1>4, <1>5
  <2>2. \A j \in 1..n + 1 : x.slots[j].off = j
    <3>1. \A j \in 1..n + 1 : j \in 1..n \/ j = n + 1 OBVIOUS
    <3> QED BY <1>6, <1>9, <1>12, <3>1
  <2> QED BY <1>12, <1>14, <2>1, <2>2 DEF Tidy
<1>17. x \in PageRecs
  <2>1. PICK y \in PageRecs : y = pg[p] BY <1>1
  <2>2. x = [y EXCEPT !.slots = x.slots, !.recs = x.recs]
    <3>1. new[p] = [y EXCEPT !.slots = Append(@, sl), !.recs = Append(@, v)] BY <1>1, <1>8, <2>1 DEF RowPut
    <3> QED BY <1>10, <1>11, <2>1, <3>1
  <2> QED BY <1>12, <1>15, <2>1, <2>2 DEF PageRecs
<1>18. new \in [Pages -> PageRecs]
  <2>1. DOMAIN new = Pages /\ new = [q \in Pages |-> new[q]] BY <1>1 DEF RowPut
  <2>2. \A q \in Pages : new[q] \in PageRecs BY <1>1, <1>10, <1>11, <1>17
  <2> QED BY <2>1, <2>2
<1>19. PagesIn(new, Len(ts))
  <2>1. ASSUME NEW q \in Pages
        PROVE  new[q].tid <= Len(ts) /\ (new[q].tid = 0 => new[q].slots = << >> /\ new[q].recs = << >>)
    <3>1. CASE q = p BY <1>2, <1>3, <1>10, <1>11, <3>1
    <3>2. CASE q # p BY <1>1, <1>11, <3>2 DEF PagesIn
    <3> QED BY <3>1, <3>2
  <2> QED BY <1>18, <2>1 DEF PagesIn
<1>20. Tidied(new, ts)
  <2>1. ASSUME NEW q \in Pages, new[q].tid # 0 PROVE Tidy(new[q], ts[new[q].tid].types)
    <3>1. CASE q = p BY <1>4, <1>10, <1>11, <1>16, <3>1
    <3>2. CASE q # p BY <1>1, <1>11, <2>1, <3>2 DEF Tidied
    <3> QED BY <3>1, <3>2
  <2> QED BY <2>1 DEF Tidied
<1>21. PICK ptr2 : ptr2 = [ptr EXCEPT ![nr] = <<p, off>>] OBVIOUS
<1>22. /\ ptr2[nr] = <<p, n + 1>> /\ \A r \in RowIds : r # nr => ptr2[r] = ptr[r]
       /\ ptr2 \in [RowIds -> (Pages \X Nat) \cup {NoRow}]
  <2>1. <<p, off>> \in Pages \X Nat BY <1>5, <1>6
  <2> QED BY <1>1, <1>6, <1>7, <1>21, <2>1
<1>23. Located(new, ptr2, nr + 1)
  <2>1. ASSUME NEW q \in Pages, NEW j \in 1..Len(pg[q].slots)
        PROVE  pg[q].slots[j].row \in RowIds /\ pg[q].slots[j].row < nr + 1
               /\ ptr2[pg[q].slots[j].row] = <<q, j>>
    <3>1. pg[q].slots[j].row < nr /\ ptr[pg[q].slots[j].row] = <<q, j>> BY <1>1 DEF Located
    <3>2. PICK r \in RowIds : r = pg[q].slots[j].row BY <1>1, PageIs
    <3>3. r \in Int /\ nr \in Int BY <1>1, Sizes DEF RowIds
    <3> QED BY <1>22, <3>1, <3>2, <3>3
  <2>2. ASSUME NEW q \in Pages, NEW j \in 1..Len(new[q].slots)
        PROVE  new[q].slots[j].row < nr + 1 /\ ptr2[new[q].slots[j].row] = <<q, j>>
    <3>1. CASE q # p BY <1>11, <2>1, <3>1
    <3>2. CASE q = p /\ j \in 1..n
      <4>1. new[q].slots[j] = pg[q].slots[j] BY <1>10, <1>12, <3>2
      <4> QED BY <1>5, <2>1, <3>2, <4>1
    <3>3. CASE q = p /\ j = n + 1
      <4>1. new[q].slots[j] = sl BY <1>10, <1>12, <3>3
      <4>2. nr < nr + 1 BY <1>1
      <4> QED BY <1>9, <1>22, <3>3, <4>1, <4>2
    <3>4. q = p => j \in 1..n + 1 BY <1>10, <1>12
    <3>5. \A i \in 1..n + 1 : i \in 1..n \/ i = n + 1 OBVIOUS
    <3> QED BY <3>1, <3>2, <3>3, <3>4, <3>5
  <2>3. ASSUME NEW r \in RowIds, ptr2[r] # NoRow
        PROVE  \E q \in Pages : \E j \in 1..Len(new[q].slots) : new[q].slots[j].row = r
    <3>1. CASE r = nr
      <4>1. n + 1 \in 1..Len(new[p].slots) BY <1>10, <1>12
      <4> QED BY <1>9, <1>10, <1>12, <3>1, <4>1
    <3>2. CASE r # nr
      <4>1. PICK q \in Pages : \E j \in 1..Len(pg[q].slots) : pg[q].slots[j].row = r
        BY <1>1, <1>22, <2>3, <3>2 DEF Located
      <4>2. PICK j \in 1..Len(pg[q].slots) : pg[q].slots[j].row = r BY <4>1
      <4>3. CASE q # p BY <1>11, <4>2, <4>3
      <4>4. CASE q = p
        <5>1. j \in 1..n /\ j \in 1..Len(new[p].slots) BY <1>5, <1>10, <1>12, <4>4
        <5>2. new[p].slots[j] = pg[p].slots[j] BY <1>10, <1>12, <5>1
        <5> QED BY <4>2, <4>4, <5>1, <5>2
      <4> QED BY <4>3, <4>4
    <3> QED BY <3>1, <3>2
  <2> QED BY <2>2, <2>3 DEF Located
<1>24. nr + 1 \in 1..RowLimit BY <1>1, Sizes
<1> QED BY <1>19, <1>20, <1>21, <1>22, <1>23, <1>24 DEF RowsGood

LEMMA PoolSame ==
    ASSUME NEW pg, NEW new, NEW np, NEW fl, Pool(pg, np, fl),
           \A q \in Pages : new[q].tid = 0 <=> pg[q].tid = 0
    PROVE  Pool(new, np, fl)
<1>1. np \in 0..NPages /\ NPages \in Nat BY Sizes DEF Pool
<1>2. \A q \in 1..np : q \in Pages BY <1>1 DEF Pages
<1>3. FreePages(new, np) = FreePages(pg, np) BY <1>2 DEF FreePages
<1> QED BY <1>3 DEF Pool

LEMMA HeldSame ==
    ASSUME NEW pg, NEW new, NEW ts, TablesHold(pg, ts),
           \A q \in Pages : new[q].tid = pg[q].tid /\ new[q].next = pg[q].next
    PROVE  TablesHold(new, ts)
<1>1. ASSUME NEW t \in 1..Len(ts) PROVE \E c : Holds(new, ts[t], t, c)
  <2>1. PICK c : Holds(pg, ts[t], t, c) BY DEF TablesHold
  <2> QED BY <2>1, HoldsSame
<1> QED BY <1>1 DEF TablesHold

Linked(pg, p, t, old) == [pg EXCEPT ![p] = EmptyPage(t), ![old].next = p]

Retailed(ts, t, p) == [ts EXCEPT ![t].last = p]

LEMMA RetailedIs ==
    ASSUME NEW ts, Catalogue(ts), NEW t \in 1..Len(ts), NEW p \in Pages
    PROVE  /\ Catalogue(Retailed(ts, t, p)) /\ Len(Retailed(ts, t, p)) = Len(ts)
           /\ \A i \in 1..Len(ts) : i # t => Retailed(ts, t, p)[i] = ts[i]
           /\ \A i \in 1..Len(ts) : Retailed(ts, t, p)[i].types = ts[i].types
           /\ Retailed(ts, t, p)[t].first = ts[t].first /\ Retailed(ts, t, p)[t].last = p
<1>1. ts \in Seq(TabRecs) /\ Len(ts) <= MaxTables BY DEF Catalogue
<1>2. PICK x \in TabRecs : x = ts[t] BY <1>1, ElementOfSeq
<1>3. PICK y : y = [x EXCEPT !.last = p] OBVIOUS
<1>4. y \in TabRecs /\ y.first = x.first /\ y.types = x.types /\ y.last = p BY <1>3 DEF TabRecs
<1>5. PICK s : s = Retailed(ts, t, p) OBVIOUS
<1>6. s = [ts EXCEPT ![t] = y] BY <1>1, <1>2, <1>3, <1>5, LenProperties DEF Retailed
<1>7. s \in Seq(TabRecs) /\ Len(s) = Len(ts) /\ \A i \in 1..Len(ts) : s[i] = IF i = t THEN y ELSE ts[i]
  BY <1>1, <1>4, <1>6, ExceptSeq
<1> QED BY <1>1, <1>2, <1>4, <1>5, <1>7 DEF Catalogue

LEMMA LinkedIs ==
    ASSUME NEW pg, NEW n, PagesIn(pg, n), NEW p \in Pages, NEW old \in Pages, p # old, NEW t
    PROVE  /\ Linked(pg, p, t, old)[p] = EmptyPage(t)
           /\ Linked(pg, p, t, old)[old] = [pg[old] EXCEPT !.next = p]
           /\ \A q \in Pages : q # p /\ q # old => Linked(pg, p, t, old)[q] = pg[q]
           /\ DOMAIN Linked(pg, p, t, old) = Pages
           /\ Linked(pg, p, t, old) = [q \in Pages |-> Linked(pg, p, t, old)[q]]
<1>1. DOMAIN pg = Pages /\ pg = [q \in Pages |-> pg[q]] BY DEF PagesIn
<1> QED BY <1>1 DEF Linked

(* A table whose last page is full gets a new last page.                      *)
LEMMA Extended ==
    ASSUME StoreInv, NEW t \in 1..Len(tabs), NEW p, p = AllocPage, p # 0, TakePage
    PROVE  LET new == Linked(page, p, t, tabs[t].last)
               ts  == Retailed(tabs, t, p)
           IN  /\ p \in Pages /\ Catalogue(ts) /\ TablesHold(new, ts)
               /\ Pool(new, next_page', free_list')
               /\ RowsGood(new, ts, row_ptr, next_rowid)
               /\ new[p].tid = t /\ new[p].slots = << >> /\ new[p].recs = << >>
<1> DEFINE old == tabs[t].last
<1>1. PICK new, ts : new = Linked(page, p, t, old) /\ ts = Retailed(tabs, t, p) OBVIOUS
<1>2. /\ Catalogue(tabs) /\ TablesHold(page, tabs) /\ PagesIn(page, Len(tabs)) /\ Tidied(page, tabs)
      /\ next_rowid \in 1..RowLimit /\ row_ptr \in [RowIds -> (Pages \X Nat) \cup {NoRow}]
      /\ Located(page, row_ptr, next_rowid) /\ page \in [Pages -> PageRecs]
  BY DEF StoreInv, RowsGood, PagesIn
<1>3. p \in Pages /\ page[p].tid = 0 /\ page[p].slots = << >> /\ page[p].recs = << >>
  <2>1. p \in Pages /\ page[p].tid = 0 BY Allocated
  <2> QED BY <1>2, <2>1 DEF PagesIn
<1>4. PICK c : Holds(page, tabs[t], t, c) BY <1>2 DEF TablesHold
<1>5. t # 0 /\ t \in 0..MaxTables /\ Len(tabs) \in 0..MaxTables /\ MaxTables \in Nat BY <1>2, TabsIn, Sizes
<1>6. old \in Pages /\ page[old].tid = t /\ old # p
  <2>1. IsChain(page, c) /\ c[Len(c)] = old BY <1>4 DEF Holds
  <2>2. Len(c) \in 1..NPages /\ NPages \in Nat /\ \A i \in 1..Len(c) : c[i] \in Pages BY <2>1, ChainIn
  <2>3. Len(c) \in 1..Len(c) BY <2>2
  <2>4. old \in Pages BY <2>1, <2>2, <2>3
  <2>5. page[old].tid = t BY <1>4, <2>1, <2>3, <2>4 DEF Holds
  <2> QED BY <1>3, <1>5, <2>4, <2>5
<1>7. PICK x \in PageRecs : x = page[old] BY <1>2, <1>6
<1>8. PICK y : y = [x EXCEPT !.next = p] OBVIOUS
<1>9. y \in PageRecs /\ y.tid = t /\ y.slots = x.slots /\ y.recs = x.recs /\ y.next = p
  BY SMTT(30), <1>3, <1>6, <1>7, <1>8 DEF PageRecs, Pages
<1>10. PICK e \in PageRecs : e = EmptyPage(t) /\ e.tid = t /\ e.slots = << >> /\ e.recs = << >> /\ e.next = 0
  <2>1. tabs[t].types \in Schemas BY <1>2, TabsIn
  <2>2. EmptyPage(t) \in PageRecs BY <1>5, <2>1, EmptyIsTidy
  <2>3. EmptyPage(t) = [tid |-> t, slots |-> << >>, recs |-> << >>, next |-> 0] BY DEF EmptyPage
  <2> QED BY <2>2, <2>3
<1>11. /\ new[p] = e /\ new[old] = y /\ (\A q \in Pages : q # p /\ q # old => new[q] = page[q])
       /\ new = [q \in Pages |-> new[q]]
  BY <1>1, <1>2, <1>3, <1>6, <1>7, <1>8, <1>10, LinkedIs
<1>12. new \in [Pages -> PageRecs]
  <2>1. \A q \in Pages : new[q] \in PageRecs BY <1>2, <1>9, <1>11
  <2> QED BY <1>11, <2>1
<1>13. ASSUME NEW q \in Pages
       PROVE  /\ new[q].tid = (IF q = p THEN t ELSE page[q].tid)
              /\ new[q].slots = page[q].slots /\ new[q].recs = page[q].recs
              /\ (q # p /\ q # old => new[q].next = page[q].next)
  <2>1. CASE q = p BY <1>3, <1>10, <1>11, <2>1
  <2>2. CASE q = old BY <1>6, <1>7, <1>9, <1>11, <2>2
  <2>3. CASE q # p /\ q # old BY <1>11, <2>3
  <2> QED BY <2>1, <2>2, <2>3
<1>14. /\ Catalogue(ts) /\ Len(ts) = Len(tabs) /\ ts[t].first = tabs[t].first /\ ts[t].last = p
       /\ \A i \in 1..Len(tabs) : i # t => ts[i] = tabs[i]
       /\ \A i \in 1..Len(tabs) : ts[i].types = tabs[i].types
  BY <1>1, <1>2, <1>3, RetailedIs
<1>15. ASSUME NEW i \in 1..Len(ts) PROVE \E d : Holds(new, ts[i], i, d)
  <2>1. CASE i = t
    <3>1. new[p].tid = t /\ new[p].next = 0 /\ new[old].next = p /\ page[p].tid # t
      BY <1>3, <1>5, <1>9, <1>10, <1>11
    <3>2. \A q \in Pages : q # p => new[q].tid = page[q].tid BY <1>13
    <3>3. \A q \in Pages : q # p /\ q # old => new[q].next = page[q].next BY <1>13
    <3>4. PICK a, b : a = tabs[t] /\ b = ts[t] OBVIOUS
    <3>5. Holds(page, a, t, c) /\ b.first = a.first /\ b.last = p BY <1>4, <1>14, <3>4
    <3>6. GrownBy(page, new, t, p, a.last) BY <3>1, <3>2, <3>3, <3>4 DEF GrownBy
    <3>7. \E d : Holds(new, b, t, d) BY <1>3, <3>5, <3>6, ChainGrows
    <3> QED BY <2>1, <3>4, <3>7
  <2>2. CASE i # t
    <3>1. i # 0 /\ i \in 1..Len(tabs) BY <1>5, <1>14
    <3>2. PICK d : Holds(page, tabs[i], i, d) BY <1>2, <3>1 DEF TablesHold
    <3>3. \A q \in Pages : page[q].tid = i => new[q].next = page[q].next
      BY <1>3, <1>6, <1>13, <2>2, <3>1
    <3>4. \A q \in Pages : page[q].tid = i <=> new[q].tid = i BY <1>3, <1>13, <2>2, <3>1
    <3>5. Holds(new, tabs[i], i, d) BY <3>2, <3>3, <3>4, HoldsSame
    <3> QED BY <1>14, <2>2, <3>1, <3>5
  <2> QED BY <2>1, <2>2
<1>16. TablesHold(new, ts) BY <1>15 DEF TablesHold
<1>17. Pool(new, next_page', free_list')
  <2>1. \A q \in Pages : new[q].tid = 0 <=> page[q].tid = 0 /\ q # AllocPage BY <1>5, <1>13
  <2> QED BY <2>1, Allocated
<1>18. PagesIn(new, Len(ts))
  <2>1. ASSUME NEW q \in Pages
        PROVE  new[q].tid <= Len(ts) /\ (new[q].tid = 0 => new[q].slots = << >> /\ new[q].recs = << >>)
    <3>1. page[q].tid <= Len(tabs) BY <1>2 DEF PagesIn
    <3>2. new[q].tid <= Len(ts) BY <1>5, <1>13, <1>14, <3>1
    <3>3. ASSUME new[q].tid = 0 PROVE new[q].slots = << >> /\ new[q].recs = << >>
      <4>1. page[q].tid = 0 BY <1>5, <1>13, <3>3
      <4> QED BY <1>2, <1>13, <4>1 DEF PagesIn
    <3> QED BY <3>2, <3>3
  <2> QED BY <1>12, <2>1 DEF PagesIn
<1>19. Tidied(new, ts)
  <2>1. ASSUME NEW q \in Pages, new[q].tid # 0 PROVE Tidy(new[q], ts[new[q].tid].types)
    <3>1. CASE q = p
      <4>1. tabs[t].types \in Schemas BY <1>2, TabsIn
      <4>2. Tidy(e, tabs[t].types) BY <1>5, <1>10, <4>1, EmptyIsTidy
      <4> QED BY <1>10, <1>11, <1>14, <3>1, <4>2
    <3>2. CASE q # p
      <4>1. PICK i : i = page[q].tid OBVIOUS
      <4>2. new[q].tid = i /\ i # 0 BY <1>13, <2>1, <3>2, <4>1
      <4>3. i \in 1..Len(tabs)
        <5>1. i \in 0..MaxTables /\ i <= Len(tabs) BY <1>2, <4>1, PageIs DEF PagesIn
        <5> QED BY <1>5, <4>2, <5>1
      <4>4. Tidy(page[q], tabs[i].types) BY <1>2, <4>1, <4>2 DEF Tidied
      <4>5. new[q].slots = page[q].slots /\ new[q].recs = page[q].recs /\ ts[i].types = tabs[i].types
        BY <1>13, <1>14, <4>3
      <4> QED BY <4>2, <4>4, <4>5 DEF Tidy
    <3> QED BY <3>1, <3>2
  <2> QED BY <2>1 DEF Tidied
<1>20. Located(new, row_ptr, next_rowid) BY <1>2, <1>13, LocatedSame
<1>21. RowsGood(new, ts, row_ptr, next_rowid) BY <1>2, <1>18, <1>19, <1>20 DEF RowsGood
<1> QED BY <1>1, <1>3, <1>10, <1>11, <1>14, <1>16, <1>17, <1>21

LEMMA TypesDefined ==
    ASSUME NEW ts, Catalogue(ts), NEW t \in 1..Len(ts)
    PROVE  RecSize(ts[t].types) \in Nat /\ SlotSize \in Nat /\ SlotSize >= 1
           /\ HeaderSize + SlotSize + RecSize(ts[t].types) <= PageSize
BY TabsIn, SchemaIs, Sizes

LEMMA InsertStep ==
    ASSUME StoreInv, NEW t \in DOMAIN tabs, NEW vals \in RowVals(tabs[t].types), Insert(t, vals)
    PROVE  StoreInv'
<1>1. /\ Catalogue(tabs) /\ TablesHold(page, tabs) /\ Pool(page, next_page, free_list)
      /\ RowsGood(page, tabs, row_ptr, next_rowid) /\ PagesIn(page, Len(tabs)) /\ Tidied(page, tabs)
      /\ next_rowid \in 1..RowLimit
  BY DEF StoreInv, RowsGood
<1>2. t \in 1..Len(tabs) BY <1>1, TabsIn
<1>3. PICK old, rs : old = tabs[t].last /\ rs = RecSize(tabs[t].types) OBVIOUS
<1>4. PICK full : full = (PageSpace(old, rs) < rs + SlotSize) OBVIOUS
<1>5. PICK p : p = IF full THEN AllocPage ELSE old OBVIOUS
<1>6. PICK base : base = IF full THEN Linked(page, p, t, old) ELSE page OBVIOUS
<1>7. PICK off : off = Len(base[p].recs) + 1 OBVIOUS
<1>8. /\ p # 0
      /\ IF full THEN TakePage ELSE UNCHANGED <<next_page, free_list>>
      /\ tabs' = Retailed(tabs, t, p)
      /\ IF next_rowid >= RowLimit
         THEN page' = base /\ row_ptr' = row_ptr /\ next_rowid' = next_rowid
         ELSE /\ page' = RowPut(base, p, off, next_rowid, vals)
              /\ row_ptr' = [row_ptr EXCEPT ![next_rowid] = <<p, off>>]
              /\ next_rowid' = next_rowid + 1
  BY ZenonT(30), <1>3, <1>4, <1>5, <1>6, <1>7 DEF Insert, Linked, Retailed, RowPut
<1>9. rs \in Nat /\ SlotSize \in Nat /\ SlotSize >= 1 /\ HeaderSize + SlotSize + rs <= PageSize
      /\ HeaderSize \in Nat /\ PageSize \in Nat
  BY <1>1, <1>2, <1>3, TypesDefined, Sizes
<1>10. /\ p \in Pages /\ Catalogue(tabs') /\ TablesHold(base, tabs')
       /\ Pool(base, next_page', free_list') /\ RowsGood(base, tabs', row_ptr, next_rowid)
       /\ base[p].tid = t
       /\ HeaderSize + (Len(base[p].slots) + 1) * (SlotSize + rs) <= PageSize
  <2>1. CASE full
    <3>1. p = AllocPage /\ p # 0 /\ TakePage /\ base = Linked(page, p, t, tabs[t].last)
      BY <1>3, <1>5, <1>6, <1>8, <2>1
    <3>2. /\ p \in Pages /\ Catalogue(tabs') /\ TablesHold(base, tabs')
          /\ Pool(base, next_page', free_list') /\ RowsGood(base, tabs', row_ptr, next_rowid)
          /\ base[p].tid = t /\ base[p].slots = << >>
      BY <1>2, <1>8, <3>1, Extended
    <3>3. Len(base[p].slots) = 0 BY <3>2, NoPlaces
    <3>4. HeaderSize + (0 + 1) * (SlotSize + rs) <= PageSize BY <1>9
    <3> QED BY <3>2, <3>3, <3>4
  <2>2. CASE ~full
    <3>1. p = old /\ base = page /\ next_page' = next_page /\ free_list' = free_list
      BY <1>5, <1>6, <1>8, <2>2
    <3>2. PICK c : Holds(page, tabs[t], t, c) BY <1>1, <1>2 DEF TablesHold
    <3>3. p \in Pages /\ page[p].tid = t
      <4>1. IsChain(page, c) /\ c[Len(c)] = p BY <1>3, <3>1, <3>2 DEF Holds
      <4>2. Len(c) \in 1..NPages /\ NPages \in Nat /\ \A i \in 1..Len(c) : c[i] \in Pages BY <4>1, ChainIn
      <4>3. Len(c) \in 1..Len(c) BY <4>2
      <4> QED BY <3>2, <4>1, <4>2, <4>3 DEF Holds
    <3>4. tabs' = tabs
      <4>1. tabs \in Seq(TabRecs) BY <1>1 DEF Catalogue
      <4>2. PICK x \in TabRecs : x = tabs[t] BY <1>2, <4>1, ElementOfSeq
      <4>3. [x EXCEPT !.last = p] = x BY <1>3, <3>1, <4>2 DEF TabRecs
      <4>4. tabs' = [tabs EXCEPT ![t] = x] BY <1>2, <1>8, <4>1, <4>2, <4>3, LenProperties DEF Retailed
      <4> QED BY <1>2, <4>1, <4>2, <4>4, LenProperties
    <3>5. PICK n \in Nat : n = Len(page[p].slots) /\ n = Len(page[p].recs) BY <1>1, <3>3, PageIs, PagePlaces
    <3>6. ~((PageSize - n * rs) - (HeaderSize + n * SlotSize) < rs + SlotSize)
      BY <1>3, <1>4, <2>2, <3>1, <3>5 DEF PageSpace
    <3>7. (n + 1) * (SlotSize + rs) = n * SlotSize + n * rs + SlotSize + rs BY <1>9, Distribute
    <3>8. PICK a \in Nat, b \in Nat : a = n * rs /\ b = n * SlotSize BY <1>9
    <3>9. HeaderSize + (n + 1) * (SlotSize + rs) <= PageSize BY <1>9, <3>6, <3>7, <3>8
    <3> QED BY <1>1, <3>1, <3>3, <3>4, <3>5, <3>9
  <2> QED BY <2>1, <2>2
<1>11. Len(tabs') = Len(tabs) /\ tabs'[t].types = tabs[t].types BY <1>1, <1>2, <1>8, <1>10, RetailedIs
<1>12. CASE next_rowid >= RowLimit
  <2>1. page' = base /\ row_ptr' = row_ptr /\ next_rowid' = next_rowid BY <1>8, <1>12
  <2> QED BY <1>10, <2>1 DEF StoreInv
<1>13. CASE ~(next_rowid >= RowLimit)
  <2>1. /\ page' = RowPut(base, p, off, next_rowid, vals)
        /\ row_ptr' = [row_ptr EXCEPT ![next_rowid] = <<p, off>>]
        /\ next_rowid' = next_rowid + 1
    BY <1>8, <1>13
  <2>2. next_rowid < RowLimit BY <1>1, <1>13, Sizes
  <2>3. t # 0 BY <1>2
  <2>4. RowsGood(page', tabs', row_ptr', next_rowid')
    BY <1>3, <1>7, <1>10, <1>11, <2>1, <2>2, <2>3, RowAdded
  <2>5. \A q \in Pages : page'[q].tid = base[q].tid /\ page'[q].next = base[q].next
    <3>1. base \in [Pages -> PageRecs] BY <1>10 DEF RowsGood, PagesIn
    <3>2. ASSUME NEW q \in Pages PROVE page'[q].tid = base[q].tid /\ page'[q].next = base[q].next
      <4>1. PICK x \in PageRecs : x = base[q] BY <3>1
      <4>2. CASE q # p BY <2>1, <3>1, <4>2 DEF RowPut
      <4>3. CASE q = p
        <5>1. PICK s, r : page'[q] = [x EXCEPT !.slots = s, !.recs = r]
          BY <2>1, <3>1, <4>1, <4>3 DEF RowPut
        <5> QED BY <4>1, <5>1 DEF PageRecs
      <4> QED BY <4>2, <4>3
    <3> QED BY <3>2
  <2>6. TablesHold(page', tabs') BY <1>10, <2>5, HeldSame
  <2>7. Pool(page', next_page', free_list') BY <1>10, <2>5, PoolSame
  <2> QED BY <1>10, <2>4, <2>6, <2>7 DEF StoreInv
<1> QED BY <1>12, <1>13

-----------------------------------------------------------------------------
(* UPDATE.                                                                 *)

(* Records rewritten in place.                                                *)
LEMMA RecsRewritten ==
    ASSUME NEW pg, NEW new, NEW ts, NEW ptr, NEW nr, RowsGood(pg, ts, ptr, nr), Catalogue(ts),
           new = [q \in Pages |-> new[q]],
           \A q \in Pages : \E recs : new[q] = [pg[q] EXCEPT !.recs = recs] /\ Len(recs) = Len(pg[q].recs)
              /\ IF pg[q].tid = 0 THEN recs = << >> ELSE recs \in Seq(RowVals(ts[pg[q].tid].types))
    PROVE  RowsGood(new, ts, ptr, nr)
<1>1. /\ PagesIn(pg, Len(ts)) /\ Tidied(pg, ts) /\ pg \in [Pages -> PageRecs]
      /\ nr \in 1..RowLimit /\ ptr \in [RowIds -> (Pages \X Nat) \cup {NoRow}] /\ Located(pg, ptr, nr)
  BY DEF RowsGood, PagesIn
<1>2. ASSUME NEW q \in Pages
      PROVE  /\ new[q] \in PageRecs /\ new[q].tid = pg[q].tid /\ new[q].slots = pg[q].slots
             /\ pg[q].tid = 0 => new[q].recs = << >>
             /\ pg[q].tid # 0 => Tidy(new[q], ts[pg[q].tid].types)
  <2>1. PICK recs : /\ new[q] = [pg[q] EXCEPT !.recs = recs] /\ Len(recs) = Len(pg[q].recs)
                    /\ IF pg[q].tid = 0 THEN recs = << >> ELSE recs \in Seq(RowVals(ts[pg[q].tid].types))
    OBVIOUS
  <2>2. PICK x \in PageRecs : x = pg[q] BY <1>1
  <2>3. recs \in Seq(Values)
    <3>1. CASE pg[q].tid = 0 BY <2>1, <3>1
    <3>2. CASE pg[q].tid # 0
      <4>1. PICK t : t = pg[q].tid OBVIOUS
      <4>2. t \in 1..Len(ts)
        <5>1. t \in 0..MaxTables /\ t <= Len(ts) /\ t # 0 BY <1>1, <3>2, <4>1, PageIs DEF PagesIn
        <5> QED BY <5>1, TabsIn
      <4>3. ts[t].types \in Schemas BY <4>2, TabsIn
      <4>4. RowVals(ts[t].types) \subseteq Values BY <4>3 DEF Values
      <4>5. recs \in Seq(RowVals(ts[t].types)) BY <2>1, <3>2, <4>1
      <4> QED BY <4>4, <4>5, SeqMonotonic
    <3> QED BY <3>1, <3>2
  <2>4. PICK y : y = [x EXCEPT !.recs = recs] OBVIOUS
  <2>5. y \in PageRecs /\ y.tid = x.tid /\ y.slots = x.slots /\ y.recs = recs
    BY <2>3, <2>4 DEF PageRecs
  <2>6. new[q] = y BY <2>1, <2>2, <2>4
  <2>7. ASSUME pg[q].tid # 0 PROVE Tidy(y, ts[pg[q].tid].types)
    <3>1. Tidy(x, ts[pg[q].tid].types) BY <1>1, <2>2, <2>7 DEF Tidied
    <3>2. recs \in Seq(RowVals(ts[pg[q].tid].types)) /\ Len(recs) = Len(x.recs) BY <2>1, <2>2, <2>7
    <3> QED BY <2>5, <3>1, <3>2 DEF Tidy
  <2>8. pg[q].tid = 0 => recs = << >> BY <2>1
  <2> QED BY <2>2, <2>5, <2>6, <2>7, <2>8
<1>3. new \in [Pages -> PageRecs] BY <1>2
<1>4. PagesIn(new, Len(ts)) BY <1>1, <1>2, <1>3 DEF PagesIn
<1>5. Tidied(new, ts) BY <1>2 DEF Tidied
<1>6. Located(new, ptr, nr) BY <1>1, <1>2, LocatedSame
<1> QED BY <1>1, <1>4, <1>5, <1>6 DEF RowsGood

LEMMA ValueSet ==
    ASSUME NEW s \in Schemas, NEW c \in DOMAIN s, NEW v \in Literals, s[c] = v.type, NEW x \in RowVals(s)
    PROVE  [x EXCEPT ![c] = v.val] \in RowVals(s)
<1>1. s[c] \in {0, 1}
  <2>1. s \in Seq({0, 1}) /\ DOMAIN s = 1..Len(s) BY SchemaIs
  <2> QED BY <2>1, ElementOfSeq
<1>2. v.val \in (IF s[c] = 0 THEN Ints ELSE Texts) BY <1>1 DEF Literals
<1>3. x \in [DOMAIN s -> Ints \cup Texts] /\ \A d \in DOMAIN s : x[d] \in (IF s[d] = 0 THEN Ints ELSE Texts)
  BY DEF RowVals
<1>4. PICK val : val = v.val OBVIOUS
<1>5. PICK y : y = [x EXCEPT ![c] = val] OBVIOUS
<1>6. val \in Ints \cup Texts BY <1>2, <1>4
<1>7. y \in [DOMAIN s -> Ints \cup Texts] BY <1>3, <1>5, <1>6
<1>8. \A d \in DOMAIN s : y[d] \in (IF s[d] = 0 THEN Ints ELSE Texts) BY <1>2, <1>3, <1>4, <1>5
<1> QED BY <1>4, <1>5, <1>7, <1>8 DEF RowVals

(* The records of a page after UPDATE.                                        *)
Rewritten(recs, types, c, v, w) ==
    [k \in DOMAIN recs |-> IF Match(types, recs[k], w) THEN [recs[k] EXCEPT ![c] = v.val] ELSE recs[k]]

LEMMA RewrittenIs ==
    ASSUME NEW s \in Schemas, NEW c \in DOMAIN s, NEW v \in Literals, s[c] = v.type, NEW w,
           NEW recs \in Seq(RowVals(s))
    PROVE  Rewritten(recs, s, c, v, w) \in Seq(RowVals(s)) /\ Len(Rewritten(recs, s, c, v, w)) = Len(recs)
<1>1. DOMAIN recs = 1..Len(recs) /\ Len(recs) \in Nat BY LenProperties
<1>2. PICK r : r = Rewritten(recs, s, c, v, w) OBVIOUS
<1>3. r = [k \in 1..Len(recs) |-> r[k]] BY <1>1, <1>2 DEF Rewritten
<1>4. ASSUME NEW k \in 1..Len(recs) PROVE r[k] \in RowVals(s)
  <2>1. PICK x \in RowVals(s) : x = recs[k] BY ElementOfSeq
  <2>2. r[k] = IF Match(s, x, w) THEN [x EXCEPT ![c] = v.val] ELSE x BY <1>1, <1>2, <2>1 DEF Rewritten
  <2>3. [x EXCEPT ![c] = v.val] \in RowVals(s) BY ValueSet
  <2> QED BY <2>2, <2>3
<1>5. r \in [1..Len(recs) -> RowVals(s)] BY <1>3, <1>4
<1>6. r \in Seq(RowVals(s)) BY <1>1, <1>5, SeqDef
<1>7. DOMAIN r = 1..Len(r) /\ Len(r) \in Nat BY <1>6, LenProperties
<1>8. Len(r) = Len(recs) BY <1>1, <1>3, <1>7
<1> QED BY <1>2, <1>6, <1>8

LEMMA UpdateStep ==
    ASSUME StoreInv, NEW t \in DOMAIN tabs, NEW c \in DOMAIN tabs[t].types, NEW v \in Literals, NEW w,
           Update(t, c, v, w)
    PROVE  StoreInv'
<1>1. /\ Catalogue(tabs) /\ TablesHold(page, tabs) /\ Pool(page, next_page, free_list)
      /\ RowsGood(page, tabs, row_ptr, next_rowid) /\ PagesIn(page, Len(tabs)) /\ Tidied(page, tabs)
      /\ page \in [Pages -> PageRecs]
  BY DEF StoreInv, RowsGood, PagesIn
<1>2. t \in 1..Len(tabs) /\ Len(tabs) \in Nat BY <1>1, TabsIn
<1>3. PICK s \in Schemas : s = tabs[t].types BY <1>1, <1>2, TabsIn
<1>4. PICK d : d = Chain(page, tabs[t].first) OBVIOUS
<1>5. Holds(page, tabs[t], t, d) BY <1>1, <1>2, <1>4, FirstIsChain
<1>6. \A p \in Pages : p \in ToSet(d) <=> page[p].tid = t
  <2>1. DOMAIN d = 1..Len(d) BY <1>5, ChainIn DEF Holds
  <2> QED BY <1>5, <2>1 DEF Holds, ToSet
<1>7. /\ s[c] = v.type
      /\ page' = [p \in Pages |-> IF p \notin ToSet(d) THEN page[p]
                                  ELSE [page[p] EXCEPT !.recs = Rewritten(page[p].recs, s, c, v, w)]]
      /\ next_page' = next_page /\ free_list' = free_list /\ tabs' = tabs
      /\ next_rowid' = next_rowid /\ row_ptr' = row_ptr
  BY <1>3, <1>4 DEF Update, Rewritten
<1>8. ASSUME NEW q \in Pages
      PROVE  /\ page'[q].tid = page[q].tid /\ page'[q].next = page[q].next
             /\ \E recs : page'[q] = [page[q] EXCEPT !.recs = recs] /\ Len(recs) = Len(page[q].recs)
                  /\ IF page[q].tid = 0 THEN recs = << >> ELSE recs \in Seq(RowVals(tabs[page[q].tid].types))
  <2>1. PICK x \in PageRecs : x = page[q] BY <1>1
  <2>2. x.tid # 0 => x.recs \in Seq(RowVals(tabs[x.tid].types)) BY <1>1, <2>1 DEF Tidied, Tidy
  <2>3. CASE q \notin ToSet(d)
    <3>1. page'[q] = x BY <1>7, <2>1, <2>3
    <3>2. x = [x EXCEPT !.recs = x.recs] BY DEF PageRecs
    <3>3. x.tid = 0 => x.recs = << >> BY <1>1, <2>1 DEF PagesIn
    <3> QED BY <2>1, <2>2, <3>1, <3>2, <3>3
  <2>4. CASE q \in ToSet(d)
    <3>1. x.tid = t /\ t # 0 BY <1>2, <1>6, <2>1, <2>4
    <3>2. PICK r : r = Rewritten(x.recs, s, c, v, w) OBVIOUS
    <3>3. r \in Seq(RowVals(s)) /\ Len(r) = Len(x.recs) BY <1>3, <1>7, <2>2, <3>1, <3>2, RewrittenIs
    <3>4. page'[q] = [x EXCEPT !.recs = r] BY <1>7, <2>1, <2>4, <3>2
    <3>5. page'[q].tid = x.tid /\ page'[q].next = x.next BY <3>4 DEF PageRecs
    <3> QED BY <1>3, <2>1, <3>1, <3>3, <3>4, <3>5
  <2> QED BY <2>3, <2>4
<1>9. page' = [q \in Pages |-> page'[q]] BY <1>7
<1>10. RowsGood(page', tabs, row_ptr, next_rowid) BY <1>1, <1>8, <1>9, RecsRewritten
<1>11. TablesHold(page', tabs) BY <1>1, <1>8, HeldSame
<1>12. Pool(page', next_page, free_list) BY <1>1, <1>8, PoolSame
<1> QED BY <1>1, <1>7, <1>10, <1>11, <1>12 DEF StoreInv

-----------------------------------------------------------------------------
(* DROP TABLE.                                                             *)

(* The identities a DROP TABLE forgets.                                       *)
Gone(pg, tab) == {x.id : x \in ToSet(TableRows(pg, tab))}

(* r is the identity of a row that stands on a page of table t.               *)
IsRowOf(pg, t, r) ==
    \E p \in Pages : pg[p].tid = t /\ \E j \in 1..Len(pg[p].slots) : pg[p].slots[j].row = r

LEMMA GoneRows ==
    ASSUME NEW pg, NEW ts, Catalogue(ts), PagesIn(pg, Len(ts)), Tidied(pg, ts), TablesHold(pg, ts),
           NEW t \in 1..Len(ts), NEW r
    PROVE  r \in Gone(pg, ts[t]) <=> IsRowOf(pg, t, r)
<1>1. PICK c : Holds(pg, ts[t], t, c) BY DEF TablesHold
<1>2. RowsDiffer(pg) BY RowsAreListed
<1>3. PICK rows : rows = TableRows(pg, ts[t]) /\ Lists(rows, TagRows(pg, t)) BY <1>1, <1>2, TagRowsListed
<1>4. ToSet(rows) = TagRows(pg, t)
  <2>1. rows \in Seq(TagRows(pg, t)) BY <1>3 DEF Lists
  <2>2. DOMAIN rows = 1..Len(rows) /\ \A i \in 1..Len(rows) : rows[i] \in TagRows(pg, t)
    BY <2>1, LenProperties, ElementOfSeq
  <2>3. \A x \in TagRows(pg, t) : \E i \in 1..Len(rows) : rows[i] = x BY <1>3 DEF Lists
  <2> QED BY <2>2, <2>3 DEF ToSet
<1>5. ASSUME NEW x \in TagRows(pg, t), x.id = r
      PROVE  \E p \in Pages : pg[p].tid = t /\ \E j \in 1..Len(pg[p].slots) : pg[p].slots[j].row = r
  <2>1. PICK p \in Pages : \E j \in 1..Len(pg[p].slots) :
          /\ pg[p].tid = t /\ x.id = pg[p].slots[j].row /\ x.at = <<p, j>> /\ x.val = pg[p].recs[j]
    BY RowIn
  <2> QED BY <1>5, <2>1
<1>6. ASSUME NEW p \in Pages, pg[p].tid = t, NEW j \in 1..Len(pg[p].slots), pg[p].slots[j].row = r
      PROVE  \E x \in TagRows(pg, t) : x.id = r
  <2>1. \E x \in TagRows(pg, pg[p].tid) :
           x.id = pg[p].slots[j].row /\ x.at = <<p, j>> /\ x.val = pg[p].recs[j]
    BY ZenonT(30), InRow
  <2> QED BY <1>6, <2>1
<1>7. r \in {x.id : x \in ToSet(rows)} <=> \E x \in TagRows(pg, t) : x.id = r BY <1>4
<1> QED BY <1>3, <1>5, <1>6, <1>7 DEF Gone, IsRowOf

(* The catalogue without table t, whose number goes to the last one.          *)
Less(ts, t) == Front([ts EXCEPT ![t] = ts[Len(ts)]])

LEMMA TabsLess ==
    ASSUME NEW ts, Catalogue(ts), NEW t \in 1..Len(ts)
    PROVE  /\ Catalogue(Less(ts, t)) /\ Len(Less(ts, t)) = Len(ts) - 1
           /\ \A i \in 1..Len(ts) - 1 : Less(ts, t)[i] = IF i = t THEN ts[Len(ts)] ELSE ts[i]
<1>01. PICK n \in Nat : n = Len(ts) BY TabsIn
<1>02. PICK less : less = Less(ts, t) OBVIOUS
<1>1. ts \in Seq(TabRecs) /\ n <= MaxTables /\ n \in 1..n BY <1>01, TabsIn DEF Catalogue
<1>2. PICK x \in TabRecs : x = ts[n] BY <1>01, <1>1, ElementOfSeq
<1>3. PICK s : s = [ts EXCEPT ![t] = x] OBVIOUS
<1>4. s \in Seq(TabRecs) /\ Len(s) = n /\ \A i \in 1..n : s[i] = IF i = t THEN x ELSE ts[i]
  BY <1>01, <1>1, <1>2, <1>3, ExceptSeq
<1>5. PICK m \in Int : m = n - 1 OBVIOUS
<1>50. less = SubSeq(s, 1, m) BY <1>01, <1>02, <1>2, <1>3, <1>4, <1>5 DEF Front, Less
<1>6. \A i \in 1..m : s[i] \in TabRecs
  <2>1. \A i \in 1..m : i \in 1..n BY <1>5
  <2> QED BY <1>4, <2>1, ElementOfSeq
<1>7. PICK sub : sub = SubSeq(s, 1, m) OBVIOUS
<1>8. /\ sub \in Seq(TabRecs) /\ Len(sub) = IF 1 <= m THEN m - 1 + 1 ELSE 0
      /\ \A i \in 1..m - 1 + 1 : sub[i] = s[1 + i - 1]
  <2>1. 1 \in Int OBVIOUS
  <2>2. /\ SubSeq(s, 1, m) \in Seq(TabRecs) /\ Len(SubSeq(s, 1, m)) = IF 1 <= m THEN m - 1 + 1 ELSE 0
        /\ \A i \in 1..m - 1 + 1 : SubSeq(s, 1, m)[i] = s[1 + i - 1]
    BY <1>6, <2>1, SubSeqProperties
  <2> QED BY <1>7, <2>2
<1>9. less = sub /\ Len(less) = n - 1 /\ less \in Seq(TabRecs) BY <1>1, <1>5, <1>50, <1>7, <1>8
<1>10. ASSUME NEW i \in 1..n - 1 PROVE less[i] = IF i = t THEN ts[n] ELSE ts[i]
  <2>1. i \in 1..m - 1 + 1 /\ 1 + i - 1 = i /\ i \in 1..n BY <1>5
  <2>2. sub[i] = s[i] BY <1>8, <2>1
  <2> QED BY <1>2, <1>4, <1>9, <2>1, <2>2
<1>11. Catalogue(less) BY <1>1, <1>9, Sizes DEF Catalogue
<1> QED BY <1>01, <1>02, <1>9, <1>10, <1>11

(* The pages of table t are given back, and those of the last become its own.  *)
Handed(pg, new, t, last) ==
    \A q \in Pages :
        /\ pg[q].tid = t => new[q].tid = 0 /\ new[q].slots = << >>
        /\ pg[q].tid = last /\ last # t =>
              new[q].tid = t /\ new[q].slots = pg[q].slots /\ new[q].recs = pg[q].recs
        /\ pg[q].tid # t /\ pg[q].tid # last => new[q] = pg[q]

LEMMA DropStep ==
    ASSUME StoreInv, NEW t \in DOMAIN tabs, DropTable(t)
    PROVE  StoreInv' /\ Handed(page, page', t, Len(tabs))
<1>1. /\ Catalogue(tabs) /\ TablesHold(page, tabs) /\ Pool(page, next_page, free_list)
      /\ RowsGood(page, tabs, row_ptr, next_rowid) /\ PagesIn(page, Len(tabs)) /\ Tidied(page, tabs)
      /\ page \in [Pages -> PageRecs] /\ Located(page, row_ptr, next_rowid)
      /\ next_rowid \in 1..RowLimit /\ row_ptr \in [RowIds -> (Pages \X Nat) \cup {NoRow}]
  BY DEF StoreInv, RowsGood, PagesIn
<1>2. PICK n \in Nat : n = Len(tabs) BY <1>1, TabsIn
<1>3. t \in 1..n /\ n \in 1..n /\ n \in 0..MaxTables /\ MaxTables \in Nat BY <1>1, <1>2, TabsIn, Sizes
<1>4. PICK d, e : d = Chain(page, tabs[t].first) /\ e = Chain(page, tabs[n].first) OBVIOUS
<1>5. Holds(page, tabs[t], t, d) /\ Holds(page, tabs[n], n, e) BY <1>1, <1>2, <1>3, <1>4, FirstIsChain
<1>6. \A p \in Pages : (p \in ToSet(d) <=> page[p].tid = t) /\ (p \in ToSet(e) <=> page[p].tid = n)
  <2>1. DOMAIN d = 1..Len(d) /\ DOMAIN e = 1..Len(e) BY <1>5, ChainIn DEF Holds
  <2> QED BY <1>5, <2>1 DEF Holds, ToSet
<1>7. PICK gone : gone = {r.id : r \in ToSet(TableRows(page, tabs[t]))} OBVIOUS
<1>8. PICK moved : moved = IF n = t THEN {} ELSE ToSet(e) OBVIOUS
<1>9. /\ free_list' = free_list \o d
      /\ row_ptr' = [r \in RowIds |-> IF r \in gone THEN NoRow ELSE row_ptr[r]]
      /\ tabs' = Front([tabs EXCEPT ![t] = tabs[n]])
      /\ page' = [p \in Pages |->
           CASE p \in ToSet(d) -> EmptyPage(0)
             [] p \in moved        -> [page[p] EXCEPT !.tid = t]
             [] OTHER              -> page[p]]
      /\ next_page' = next_page /\ next_rowid' = next_rowid
  BY <1>2, <1>4, <1>7, <1>8 DEF DropTable
<1>10. ASSUME NEW q \in Pages PROVE page[q].tid \in 0..n
  <2>1. page[q].tid \in 0..MaxTables /\ page[q].tid <= n BY <1>1, <1>2, PageIs DEF PagesIn
  <2> QED BY <1>2, <2>1
<1>11. ASSUME NEW q \in Pages, page[q].tid = t
       PROVE  /\ page'[q].tid = 0 /\ page'[q].slots = << >> /\ page'[q].recs = << >>
              /\ page'[q] \in PageRecs
  <2>0. q \in ToSet(d) BY <1>6, <1>11
  <2>1. page'[q] = EmptyPage(0)
    <3>1. page'[q] = CASE q \in ToSet(d) -> EmptyPage(0)
                       [] q \in moved    -> [page[q] EXCEPT !.tid = t]
                       [] OTHER          -> page[q]
      BY <1>9
    <3>2. q \notin moved BY <1>6, <1>8, <1>11
    <3> QED BY <2>0, <3>1, <3>2
  <2>2. tabs[t].types \in Schemas /\ 0 \in 0..MaxTables BY <1>1, <1>2, <1>3, TabsIn
  <2>3. EmptyPage(0) \in PageRecs BY <2>2, EmptyIsTidy
  <2> QED BY <2>1, <2>3 DEF EmptyPage
<1>12. ASSUME NEW q \in Pages, page[q].tid = n, n # t
       PROVE  /\ page'[q].tid = t /\ page'[q].slots = page[q].slots /\ page'[q].recs = page[q].recs
              /\ page'[q].next = page[q].next /\ page'[q] \in PageRecs
  <2>1. page'[q] = [page[q] EXCEPT !.tid = t] BY <1>6, <1>8, <1>9, <1>12
  <2>2. PICK x \in PageRecs : x = page[q] BY <1>1
  <2>3. PICK y : y = [x EXCEPT !.tid = t] OBVIOUS
  <2>4. y \in PageRecs /\ y.tid = t /\ y.slots = x.slots /\ y.recs = x.recs /\ y.next = x.next
    BY <1>3, <2>3 DEF PageRecs
  <2> QED BY <2>1, <2>2, <2>3, <2>4
<1>13. ASSUME NEW q \in Pages, page[q].tid # t, page[q].tid # n PROVE page'[q] = page[q]
  BY <1>6, <1>8, <1>9, <1>13
<1>14. page' \in [Pages -> PageRecs]
  <2>1. \A q \in Pages : page'[q] \in PageRecs BY <1>1, <1>11, <1>12, <1>13
  <2>2. page' = [q \in Pages |-> page'[q]] BY <1>9
  <2> QED BY <2>1, <2>2
<1>15. /\ Catalogue(tabs') /\ Len(tabs') = n - 1
       /\ \A i \in 1..n - 1 : tabs'[i] = IF i = t THEN tabs[n] ELSE tabs[i]
  <2>1. t \in 1..Len(tabs) BY <1>2, <1>3
  <2>2. /\ Catalogue(Less(tabs, t)) /\ Len(Less(tabs, t)) = Len(tabs) - 1
        /\ \A i \in 1..Len(tabs) - 1 : Less(tabs, t)[i] = IF i = t THEN tabs[Len(tabs)] ELSE tabs[i]
    BY <1>1, <2>1, TabsLess
  <2>3. tabs' = Less(tabs, t) BY <1>2, <1>9 DEF Less
  <2> QED BY <1>2, <2>2, <2>3
<1>16. ASSUME NEW i \in 1..n - 1 PROVE \E c : Holds(page', tabs'[i], i, c)
  <2>1. i \in 1..n /\ i # n /\ i # 0 BY <1>2
  <2>2. CASE i = t
    <3>1. n # t BY <2>1, <2>2
    <3>2. \A q \in Pages : page[q].tid = n => page'[q].next = page[q].next BY <1>12, <3>1
    <3>3. \A q \in Pages : page[q].tid = n <=> page'[q].tid = t
      BY <1>3, <1>11, <1>12, <1>13, <2>1, <2>2, <3>1
    <3>4. Holds(page', tabs[n], t, e) BY <1>5, <3>2, <3>3, HoldsMoved
    <3> QED BY <1>15, <2>2, <3>4
  <2>3. CASE i # t
    <3>1. PICK c : Holds(page, tabs[i], i, c) BY <1>1, <1>2, <2>1 DEF TablesHold
    <3>2. \A q \in Pages : page[q].tid = i => page'[q].next = page[q].next BY <1>13, <2>1, <2>3
    <3>3. \A q \in Pages : page[q].tid = i <=> page'[q].tid = i
      BY <1>11, <1>12, <1>13, <2>1, <2>3
    <3>4. Holds(page', tabs[i], i, c) BY <3>1, <3>2, <3>3, HoldsMoved
    <3> QED BY <1>15, <2>3, <3>4
  <2> QED BY <2>2, <2>3
<1>17. TablesHold(page', tabs') BY <1>15, <1>16 DEF TablesHold
<1>18. Pool(page', next_page', free_list')
  <2>1. /\ next_page \in 0..NPages /\ NPages \in Nat /\ Lists(free_list, FreePages(page, next_page))
        /\ \A p \in Pages : p > next_page => page[p].tid = 0
    BY <1>1, Sizes DEF Pool
  <2>2. Lists(d, Tagged(page, t)) BY <1>5, ChainLists
  <2>3. Disjoint(FreePages(page, next_page), Tagged(page, t)) BY <1>3 DEF Disjoint, FreePages, Tagged
  <2>4. Lists(free_list', FreePages(page, next_page) \cup Tagged(page, t))
    BY <1>9, <2>1, <2>2, <2>3, ListsConcat
  <2>5. ASSUME NEW q PROVE q \in FreePages(page', next_page) <=>
                             q \in FreePages(page, next_page) \/ q \in Tagged(page, t)
    <3>1. q \in FreePages(page', next_page) <=> q \in 1..next_page /\ page'[q].tid = 0 BY DEF FreePages
    <3>2. q \in FreePages(page, next_page) <=> q \in 1..next_page /\ page[q].tid = 0 BY DEF FreePages
    <3>3. q \in Tagged(page, t) <=> q \in Pages /\ page[q].tid = t BY DEF Tagged
    <3>4. q \in 1..next_page <=> q \in Pages /\ ~(q > next_page) BY <2>1 DEF Pages
    <3>5. q \in Pages => (page'[q].tid = 0 <=> page[q].tid = 0 \/ page[q].tid = t)
      BY <1>3, <1>11, <1>12, <1>13
    <3>6. q \in Pages /\ q > next_page => page[q].tid = 0 BY <2>1
    <3> QED BY <1>3, <3>1, <3>2, <3>3, <3>4, <3>5, <3>6
  <2>6. FreePages(page', next_page) = FreePages(page, next_page) \cup Tagged(page, t) BY <2>5
  <2>7. \A q \in Pages : q > next_page => page'[q].tid = 0
    <3>1. ASSUME NEW q \in Pages, q > next_page PROVE page'[q].tid = 0
      <4>1. page[q].tid = 0 BY <2>1, <3>1
      <4> QED BY <1>3, <1>13, <4>1
    <3> QED BY <3>1
  <2> QED BY <1>9, <2>1, <2>4, <2>6, <2>7 DEF Pool
<1>19. PagesIn(page', Len(tabs'))
  <2>1. ASSUME NEW q \in Pages
        PROVE  page'[q].tid <= n - 1 /\ (page'[q].tid = 0 => page'[q].slots = << >> /\ page'[q].recs = << >>)
    <3>1. CASE page[q].tid = t BY <1>3, <1>11, <3>1
    <3>2. CASE page[q].tid = n /\ n # t BY <1>3, <1>12, <3>2
    <3>3. CASE page[q].tid # n /\ page[q].tid # t
      <4>1. page'[q] = page[q] /\ page[q].tid <= n - 1 BY <1>10, <1>13, <3>3
      <4> QED BY <1>1, <4>1 DEF PagesIn
    <3> QED BY <3>1, <3>2, <3>3
  <2> QED BY <1>14, <1>15, <2>1 DEF PagesIn
<1>20. Tidied(page', tabs')
  <2>1. ASSUME NEW q \in Pages, page'[q].tid # 0 PROVE Tidy(page'[q], tabs'[page'[q].tid].types)
    <3>1. page[q].tid # t BY <1>11, <2>1
    <3>2. CASE page[q].tid = n /\ n # t
      <4>1. Tidy(page[q], tabs[n].types) BY <1>1, <1>3, <3>2 DEF Tidied
      <4>2. t \in 1..n - 1 BY <1>3, <3>2
      <4>3. page'[q].tid = t /\ page'[q].slots = page[q].slots /\ page'[q].recs = page[q].recs BY <1>12, <3>2
      <4>4. tabs'[t] = tabs[n] BY <1>15, <4>2
      <4> QED BY <4>1, <4>3, <4>4 DEF Tidy
    <3>3. CASE page[q].tid # n
      <4>1. page'[q] = page[q] BY <1>13, <3>1, <3>3
      <4>2. page[q].tid \in 1..n - 1 BY <1>10, <2>1, <3>3, <4>1
      <4>3. tabs'[page[q].tid] = tabs[page[q].tid] BY <1>15, <3>1, <4>2
      <4>4. Tidy(page[q], tabs[page[q].tid].types) BY <1>1, <2>1, <4>1 DEF Tidied
      <4> QED BY <4>1, <4>3, <4>4
    <3> QED BY <3>1, <3>2, <3>3
  <2> QED BY <2>1 DEF Tidied
<1>21. \A q \in Pages : page[q].tid # t => page'[q].slots = page[q].slots BY <1>12, <1>13
<1>22. ASSUME NEW r \in RowIds
       PROVE  r \in gone <=> \E p \in Pages : page[p].tid = t
                               /\ \E j \in 1..Len(page[p].slots) : page[p].slots[j].row = r
  <2>1. t \in 1..Len(tabs) BY <1>2, <1>3
  <2>2. r \in Gone(page, tabs[t]) <=> IsRowOf(page, t, r) BY <1>1, <2>1, GoneRows
  <2> QED BY <1>7, <2>2 DEF Gone, IsRowOf
<1>23. Located(page', row_ptr', next_rowid')
  <2>1. ASSUME NEW p \in Pages, NEW j \in 1..Len(page'[p].slots)
        PROVE  page'[p].slots[j].row < next_rowid /\ row_ptr'[page'[p].slots[j].row] = <<p, j>>
    <3>1. page[p].tid # t BY <1>11, NoPlaces
    <3>2. page'[p].slots = page[p].slots BY <1>21, <3>1
    <3>3. j \in 1..Len(page[p].slots) BY <3>2
    <3>4. PICK r \in RowIds : r = page[p].slots[j].row BY <1>1, <3>3, PageIs
    <3>5. r < next_rowid /\ row_ptr[r] = <<p, j>> BY <1>1, <3>3, <3>4 DEF Located
    <3>6. ASSUME r \in gone PROVE FALSE
      <4>1. PICK q \in Pages : page[q].tid = t
              /\ \E i \in 1..Len(page[q].slots) : page[q].slots[i].row = r
        BY <1>22, <3>6
      <4>2. PICK i \in 1..Len(page[q].slots) : page[q].slots[i].row = r BY <4>1
      <4>3. row_ptr[r] = <<q, i>> BY <1>1, <4>2 DEF Located
      <4>4. p = q BY <3>5, <4>3
      <4> QED BY <3>1, <4>1, <4>4
    <3>7. row_ptr'[r] = row_ptr[r] BY <1>9, <3>6
    <3> QED BY <3>2, <3>4, <3>5, <3>7
  <2>2. ASSUME NEW r \in RowIds, row_ptr'[r] # NoRow
        PROVE  \E p \in Pages : \E j \in 1..Len(page'[p].slots) : page'[p].slots[j].row = r
    <3>1. r \notin gone /\ row_ptr[r] # NoRow BY <1>9, <2>2
    <3>2. PICK p \in Pages : \E j \in 1..Len(page[p].slots) : page[p].slots[j].row = r
      BY <1>1, <3>1 DEF Located
    <3>3. page[p].tid # t BY <1>22, <3>1, <3>2
    <3>4. page'[p].slots = page[p].slots BY <1>21, <3>3
    <3> QED BY <3>2, <3>4
  <2>3. Located(page', row_ptr', next_rowid) BY <2>1, <2>2 DEF Located
  <2> QED BY <1>9, <2>3
<1>24. row_ptr' \in [RowIds -> (Pages \X Nat) \cup {NoRow}] BY <1>1, <1>9
<1>25. Handed(page, page', t, Len(tabs)) BY <1>2, <1>11, <1>12, <1>13 DEF Handed
<1>26. StoreInv'
  BY <1>1, <1>9, <1>15, <1>17, <1>18, <1>19, <1>20, <1>23, <1>24 DEF StoreInv, RowsGood
<1> QED BY <1>25, <1>26

-----------------------------------------------------------------------------
(* Compaction moves record after record.                                      *)

LEMMA Removed ==
    ASSUME NEW S, NEW s \in Seq(S), NEW k \in 1..Len(s)
    PROVE  /\ RemoveAt(s, k) \in Seq(S) /\ Len(RemoveAt(s, k)) = Len(s) - 1
           /\ \A j \in 1..Len(s) - 1 : RemoveAt(s, k)[j] = IF j < k THEN s[j] ELSE s[j + 1]
<1>1. PICK n \in Nat : n = Len(s) BY LenProperties
<1>2. PICK a, b : a = SubSeq(s, 1, k - 1) /\ b = SubSeq(s, k + 1, n) OBVIOUS
<1>3. k \in 1..n BY <1>1
<1>4. a \in Seq(S) /\ Len(a) = k - 1 /\ \A i \in 1..k - 1 : a[i] = s[i]
  <2>1. 1 \in Int /\ k - 1 \in Int BY <1>3
  <2>2. \A i \in 1..k - 1 : s[i] \in S
    <3>1. \A i \in 1..k - 1 : i \in 1..n BY <1>3
    <3> QED BY <1>1, <3>1, ElementOfSeq
  <2>3. /\ SubSeq(s, 1, k - 1) \in Seq(S) /\ Len(SubSeq(s, 1, k - 1)) = IF 1 <= k - 1 THEN k - 1 - 1 + 1 ELSE 0
        /\ \A i \in 1..k - 1 - 1 + 1 : SubSeq(s, 1, k - 1)[i] = s[1 + i - 1]
    BY <2>1, <2>2, SubSeqProperties
  <2>4. \A i \in 1..k - 1 : i \in 1..k - 1 - 1 + 1 /\ 1 + i - 1 = i BY <1>3
  <2>5. Len(a) = k - 1 BY <1>2, <1>3, <2>3
  <2> QED BY <1>2, <2>3, <2>4, <2>5
<1>5. b \in Seq(S) /\ Len(b) = n - k /\ \A i \in 1..n - k : b[i] = s[k + i]
  <2>1. k + 1 \in Int /\ n \in Int BY <1>3
  <2>2. \A i \in k + 1..n : s[i] \in S
    <3>1. \A i \in k + 1..n : i \in 1..n BY <1>3
    <3> QED BY <1>1, <3>1, ElementOfSeq
  <2>3. /\ SubSeq(s, k + 1, n) \in Seq(S)
        /\ Len(SubSeq(s, k + 1, n)) = IF k + 1 <= n THEN n - (k + 1) + 1 ELSE 0
        /\ \A i \in 1..n - (k + 1) + 1 : SubSeq(s, k + 1, n)[i] = s[k + 1 + i - 1]
    BY <2>1, <2>2, SubSeqProperties
  <2>4. \A i \in 1..n - k : i \in 1..n - (k + 1) + 1 /\ k + 1 + i - 1 = k + i BY <1>3
  <2>5. Len(b) = n - k BY <1>2, <1>3, <2>3
  <2> QED BY <1>2, <2>3, <2>4, <2>5
<1>6. PICK c : c = a \o b OBVIOUS
<1>7. c \in Seq(S) /\ Len(c) = k - 1 + (n - k)
      /\ \A i \in 1..k - 1 + (n - k) : c[i] = IF i <= k - 1 THEN a[i] ELSE b[i - (k - 1)]
  <2>1. /\ a \o b \in Seq(S) /\ Len(a \o b) = Len(a) + Len(b)
        /\ \A i \in 1..Len(a) + Len(b) : (a \o b)[i] = IF i <= Len(a) THEN a[i] ELSE b[i - Len(a)]
    BY <1>4, <1>5, ConcatProperties
  <2> QED BY <1>4, <1>5, <1>6, <2>1
<1>8. ASSUME NEW j \in 1..n - 1 PROVE c[j] = IF j < k THEN s[j] ELSE s[j + 1]
  <2>1. j \in 1..k - 1 + (n - k) BY <1>3
  <2>2. CASE j < k
    <3>1. j \in 1..k - 1 /\ j <= k - 1 BY <1>3, <2>2
    <3> QED BY <1>4, <1>7, <2>1, <2>2, <3>1
  <2>3. CASE ~(j < k)
    <3>1. ~(j <= k - 1) /\ j - (k - 1) \in 1..n - k /\ k + (j - (k - 1)) = j + 1 BY <1>3, <2>3
    <3>2. c[j] = b[j - (k - 1)] BY <1>7, <2>1, <3>1
    <3> QED BY <1>5, <2>3, <3>1, <3>2
  <2> QED BY <2>2, <2>3
<1>9. RemoveAt(s, k) = c BY <1>1, <1>2, <1>6 DEF RemoveAt
<1>10. Len(c) = n - 1 BY <1>3, <1>7
<1> QED BY <1>1, <1>7, <1>8, <1>9, <1>10

(* The pages, addresses and scan position DELETE works on.                    *)
Ptrs   == [RowIds -> (Pages \X Nat) \cup {NoRow}]
Scans  == [page : 0..NPages, slot : Nat]
States == [pg : [Pages -> PageRecs], ptr : Ptrs, scan : Scans]

(* One round of compaction: the record of slot i moves to place i.            *)
MoveRec(s, p, i) ==
    [s EXCEPT !.pg[p].recs[i] = s.pg[p].recs[s.pg[p].slots[i].off],
              !.pg[p].slots[i].off = i,
              !.ptr[s.pg[p].slots[i].row] = <<p, i>>]

(* What a round of compaction makes of a page, the pages and the state.        *)
PageMoved(x, i, v)  == [x EXCEPT !.recs[i] = v, !.slots[i].off = i]
PagesMoved(g, p, i, v) == [g EXCEPT ![p].recs[i] = v, ![p].slots[i].off = i]
PtrSet(f, r, a) == [f EXCEPT ![r] = a]
StateMoved(s, p, i, v, r, a) ==
    [s EXCEPT !.pg[p].recs[i] = v, !.pg[p].slots[i].off = i, !.ptr[r] = a]

LEMMA MovePage ==
    ASSUME NEW x \in PageRecs, NEW i \in 1..Len(x.slots), i \in 1..Len(x.recs), NEW v \in Values
    PROVE  LET y == PageMoved(x, i, v)
           IN  /\ y \in PageRecs /\ y.tid = x.tid /\ y.next = x.next
               /\ Len(y.slots) = Len(x.slots) /\ Len(y.recs) = Len(x.recs)
               /\ \A j \in 1..Len(x.slots) : j # i => y.slots[j] = x.slots[j]
               /\ y.slots[i].off = i /\ y.slots[i].row = x.slots[i].row
               /\ \A j \in 1..Len(x.recs) : j # i => y.recs[j] = x.recs[j]
               /\ y.recs[i] = v
<1>1. x.slots \in Seq(SlotRecs) /\ x.recs \in Seq(Values) BY DEF PageRecs
<1>2. PICK sl \in Seq(SlotRecs), rs \in Seq(Values) : sl = x.slots /\ rs = x.recs BY <1>1
<1>3. PICK z \in SlotRecs : z = sl[i] BY <1>2, ElementOfSeq
<1>4. PICK z2 : z2 = [z EXCEPT !.off = i] OBVIOUS
<1>5. z2 \in SlotRecs /\ z2.off = i /\ z2.row = z.row
  <2>1. i \in Nat BY <1>1, LenProperties
  <2> QED BY <1>4, <2>1 DEF SlotRecs
<1>6. PICK sl2 : sl2 = [sl EXCEPT ![i] = z2] OBVIOUS
<1>7. PICK rs2 : rs2 = [rs EXCEPT ![i] = v] OBVIOUS
<1>8. sl2 \in Seq(SlotRecs) /\ Len(sl2) = Len(sl) /\ sl2[i] = z2 /\ \A j \in 1..Len(sl) : j # i => sl2[j] = sl[j]
  BY <1>2, <1>5, <1>6, ExceptSeq
<1>9. rs2 \in Seq(Values) /\ Len(rs2) = Len(rs) /\ rs2[i] = v /\ \A j \in 1..Len(rs) : j # i => rs2[j] = rs[j]
  BY <1>2, <1>7, ExceptSeq
<1>10. [x.slots EXCEPT ![i].off = i] = sl2 BY <1>2, <1>3, <1>4, <1>6
<1>11. [x.recs EXCEPT ![i] = v] = rs2 BY <1>2, <1>7
<1>12. PICK y : y = PageMoved(x, i, v) OBVIOUS
<1>13. y.tid = x.tid /\ y.next = x.next /\ y.recs = [x.recs EXCEPT ![i] = v] BY <1>12 DEF PageRecs, PageMoved, PageMoved
<1>14. y.slots = [x.slots EXCEPT ![i].off = i] BY <1>12 DEF PageRecs, PageMoved, PageMoved
<1>15. y \in PageRecs BY <1>8, <1>9, <1>10, <1>11, <1>12 DEF PageRecs, PageMoved
<1> QED BY <1>2, <1>3, <1>5, <1>8, <1>9, <1>10, <1>11, <1>12, <1>13, <1>14, <1>15

LEMMA MovePages ==
    ASSUME NEW g \in [Pages -> PageRecs], NEW p \in Pages, NEW i, NEW v,
           PageMoved(g[p], i, v) \in PageRecs
    PROVE  LET h == PagesMoved(g, p, i, v)
           IN  /\ h \in [Pages -> PageRecs] /\ h[p] = PageMoved(g[p], i, v)
               /\ \A q \in Pages : q # p => h[q] = g[q]
<1>1. PagesMoved(g, p, i, v) \in [Pages -> PageRecs] BY DEF PagesMoved, PageMoved
<1>2. PagesMoved(g, p, i, v)[p] = PageMoved(g[p], i, v) BY DEF PagesMoved, PageMoved
<1>3. ASSUME NEW q \in Pages, q # p PROVE PagesMoved(g, p, i, v)[q] = g[q] BY <1>3 DEF PagesMoved
<1> QED BY <1>1, <1>2, <1>3

LEMMA MoveState ==
    ASSUME NEW s \in States, NEW p, NEW i, NEW v, NEW r, NEW a,
           PagesMoved(s.pg, p, i, v) \in [Pages -> PageRecs],
           PtrSet(s.ptr, r, a) \in Ptrs
    PROVE  LET y == StateMoved(s, p, i, v, r, a)
           IN  /\ y \in States /\ y.scan = s.scan /\ y.ptr = PtrSet(s.ptr, r, a)
               /\ y.pg = PagesMoved(s.pg, p, i, v)
<1>1. StateMoved(s, p, i, v, r, a) \in States BY DEF States, StateMoved, PagesMoved, PtrSet
<1>2. StateMoved(s, p, i, v, r, a).scan = s.scan BY DEF States, StateMoved
<1>3. StateMoved(s, p, i, v, r, a).ptr = PtrSet(s.ptr, r, a) BY DEF States, StateMoved, PtrSet
<1>4. StateMoved(s, p, i, v, r, a).pg = PagesMoved(s.pg, p, i, v) BY DEF States, StateMoved, PagesMoved
<1> QED BY <1>1, <1>2, <1>3, <1>4

(* y is s with record i of page p, b, in place i and its slot and address set. *)
IsMoved(s, a, y, b, p, i) ==
    /\ y \in States /\ y.scan = s.scan
    /\ \A q \in Pages : q # p => y.pg[q] = s.pg[q]
    /\ b.tid = a.tid /\ b.next = a.next
    /\ Len(b.slots) = Len(a.slots) /\ Len(b.recs) = Len(a.recs)
    /\ \A j \in 1..Len(a.slots) : j # i => b.slots[j] = a.slots[j]
    /\ b.slots[i].off = i /\ b.slots[i].row = a.slots[i].row
    /\ \A j \in 1..Len(a.recs) : j # i => b.recs[j] = a.recs[j]
    /\ b.recs[i] = a.recs[a.slots[i].off]
    /\ \A r \in RowIds : r # a.slots[i].row => y.ptr[r] = s.ptr[r]
    /\ y.ptr[a.slots[i].row] = <<p, i>>

LEMMA MoveIs ==
    ASSUME NEW s \in States, NEW p \in Pages, NEW i \in 1..Len(s.pg[p].slots),
           i \in 1..Len(s.pg[p].recs), s.pg[p].slots[i].off \in 1..Len(s.pg[p].recs)
    PROVE  IsMoved(s, s.pg[p], MoveRec(s, p, i), MoveRec(s, p, i).pg[p], p, i)
<1>1. s.pg \in [Pages -> PageRecs] /\ s.ptr \in Ptrs BY DEF States
<1>2. PICK x \in PageRecs : x = s.pg[p] BY <1>1
<1>3. x.slots \in Seq(SlotRecs) /\ x.recs \in Seq(Values) BY DEF PageRecs
<1>4. PICK z \in SlotRecs : z = x.slots[i] BY <1>2, <1>3, ElementOfSeq
<1>5. PICK r \in RowIds : r = z.row BY DEF SlotRecs
<1>6. PICK v \in Values : v = x.recs[z.off] BY <1>2, <1>3, <1>4, ElementOfSeq
<1>7. MoveRec(s, p, i) = StateMoved(s, p, i, v, r, <<p, i>>)
  BY <1>2, <1>4, <1>5, <1>6 DEF MoveRec, StateMoved
<1>70. i \in 1..Len(x.slots) /\ i \in 1..Len(x.recs) BY <1>2
<1>8. PICK b : b = PageMoved(x, i, v) OBVIOUS
<1>9. /\ b \in PageRecs /\ b.tid = x.tid /\ b.next = x.next
      /\ Len(b.slots) = Len(x.slots) /\ Len(b.recs) = Len(x.recs)
      /\ \A j \in 1..Len(x.slots) : j # i => b.slots[j] = x.slots[j]
      /\ b.slots[i].off = i /\ b.slots[i].row = x.slots[i].row
      /\ \A j \in 1..Len(x.recs) : j # i => b.recs[j] = x.recs[j]
      /\ b.recs[i] = v
  <2>1. \A k \in 1..Len(x.slots) : k \in 1..Len(x.recs) =>
          LET y == PageMoved(x, k, v)
          IN  /\ y \in PageRecs /\ y.tid = x.tid /\ y.next = x.next
              /\ Len(y.slots) = Len(x.slots) /\ Len(y.recs) = Len(x.recs)
              /\ \A j \in 1..Len(x.slots) : j # k => y.slots[j] = x.slots[j]
              /\ y.slots[k].off = k /\ y.slots[k].row = x.slots[k].row
              /\ \A j \in 1..Len(x.recs) : j # k => y.recs[j] = x.recs[j]
              /\ y.recs[k] = v
    BY MovePage
  <2> QED BY <1>70, <1>8, <2>1
<1>10. PICK g : g = s.pg OBVIOUS
<1>11. PICK h : h = PagesMoved(g, p, i, v) OBVIOUS
<1>12. h \in [Pages -> PageRecs] /\ h[p] = b /\ \A q \in Pages : q # p => h[q] = g[q]
  <2>1. g \in [Pages -> PageRecs] /\ b = PageMoved(g[p], i, v) BY <1>1, <1>2, <1>8, <1>10
  <2> QED BY <1>9, <1>11, <2>1, MovePages
<1>13. PICK f : f = PtrSet(s.ptr, r, <<p, i>>) OBVIOUS
<1>14. f \in Ptrs /\ f[r] = <<p, i>> /\ \A q \in RowIds : q # r => f[q] = s.ptr[q]
  <2>1. i \in Nat BY <1>2, <1>3, LenProperties
  <2>2. <<p, i>> \in Pages \X Nat BY <2>1
  <2> QED BY <1>1, <1>13, <2>2 DEF Ptrs, PtrSet
<1>15. PICK y : y = MoveRec(s, p, i) OBVIOUS
<1>16. y \in States /\ y.scan = s.scan /\ y.ptr = f /\ y.pg = h
  <2>1. h = PagesMoved(s.pg, p, i, v) BY <1>10, <1>11
  <2> QED BY <1>7, <1>12, <1>13, <1>14, <1>15, <2>1, MoveState
<1>17. x.recs[x.slots[i].off] = v /\ x.slots[i].row = r BY <1>4, <1>5, <1>6
<1>18. y.pg[p] = b BY <1>12, <1>16
<1>19. IsMoved(s, x, y, b, p, i) BY <1>9, <1>10, <1>12, <1>14, <1>16, <1>17 DEF IsMoved
<1> QED BY <1>2, <1>15, <1>18, <1>19

-----------------------------------------------------------------------------
(* A compacted page.                                                          *)

(* A page that can be compacted: no record has to move away from the end of    *)
(* the page, and no two slots are of one row.                                 *)
Packable(st, p) ==
    LET x == st.pg[p]
    IN  /\ Len(x.slots) <= Len(x.recs)
        /\ \A j \in 1..Len(x.slots) : x.slots[j].off \in j..Len(x.recs)
        /\ \A i, j \in 1..Len(x.slots) : x.slots[i].row = x.slots[j].row => i = j

(* s is st with the first i slots of page p compacted.                        *)
PackedPage(s, y, st, x, p, i) ==
    /\ s \in States /\ s.scan = st.scan
    /\ \A q \in Pages : q # p => s.pg[q] = st.pg[q]
    /\ y.tid = x.tid /\ y.next = x.next
    /\ Len(y.slots) = Len(x.slots) /\ Len(y.recs) = Len(x.recs)
    /\ \A j \in 1..Len(x.slots) :
          y.slots[j].row = x.slots[j].row /\ y.slots[j].off = IF j <= i THEN j ELSE x.slots[j].off
    /\ \A j \in 1..i : y.recs[j] = x.recs[x.slots[j].off]
    /\ \A j \in i + 1..Len(x.recs) : y.recs[j] = x.recs[j]
    /\ \A j \in 1..i : s.ptr[x.slots[j].row] = <<p, j>>
    /\ \A r \in RowIds : (\A j \in 1..i : x.slots[j].row # r) => s.ptr[r] = st.ptr[r]

Packed(s, st, p, i) == PackedPage(s, s.pg[p], st, st.pg[p], p, i)

LEMMA StateIs ==
    ASSUME NEW s \in States, NEW p \in Pages
    PROVE  /\ s.pg \in [Pages -> PageRecs] /\ s.ptr \in Ptrs /\ s.scan \in Scans /\ s.pg[p] \in PageRecs
           /\ s.pg[p].slots \in Seq(SlotRecs) /\ s.pg[p].recs \in Seq(Values)
           /\ Len(s.pg[p].slots) \in Nat /\ Len(s.pg[p].recs) \in Nat
           /\ \A j \in 1..Len(s.pg[p].slots) : s.pg[p].slots[j].off \in Nat /\ s.pg[p].slots[j].row \in RowIds
<1>1. s.pg \in [Pages -> PageRecs] /\ s.ptr \in Ptrs /\ s.scan \in Scans BY DEF States
<1>2. PICK x \in PageRecs : x = s.pg[p] BY <1>1
<1>3. x.slots \in Seq(SlotRecs) /\ x.recs \in Seq(Values) BY DEF PageRecs
<1>4. Len(x.slots) \in Nat /\ Len(x.recs) \in Nat BY <1>3, LenProperties
<1>5. ASSUME NEW j \in 1..Len(x.slots) PROVE x.slots[j].off \in Nat /\ x.slots[j].row \in RowIds
  <2>1. x.slots[j] \in SlotRecs BY <1>3, ElementOfSeq
  <2> QED BY <2>1 DEF SlotRecs
<1> QED BY <1>1, <1>2, <1>3, <1>4, <1>5

LEMMA PackStarts ==
    ASSUME NEW st \in States, NEW p \in Pages
    PROVE  Packed(st, st, p, 0)
<1>1. Len(st.pg[p].slots) \in Nat /\ Len(st.pg[p].recs) \in Nat BY StateIs
<1>2. \A j \in 1..Len(st.pg[p].slots) : ~(j <= 0) OBVIOUS
<1>3. \A j \in 1..0 : FALSE OBVIOUS
<1> QED BY <1>1, <1>2, <1>3 DEF Packed, PackedPage

LEMMA PackStep ==
    ASSUME NEW st \in States, NEW p \in Pages, Packable(st, p), NEW i \in 1..Len(st.pg[p].slots),
           NEW s, Packed(s, st, p, i - 1)
    PROVE  Packed(MoveRec(s, p, i), st, p, i)
<1>1. PICK m \in Nat, l \in Nat : m = Len(st.pg[p].slots) /\ l = Len(st.pg[p].recs) BY StateIs
<1>2. PICK x, y : x = st.pg[p] /\ y = s.pg[p] OBVIOUS
<1>3. /\ s \in States /\ s.scan = st.scan
      /\ \A q \in Pages : q # p => s.pg[q] = st.pg[q]
      /\ y.tid = x.tid /\ y.next = x.next
      /\ Len(y.slots) = m /\ Len(y.recs) = l
      /\ \A j \in 1..m :
            y.slots[j].row = x.slots[j].row /\ y.slots[j].off = IF j <= i - 1 THEN j ELSE x.slots[j].off
      /\ \A j \in 1..i - 1 : y.recs[j] = x.recs[x.slots[j].off]
      /\ \A j \in i - 1 + 1..l : y.recs[j] = x.recs[j]
      /\ \A j \in 1..i - 1 : s.ptr[x.slots[j].row] = <<p, j>>
      /\ \A r \in RowIds : (\A j \in 1..i - 1 : x.slots[j].row # r) => s.ptr[r] = st.ptr[r]
  BY <1>1, <1>2 DEF Packed, PackedPage
<1>4. /\ m <= l /\ \A j \in 1..m : x.slots[j].off \in j..l
      /\ \A a, b \in 1..m : x.slots[a].row = x.slots[b].row => a = b
  BY <1>1, <1>2 DEF Packable
<1>5. i \in 1..m /\ i \in 1..l /\ ~(i <= i - 1) BY <1>1, <1>4
<1>6. y.slots[i].off = x.slots[i].off /\ x.slots[i].off \in i..l /\ y.slots[i].row = x.slots[i].row
  BY <1>3, <1>4, <1>5
<1>7. y.recs[x.slots[i].off] = x.recs[x.slots[i].off]
  <2>1. i - 1 + 1 = i BY <1>5
  <2> QED BY <1>3, <1>6, <2>1
<1>8. PICK z, w : z = MoveRec(s, p, i) /\ w = z.pg[p] OBVIOUS
<1>9. /\ z \in States /\ z.scan = s.scan
      /\ \A q \in Pages : q # p => z.pg[q] = s.pg[q]
      /\ w.tid = y.tid /\ w.next = y.next
      /\ Len(w.slots) = Len(y.slots) /\ Len(w.recs) = Len(y.recs)
      /\ \A j \in 1..Len(y.slots) : j # i => w.slots[j] = y.slots[j]
      /\ w.slots[i].off = i /\ w.slots[i].row = y.slots[i].row
      /\ \A j \in 1..Len(y.recs) : j # i => w.recs[j] = y.recs[j]
      /\ w.recs[i] = y.recs[y.slots[i].off]
      /\ \A r \in RowIds : r # y.slots[i].row => z.ptr[r] = s.ptr[r]
      /\ z.ptr[y.slots[i].row] = <<p, i>>
  <2>1. /\ s \in States /\ i \in 1..Len(s.pg[p].slots) /\ i \in 1..Len(s.pg[p].recs)
        /\ s.pg[p].slots[i].off \in 1..Len(s.pg[p].recs)
    <3>1. y.slots[i].off \in 1..l
      <4>1. \A o \in i..l : o \in 1..l BY <1>5
      <4> QED BY <1>6, <4>1
    <3>2. s.pg[p] = y /\ Len(y.recs) = l /\ Len(y.slots) = m BY <1>2, <1>3
    <3> QED BY <1>3, <1>5, <3>1, <3>2
  <2>2. IsMoved(s, s.pg[p], MoveRec(s, p, i), MoveRec(s, p, i).pg[p], p, i) BY <2>1, MoveIs
  <2>3. IsMoved(s, y, z, w, p, i) BY <1>2, <1>8, <2>2
  <2> QED BY <2>3 DEF IsMoved
<1>10. ASSUME NEW j \in 1..m
       PROVE  w.slots[j].row = x.slots[j].row /\ w.slots[j].off = IF j <= i THEN j ELSE x.slots[j].off
  <2>1. CASE j = i BY <1>3, <1>5, <1>9, <2>1
  <2>2. CASE j # i
    <3>1. w.slots[j] = y.slots[j] BY <1>3, <1>9, <2>2
    <3>2. j <= i - 1 <=> j <= i BY <1>5, <2>2
    <3> QED BY <1>3, <3>1, <3>2
  <2> QED BY <2>1, <2>2
<1>11. ASSUME NEW j \in 1..i PROVE w.recs[j] = x.recs[x.slots[j].off]
  <2>1. CASE j = i BY <1>6, <1>7, <1>9, <2>1
  <2>2. CASE j # i
    <3>1. j \in 1..i - 1 /\ j \in 1..l BY <1>5, <2>2
    <3> QED BY <1>3, <1>9, <2>2, <3>1
  <2> QED BY <2>1, <2>2
<1>12. ASSUME NEW j \in i + 1..l PROVE w.recs[j] = x.recs[j]
  <2>1. j \in i - 1 + 1..l /\ j \in 1..l /\ j # i BY <1>5
  <2> QED BY <1>3, <1>9, <2>1
<1>13. ASSUME NEW j \in 1..i PROVE z.ptr[x.slots[j].row] = <<p, j>>
  <2>1. CASE j = i BY <1>6, <1>9, <2>1
  <2>2. CASE j # i
    <3>1. j \in 1..i - 1 /\ j \in 1..m BY <1>5, <2>2
    <3>2. x.slots[j].row # x.slots[i].row BY <1>4, <1>5, <2>2, <3>1
    <3>3. x.slots[j].row \in RowIds BY <1>1, <1>2, <3>1, StateIs
    <3>4. z.ptr[x.slots[j].row] = s.ptr[x.slots[j].row] BY <1>6, <1>9, <3>2, <3>3
    <3> QED BY <1>3, <3>1, <3>4
  <2> QED BY <2>1, <2>2
<1>14. ASSUME NEW r \in RowIds, \A j \in 1..i : x.slots[j].row # r PROVE z.ptr[r] = st.ptr[r]
  <2>1. x.slots[i].row # r BY <1>5, <1>14
  <2>2. \A j \in 1..i - 1 : x.slots[j].row # r
    <3>1. \A j \in 1..i - 1 : j \in 1..i BY <1>5
    <3> QED BY <1>14, <3>1
  <2> QED BY <1>3, <1>6, <1>9, <2>1, <2>2
<1>15. /\ z \in States /\ z.scan = st.scan
       /\ \A q \in Pages : q # p => z.pg[q] = st.pg[q]
       /\ w.tid = x.tid /\ w.next = x.next
       /\ Len(w.slots) = m /\ Len(w.recs) = l
  BY <1>3, <1>9
<1>16. m = Len(x.slots) /\ l = Len(x.recs) BY <1>1, <1>2
<1>17. PackedPage(z, w, st, x, p, i) BY <1>10, <1>11, <1>12, <1>13, <1>14, <1>15, <1>16 DEF PackedPage
<1> QED BY <1>2, <1>8, <1>17 DEF Packed

(* The page is packed, and what lies behind its records is cut off.           *)
CompactedPage(y, b, st, a, p) ==
    /\ y \in States /\ y.scan = st.scan
    /\ \A q \in Pages : q # p => y.pg[q] = st.pg[q]
    /\ b.tid = a.tid /\ b.next = a.next
    /\ Len(b.slots) = Len(a.slots) /\ Len(b.recs) = Len(a.slots)
    /\ \A j \in 1..Len(a.slots) :
          /\ b.slots[j].row = a.slots[j].row /\ b.slots[j].off = j
          /\ b.recs[j] = a.recs[a.slots[j].off]
          /\ y.ptr[a.slots[j].row] = <<p, j>>
    /\ \A r \in RowIds : (\A j \in 1..Len(a.slots) : a.slots[j].row # r) => y.ptr[r] = st.ptr[r]

Compacted(y, st, p) == CompactedPage(y, y.pg[p], st, st.pg[p], p)

Cut(s, p, n) == [s EXCEPT !.pg[p].recs = SubSeq(@, 1, n)]

LEMMA CutIs ==
    ASSUME NEW s \in States, NEW p \in Pages, NEW n \in 0..Len(s.pg[p].recs)
    PROVE  LET y == Cut(s, p, n)
               a == s.pg[p]
               b == Cut(s, p, n).pg[p]
           IN  /\ y \in States /\ y.scan = s.scan /\ y.ptr = s.ptr
               /\ \A q \in Pages : q # p => y.pg[q] = s.pg[q]
               /\ b.tid = a.tid /\ b.next = a.next /\ b.slots = a.slots
               /\ Len(b.recs) = n /\ \A j \in 1..n : b.recs[j] = a.recs[j]
<1>1. s.pg \in [Pages -> PageRecs] BY StateIs
<1>2. PICK x \in PageRecs : x = s.pg[p] BY <1>1
<1>3. x.recs \in Seq(Values) BY DEF PageRecs
<1>4. PICK l \in Nat : l = Len(x.recs) BY <1>3, LenProperties
<1>5. n \in 0..l BY <1>2, <1>4
<1>6. PICK rs : rs = SubSeq(x.recs, 1, n) OBVIOUS
<1>7. rs \in Seq(Values) /\ Len(rs) = n /\ \A j \in 1..n : rs[j] = x.recs[j]
  <2>1. \A i \in 1..n : x.recs[i] \in Values
    <3>1. \A i \in 1..n : i \in 1..l BY <1>5
    <3> QED BY <1>3, <1>4, <3>1, ElementOfSeq
  <2>2. 1 \in Int /\ n \in Int BY <1>5
  <2>3. /\ SubSeq(x.recs, 1, n) \in Seq(Values) /\ Len(SubSeq(x.recs, 1, n)) = IF 1 <= n THEN n - 1 + 1 ELSE 0
        /\ \A i \in 1..n - 1 + 1 : SubSeq(x.recs, 1, n)[i] = x.recs[1 + i - 1]
    BY <2>1, <2>2, SubSeqProperties
  <2>4. \A i \in 1..n : i \in 1..n - 1 + 1 /\ 1 + i - 1 = i BY <1>5
  <2>5. Len(rs) = n BY <1>5, <1>6, <2>3
  <2> QED BY <1>6, <2>3, <2>4, <2>5
<1>8. PICK z : z = [x EXCEPT !.recs = rs] OBVIOUS
<1>9. z \in PageRecs /\ z.tid = x.tid /\ z.next = x.next /\ z.slots = x.slots /\ z.recs = rs
  BY <1>7, <1>8 DEF PageRecs
<1>10. PICK g : g = [s.pg EXCEPT ![p] = z] OBVIOUS
<1>11. g \in [Pages -> PageRecs] /\ g[p] = z /\ \A q \in Pages : q # p => g[q] = s.pg[q] BY <1>1, <1>9, <1>10
<1>12. [s.pg EXCEPT ![p].recs = SubSeq(@, 1, n)] = g BY <1>1, <1>2, <1>6, <1>8, <1>10
<1>13. PICK y : y = Cut(s, p, n) OBVIOUS
<1>14. y = [s EXCEPT !.pg = g] BY <1>12, <1>13 DEF Cut, States
<1>15. y \in States /\ y.scan = s.scan /\ y.ptr = s.ptr /\ y.pg = g BY <1>11, <1>14 DEF States
<1> QED BY <1>2, <1>7, <1>9, <1>11, <1>13, <1>15

LEMMA CompactIs ==
    ASSUME NEW st \in States, NEW p \in Pages, Packable(st, p)
    PROVE  Compacted(Compact(st, p), st, p)
<1>1. PICK m \in Nat, l \in Nat : m = Len(st.pg[p].slots) /\ l = Len(st.pg[p].recs) BY StateIs
<1>2. m <= l BY <1>1 DEF Packable
<1>3. PICK F : F = [z \in States \X (1..m) |-> MoveRec(z[1], p, z[2])] OBVIOUS
<1>4. ASSUME NEW x \in States, NEW i \in 1..m PROVE F[<<x, i>>] = MoveRec(x, p, i)
  <2>1. <<x, i>> \in States \X (1..m) OBVIOUS
  <2>2. <<x, i>>[1] = x /\ <<x, i>>[2] = i OBVIOUS
  <2>3. F[<<x, i>>] = MoveRec(<<x, i>>[1], p, <<x, i>>[2]) BY <1>3, <2>1, Zenon
  <2> QED BY <2>2, <2>3
<1>5. PICK T : T = [i \in 0..m |-> {s \in States : Packed(s, st, p, i)}] OBVIOUS
<1>6. \A i \in 0..m : \A x : x \in T[i] <=> x \in States /\ Packed(x, st, p, i) BY <1>5
<1>7. ASSUME NEW i \in 1..m, NEW x \in T[i - 1] PROVE F[<<x, i>>] = MoveRec(x, p, i) /\ MoveRec(x, p, i) \in T[i]
  <2>1. i - 1 \in 0..m /\ i \in 0..m OBVIOUS
  <2>2. x \in States /\ Packed(x, st, p, i - 1) BY <1>6, <2>1
  <2>3. Packed(MoveRec(x, p, i), st, p, i) BY <1>1, <2>2, PackStep
  <2>4. MoveRec(x, p, i) \in States BY <2>3 DEF Packed, PackedPage
  <2> QED BY <1>4, <1>6, <2>1, <2>2, <2>3, <2>4
<1>8. st \in T[0] BY <1>6, PackStarts
<1>9. PICK f : Loop(f, m, st, F) BY LoopExists
<1>10. \A i \in 0..m : f[i] \in T[i]
  <2>1. \A i \in 1..m : \A x \in T[i - 1] : F[<<x, i>>] \in T[i] BY <1>7
  <2> QED BY <1>8, <1>9, <2>1, LoopStays
<1> DEFINE Is(h) == h = [i \in 0..Len(st.pg[p].slots) |-> IF i = 0 THEN st ELSE MoveRec(h[i - 1], p, i)]
<1>11. Is(f)
  <2>1. ASSUME NEW i \in 0..m PROVE f[i] = IF i = 0 THEN st ELSE MoveRec(f[i - 1], p, i)
    <3>1. CASE i = 0 BY <1>9, <3>1 DEF Loop
    <3>2. CASE i # 0
      <4>1. i \in 1..m /\ i - 1 \in 0..m BY <3>2
      <4>2. f[i] = F[<<f[i - 1], i>>] BY <1>9, <3>2 DEF Loop
      <4>3. f[i - 1] \in T[i - 1] BY <1>10, <4>1
      <4> QED BY <1>7, <3>2, <4>1, <4>2, <4>3
    <3> QED BY <3>1, <3>2
  <2>2. f = [i \in 0..m |-> f[i]] BY <1>9 DEF Loop
  <2> QED BY <1>1, <2>1, <2>2
<1>12. PICK g : g = (CHOOSE h : Is(h)) /\ Is(g)
  <2> HIDE DEF Is
  <2> QED BY <1>11
<1>13. g[m] \in T[m]
  <2>1. PICK H : H = {i \in 0..m : g[i] \in T[i]} OBVIOUS
  <2>0. \A i \in 0..m : g[i] = IF i = 0 THEN st ELSE MoveRec(g[i - 1], p, i) BY <1>1, <1>12
  <2>2. 0 \in H BY <1>8, <2>0, <2>1
  <2>3. ASSUME NEW i \in 1..m, i - 1 \in H PROVE i \in H
    <3>0. i \in 0..m /\ i # 0 OBVIOUS
    <3>1. g[i] = MoveRec(g[i - 1], p, i) BY <2>0, <3>0
    <3>2. PICK x \in T[i - 1] : x = g[i - 1] BY <2>1, <2>3
    <3>3. MoveRec(x, p, i) \in T[i] BY <1>7
    <3> QED BY <2>1, <3>0, <3>1, <3>2, <3>3
  <2>4. 0..m \subseteq H BY <2>2, <2>3, Upwards
  <2> QED BY <2>1, <2>4
<1>14. PICK s : s = IF m <= 0 THEN st ELSE g[m] OBVIOUS
<1>15. s \in States /\ Packed(s, st, p, m)
  <2>1. CASE m <= 0
    <3>1. m = 0 BY <2>1
    <3> QED BY <1>14, <2>1, <3>1, PackStarts
  <2>2. CASE ~(m <= 0) BY <1>6, <1>13, <1>14, <2>2
  <2> QED BY <2>1, <2>2
<1>16. Compact(st, p) = Cut(s, p, m)
  BY <1>1, <1>12, <1>14 DEF Compact, Iterate, Cut, MoveRec
<1>17. PICK x, y, z, w : x = st.pg[p] /\ y = s.pg[p] /\ z = Cut(s, p, m) /\ w = z.pg[p] OBVIOUS
<1>18. /\ s.scan = st.scan
       /\ \A q \in Pages : q # p => s.pg[q] = st.pg[q]
       /\ y.tid = x.tid /\ y.next = x.next
       /\ Len(y.slots) = m /\ Len(y.recs) = l
       /\ \A j \in 1..m : y.slots[j].row = x.slots[j].row /\ y.slots[j].off = IF j <= m THEN j ELSE x.slots[j].off
       /\ \A j \in 1..m : y.recs[j] = x.recs[x.slots[j].off]
       /\ \A j \in 1..m : s.ptr[x.slots[j].row] = <<p, j>>
       /\ \A r \in RowIds : (\A j \in 1..m : x.slots[j].row # r) => s.ptr[r] = st.ptr[r]
  BY <1>1, <1>15, <1>17 DEF Packed, PackedPage
<1>19. /\ z \in States /\ z.scan = s.scan /\ z.ptr = s.ptr
       /\ \A q \in Pages : q # p => z.pg[q] = s.pg[q]
       /\ w.tid = y.tid /\ w.next = y.next /\ w.slots = y.slots
       /\ Len(w.recs) = m /\ \A j \in 1..m : w.recs[j] = y.recs[j]
  <2>1. m \in 0..Len(s.pg[p].recs) BY <1>2, <1>17, <1>18
  <2>2. /\ Cut(s, p, m) \in States /\ Cut(s, p, m).scan = s.scan /\ Cut(s, p, m).ptr = s.ptr
        /\ \A q \in Pages : q # p => Cut(s, p, m).pg[q] = s.pg[q]
        /\ Cut(s, p, m).pg[p].tid = s.pg[p].tid /\ Cut(s, p, m).pg[p].next = s.pg[p].next
        /\ Cut(s, p, m).pg[p].slots = s.pg[p].slots
        /\ Len(Cut(s, p, m).pg[p].recs) = m
        /\ \A j \in 1..m : Cut(s, p, m).pg[p].recs[j] = s.pg[p].recs[j]
    BY <1>15, <2>1, CutIs
  <2> QED BY <1>17, <2>2
<1>20. \A j \in 1..m : j <= m OBVIOUS
<1>21. m = Len(x.slots) BY <1>1, <1>17
<1>22. CompactedPage(z, w, st, x, p) BY <1>18, <1>19, <1>20, <1>21 DEF CompactedPage
<1> QED BY <1>16, <1>17, <1>22 DEF Compacted

-----------------------------------------------------------------------------
(* One row deleted by a scan.                                                 *)

(* The state with the slot the scan stands on taken out, before compaction.   *)
Unslotted(st) ==
    LET p == st.scan.page
        r == st.pg[p].slots[st.scan.slot].row
    IN  [st EXCEPT !.ptr[r] = NoRow,
                   !.pg[p].slots = RemoveAt(@, st.scan.slot),
                   !.scan.slot = @ - 1]

(* y is st without slot k of page p, which is b instead of a.                 *)
SlotGone(y, b, st, a, p, k) ==
    /\ y \in States /\ y.scan.page = p /\ y.scan.slot = k - 1
    /\ \A q \in Pages : q # p => y.pg[q] = st.pg[q]
    /\ b.tid = a.tid /\ b.next = a.next /\ b.recs = a.recs
    /\ Len(b.slots) = Len(a.slots) - 1
    /\ \A j \in 1..Len(a.slots) - 1 : b.slots[j] = IF j < k THEN a.slots[j] ELSE a.slots[j + 1]
    /\ y.ptr[a.slots[k].row] = NoRow
    /\ \A r \in RowIds : r # a.slots[k].row => y.ptr[r] = st.ptr[r]

LEMMA UnslottedIs ==
    ASSUME NEW st \in States, st.scan.page \in Pages, st.scan.slot \in 1..Len(st.pg[st.scan.page].slots)
    PROVE  SlotGone(Unslotted(st), Unslotted(st).pg[st.scan.page], st, st.pg[st.scan.page],
                    st.scan.page, st.scan.slot)
<1>p. PICK p \in Pages : p = st.scan.page OBVIOUS
<1>k. PICK k \in 1..Len(st.pg[p].slots) : k = st.scan.slot BY <1>p
<1>1. /\ st.pg \in [Pages -> PageRecs] /\ st.ptr \in Ptrs /\ st.scan \in Scans /\ st.pg[p].slots \in Seq(SlotRecs)
      /\ st.pg[p] \in PageRecs
  BY StateIs
<1>2. PICK sl : sl = RemoveAt(st.pg[p].slots, k) OBVIOUS
<1>3. /\ sl \in Seq(SlotRecs) /\ Len(sl) = Len(st.pg[p].slots) - 1
      /\ \A j \in 1..Len(st.pg[p].slots) - 1 :
            sl[j] = IF j < k THEN st.pg[p].slots[j] ELSE st.pg[p].slots[j + 1]
  BY <1>1, <1>2, Removed
<1>4. PICK x \in PageRecs : x = st.pg[p] BY <1>1
<1>5. PICK z : z = [x EXCEPT !.slots = sl] OBVIOUS
<1>6. z \in PageRecs /\ z.tid = x.tid /\ z.next = x.next /\ z.recs = x.recs /\ z.slots = sl
  BY <1>3, <1>5 DEF PageRecs
<1>7. PICK g : g = [st.pg EXCEPT ![p] = z] OBVIOUS
<1>8. g \in [Pages -> PageRecs] /\ g[p] = z /\ \A q \in Pages : q # p => g[q] = st.pg[q] BY <1>1, <1>6, <1>7
<1>9. PICK r \in RowIds : r = st.pg[p].slots[k].row BY StateIs
<1>10. PICK f : f = [st.ptr EXCEPT ![r] = NoRow] OBVIOUS
<1>11. f \in Ptrs /\ f[r] = NoRow /\ \A q \in RowIds : q # r => f[q] = st.ptr[q] BY <1>1, <1>10 DEF Ptrs
<1>12. PICK c : c = [st.scan EXCEPT !.slot = @ - 1] OBVIOUS
<1>13. c \in Scans /\ c.page = p /\ c.slot = k - 1
  <2>1. k \in Nat /\ k >= 1 BY <1>1, LenProperties
  <2> QED BY <1>1, <1>12, <1>p, <1>k, <2>1 DEF Scans
<1>14. PICK y : y = Unslotted(st) OBVIOUS
<1>15. y = [st EXCEPT !.ptr[r] = NoRow, !.pg[p].slots = RemoveAt(@, k), !.scan.slot = @ - 1]
  BY <1>9, <1>14, <1>p, <1>k DEF Unslotted
<1>16. y.pg = [st.pg EXCEPT ![p].slots = RemoveAt(@, k)] BY <1>15 DEF States
<1>17. y.pg = g BY <1>1, <1>2, <1>4, <1>5, <1>7, <1>16
<1>18. y.ptr = f BY <1>10, <1>15 DEF States
<1>19. y.scan = c BY <1>12, <1>15 DEF States
<1>20. y \in States
  <2>1. y = [st EXCEPT !.ptr = f, !.pg = g, !.scan = c]
    <3>1. [st.pg EXCEPT ![p].slots = RemoveAt(@, k)] = g BY <1>16, <1>17
    <3> QED BY <1>10, <1>12, <1>15, <3>1 DEF States
  <2> QED BY <1>8, <1>11, <1>13, <2>1 DEF States
<1>21. PICK a, b : a = st.pg[p] /\ b = y.pg[p] OBVIOUS
<1>22. SlotGone(y, b, st, a, p, k)
  BY <1>3, <1>4, <1>6, <1>8, <1>9, <1>11, <1>13, <1>17, <1>18, <1>19, <1>20, <1>21 DEF SlotGone
<1> QED BY <1>p, <1>k, <1>14, <1>21, <1>22

LEMMA SeqNarrows ==
    ASSUME NEW S, NEW T, NEW s \in Seq(S), \A j \in 1..Len(s) : s[j] \in T
    PROVE  s \in Seq(T)
<1>1. PICK n \in Nat : n = Len(s) BY LenProperties
<1>2. s = [j \in 1..n |-> s[j]] BY <1>1, LenProperties
<1>3. s \in [1..n -> T] BY <1>1, <1>2
<1> QED BY <1>1, <1>3, SeqDef

LEMMA OneLess == \A n, c \in Nat : n >= 1 => (n - 1) * c <= n * c
<1> SUFFICES ASSUME NEW n \in Nat, NEW c \in Nat, n >= 1 PROVE (n - 1) * c <= n * c OBVIOUS
<1>1. (n - 1) * c = n * c - c OBVIOUS
<1>2. n * c \in Nat OBVIOUS
<1> QED BY <1>1, <1>2

(* Distinct slots hold distinct rows.                                         *)
LEMMA SlotsDiffer ==
    ASSUME NEW pg, NEW ptr, NEW nr, Located(pg, ptr, nr), NEW p \in Pages, NEW q \in Pages,
           NEW i \in 1..Len(pg[p].slots), NEW j \in 1..Len(pg[q].slots),
           pg[p].slots[i].row = pg[q].slots[j].row
    PROVE  p = q /\ i = j
<1>1. ptr[pg[p].slots[i].row] = <<p, i>> /\ ptr[pg[q].slots[j].row] = <<q, j>> BY DEF Located
<1> QED BY <1>1

LEMMA ScanDeleteIs ==
    ASSUME NEW st \in States, NEW ts, Catalogue(ts), NEW nr, RowsGood(st.pg, ts, st.ptr, nr),
           st.scan.page \in Pages, st.scan.slot \in 1..Len(st.pg[st.scan.page].slots)
    PROVE  LET y == ScanDelete(st)
           IN  /\ y \in States /\ y.scan.page = st.scan.page /\ y.scan.slot = st.scan.slot - 1
               /\ \A q \in Pages : y.pg[q].tid = st.pg[q].tid /\ y.pg[q].next = st.pg[q].next
               /\ \A q \in Pages : q # st.scan.page => y.pg[q] = st.pg[q]
               /\ RowsGood(y.pg, ts, y.ptr, nr)
               /\ Len(y.pg[st.scan.page].slots) = Len(st.pg[st.scan.page].slots) - 1
<1>1. PICK p \in Pages : p = st.scan.page OBVIOUS
<1>2. PICK k \in 1..Len(st.pg[p].slots) : k = st.scan.slot BY <1>1
<1>3. PICK a : a = st.pg[p] OBVIOUS
<1>4. /\ PagesIn(st.pg, Len(ts)) /\ Tidied(st.pg, ts) /\ nr \in 1..RowLimit /\ Located(st.pg, st.ptr, nr)
      /\ st.pg \in [Pages -> PageRecs]
  BY DEF RowsGood, PagesIn
<1>5. PICK n \in Nat : n = Len(a.slots) BY <1>3, StateIs
<1>6. k \in 1..n /\ n >= 1 BY <1>2, <1>3, <1>5
<1>7. Len(a.recs) = n /\ \A j \in 1..n : a.slots[j].off = j BY <1>3, <1>4, <1>5, PagePlaces
<1>8. PICK mid, c : mid = Unslotted(st) /\ c = mid.pg[p] OBVIOUS
<1>9. /\ mid \in States /\ mid.scan.page = p /\ mid.scan.slot = k - 1
      /\ \A q \in Pages : q # p => mid.pg[q] = st.pg[q]
      /\ c.tid = a.tid /\ c.next = a.next /\ c.recs = a.recs
      /\ Len(c.slots) = n - 1
      /\ \A j \in 1..n - 1 : c.slots[j] = IF j < k THEN a.slots[j] ELSE a.slots[j + 1]
      /\ mid.ptr[a.slots[k].row] = NoRow
      /\ \A r \in RowIds : r # a.slots[k].row => mid.ptr[r] = st.ptr[r]
  <2>1. SlotGone(mid, c, st, a, p, k) BY <1>1, <1>2, <1>3, <1>8, UnslottedIs
  <2> QED BY <1>5, <2>1 DEF SlotGone
<1> DEFINE at(j) == IF j < k THEN j ELSE j + 1
<1>10. ASSUME NEW j \in 1..n - 1
       PROVE  /\ at(j) \in 1..n /\ at(j) # k /\ at(j) >= j /\ c.slots[j] = a.slots[at(j)]
              /\ a.slots[at(j)].off = at(j) /\ a.slots[at(j)].row \in RowIds
  <2>1. at(j) \in 1..n /\ at(j) # k /\ at(j) >= j BY <1>6
  <2>2. c.slots[j] = a.slots[at(j)] BY <1>9
  <2>3. a.slots[at(j)].off = at(j) BY <1>7, <2>1
  <2>4. a.slots[at(j)].row \in RowIds BY <1>3, <1>5, <2>1, StateIs
  <2> QED BY <2>1, <2>2, <2>3, <2>4
<1>11. \A i, j \in 1..n : a.slots[i].row = a.slots[j].row => i = j BY <1>3, <1>4, <1>5, SlotsDiffer
<1>12. \A i, j \in 1..n - 1 : at(i) = at(j) => i = j BY <1>6
<1> HIDE DEF at
<1>13. Packable(mid, p)
  <2>1. Len(c.slots) <= Len(c.recs) BY <1>7, <1>9
  <2>2. \A j \in 1..n - 1 : c.slots[j].off \in j..Len(c.recs)
    <3>1. ASSUME NEW j \in 1..n - 1 PROVE c.slots[j].off \in j..Len(c.recs)
      <4>1. c.slots[j].off = at(j) /\ at(j) \in 1..n /\ at(j) >= j BY <1>10
      <4> QED BY <1>7, <1>9, <4>1
    <3> QED BY <3>1
  <2>3. \A i, j \in 1..n - 1 : c.slots[i].row = c.slots[j].row => i = j BY SMTT(30), <1>10, <1>11, <1>12
  <2> QED BY <1>8, <1>9, <2>1, <2>2, <2>3 DEF Packable
<1>14. PICK y, b : y = Compact(mid, p) /\ b = y.pg[p] OBVIOUS
<1>15. y = ScanDelete(st) BY <1>1, <1>2, <1>8, <1>14 DEF ScanDelete, Unslotted
<1>16. /\ y \in States /\ y.scan = mid.scan
       /\ \A q \in Pages : q # p => y.pg[q] = mid.pg[q]
       /\ b.tid = c.tid /\ b.next = c.next
       /\ Len(b.slots) = n - 1 /\ Len(b.recs) = n - 1
       /\ \A j \in 1..n - 1 :
             /\ b.slots[j].row = c.slots[j].row /\ b.slots[j].off = j
             /\ b.recs[j] = c.recs[c.slots[j].off]
             /\ y.ptr[c.slots[j].row] = <<p, j>>
       /\ \A r \in RowIds : (\A j \in 1..n - 1 : c.slots[j].row # r) => y.ptr[r] = mid.ptr[r]
  <2>1. Compacted(y, mid, p) BY <1>9, <1>13, <1>14, CompactIs
  <2>2. CompactedPage(y, b, mid, c, p) BY <1>8, <1>14, <2>1 DEF Compacted
  <2> QED BY <1>9, <2>2 DEF CompactedPage
<1>17. /\ b.tid = a.tid /\ b.next = a.next
       /\ \A q \in Pages : q # p => y.pg[q] = st.pg[q]
  BY <1>9, <1>16
<1>18. ASSUME NEW j \in 1..n - 1
       PROVE  /\ b.slots[j].row = a.slots[at(j)].row /\ b.recs[j] = a.recs[at(j)]
              /\ y.ptr[a.slots[at(j)].row] = <<p, j>> /\ b.slots[j].off = j
  <2>1. c.slots[j].off = at(j) /\ c.slots[j].row = a.slots[at(j)].row /\ c.recs = a.recs BY <1>9, <1>10
  <2>2. /\ b.slots[j].row = c.slots[j].row /\ b.slots[j].off = j
        /\ b.recs[j] = c.recs[c.slots[j].off] /\ y.ptr[c.slots[j].row] = <<p, j>>
    BY <1>16
  <2> QED BY <2>1, <2>2
<1>19. y.pg \in [Pages -> PageRecs] /\ b \in PageRecs /\ y.ptr \in Ptrs BY <1>14, <1>16, StateIs
<1>20. a.tid # 0
  <2>1. a.tid = 0 => a.slots = << >> BY <1>3, <1>4 DEF PagesIn
  <2> QED BY <1>5, <1>6, <2>1, NoPlaces
<1>21. PagesIn(y.pg, Len(ts))
  <2>1. ASSUME NEW q \in Pages
        PROVE  y.pg[q].tid <= Len(ts) /\ (y.pg[q].tid = 0 => y.pg[q].slots = << >> /\ y.pg[q].recs = << >>)
    <3>1. CASE q = p BY <1>3, <1>4, <1>14, <1>17, <1>20, <3>1 DEF PagesIn
    <3>2. CASE q # p BY <1>4, <1>17, <3>2 DEF PagesIn
    <3> QED BY <3>1, <3>2
  <2> QED BY <1>19, <2>1 DEF PagesIn
<1>22. Tidied(y.pg, ts)
  <2>1. ASSUME NEW q \in Pages, y.pg[q].tid # 0 PROVE Tidy(y.pg[q], ts[y.pg[q].tid].types)
    <3>1. CASE q # p BY <1>4, <1>17, <2>1, <3>1 DEF Tidied
    <3>2. CASE q = p
      <4>1. PICK t \in 1..Len(ts) : t = a.tid
        <5>1. a.tid \in 0..MaxTables /\ a.tid <= Len(ts) BY <1>3, <1>4, PageIs DEF PagesIn
        <5> QED BY <1>20, <5>1, TabsIn
      <4>2. PICK ty \in Schemas : ty = ts[t].types BY TabsIn
      <4>3. Tidy(a, ty) BY <1>3, <1>4, <1>20, <4>1, <4>2 DEF Tidied
      <4>4. a.recs \in Seq(RowVals(ty)) /\ HeaderSize + n * (SlotSize + RecSize(ty)) <= PageSize
        BY <1>5, <4>3 DEF Tidy
      <4>5. b.recs \in Seq(RowVals(ty))
        <5>1. b.recs \in Seq(Values) BY <1>19 DEF PageRecs
        <5>2. ASSUME NEW j \in 1..Len(b.recs) PROVE b.recs[j] \in RowVals(ty)
          <6>1. j \in 1..n - 1 BY <1>16
          <6>2. at(j) \in 1..Len(a.recs) BY <1>7, <1>10, <6>1
          <6> QED BY <1>18, <4>4, <6>1, <6>2, ElementOfSeq
        <5> QED BY <5>1, <5>2, SeqNarrows
      <4>6. HeaderSize + (n - 1) * (SlotSize + RecSize(ty)) <= PageSize
        <5>1. PICK w \in Nat : w = SlotSize + RecSize(ty) BY SchemaIs, Sizes
        <5>2. (n - 1) * w <= n * w BY <1>6, <5>1, OneLess
        <5>3. HeaderSize + n * w <= PageSize BY <4>4, <5>1
        <5>4. (n - 1) * w \in Int /\ n * w \in Int /\ HeaderSize \in Int /\ PageSize \in Int BY <5>1, Sizes
        <5>5. HeaderSize + (n - 1) * w <= PageSize BY <5>2, <5>3, <5>4
        <5> QED BY <5>1, <5>5
      <4>7. Tidy(b, ty) BY <1>16, <4>5, <4>6 DEF Tidy
      <4> QED BY <1>14, <1>17, <3>2, <4>1, <4>2, <4>7
    <3> QED BY <3>1, <3>2
  <2> QED BY <2>1 DEF Tidied
<1>23. Located(y.pg, y.ptr, nr)
  <2>1. ASSUME NEW q \in Pages, NEW j \in 1..Len(y.pg[q].slots)
        PROVE  y.pg[q].slots[j].row < nr /\ y.ptr[y.pg[q].slots[j].row] = <<q, j>>
    <3>1. CASE q = p
      <4>1. j \in 1..n - 1 /\ y.pg[q] = b BY <1>14, <1>16, <3>1
      <4>2. at(j) \in 1..Len(st.pg[p].slots) BY <1>3, <1>5, <1>10, <4>1
      <4>3. a.slots[at(j)].row < nr BY <1>3, <1>4, <4>2 DEF Located
      <4> QED BY <1>18, <3>1, <4>1, <4>3
    <3>2. CASE q # p
      <4>1. y.pg[q] = st.pg[q] BY <1>17, <3>2
      <4>2. j \in 1..Len(st.pg[q].slots) BY <4>1
      <4>3. PICK r \in RowIds : r = st.pg[q].slots[j].row BY <4>2, StateIs
      <4>4. r < nr /\ st.ptr[r] = <<q, j>> BY <1>4, <4>2, <4>3 DEF Located
      <4>5. ASSUME NEW i \in 1..n, a.slots[i].row = r PROVE FALSE
        <5>1. i \in 1..Len(st.pg[p].slots) BY <1>3, <1>5
        <5>2. p = q BY <1>3, <1>4, <4>2, <4>3, <4>5, <5>1, SlotsDiffer
        <5> QED BY <3>2, <5>2
      <4>6. \A i \in 1..n - 1 : c.slots[i].row # r BY <1>10, <4>5
      <4>7. y.ptr[r] = mid.ptr[r] BY <1>16, <4>6
      <4>8. mid.ptr[r] = st.ptr[r]
        <5>1. r # a.slots[k].row BY <1>6, <4>5
        <5> QED BY <1>9, <5>1
      <4> QED BY <4>1, <4>3, <4>4, <4>7, <4>8
    <3> QED BY <3>1, <3>2
  <2>2. ASSUME NEW r \in RowIds, y.ptr[r] # NoRow
        PROVE  \E q \in Pages : \E j \in 1..Len(y.pg[q].slots) : y.pg[q].slots[j].row = r
    <3>1. CASE \E j \in 1..n - 1 : c.slots[j].row = r
      <4>1. PICK j \in 1..n - 1 : c.slots[j].row = r BY <3>1
      <4>2. j \in 1..Len(y.pg[p].slots) /\ y.pg[p].slots[j].row = r BY <1>14, <1>16, <4>1
      <4> QED BY <4>2
    <3>2. CASE \A j \in 1..n - 1 : c.slots[j].row # r
      <4>1. y.ptr[r] = mid.ptr[r] BY <1>16, <3>2
      <4>2. r # a.slots[k].row /\ st.ptr[r] # NoRow BY <1>9, <2>2, <4>1
      <4>3. PICK q \in Pages : \E j \in 1..Len(st.pg[q].slots) : st.pg[q].slots[j].row = r
        BY <1>4, <4>2 DEF Located
      <4>4. PICK j \in 1..Len(st.pg[q].slots) : st.pg[q].slots[j].row = r BY <4>3
      <4>5. q # p
        <5>1. SUFFICES ASSUME q = p PROVE FALSE OBVIOUS
        <5>2. j \in 1..n /\ j # k /\ a.slots[j].row = r BY <1>3, <1>5, <4>2, <4>4, <5>1
        <5>3. \E i \in 1..n - 1 : at(i) = j
          <6>1. CASE j < k
            <7>1. j \in 1..n - 1 /\ at(j) = j BY <1>6, <5>2, <6>1 DEF at
            <7> QED BY <7>1
          <6>2. CASE ~(j < k)
            <7>1. j - 1 \in 1..n - 1 /\ at(j - 1) = j BY <1>6, <5>2, <6>2 DEF at
            <7> QED BY <7>1
          <6> QED BY <6>1, <6>2
        <5>4. PICK i \in 1..n - 1 : at(i) = j BY <5>3
        <5>5. c.slots[i].row = r BY <1>10, <5>2, <5>4
        <5> QED BY <3>2, <5>5
      <4>6. y.pg[q] = st.pg[q] BY <1>17, <4>5
      <4> QED BY <4>4, <4>6
    <3> QED BY <3>1, <3>2
  <2> QED BY <2>1, <2>2 DEF Located
<1>24. RowsGood(y.pg, ts, y.ptr, nr) BY <1>4, <1>19, <1>21, <1>22, <1>23 DEF RowsGood, Ptrs
<1>25. y.scan.page = st.scan.page /\ y.scan.slot = st.scan.slot - 1 BY <1>1, <1>2, <1>9, <1>16
<1>26. \A q \in Pages : y.pg[q].tid = st.pg[q].tid /\ y.pg[q].next = st.pg[q].next
  BY <1>3, <1>14, <1>17
<1>27. Len(y.pg[st.scan.page].slots) = Len(st.pg[st.scan.page].slots) - 1 BY <1>1, <1>3, <1>5, <1>14, <1>16
<1>28. \A q \in Pages : q # st.scan.page => y.pg[q] = st.pg[q] BY <1>1, <1>17
<1> QED BY <1>15, <1>16, <1>24, <1>25, <1>26, <1>27, <1>28

-----------------------------------------------------------------------------
(* DELETE.                                                                    *)

(* From any of its pages, the rest of a chain is a chain.                      *)
LEMMA ChainTail ==
    ASSUME NEW pg, NEW c, IsChain(pg, c), NEW i \in 1..Len(c)
    PROVE  LET d == Chain(pg, c[i])
           IN  /\ Len(d) = Len(c) - i + 1
               /\ \A j \in 1..Len(c) - i + 1 : d[j] = c[i + j - 1]
<1>1. /\ c \in Seq(Pages) /\ DOMAIN c = 1..Len(c) /\ \A a, b \in 1..Len(c) : c[a] = c[b] => a = b
      /\ \A a \in 1..Len(c) - 1 : pg[c[a]].next = c[a + 1]
      /\ pg[c[Len(c)]].next = 0
  BY LenProperties DEF IsChain, Distinct
<1>2. PICK n \in Nat : n = Len(c) BY <1>1, LenProperties
<1>3. i \in 1..n BY <1>2
<1>4. PICK d : d = SubSeq(c, i, n) OBVIOUS
<1>5. d \in Seq(Pages) /\ Len(d) = n - i + 1 /\ \A j \in 1..n - i + 1 : d[j] = c[i + j - 1]
  <2>1. \A j \in i..n : c[j] \in Pages
    <3>1. \A j \in i..n : j \in 1..n BY <1>3
    <3> QED BY <1>1, <1>2, <3>1, ElementOfSeq
  <2>2. i \in Int /\ n \in Int BY <1>3
  <2>3. /\ SubSeq(c, i, n) \in Seq(Pages) /\ Len(SubSeq(c, i, n)) = IF i <= n THEN n - i + 1 ELSE 0
        /\ \A j \in 1..n - i + 1 : SubSeq(c, i, n)[j] = c[i + j - 1]
    BY <2>1, <2>2, SubSeqProperties
  <2>4. Len(d) = n - i + 1 BY <1>3, <1>4, <2>3
  <2> QED BY <1>4, <2>3, <2>4
<1>6. PICK m \in Nat : m = n - i + 1 /\ m >= 1 BY <1>3
<1>7. Len(d) = m /\ DOMAIN d = 1..m /\ \A j \in 1..m : d[j] = c[i + j - 1] /\ i + j - 1 \in 1..n
  BY <1>3, <1>5, <1>6, LenProperties
<1>8. IsChain(pg, d)
  <2>1. d # << >> BY <1>5, <1>6, <1>7, EmptySeq
  <2>2. Distinct(d)
    <3>1. ASSUME NEW a \in 1..m, NEW b \in 1..m, d[a] = d[b] PROVE a = b
      <4>1. c[i + a - 1] = c[i + b - 1] /\ i + a - 1 \in 1..n /\ i + b - 1 \in 1..n BY <1>7, <3>1
      <4>2. i + a - 1 = i + b - 1 BY <1>1, <1>2, <4>1
      <4> QED BY <1>3, <4>2
    <3> QED BY <1>7, <3>1 DEF Distinct
  <2>3. ASSUME NEW a \in 1..m - 1 PROVE pg[d[a]].next = d[a + 1]
    <3>1. a \in 1..m /\ a + 1 \in 1..m /\ i + a - 1 \in 1..n - 1 /\ i + (a + 1) - 1 = i + a - 1 + 1
      BY <1>3, <1>6
    <3>2. d[a] = c[i + a - 1] /\ d[a + 1] = c[i + a - 1 + 1]
      <4>1. d[a + 1] = c[i + (a + 1) - 1] BY <1>7, <3>1
      <4> QED BY <1>7, <3>1, <4>1
    <3> QED BY <1>1, <1>2, <3>1, <3>2
  <2>4. pg[d[m]].next = 0
    <3>1. m \in 1..m /\ i + m - 1 = n BY <1>3, <1>6
    <3>2. d[m] = c[i + m - 1] BY <1>7, <3>1
    <3>3. d[m] = c[n] BY <3>1, <3>2
    <3> QED BY <1>1, <1>2, <3>3
  <2> QED BY <1>5, <1>7, <2>1, <2>2, <2>3, <2>4 DEF IsChain
<1>9. Chain(pg, d[1]) = d BY <1>8, ChainFollowed
<1>10. d[1] = c[i]
  <2>1. 1 \in 1..m /\ i + 1 - 1 = i BY <1>3, <1>6
  <2>2. d[1] = c[i + 1 - 1] BY <1>7, <2>1
  <2> QED BY <2>1, <2>2
<1> QED BY <1>2, <1>5, <1>9, <1>10

(* A scan of table t is over, or stands on a slot of a page of the table.     *)
ScanOf(pg, t, scan) ==
    \/ scan.page = 0
    \/ /\ scan.page \in Pages /\ pg[scan.page].tid = t
       /\ scan.slot \in 1..Len(pg[scan.page].slots)

LEMMA ScanNextIs ==
    ASSUME NEW pg \in [Pages -> PageRecs], NEW tab, NEW t, NEW c, Holds(pg, tab, t, c), NEW scan \in Scans,
           scan.page \in Pages, pg[scan.page].tid = t, scan.slot <= Len(pg[scan.page].slots)
    PROVE  ScanNext(pg, scan) \in Scans /\ ScanOf(pg, t, ScanNext(pg, scan))
<1>1. PICK p \in Pages, k \in Nat : p = scan.page /\ k = scan.slot BY DEF Scans
<1>2. \A q \in Pages : Len(pg[q].slots) \in Nat /\ pg[q].slots \in Seq(SlotRecs)
  <2>1. ASSUME NEW q \in Pages PROVE pg[q].slots \in Seq(SlotRecs)
    <3>1. pg[q] \in PageRecs OBVIOUS
    <3> QED BY <3>1 DEF PageRecs
  <2> QED BY <2>1, LenProperties
<1>3. /\ \A q \in Pages : pg[q].tid = t <=> \E i \in 1..Len(c) : c[i] = q
      /\ IsChain(pg, c) /\ c \in Seq(Pages)
  BY ChainIn DEF Holds, IsChain
<1>4. PICK i \in 1..Len(c) : c[i] = p BY <1>1, <1>3
<1>5. PICK n \in Nat : n = Len(c) BY <1>3, LenProperties
<1>6. PICK rest : rest = Chain(pg, p) OBVIOUS
<1>7. Len(rest) = n - i + 1 /\ \A j \in 1..n - i + 1 : rest[j] = c[i + j - 1]
  <2>1. LET d == Chain(pg, c[i])
        IN  Len(d) = Len(c) - i + 1 /\ \A j \in 1..Len(c) - i + 1 : d[j] = c[i + j - 1]
    BY <1>3, ChainTail
  <2> QED BY <1>4, <1>5, <1>6, <2>1
<1>8. PICK next : next = ScanNext(pg, scan) OBVIOUS
<1>9. PICK later : later = {j \in 2..Len(rest) : pg[rest[j]].slots # << >>} OBVIOUS
<1>10. next = IF k < Len(pg[p].slots) THEN [scan EXCEPT !.slot = @ + 1]
              ELSE IF later = {} THEN [page |-> 0, slot |-> 0]
              ELSE [page |-> rest[Min(later)], slot |-> 1]
  BY <1>1, <1>6, <1>8, <1>9 DEF ScanNext
<1>11. CASE k < Len(pg[p].slots)
  <2>1. next = [scan EXCEPT !.slot = k + 1] BY <1>1, <1>10, <1>11
  <2>2. next \in Scans /\ next.page = p /\ next.slot = k + 1 BY <1>1, <2>1 DEF Scans
  <2>3. k + 1 \in 1..Len(pg[p].slots) BY <1>2, <1>11
  <2> QED BY <1>1, <1>8, <2>2, <2>3 DEF ScanOf
<1>12. CASE ~(k < Len(pg[p].slots)) /\ later = {}
  <2>1. next = [page |-> 0, slot |-> 0] BY <1>10, <1>12
  <2>2. next \in Scans /\ next.page = 0 BY <2>1, Sizes DEF Scans
  <2> QED BY <1>8, <2>2 DEF ScanOf
<1>13. CASE ~(k < Len(pg[p].slots)) /\ later # {}
  <2>1. later \subseteq Nat BY <1>7, <1>9
  <2>2. PICK l \in later : l = Min(later)
    <3>1. PICK x \in later : \A y \in later : x <= y BY <1>13, <2>1, LeastNumber
    <3> QED BY <3>1 DEF Min
  <2>3. l \in 2..n - i + 1 /\ pg[rest[l]].slots # << >> BY <1>7, <1>9
  <2>4. l \in 1..n - i + 1 /\ i + l - 1 \in 1..n BY <1>5, <2>3
  <2>5. PICK q : q = rest[l] OBVIOUS
  <2>6. q = c[i + l - 1] BY <1>7, <2>4, <2>5
  <2>7. q \in Pages /\ pg[q].tid = t
    <3>1. q \in Pages BY <1>3, <1>5, <2>4, <2>6, ElementOfSeq
    <3> QED BY <1>3, <1>5, <2>4, <2>6, <3>1
  <2>8. 1 \in 1..Len(pg[q].slots)
    <3>1. Len(pg[q].slots) # 0 BY <1>2, <2>3, <2>5, <2>7, EmptySeq
    <3> QED BY <1>2, <2>7, <3>1
  <2>9. next = [page |-> q, slot |-> 1] BY <1>10, <1>13, <2>2, <2>5
  <2>10. next \in Scans /\ next.page = q /\ next.slot = 1
    <3>1. q \in 0..NPages BY <2>7, Sizes DEF Pages
    <3> QED BY <2>9, <3>1 DEF Scans
  <2> QED BY <1>8, <2>7, <2>8, <2>10 DEF ScanOf
<1> QED BY <1>11, <1>12, <1>13

(* One step of DELETE: the row under the scan goes or stays, the scan moves on. *)
DeleteAt(types, w, st) ==
    LET at == st.pg[st.scan.page].slots[st.scan.slot].off
    IN  IF Match(types, st.pg[st.scan.page].recs[at], w) THEN ScanDelete(st) ELSE st

Visit(types, w, st) ==
    IF st.scan.page = 0 THEN st
    ELSE [DeleteAt(types, w, st) EXCEPT !.scan = ScanNext(DeleteAt(types, w, st).pg, DeleteAt(types, w, st).scan)]

(* The states of a DELETE from table t of a store with pages pg.               *)
Deleting(pg, ts, nr, t) ==
    {st \in States :
        /\ RowsGood(st.pg, ts, st.ptr, nr) /\ ScanOf(st.pg, t, st.scan)
        /\ \A q \in Pages : st.pg[q].tid = pg[q].tid /\ st.pg[q].next = pg[q].next
        /\ \A q \in Pages : pg[q].tid # t => st.pg[q] = pg[q]}

LEMMA VisitStays ==
    ASSUME NEW pg, NEW ts, Catalogue(ts), NEW nr, NEW t \in 1..Len(ts), NEW c, Holds(pg, ts[t], t, c),
           NEW types, NEW w, NEW st \in Deleting(pg, ts, nr, t)
    PROVE  Visit(types, w, st) \in Deleting(pg, ts, nr, t)
<1>1. /\ st \in States /\ RowsGood(st.pg, ts, st.ptr, nr) /\ ScanOf(st.pg, t, st.scan)
      /\ \A q \in Pages : st.pg[q].tid = pg[q].tid /\ st.pg[q].next = pg[q].next
      /\ \A q \in Pages : pg[q].tid # t => st.pg[q] = pg[q]
  BY DEF Deleting
<1>2. CASE st.scan.page = 0 BY <1>2 DEF Visit
<1>3. CASE st.scan.page # 0
  <2>1. PICK p \in Pages : p = st.scan.page BY <1>1, <1>3 DEF ScanOf
  <2>2. PICK k \in 1..Len(st.pg[p].slots) : k = st.scan.slot BY <1>1, <1>3, <2>1 DEF ScanOf
  <2>3. PICK n \in Nat : n = Len(st.pg[p].slots) BY <1>1, StateIs
  <2>4. PICK here : here = DeleteAt(types, w, st) OBVIOUS
  <2>5. /\ here \in States /\ RowsGood(here.pg, ts, here.ptr, nr)
        /\ \A q \in Pages : here.pg[q].tid = pg[q].tid /\ here.pg[q].next = pg[q].next
        /\ \A q \in Pages : pg[q].tid # t => here.pg[q] = pg[q]
        /\ here.scan.page = p /\ here.scan.slot <= Len(here.pg[p].slots)
    <3>1. CASE here = st BY <1>1, <2>1, <2>2, <2>3, <3>1
    <3>2. CASE here = ScanDelete(st)
      <4>1. /\ here \in States /\ here.scan.page = st.scan.page /\ here.scan.slot = st.scan.slot - 1
            /\ \A q \in Pages : here.pg[q].tid = st.pg[q].tid /\ here.pg[q].next = st.pg[q].next
            /\ \A q \in Pages : q # st.scan.page => here.pg[q] = st.pg[q]
            /\ RowsGood(here.pg, ts, here.ptr, nr)
            /\ Len(here.pg[st.scan.page].slots) = Len(st.pg[st.scan.page].slots) - 1
        <5>1. st.scan.page \in Pages /\ st.scan.slot \in 1..Len(st.pg[st.scan.page].slots) BY <2>1, <2>2
        <5>2. LET y == ScanDelete(st)
              IN  /\ y \in States /\ y.scan.page = st.scan.page /\ y.scan.slot = st.scan.slot - 1
                  /\ \A q \in Pages : y.pg[q].tid = st.pg[q].tid /\ y.pg[q].next = st.pg[q].next
                  /\ \A q \in Pages : q # st.scan.page => y.pg[q] = st.pg[q]
                  /\ RowsGood(y.pg, ts, y.ptr, nr)
                  /\ Len(y.pg[st.scan.page].slots) = Len(st.pg[st.scan.page].slots) - 1
          BY <1>1, <5>1, ScanDeleteIs
        <5> QED BY <3>2, <5>2
      <4>2. here.scan.slot = k - 1 /\ Len(here.pg[p].slots) = n - 1 BY <2>1, <2>2, <2>3, <4>1
      <4>3. k - 1 <= n - 1 BY <2>2, <2>3
      <4>4. pg[p].tid = t BY <1>1, <1>3, <2>1 DEF ScanOf
      <4>5. \A q \in Pages : pg[q].tid # t => here.pg[q] = pg[q] BY <1>1, <2>1, <4>1, <4>4
      <4> QED BY <1>1, <2>1, <4>1, <4>2, <4>3, <4>5
    <3> QED BY <2>4, <3>1, <3>2 DEF DeleteAt
  <2>6. PICK next : next = ScanNext(here.pg, here.scan) OBVIOUS
  <2>7. next \in Scans /\ ScanOf(here.pg, t, next)
    <3>1. here.pg \in [Pages -> PageRecs] /\ here.scan \in Scans BY <2>5, StateIs
    <3>2. Holds(here.pg, ts[t], t, c) BY <2>5, HoldsSame
    <3>3. here.scan.page \in Pages /\ here.pg[here.scan.page].tid = t
          /\ here.scan.slot <= Len(here.pg[here.scan.page].slots)
      <4>1. st.pg[p].tid = t BY <1>1, <1>3, <2>1 DEF ScanOf
      <4> QED BY <1>1, <2>5, <4>1
    <3> QED BY <2>6, <3>1, <3>2, <3>3, ScanNextIs
  <2>8. PICK y : y = [here EXCEPT !.scan = next] OBVIOUS
  <2>9. y \in States /\ y.pg = here.pg /\ y.ptr = here.ptr /\ y.scan = next BY <2>5, <2>7, <2>8 DEF States
  <2>10. Visit(types, w, st) = y BY <1>3, <2>4, <2>6, <2>8 DEF Visit
  <2> QED BY <2>5, <2>7, <2>9, <2>10 DEF Deleting
<1> QED BY <1>2, <1>3

LEMMA DeleteStep ==
    ASSUME StoreInv, NEW t \in DOMAIN tabs, NEW w, Delete(t, w)
    PROVE  StoreInv' /\ \A q \in Pages : page'[q].tid = page[q].tid /\ (page[q].tid # t => page'[q] = page[q])
<1>1. /\ Catalogue(tabs) /\ TablesHold(page, tabs) /\ Pool(page, next_page, free_list)
      /\ RowsGood(page, tabs, row_ptr, next_rowid) /\ PagesIn(page, Len(tabs)) /\ Tidied(page, tabs)
      /\ page \in [Pages -> PageRecs] /\ row_ptr \in Ptrs
  BY DEF StoreInv, RowsGood, PagesIn, Ptrs
<1>2. t \in 1..Len(tabs) BY <1>1, TabsIn
<1>3. PICK c : Holds(page, tabs[t], t, c) BY <1>1, <1>2 DEF TablesHold
<1>4. PICK types : types = tabs[t].types OBVIOUS
<1>5. PICK n \in Nat : n = Len(TableRows(page, tabs[t]))
  <2>1. RowsDiffer(page) BY <1>1, RowsAreListed
  <2>2. Lists(TableRows(page, tabs[t]), TagRows(page, t)) BY <1>3, <2>1, TagRowsListed
  <2> QED BY <2>2, LenProperties DEF Lists
<1>6. PICK T : T = Deleting(page, tabs, next_rowid, t) OBVIOUS
<1>7. \A st \in T : Visit(types, w, st) \in T BY <1>1, <1>2, <1>3, <1>6, VisitStays
<1>8. PICK first : first = ScanNext(page, [page |-> tabs[t].first, slot |-> 0]) OBVIOUS
<1>9. first \in Scans /\ ScanOf(page, t, first)
  <2>1. PICK scan : scan = [page |-> tabs[t].first, slot |-> 0] OBVIOUS
  <2>2. tabs[t].first \in Pages BY <1>1, <1>2, TabsIn
  <2>3. scan \in Scans /\ scan.page = tabs[t].first /\ scan.slot = 0
    <3>1. tabs[t].first \in 0..NPages BY <2>2, Sizes DEF Pages
    <3> QED BY <2>1, <3>1 DEF Scans
  <2>4. page[tabs[t].first].tid = t
    <3>1. c[1] = tabs[t].first /\ 1 \in 1..Len(c) BY <1>3, ChainIn DEF Holds
    <3> QED BY <1>3, <2>2, <3>1 DEF Holds
  <2>5. 0 <= Len(page[tabs[t].first].slots) BY <1>1, <2>2, PageIs
  <2> QED BY <1>1, <1>3, <1>8, <2>1, <2>2, <2>3, <2>4, <2>5, ScanNextIs
<1>10. PICK open : open = [pg |-> page, ptr |-> row_ptr, scan |-> first] OBVIOUS
<1>11. open \in T
  <2>1. open \in States /\ open.pg = page /\ open.ptr = row_ptr /\ open.scan = first
    BY <1>1, <1>9, <1>10 DEF States
  <2> QED BY <1>1, <1>6, <1>9, <2>1 DEF Deleting
<1>12. PICK F : F = [z \in T \X (1..n) |-> Visit(types, w, z[1])] OBVIOUS
<1>13. ASSUME NEW x \in T, NEW i \in 1..n PROVE F[<<x, i>>] = Visit(types, w, x)
  <2>1. <<x, i>> \in T \X (1..n) OBVIOUS
  <2>2. <<x, i>>[1] = x OBVIOUS
  <2>3. F[<<x, i>>] = Visit(types, w, <<x, i>>[1]) BY <1>12, <2>1, Zenon
  <2> QED BY <2>2, <2>3
<1>14. PICK f : Loop(f, n, open, F) /\ \A i \in 0..n : f[i] \in T
  <2>1. \A x \in T, i \in 1..n : F[<<x, i>>] \in T BY <1>7, <1>13
  <2> QED BY <1>11, <2>1, LoopIn
<1> DEFINE Is(h) == h = [i \in 0..Len(TableRows(page, tabs[t])) |->
                          IF i = 0 THEN [pg |-> page, ptr |-> row_ptr,
                                         scan |-> ScanNext(page, [page |-> tabs[t].first, slot |-> 0])]
                          ELSE Visit(tabs[t].types, w, h[i - 1])]
<1>15. Is(f)
  <2>1. ASSUME NEW i \in 0..n PROVE f[i] = IF i = 0 THEN open ELSE Visit(types, w, f[i - 1])
    <3>1. CASE i = 0 BY <1>14, <3>1 DEF Loop
    <3>2. CASE i # 0
      <4>1. i \in 1..n /\ i - 1 \in 0..n BY <3>2
      <4>2. f[i] = F[<<f[i - 1], i>>] BY <1>14, <3>2 DEF Loop
      <4> QED BY <1>13, <1>14, <3>2, <4>1, <4>2
    <3> QED BY <3>1, <3>2
  <2>2. f = [i \in 0..n |-> f[i]] BY <1>14 DEF Loop
  <2>3. f = [i \in 0..n |-> IF i = 0 THEN open ELSE Visit(types, w, f[i - 1])] BY <2>1, <2>2
  <2> QED BY <1>4, <1>5, <1>8, <1>10, <2>3
<1>16. PICK g : g = (CHOOSE h : Is(h)) /\ Is(g)
  <2> HIDE DEF Is
  <2> QED BY <1>15
<1>17. g[n] \in T
  <2>1. PICK H : H = {i \in 0..n : g[i] \in T} OBVIOUS
  <2>2. \A i \in 0..n : g[i] = IF i = 0 THEN open ELSE Visit(types, w, g[i - 1])
    BY ZenonT(30), <1>4, <1>5, <1>8, <1>10, <1>16
  <2>3. 0 \in H BY <1>11, <2>1, <2>2
  <2>4. ASSUME NEW i \in 1..n, i - 1 \in H PROVE i \in H
    <3>1. i \in 0..n /\ i # 0 OBVIOUS
    <3>2. g[i] = Visit(types, w, g[i - 1]) BY <2>2, <3>1
    <3>3. g[i - 1] \in T BY <2>1, <2>4
    <3> QED BY <1>7, <2>1, <3>1, <3>2, <3>3
  <2>5. 0..n \subseteq H BY <2>3, <2>4, Upwards
  <2> QED BY <2>1, <2>5
<1>18. PICK done : done = IF n <= 0 THEN open ELSE g[n] OBVIOUS
<1>19. done \in T BY <1>11, <1>17, <1>18
<1>20. /\ page' = done.pg /\ row_ptr' = done.ptr
       /\ next_page' = next_page /\ free_list' = free_list /\ tabs' = tabs /\ next_rowid' = next_rowid
  BY <1>5, <1>8, <1>10, <1>16, <1>18 DEF Delete, Iterate, Visit, DeleteAt
<1>21. /\ RowsGood(done.pg, tabs, done.ptr, next_rowid)
       /\ \A q \in Pages : done.pg[q].tid = page[q].tid /\ done.pg[q].next = page[q].next
       /\ \A q \in Pages : page[q].tid # t => done.pg[q] = page[q]
  BY <1>6, <1>19 DEF Deleting
<1>22. TablesHold(done.pg, tabs) BY <1>1, <1>21, HeldSame
<1>23. Pool(done.pg, next_page, free_list) BY <1>1, <1>21, PoolSame
<1> QED BY <1>1, <1>20, <1>21, <1>22, <1>23 DEF StoreInv

-----------------------------------------------------------------------------
(* The indexes left by DROP TABLE.                                            *)

(* The loop of db_index_on_drop, which looks at index i of ixs.                *)
DropOne(st, t) ==
    IF st.ixs[st.i].tid # t THEN [st EXCEPT !.i = @ + 1]
    ELSE [st EXCEPT !.ixs = Front([@ EXCEPT ![st.i] = Last(st.ixs)])]

(* After k of n rounds: the indexes before i are not of table t.               *)
Dropping(S, n, t, k) ==
    {st \in [ixs : Seq(S), i : Nat \ {0}] :
        /\ st.i - 1 <= Len(st.ixs) /\ Len(st.ixs) <= n
        /\ st.i - 1 + (n - Len(st.ixs)) = k
        /\ \A j \in 1..st.i - 1 : st.ixs[j].tid # t}

LEMMA LastMoved ==
    ASSUME NEW S, NEW s \in Seq(S), NEW i \in 1..Len(s)
    PROVE  LET r == Front([s EXCEPT ![i] = Last(s)])
           IN  r \in Seq(S) /\ Len(r) = Len(s) - 1 /\ \A j \in 1..i - 1 : r[j] = s[j]
<1>1. PICK n \in Nat : n = Len(s) BY LenProperties
<1>2. i \in 1..n /\ n \in 1..n BY <1>1
<1>3. PICK x \in S : x = Last(s) BY <1>1, <1>2, ElementOfSeq DEF Last
<1>4. PICK u : u = [s EXCEPT ![i] = x] OBVIOUS
<1>5. u \in Seq(S) /\ Len(u) = n /\ \A j \in 1..n : j # i => u[j] = s[j]
  BY <1>1, <1>3, <1>4, ExceptSeq
<1>6. PICK m \in Int : m = n - 1 OBVIOUS
<1>7. PICK r : r = SubSeq(u, 1, m) OBVIOUS
<1>8. r \in Seq(S) /\ Len(r) = m /\ \A j \in 1..m : r[j] = u[j]
  <2>1. \A j \in 1..m : u[j] \in S
    <3>1. \A j \in 1..m : j \in 1..n BY <1>6
    <3> QED BY <1>5, <3>1, ElementOfSeq
  <2>2. 1 \in Int OBVIOUS
  <2>3. /\ SubSeq(u, 1, m) \in Seq(S) /\ Len(SubSeq(u, 1, m)) = IF 1 <= m THEN m - 1 + 1 ELSE 0
        /\ \A j \in 1..m - 1 + 1 : SubSeq(u, 1, m)[j] = u[1 + j - 1]
    BY <2>1, <2>2, SubSeqProperties
  <2>4. \A j \in 1..m : j \in 1..m - 1 + 1 /\ 1 + j - 1 = j BY <1>6
  <2>5. Len(r) = m BY <1>2, <1>6, <1>7, <2>3
  <2> QED BY <1>7, <2>3, <2>4, <2>5
<1>9. r = Front([s EXCEPT ![i] = Last(s)]) BY <1>3, <1>4, <1>5, <1>6, <1>7 DEF Front
<1>10. \A j \in 1..i - 1 : r[j] = s[j]
  <2>1. \A j \in 1..i - 1 : j \in 1..m /\ j \in 1..n /\ j # i BY <1>2, <1>6
  <2> QED BY <1>5, <1>8, <2>1
<1> QED BY <1>1, <1>6, <1>8, <1>9, <1>10

LEMMA DropOneStays ==
    ASSUME NEW S, NEW n \in Nat, NEW t, NEW k \in 1..n, NEW st \in Dropping(S, n, t, k - 1)
    PROVE  DropOne(st, t) \in Dropping(S, n, t, k)
<1>1. PICK s \in Seq(S), i \in Nat \ {0} : s = st.ixs /\ i = st.i BY DEF Dropping
<1>2. PICK l \in Nat : l = Len(s) BY LenProperties
<1>3. /\ i - 1 <= l /\ l <= n /\ i - 1 + (n - l) = k - 1
      /\ \A j \in 1..i - 1 : s[j].tid # t /\ st \in [ixs : Seq(S), i : Nat \ {0}]
  BY <1>1, <1>2 DEF Dropping
<1>4. i \in 1..l BY <1>3
<1>5. st \in [ixs : Seq(S), i : Nat \ {0}] BY DEF Dropping
<1>6. CASE s[i].tid # t
  <2>1. PICK y : y = [st EXCEPT !.i = @ + 1] OBVIOUS
  <2>2. y \in [ixs : Seq(S), i : Nat \ {0}] /\ y.ixs = s /\ y.i = i + 1 BY <1>1, <1>5, <2>1
  <2>3. i + 1 - 1 <= l /\ i + 1 - 1 + (n - l) = k BY <1>3, <1>4
  <2>4. \A j \in 1..i + 1 - 1 : s[j].tid # t
    <3>1. \A j \in 1..i + 1 - 1 : j \in 1..i - 1 \/ j = i BY <1>4
    <3> QED BY <1>3, <1>6, <3>1
  <2>5. DropOne(st, t) = y BY <1>1, <1>6, <2>1 DEF DropOne
  <2>6. /\ y.i - 1 <= Len(y.ixs) /\ Len(y.ixs) <= n /\ y.i - 1 + (n - Len(y.ixs)) = k
        /\ \A j \in 1..y.i - 1 : y.ixs[j].tid # t
    BY <1>2, <1>3, <2>2, <2>3, <2>4
  <2> QED BY <2>2, <2>5, <2>6 DEF Dropping
<1>7. CASE s[i].tid = t
  <2>1. PICK r : r = Front([s EXCEPT ![i] = Last(s)]) OBVIOUS
  <2>2. r \in Seq(S) /\ Len(r) = l - 1 /\ \A j \in 1..i - 1 : r[j] = s[j] BY <1>2, <1>4, <2>1, LastMoved
  <2>3. PICK y : y = [st EXCEPT !.ixs = r] OBVIOUS
  <2>4. y \in [ixs : Seq(S), i : Nat \ {0}] /\ y.ixs = r /\ y.i = i BY <1>1, <1>5, <2>2, <2>3
  <2>5. i - 1 <= l - 1 /\ l - 1 <= n /\ i - 1 + (n - (l - 1)) = k BY <1>3, <1>4
  <2>6. DropOne(st, t) = y BY <1>1, <1>7, <2>1, <2>3 DEF DropOne
  <2> QED BY <1>2, <1>3, <2>2, <2>4, <2>5, <2>6 DEF Dropping
<1> QED BY <1>6, <1>7

(* What is left of the indexes when table t is dropped and the last table gets *)
(* its number.                                                                *)
Renumbered(left, t, last) ==
    [i \in DOMAIN left |-> IF left[i].tid = last THEN [left[i] EXCEPT !.tid = t] ELSE left[i]]

LEMMA OnDropIs ==
    ASSUME NEW S, NEW ixs \in Seq(S), NEW t, NEW last
    PROVE  \E left \in Seq(S) :
              /\ Len(left) <= Len(ixs) /\ \A i \in 1..Len(left) : left[i].tid # t
              /\ OnDrop(ixs, t, last) = Renumbered(left, t, last)
<1>1. PICK n \in Nat : n = Len(ixs) BY LenProperties
<1>2. PICK base : base = [ixs |-> ixs, i |-> 1] OBVIOUS
<1>3. PICK T : T = [k \in 0..n |-> Dropping(S, n, t, k)] OBVIOUS
<1>4. base \in T[0]
  <2>1. base \in [ixs : Seq(S), i : Nat \ {0}] /\ base.ixs = ixs /\ base.i = 1 BY <1>2
  <2>2. 1 - 1 <= n /\ n <= n /\ 1 - 1 + (n - n) = 0 /\ \A j \in 1..1 - 1 : FALSE OBVIOUS
  <2>3. base \in Dropping(S, n, t, 0) BY <1>1, <2>1, <2>2 DEF Dropping
  <2> QED BY <1>3, <2>3
<1>5. ASSUME NEW k \in 1..n, NEW x \in T[k - 1] PROVE DropOne(x, t) \in T[k]
  <2>1. k \in 0..n /\ k - 1 \in 0..n OBVIOUS
  <2> QED BY <1>3, <2>1, DropOneStays
<1>6. PICK D : D = [ixs : Seq(S), i : Nat \ {0}] OBVIOUS
<1>7. \A k \in 0..n : T[k] \subseteq D BY <1>3, <1>6 DEF Dropping
<1>8. PICK F : F = [z \in D \X (1..n) |-> DropOne(z[1], t)] OBVIOUS
<1>9. ASSUME NEW x \in D, NEW i \in 1..n PROVE F[<<x, i>>] = DropOne(x, t)
  <2>1. <<x, i>> \in D \X (1..n) OBVIOUS
  <2>2. <<x, i>>[1] = x OBVIOUS
  <2>3. F[<<x, i>>] = DropOne(<<x, i>>[1], t) BY <1>8, <2>1, Zenon
  <2> QED BY <2>2, <2>3
<1>10. PICK f : Loop(f, n, base, F) BY LoopExists
<1>11. \A i \in 0..n : f[i] \in T[i]
  <2>1. ASSUME NEW i \in 1..n, NEW x \in T[i - 1] PROVE F[<<x, i>>] \in T[i]
    <3>1. i - 1 \in 0..n OBVIOUS
    <3>2. x \in D BY <1>7, <3>1
    <3> QED BY <1>5, <1>9, <3>2
  <2>2. \A i \in 1..n : \A x \in T[i - 1] : F[<<x, i>>] \in T[i] BY <2>1
  <2> QED BY <1>4, <1>10, <2>2, LoopStays
<1> DEFINE Is(h) == h = [k \in 0..Len(ixs) |-> IF k = 0 THEN [ixs |-> ixs, i |-> 1] ELSE DropOne(h[k - 1], t)]
<1>12. Is(f)
  <2>1. ASSUME NEW i \in 0..n PROVE f[i] = IF i = 0 THEN base ELSE DropOne(f[i - 1], t)
    <3>1. CASE i = 0 BY <1>10, <3>1 DEF Loop
    <3>2. CASE i # 0
      <4>1. i \in 1..n /\ i - 1 \in 0..n BY <3>2
      <4>2. f[i] = F[<<f[i - 1], i>>] BY <1>10, <3>2 DEF Loop
      <4>3. f[i - 1] \in D BY <1>7, <1>11, <4>1
      <4> QED BY <1>9, <3>2, <4>1, <4>2, <4>3
    <3> QED BY <3>1, <3>2
  <2>2. f = [i \in 0..n |-> f[i]] BY <1>10 DEF Loop
  <2>3. f = [i \in 0..n |-> IF i = 0 THEN base ELSE DropOne(f[i - 1], t)] BY <2>1, <2>2
  <2> QED BY <1>1, <1>2, <2>3
<1>13. PICK g : g = (CHOOSE h : Is(h)) /\ Is(g)
  <2> HIDE DEF Is
  <2> QED BY <1>12
<1>14. g[n] \in T[n]
  <2>1. PICK H : H = {i \in 0..n : g[i] \in T[i]} OBVIOUS
  <2>2. \A i \in 0..n : g[i] = IF i = 0 THEN base ELSE DropOne(g[i - 1], t) BY <1>1, <1>2, <1>13
  <2>3. 0 \in H BY <1>4, <2>1, <2>2
  <2>4. ASSUME NEW i \in 1..n, i - 1 \in H PROVE i \in H
    <3>1. i \in 0..n /\ i # 0 OBVIOUS
    <3>2. g[i] = DropOne(g[i - 1], t) BY <2>2, <3>1
    <3>3. PICK x \in T[i - 1] : x = g[i - 1] BY <2>1, <2>4
    <3>4. DropOne(x, t) \in T[i] BY <1>5
    <3> QED BY <2>1, <3>1, <3>2, <3>3, <3>4
  <2>5. 0..n \subseteq H BY <2>3, <2>4, Upwards
  <2> QED BY <2>1, <2>5
<1>15. PICK st : st = IF n <= 0 THEN base ELSE g[n] OBVIOUS
<1>16. st \in T[n]
  <2>1. CASE n = 0 BY <1>4, <1>15, <2>1
  <2>2. CASE n # 0 BY <1>14, <1>15, <2>2
  <2> QED BY <2>1, <2>2
<1>17. PICK left : left = st.ixs OBVIOUS
<1>18. st \in Dropping(S, n, t, n) BY <1>3, <1>16
<1>19. left \in Seq(S) /\ Len(left) <= n /\ \A i \in 1..Len(left) : left[i].tid # t
  <2>1. /\ left \in Seq(S) /\ st.i \in Nat \ {0} /\ st.i - 1 <= Len(left) /\ Len(left) <= n
        /\ st.i - 1 + (n - Len(left)) = n /\ \A j \in 1..st.i - 1 : left[j].tid # t
    BY <1>17, <1>18 DEF Dropping
  <2>2. PICK i \in Nat, l \in Nat : i = st.i /\ l = Len(left) BY <2>1, LenProperties
  <2>3. i - 1 = l BY <2>1, <2>2
  <2> QED BY <2>1, <2>2, <2>3
<1>20. OnDrop(ixs, t, last) = Renumbered(left, t, last)
  <2>1. OnDrop(ixs, t, last) =
          Renumbered((IF Len(ixs) <= 0 THEN [ixs |-> ixs, i |-> 1] ELSE (CHOOSE h : Is(h))[Len(ixs)]).ixs, t, last)
    BY DEF OnDrop, Iterate, DropOne, Renumbered
  <2>2. left = (IF Len(ixs) <= 0 THEN [ixs |-> ixs, i |-> 1] ELSE (CHOOSE h : Is(h))[Len(ixs)]).ixs
    <3> HIDE DEF Is
    <3> QED BY <1>1, <1>2, <1>13, <1>15, <1>17
  <2> HIDE DEF Is
  <2> QED BY <2>1, <2>2
<1> QED BY <1>1, <1>19, <1>20

-----------------------------------------------------------------------------
(* The pages, the rows and their addresses.                                   *)

(* The array of indexes.                                                      *)
IndexList(ixs) == (\E S : ixs \in Seq(S)) /\ Len(ixs) <= MaxIndexes

LEMMA MappedList ==
    ASSUME NEW n \in Nat, n <= MaxIndexes, NEW f, f = [i \in 1..n |-> f[i]]
    PROVE  IndexList(f)
<1>1. PICK S : S = {f[i] : i \in 1..n} OBVIOUS
<1>2. f \in [1..n -> S] BY <1>1
<1>3. f \in Seq(S) /\ Len(f) = n BY <1>2
<1> QED BY <1>3 DEF IndexList

LEMMA IndexesListed ==
    ASSUME IndexList(idx), DbNext
    PROVE  IndexList(idx')
<1>1. PICK S : idx \in Seq(S) BY DEF IndexList
<1>2. PICK n \in Nat : n = Len(idx) BY <1>1, LenProperties
<1>3. n <= MaxIndexes /\ DOMAIN idx = 1..n BY <1>1, <1>2, LenProperties DEF IndexList
<1>4. ASSUME NEW pg, NEW ts, NEW t PROVE IndexList(RebuildTable(pg, ts, idx, t))
  <2>1. PICK f : f = RebuildTable(pg, ts, idx, t) OBVIOUS
  <2>2. f = [i \in 1..n |-> f[i]] BY <1>3, <2>1 DEF RebuildTable
  <2> QED BY <1>3, <2>1, <2>2, MappedList
<1>5. ASSUME NEW m, NEW s, CreateTable(m, s) PROVE IndexList(idx') BY <1>5 DEF CreateTable
<1>6. ASSUME NEW t, DropTable(t) PROVE IndexList(idx')
  <2>1. PICK left \in Seq(S) : Len(left) <= Len(idx) /\ OnDrop(idx, t, Len(tabs)) = Renumbered(left, t, Len(tabs))
    BY <1>1, OnDropIs
  <2>2. PICK l \in Nat : l = Len(left) /\ DOMAIN left = 1..l /\ l <= MaxIndexes
    <3>1. PICK l \in Nat : l = Len(left) BY LenProperties
    <3> QED BY <1>2, <1>3, <2>1, <3>1, Sizes
  <2>3. PICK f : f = Renumbered(left, t, Len(tabs)) OBVIOUS
  <2>4. f = [i \in 1..l |-> f[i]] BY <2>2, <2>3 DEF Renumbered
  <2>5. idx' = f BY <1>6, <2>1, <2>3 DEF DropTable
  <2> QED BY <2>2, <2>4, <2>5, MappedList
<1>7. ASSUME NEW t, NEW v, Insert(t, v) PROVE IndexList(idx')
  <2>1. idx' = idx \/ idx' = RebuildTable(page', tabs', idx, t) BY <1>7 DEF Insert
  <2> QED BY <1>4, <2>1
<1>8. ASSUME NEW t, NEW c, NEW v, NEW w, Update(t, c, v, w) PROVE IndexList(idx')
  <2>1. idx' = RebuildTable(page', tabs, idx, t) BY <1>8 DEF Update
  <2> QED BY <1>4, <2>1
<1>9. ASSUME NEW t, NEW w, Delete(t, w) PROVE IndexList(idx')
  <2>1. idx' = idx \/ idx' = RebuildTable(page', tabs, idx, t) BY <1>9 DEF Delete
  <2> QED BY <1>4, <2>1
<1>10. ASSUME NEW m, NEW t, NEW c, CreateIndex(m, t, c) PROVE IndexList(idx')
  <2>1. PICK x : x = Rebuild(page, tabs, [name |-> m, tid |-> t, col |-> c, ents |-> << >>]) OBVIOUS
  <2>2. idx' = Append(idx, x) /\ n < MaxIndexes BY <1>2, <1>10, <2>1 DEF CreateIndex
  <2>3. PICK V : V = S \cup {x} OBVIOUS
  <2>4. idx \in Seq(V) BY <1>1, <2>3, SeqMonotonic
  <2>5. Append(idx, x) \in Seq(V) /\ Len(Append(idx, x)) = n + 1 BY <1>2, <2>3, <2>4, AppendProperties
  <2>6. n + 1 <= MaxIndexes BY <2>2, Sizes
  <2> QED BY <2>2, <2>5, <2>6 DEF IndexList
<1> QED BY <1>5, <1>6, <1>7, <1>8, <1>9, <1>10 DEF DbNext

LEMMA StoreNext ==
    ASSUME StoreInv, DbNext
    PROVE  StoreInv'
<1>1. ASSUME NEW n \in Names, NEW s \in Schemas, CreateTable(n, s) PROVE StoreInv'
  BY <1>1, CreateStep
<1>2. ASSUME NEW t \in DOMAIN tabs, DropTable(t) PROVE StoreInv' BY <1>2, DropStep
<1>3. ASSUME NEW t \in DOMAIN tabs, NEW v \in RowVals(tabs[t].types), Insert(t, v) PROVE StoreInv'
  BY <1>3, InsertStep
<1>4. ASSUME NEW t \in DOMAIN tabs, NEW c \in DOMAIN tabs[t].types, NEW v \in Literals, NEW w \in Wheres,
             Update(t, c, v, w)
      PROVE  StoreInv'
  BY <1>4, UpdateStep
<1>5. ASSUME NEW t \in DOMAIN tabs, NEW w \in Wheres, Delete(t, w) PROVE StoreInv' BY <1>5, DeleteStep
<1>6. ASSUME NEW m, NEW t, NEW c, CreateIndex(m, t, c) PROVE StoreInv'
  BY <1>6 DEF CreateIndex, StoreInv
<1> QED BY <1>1, <1>2, <1>3, <1>4, <1>5, <1>6 DEF DbNext

LEMMA TypesFollow ==
    ASSUME StoreInv, IndexList(idx)
    PROVE  DbTypeOK
<1>1. /\ Catalogue(tabs) /\ Pool(page, next_page, free_list)
      /\ PagesIn(page, Len(tabs)) /\ Tidied(page, tabs)
      /\ Located(page, row_ptr, next_rowid)
      /\ next_rowid \in 1..RowLimit /\ row_ptr \in [RowIds -> (Pages \X Nat) \cup {NoRow}]
  BY DEF StoreInv, RowsGood
<1>2. next_page \in 0..NPages /\ free_list \in Seq(Pages)
  <2>1. next_page \in 0..NPages /\ free_list \in Seq(FreePages(page, next_page)) BY <1>1 DEF Pool, Lists
  <2>2. FreePages(page, next_page) \subseteq Pages BY <2>1, Sizes DEF FreePages, Pages
  <2> QED BY <2>1, <2>2, SeqMonotonic
<1>3. ASSUME NEW p \in Pages
      PROVE  /\ page[p].tid \in 0..MaxTables /\ page[p].next \in 0..NPages
             /\ \A i \in DOMAIN page[p].slots : page[p].slots[i] \in [off : DOMAIN page[p].recs, row : RowIds]
  <2>1. /\ page[p].tid \in 0..MaxTables /\ page[p].next \in 0..NPages /\ page[p].slots \in Seq(SlotRecs)
        /\ DOMAIN page[p].slots = 1..Len(page[p].slots) /\ DOMAIN page[p].recs = 1..Len(page[p].recs)
    BY <1>1, PageIs
  <2>2. /\ Len(page[p].recs) = Len(page[p].slots)
        /\ \A j \in 1..Len(page[p].slots) : page[p].slots[j].off = j
    BY <1>1, PagePlaces
  <2>3. ASSUME NEW i \in DOMAIN page[p].slots PROVE page[p].slots[i] \in [off : DOMAIN page[p].recs, row : RowIds]
    <3>1. PICK x \in SlotRecs : x = page[p].slots[i] BY <2>1, ElementOfSeq
    <3>2. x.off \in DOMAIN page[p].recs BY <2>1, <2>2, <3>1
    <3>3. x \in [off : DOMAIN page[p].recs, row : RowIds] BY <3>2 DEF SlotRecs
    <3> QED BY <3>1, <3>3
  <2> QED BY <2>1, <2>3
<1>4. row_ptr \in [RowIds -> Addresses]
  <2>1. ASSUME NEW r \in RowIds PROVE row_ptr[r] \in Addresses
    <3>1. CASE row_ptr[r] = NoRow BY <3>1 DEF Addresses
    <3>2. CASE row_ptr[r] # NoRow
      <4>1. PICK p \in Pages : \E j \in 1..Len(page[p].slots) : page[p].slots[j].row = r
        BY <1>1, <3>2 DEF Located
      <4>2. PICK j \in 1..Len(page[p].slots) : page[p].slots[j].row = r BY <4>1
      <4>3. row_ptr[r] = <<p, j>> BY <1>1, <4>2 DEF Located
      <4>4. PICK n \in Nat : n = Len(page[p].slots) BY <1>1, PageIs
      <4>5. page[p].tid # 0
        <5>1. page[p].tid = 0 => page[p].slots = << >> BY <1>1 DEF PagesIn
        <5> QED BY <4>2, <5>1, NoPlaces
      <4>6. page[p].tid \in 1..Len(tabs)
        <5>1. page[p].tid \in 0..MaxTables /\ page[p].tid <= Len(tabs) BY <1>1, PageIs DEF PagesIn
        <5> QED BY <1>1, <4>5, <5>1, TabsIn
      <4>7. PICK s \in Schemas : s = tabs[page[p].tid].types BY <1>1, <4>6, TabsIn
      <4>8. PICK k \in Nat : k = SlotSize + RecSize(s) /\ k >= 1 BY SchemaIs, Sizes
      <4>9. HeaderSize + n * k <= PageSize BY <1>1, <4>4, <4>5, <4>7, <4>8 DEF Tidied, Tidy
      <4>10. PICK m \in Nat : m = n * k /\ n <= m
        <5>1. PICK l \in Nat : k = 1 + l BY <4>8
        <5>2. n * k = n + n * l BY <5>1
        <5>3. n * l \in Nat BY <5>1
        <5> QED BY <5>2, <5>3
      <4>11. j \in 1..PageSize BY <4>4, <4>9, <4>10, Sizes
      <4>12. <<p, j>> \in Pages \X (1..PageSize) BY <4>11
      <4> QED BY <4>3, <4>12 DEF Addresses
    <3> QED BY <3>1, <3>2
  <2> QED BY <1>1, <2>1
<1>5. Len(tabs) <= MaxTables /\ Len(idx) <= MaxIndexes BY <1>1 DEF Catalogue, IndexList
<1> QED BY <1>1, <1>2, <1>3, <1>4, <1>5 DEF DbTypeOK

LEMMA StoreAlways == DbSpec => [](StoreInv /\ IndexList(idx))
<1>1. DbInit => StoreInv /\ IndexList(idx)
  <2>1. ASSUME DbInit PROVE IndexList(idx)
    <3>1. idx = << >> /\ << >> \in Seq({}) /\ Len(<< >>) = 0 BY <2>1 DEF DbInit
    <3> QED BY <3>1, Sizes DEF IndexList
  <2> QED BY <2>1, StartsGood
<1>2. StoreInv /\ IndexList(idx) /\ [DbNext]_dbVars => (StoreInv /\ IndexList(idx))'
  <2>1. ASSUME StoreInv, IndexList(idx), DbNext PROVE StoreInv' /\ IndexList(idx')
    BY <2>1, StoreNext, IndexesListed
  <2>2. ASSUME StoreInv, IndexList(idx), UNCHANGED dbVars PROVE StoreInv' /\ IndexList(idx')
    BY <2>2 DEF StoreInv, dbVars
  <2> QED BY <2>1, <2>2
<1> QED BY <1>1, <1>2, PTL DEF DbSpec

(* Pages, catalogue, addresses and indexes stay what the declarations allow.  *)
THEOREM DbTyped == DbSpec => []DbTypeOK
<1>1. StoreInv /\ IndexList(idx) => DbTypeOK BY TypesFollow
<1> QED BY <1>1, StoreAlways, PTL

(* No page is lost and none is used twice.                                    *)
THEOREM PagesAreConserved == DbSpec => []PagesConserved
<1>1. StoreInv => PagesConserved BY ConservedFollows
<1> QED BY <1>1, StoreAlways, PTL

(* Every row is found at the address kept for it, and no address is stale.     *)
THEOREM RowsAreLocated == DbSpec => []RowsLocated
<1>1. StoreInv => RowsLocated BY LocatedFollows
<1> QED BY <1>1, StoreAlways, PTL
=============================================================================
