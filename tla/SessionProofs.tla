---------------------------- MODULE SessionProofs ----------------------------
(* ppdb keeps what it derives from its pages: the heap sort orders any        *)
(* entries, a rebuilt index lists the rows of its table once each in          *)
(* increasing order, every statement leaves each index so, and so do a        *)
(* rollback, a load and a restart, which build addresses and indexes again;   *)
(* and a WHERE clause reads through an index what it reads without one.       *)
EXTENDS Session, DbProofs

-----------------------------------------------------------------------------
(* Sifting an index: the heap below one entry is put in order.             *)

(* Index entries, and their order.                                            *)
Ents == Int \X Int

LEMMA Ordered ==
    ASSUME NEW a \in Ents, NEW b \in Ents, NEW c \in Ents
    PROVE  /\ ~Greater(a, a) /\ (Greater(a, b) => ~Greater(b, a))
           /\ (Greater(a, b) \/ Greater(b, a) \/ a = b)
           /\ (~Greater(a, b) /\ ~Greater(b, c) => ~Greater(a, c))
<1>1. PICK a1 \in Int, a2 \in Int : a = <<a1, a2>> BY DEF Ents
<1>2. PICK b1 \in Int, b2 \in Int : b = <<b1, b2>> BY DEF Ents
<1>3. PICK c1 \in Int, c2 \in Int : c = <<c1, c2>> BY DEF Ents
<1> QED BY <1>1, <1>2, <1>3 DEF Greater

(* r is s with its first m entries in another order.                          *)
Shuffled(r, s, m) ==
    /\ Len(r) = Len(s)
    /\ \A j \in m + 1..Len(s) : r[j] = s[j]
    /\ \A j \in 1..m : \E k \in 1..m : r[j] = s[k]
    /\ \A j \in 1..m : \E k \in 1..m : s[j] = r[k]
    /\ Distinct(s) => Distinct(r)

LEMMA ShuffleNone == \A s, m : Shuffled(s, s, m)
BY DEF Shuffled

LEMMA ShuffleMore ==
    ASSUME NEW q, NEW r, NEW s, NEW m, Shuffled(q, r, m), Shuffled(r, s, m)
    PROVE  Shuffled(q, s, m)
<1>1. ASSUME NEW j \in 1..m PROVE \E k \in 1..m : q[j] = s[k]
  <2>1. PICK k \in 1..m : q[j] = r[k] BY DEF Shuffled
  <2>2. PICK l \in 1..m : r[k] = s[l] BY DEF Shuffled
  <2> QED BY <2>1, <2>2
<1>2. ASSUME NEW j \in 1..m PROVE \E k \in 1..m : s[j] = q[k]
  <2>1. PICK k \in 1..m : s[j] = r[k] BY DEF Shuffled
  <2>2. PICK l \in 1..m : r[k] = q[l] BY DEF Shuffled
  <2> QED BY <2>1, <2>2
<1>3. Len(q) = Len(s) /\ \A j \in m + 1..Len(s) : q[j] = s[j] BY DEF Shuffled
<1>4. Distinct(s) => Distinct(q) BY DEF Shuffled
<1> QED BY <1>1, <1>2, <1>3, <1>4 DEF Shuffled

LEMMA ShuffleWider ==
    ASSUME NEW S, NEW r \in Seq(S), NEW s \in Seq(S), NEW m \in Nat, NEW n \in Nat, m <= n, n <= Len(s), Shuffled(r, s, m)
    PROVE  Shuffled(r, s, n)
<1>1. PICK l \in Nat : l = Len(s) BY LenProperties
<1>2. \A j \in n + 1..l : j \in m + 1..l OBVIOUS
<1>3. ASSUME NEW j \in 1..n PROVE (\E k \in 1..n : r[j] = s[k]) /\ (\E k \in 1..n : s[j] = r[k])
  <2>1. CASE j \in 1..m
    <3>1. \A k \in 1..m : k \in 1..n OBVIOUS
    <3> QED BY <2>1, <3>1 DEF Shuffled
  <2>2. CASE j \notin 1..m
    <3>1. j \in m + 1..l BY <1>1, <2>2
    <3> QED BY <1>1, <3>1 DEF Shuffled
  <2> QED BY <2>1, <2>2
<1> QED BY <1>1, <1>2, <1>3 DEF Shuffled

LEMMA SwapIs ==
    ASSUME NEW S, NEW s \in Seq(S), NEW i \in 1..Len(s), NEW j \in 1..Len(s)
    PROVE  /\ Swap(s, i, j) \in Seq(S) /\ Len(Swap(s, i, j)) = Len(s)
           /\ Swap(s, i, j)[i] = s[j] /\ Swap(s, i, j)[j] = s[i]
           /\ \A k \in 1..Len(s) : k # i /\ k # j => Swap(s, i, j)[k] = s[k]
<1>1. PICK x \in S, y \in S : x = s[i] /\ y = s[j] BY ElementOfSeq
<1>2. PICK a : a = [s EXCEPT ![i] = y] OBVIOUS
<1>3. a \in Seq(S) /\ Len(a) = Len(s) /\ a[i] = y /\ \A k \in 1..Len(s) : k # i => a[k] = s[k]
  BY <1>2, ExceptSeq
<1>4. PICK b : b = [a EXCEPT ![j] = x] OBVIOUS
<1>5. b \in Seq(S) /\ Len(b) = Len(s) /\ b[j] = x /\ \A k \in 1..Len(s) : k # j => b[k] = a[k]
  BY <1>3, <1>4, ExceptSeq
<1>6. Swap(s, i, j) = b BY <1>1, <1>2, <1>4 DEF Swap
<1> QED BY <1>1, <1>3, <1>5, <1>6

LEMMA SwapShuffles ==
    ASSUME NEW S, NEW s \in Seq(S), NEW m \in 0..Len(s), NEW i \in 1..m, NEW j \in 1..m
    PROVE  Shuffled(Swap(s, i, j), s, m)
<1>1. PICK n \in Nat : n = Len(s) BY LenProperties
<1>2. m \in Nat /\ i \in 1..n /\ j \in 1..n BY <1>1
<1>3. PICK r : r = Swap(s, i, j) OBVIOUS
<1>4. /\ r \in Seq(S) /\ Len(r) = n /\ r[i] = s[j] /\ r[j] = s[i]
      /\ \A k \in 1..n : k # i /\ k # j => r[k] = s[k]
  <2>1. i \in 1..Len(s) /\ j \in 1..Len(s) BY <1>1, <1>2
  <2>2. /\ Swap(s, i, j) \in Seq(S) /\ Len(Swap(s, i, j)) = Len(s)
        /\ Swap(s, i, j)[i] = s[j] /\ Swap(s, i, j)[j] = s[i]
        /\ \A k \in 1..Len(s) : k # i /\ k # j => Swap(s, i, j)[k] = s[k]
    BY <2>1, SwapIs
  <2> QED BY <1>1, <1>3, <2>2
<1>5. ASSUME NEW k \in m + 1..n PROVE r[k] = s[k]
  <2>1. k \in 1..n /\ k # i /\ k # j BY <1>2
  <2> QED BY <1>4, <2>1
<1>6. ASSUME NEW k \in 1..m PROVE (\E l \in 1..m : r[k] = s[l]) /\ (\E l \in 1..m : s[k] = r[l])
  <2>1. k \in 1..n BY <1>1
  <2>2. CASE k = i BY <1>4, <2>2
  <2>3. CASE k = j BY <1>4, <2>3
  <2>4. CASE k # i /\ k # j BY <1>4, <2>1, <2>4
  <2> QED BY <2>2, <2>3, <2>4
<1>7. ASSUME Distinct(s) PROVE Distinct(r)
  <2>1. \A a, b \in 1..n : s[a] = s[b] => a = b BY <1>1, <1>7, LenProperties DEF Distinct
  <2>2. DOMAIN r = 1..n BY <1>4, LenProperties
  <2>3. ASSUME NEW a \in 1..n, NEW b \in 1..n, r[a] = r[b] PROVE a = b
    <3> DEFINE from(x) == IF x = i THEN j ELSE IF x = j THEN i ELSE x
    <3>1. r[a] = s[from(a)] /\ r[b] = s[from(b)] BY <1>4
    <3>2. from(a) \in 1..n /\ from(b) \in 1..n BY <1>2
    <3>3. from(a) = from(b)
      <4> HIDE DEF from
      <4> QED BY <2>1, <2>3, <3>1, <3>2
    <3> QED BY <3>3
  <2> QED BY <2>2, <2>3 DEF Distinct
<1> QED BY <1>1, <1>3, <1>4, <1>5, <1>6, <1>7 DEF Shuffled

(* No child of k (counting from 0, count entries) is above v.                  *)
OverChildren(s, k, v, count) == \A c \in {2 * k + 1, 2 * k + 2} : c < count => ~Greater(s[c + 1], v)

HeapFrom(s, from, count) == \A k \in from..count - 1 : OverChildren(s, k, s[k + 1], count)

(* One round of db_index_sift.                                                *)
LargerChild(s, root, count) ==
    IF 2 * root + 1 + 1 < count /\ Greater(s[2 * root + 1 + 2], s[2 * root + 1 + 1])
    THEN 2 * root + 1 + 1 ELSE 2 * root + 1

Settled(st, count) ==
    2 * st.root + 1 >= count \/ ~Greater(st.s[LargerChild(st.s, st.root, count) + 1], st.s[st.root + 1])

SiftOne(st, count) ==
    IF Settled(st, count) THEN st
    ELSE [s |-> Swap(st.s, st.root + 1, LargerChild(st.s, st.root, count) + 1),
          root |-> LargerChild(st.s, st.root, count)]

(* The heap is in order but for the entry at root, which may be below its      *)
(* children, and it is done or has gone i levels down.                        *)
Sifting(s0, from, count, i) ==
    {st \in [s : Seq(Ents), root : Nat] :
        /\ Shuffled(st.s, s0, count) /\ from <= st.root
        /\ Settled(st, count) \/ st.root >= from + i
        /\ \A k \in from..count - 1 : k # st.root => OverChildren(st.s, k, st.s[k + 1], count)
        /\ \A k \in from..count - 1 :
              st.root \in {2 * k + 1, 2 * k + 2} => OverChildren(st.s, st.root, st.s[k + 1], count)}

(* The child the code compares with is below count and not below the other.    *)
LEMMA LargerChildIs ==
    ASSUME NEW s \in Seq(Ents), NEW count \in 0..Len(s), NEW root \in Nat, 2 * root + 1 < count
    PROVE  LET c == LargerChild(s, root, count)
           IN  /\ c \in {2 * root + 1, 2 * root + 2} /\ c < count /\ c \in Nat
               /\ \A d \in {2 * root + 1, 2 * root + 2} : d < count => ~Greater(s[d + 1], s[c + 1])
<1>00. PICK n \in Nat : n = Len(s) BY LenProperties
<1>01. PICK c : c = LargerChild(s, root, count) OBVIOUS
<1>02. 2 * root + 1 < count /\ count \in Nat /\ count <= n BY <1>00
<1>03. \A k \in 1..n : s[k] \in Ents BY <1>00, ElementOfSeq
<1>1. CASE 2 * root + 1 + 1 < count /\ Greater(s[2 * root + 1 + 2], s[2 * root + 1 + 1])
  <2>0. c = 2 * root + 1 + 1 BY <1>01, <1>1 DEF LargerChild
  <2>1. c = 2 * root + 2 /\ c < count
    <3>1. 2 * root + 1 + 1 = 2 * root + 2 OBVIOUS
    <3>2. 2 * root + 1 + 1 < count BY <1>1
    <3>3. c = 2 * root + 2 BY <2>0, <3>1
    <3>4. c < count BY <2>0, <3>2
    <3> QED BY <3>3, <3>4
  <2>2. c + 1 = 2 * root + 1 + 2 /\ 2 * root + 1 + 1 = 2 * root + 2
    <3>1. 2 * root + 2 + 1 = 2 * root + 1 + 2 /\ 2 * root + 1 + 1 = 2 * root + 2 OBVIOUS
    <3> QED BY <2>1, <3>1
  <2>3. c + 1 \in 1..n /\ 2 * root + 1 + 1 \in 1..n BY <1>02, <2>1
  <2>4. Greater(s[c + 1], s[2 * root + 1 + 1]) BY <1>1, <2>1, <2>2
  <2>5. ~Greater(s[2 * root + 1 + 1], s[c + 1]) /\ ~Greater(s[c + 1], s[c + 1])
    BY <1>03, <2>3, <2>4, Ordered
  <2>6. ASSUME NEW d \in {2 * root + 1, 2 * root + 2} PROVE ~Greater(s[d + 1], s[c + 1])
    <3>1. d = 2 * root + 1 \/ d = c BY <2>1
    <3> QED BY <2>5, <3>1
  <2>7. c \in Nat BY <2>1
  <2> QED BY <1>01, <2>1, <2>6, <2>7
<1>2. CASE ~(2 * root + 1 + 1 < count /\ Greater(s[2 * root + 1 + 2], s[2 * root + 1 + 1]))
  <2>1. c = 2 * root + 1 BY <1>01, <1>2 DEF LargerChild
  <2>2. c + 1 \in 1..n BY <1>02, <2>1
  <2>3. ~Greater(s[c + 1], s[c + 1]) BY <1>03, <2>2, Ordered
  <2>4. 2 * root + 1 + 2 = 2 * root + 2 + 1 /\ 2 * root + 1 + 1 = 2 * root + 2 OBVIOUS
  <2>5. 2 * root + 2 < count => ~Greater(s[2 * root + 2 + 1], s[2 * root + 1 + 1]) BY <1>2, <2>4
  <2>6. ASSUME NEW d \in {2 * root + 1, 2 * root + 2}, d < count PROVE ~Greater(s[d + 1], s[c + 1])
    <3>1. d = c \/ d = 2 * root + 2 BY <2>1
    <3> QED BY <2>1, <2>3, <2>5, <2>6, <3>1
  <2>7. c < count /\ c \in Nat BY <1>02, <2>1
  <2> QED BY <1>01, <2>1, <2>6, <2>7
<1> QED BY <1>1, <1>2

LEMMA SiftOneStays ==
    ASSUME NEW s0 \in Seq(Ents), NEW count \in 0..Len(s0), NEW from \in Nat, NEW i \in 1..count,
           NEW st \in Sifting(s0, from, count, i - 1)
    PROVE  SiftOne(st, count) \in Sifting(s0, from, count, i)
<1>1. PICK s \in Seq(Ents), root \in Nat : s = st.s /\ root = st.root BY DEF Sifting
<1>2. PICK n \in Nat : n = Len(s0) BY LenProperties
<1>3. count \in Nat /\ count <= n /\ i \in 1..count BY <1>2
<1>4. /\ Shuffled(s, s0, count) /\ from <= root
      /\ Settled(st, count) \/ root >= from + (i - 1)
      /\ \A k \in from..count - 1 : k # root => OverChildren(s, k, s[k + 1], count)
      /\ \A k \in from..count - 1 :
            root \in {2 * k + 1, 2 * k + 2} => OverChildren(s, root, s[k + 1], count)
  BY <1>1 DEF Sifting
<1>5. Len(s) = n /\ \A k \in 1..n : s[k] \in Ents
  <2>1. Len(s) = n BY <1>2, <1>4 DEF Shuffled
  <2> QED BY <2>1, ElementOfSeq
<1>6. CASE Settled(st, count)
  <2>1. SiftOne(st, count) = st BY <1>6 DEF SiftOne
  <2> QED BY <1>6, <2>1 DEF Sifting
<1>7. CASE ~Settled(st, count)
  <2>1. PICK c : c = LargerChild(s, root, count) OBVIOUS
  <2>2. 2 * root + 1 < count /\ Greater(s[c + 1], s[root + 1])
    <3>1. ~(2 * root + 1 >= count) /\ Greater(s[c + 1], s[root + 1]) BY <1>1, <1>7, <2>1 DEF Settled
    <3> QED BY <1>3, <3>1
  <2>3. /\ c \in {2 * root + 1, 2 * root + 2} /\ c < count /\ c \in Nat
        /\ \A d \in {2 * root + 1, 2 * root + 2} : d < count => ~Greater(s[d + 1], s[c + 1])
    <3>1. count \in 0..Len(s) /\ 2 * root + 1 < count BY <1>3, <1>5, <2>2
    <3> QED BY <2>1, <3>1, LargerChildIs
  <2>4. c > root /\ root + 1 \in 1..count /\ c + 1 \in 1..count /\ root + 1 # c + 1
        /\ root \in from..count - 1 /\ c \in from..count - 1
    BY <1>3, <1>4, <2>2, <2>3
  <2>5. PICK r : r = Swap(s, root + 1, c + 1) OBVIOUS
  <2>6. /\ r \in Seq(Ents) /\ Len(r) = n /\ r[root + 1] = s[c + 1] /\ r[c + 1] = s[root + 1]
        /\ \A k \in 1..n : k # root + 1 /\ k # c + 1 => r[k] = s[k]
    <3>1. root + 1 \in 1..Len(s) /\ c + 1 \in 1..Len(s) BY <1>3, <1>5, <2>4
    <3>2. /\ Swap(s, root + 1, c + 1) \in Seq(Ents) /\ Len(Swap(s, root + 1, c + 1)) = Len(s)
          /\ Swap(s, root + 1, c + 1)[root + 1] = s[c + 1] /\ Swap(s, root + 1, c + 1)[c + 1] = s[root + 1]
          /\ \A k \in 1..Len(s) : k # root + 1 /\ k # c + 1 => Swap(s, root + 1, c + 1)[k] = s[k]
      BY ZenonT(30), <3>1, SwapIs
    <3> QED BY <1>5, <2>5, <3>2
  <2>7. Shuffled(r, s0, count)
    <3>1. Shuffled(r, s, count) BY <1>3, <1>5, <2>4, <2>5, SwapShuffles
    <3> QED BY <1>4, <3>1, ShuffleMore
  <2>8. ASSUME NEW k \in from..count - 1, k # c PROVE OverChildren(r, k, r[k + 1], count)
    <3>1. SUFFICES ASSUME NEW d \in {2 * k + 1, 2 * k + 2}, d < count PROVE ~Greater(r[d + 1], r[k + 1])
      BY DEF OverChildren
    <3>2. k \in Nat /\ k + 1 \in 1..n /\ d \in Nat /\ d + 1 \in 1..n /\ d # k
      <4>1. k \in Nat /\ k < count BY <1>3
      <4>2. CASE d = 2 * k + 1 BY <1>3, <3>1, <4>1, <4>2
      <4>3. CASE d = 2 * k + 2 BY <1>3, <3>1, <4>1, <4>3
      <4> QED BY <3>1, <4>2, <4>3
    <3>3. CASE k = root
      <4>1. CASE d = c
        <5>1. ~Greater(s[root + 1], s[c + 1]) BY <1>3, <1>5, <2>2, <2>4, Ordered
        <5> QED BY <2>6, <3>3, <4>1, <5>1
      <4>2. CASE d # c
        <5>1. r[d + 1] = s[d + 1] BY <2>3, <2>6, <3>2, <3>3, <4>2
        <5>2. ~Greater(s[d + 1], s[c + 1]) BY <2>3, <3>1, <3>3
        <5> QED BY <2>6, <3>3, <5>1, <5>2
      <4> QED BY <4>1, <4>2
    <3>4. CASE k # root
      <4>1. r[k + 1] = s[k + 1] BY <2>3, <2>6, <2>8, <3>2, <3>4
      <4>2. d # c BY <2>3, <3>1, <3>2, <3>4
      <4>3. CASE d = root
        <5>1. OverChildren(s, root, s[k + 1], count) BY <1>4, <3>1, <4>3
        <5>2. ~Greater(s[c + 1], s[k + 1]) BY <2>3, <5>1 DEF OverChildren
        <5> QED BY <2>6, <4>1, <4>3, <5>2
      <4>4. CASE d # root
        <5>1. r[d + 1] = s[d + 1] BY <2>3, <2>6, <3>2, <4>2, <4>4
        <5>2. OverChildren(s, k, s[k + 1], count) BY <1>4, <3>4
        <5>3. ~Greater(s[d + 1], s[k + 1]) BY <3>1, <5>2 DEF OverChildren
        <5> QED BY <4>1, <5>1, <5>3
      <4> QED BY <4>3, <4>4
    <3> QED BY <3>3, <3>4
  <2>9. ASSUME NEW k \in from..count - 1, c \in {2 * k + 1, 2 * k + 2} PROVE OverChildren(r, c, r[k + 1], count)
    <3>1. SUFFICES ASSUME NEW d \in {2 * c + 1, 2 * c + 2}, d < count PROVE ~Greater(r[d + 1], r[k + 1])
      BY DEF OverChildren
    <3>2. k = root BY <2>3, <2>9
    <3>3. d \in Nat /\ d + 1 \in 1..n /\ d # root /\ d # c BY <1>3, <2>3, <2>4, <3>1
    <3>4. r[d + 1] = s[d + 1] BY <2>3, <2>6, <3>3
    <3>5. OverChildren(s, c, s[c + 1], count) BY <1>4, <2>4
    <3>6. ~Greater(s[d + 1], s[c + 1]) BY <3>1, <3>5 DEF OverChildren
    <3> QED BY <2>6, <3>2, <3>4, <3>6
  <2>10. PICK y : y = [s |-> r, root |-> c] OBVIOUS
  <2>11. y \in [s : Seq(Ents), root : Nat] /\ y.s = r /\ y.root = c BY <2>3, <2>6, <2>10
  <2>12. SiftOne(st, count) = y BY <1>1, <1>7, <2>1, <2>5, <2>10 DEF SiftOne
  <2>13. y.root >= from + i /\ from <= y.root BY <1>3, <1>4, <1>7, <2>3, <2>4, <2>11
  <2> QED BY <2>7, <2>8, <2>9, <2>11, <2>12, <2>13 DEF Sifting
<1> QED BY <1>6, <1>7

(* Below count, so much of s is a heap as the code has settled.               *)
LEMMA SettledIsHeap ==
    ASSUME NEW s0 \in Seq(Ents), NEW count \in 0..Len(s0), NEW from \in Nat,
           NEW st \in Sifting(s0, from, count, count)
    PROVE  st.s \in Seq(Ents) /\ Shuffled(st.s, s0, count) /\ HeapFrom(st.s, from, count)
<1>1. PICK s \in Seq(Ents), root \in Nat : s = st.s /\ root = st.root BY DEF Sifting
<1>2. PICK n \in Nat : n = Len(s0) BY LenProperties
<1>3. count \in Nat /\ count <= n BY <1>2
<1>4. /\ Shuffled(s, s0, count) /\ from <= root
      /\ Settled(st, count) \/ root >= from + count
      /\ \A k \in from..count - 1 : k # root => OverChildren(s, k, s[k + 1], count)
  BY <1>1 DEF Sifting
<1>5. Len(s) = n /\ \A k \in 1..n : s[k] \in Ents
  <2>1. Len(s) = n BY <1>2, <1>4 DEF Shuffled
  <2> QED BY <2>1, ElementOfSeq
<1>6. Settled(st, count)
  <2>1. root >= from + count => 2 * root + 1 >= count BY <1>3
  <2> QED BY <1>1, <1>4, <2>1 DEF Settled
<1>7. root < count => OverChildren(s, root, s[root + 1], count)
  <2>1. CASE 2 * root + 1 >= count
    <3>1. \A c \in {2 * root + 1, 2 * root + 2} : ~(c < count) BY <1>3, <2>1
    <3> QED BY <3>1 DEF OverChildren
  <2>2. CASE 2 * root + 1 < count
    <3>1. PICK c : c = LargerChild(s, root, count) OBVIOUS
    <3>2. count \in 0..Len(s) BY <1>3, <1>5
    <3>3. /\ c \in {2 * root + 1, 2 * root + 2} /\ c < count /\ c \in Nat
          /\ \A d \in {2 * root + 1, 2 * root + 2} : d < count => ~Greater(s[d + 1], s[c + 1])
      BY <2>2, <3>1, <3>2, LargerChildIs
    <3>4. ~Greater(s[c + 1], s[root + 1])
      <4>1. ~(2 * root + 1 >= count) BY <1>3, <2>2
      <4> QED BY <1>1, <1>6, <3>1, <4>1 DEF Settled
    <3>5. ASSUME NEW d \in {2 * root + 1, 2 * root + 2}, d < count PROVE ~Greater(s[d + 1], s[root + 1])
      <4>1. d + 1 \in 1..n /\ c + 1 \in 1..n /\ root + 1 \in 1..n BY <1>3, <2>2, <3>3, <3>5
      <4>2. ~Greater(s[d + 1], s[c + 1]) BY <3>3, <3>5
      <4> QED BY <1>5, <3>4, <4>1, <4>2, Ordered
    <3> QED BY <3>5 DEF OverChildren
  <2> QED BY <1>3, <2>1, <2>2
<1>8. HeapFrom(s, from, count)
  <2>1. ASSUME NEW k \in from..count - 1 PROVE OverChildren(s, k, s[k + 1], count)
    <3>1. k = root => root < count BY <1>3
    <3> QED BY <1>4, <1>7, <3>1
  <2> QED BY <2>1 DEF HeapFrom
<1> QED BY <1>1, <1>4, <1>8

LEMMA SiftIs ==
    ASSUME NEW s \in Seq(Ents), NEW count \in 0..Len(s), NEW from \in Nat, HeapFrom(s, from + 1, count)
    PROVE  /\ Sift(s, from, count) \in Seq(Ents) /\ Shuffled(Sift(s, from, count), s, count)
           /\ HeapFrom(Sift(s, from, count), from, count)
<1>1. PICK n \in Nat : n = count OBVIOUS
<1>2. PICK base : base = [s |-> s, root |-> from] OBVIOUS
<1>3. PICK T : T = [k \in 0..n |-> Sifting(s, from, count, k)] OBVIOUS
<1>4. base \in T[0]
  <2>1. base \in [s : Seq(Ents), root : Nat] /\ base.s = s /\ base.root = from BY <1>2
  <2>2. Shuffled(s, s, count) BY ShuffleNone
  <2>3. \A k \in from..count - 1 : k # from => OverChildren(s, k, s[k + 1], count)
    <3>1. \A k \in from..count - 1 : k # from => k \in from + 1..count - 1 BY <1>1
    <3> QED BY <3>1 DEF HeapFrom
  <2>4. \A k \in from..count - 1 : from \notin {2 * k + 1, 2 * k + 2} BY <1>1
  <2>5. from <= from /\ from >= from + 0 OBVIOUS
  <2>6. base \in Sifting(s, from, count, 0) BY <2>1, <2>2, <2>3, <2>4, <2>5 DEF Sifting
  <2> QED BY <1>3, <2>6
<1>5. ASSUME NEW k \in 1..n, NEW x \in T[k - 1] PROVE SiftOne(x, count) \in T[k]
  <2>1. k \in 0..n /\ k - 1 \in 0..n /\ k \in 1..count BY <1>1
  <2>2. x \in Sifting(s, from, count, k - 1) BY <1>3, <2>1
  <2>3. SiftOne(x, count) \in Sifting(s, from, count, k) BY <2>1, <2>2, SiftOneStays
  <2> QED BY <1>3, <2>1, <2>3
<1>6. PICK D : D = [s : Seq(Ents), root : Nat] OBVIOUS
<1>7. \A k \in 0..n : T[k] \subseteq D BY <1>3, <1>6 DEF Sifting
<1>8. PICK F : F = [z \in D \X (1..n) |-> SiftOne(z[1], count)] OBVIOUS
<1>9. ASSUME NEW x \in D, NEW i \in 1..n PROVE F[<<x, i>>] = SiftOne(x, count)
  <2>1. <<x, i>> \in D \X (1..n) OBVIOUS
  <2>2. <<x, i>>[1] = x OBVIOUS
  <2>3. F[<<x, i>>] = SiftOne(<<x, i>>[1], count) BY <1>8, <2>1, Zenon
  <2> QED BY <2>2, <2>3
<1>10. PICK f : Loop(f, n, base, F) BY LoopExists
<1>11. \A i \in 0..n : f[i] \in T[i]
  <2>1. ASSUME NEW i \in 1..n, NEW x \in T[i - 1] PROVE F[<<x, i>>] \in T[i]
    <3>1. i - 1 \in 0..n OBVIOUS
    <3>2. x \in D BY <1>7, <3>1
    <3> QED BY <1>5, <1>9, <3>2
  <2>2. \A i \in 1..n : \A x \in T[i - 1] : F[<<x, i>>] \in T[i] BY <2>1
  <2> QED BY <1>4, <1>10, <2>2, LoopStays
<1> DEFINE Is(h) == h = [k \in 0..count |-> IF k = 0 THEN [s |-> s, root |-> from] ELSE SiftOne(h[k - 1], count)]
<1>12. Is(f)
  <2>1. ASSUME NEW i \in 0..n PROVE f[i] = IF i = 0 THEN base ELSE SiftOne(f[i - 1], count)
    <3>1. CASE i = 0 BY <1>10, <3>1 DEF Loop
    <3>2. CASE i # 0
      <4>1. i \in 1..n /\ i - 1 \in 0..n BY <3>2
      <4>2. f[i] = F[<<f[i - 1], i>>] BY <1>10, <3>2 DEF Loop
      <4>3. f[i - 1] \in D BY <1>7, <1>11, <4>1
      <4> QED BY <1>9, <3>2, <4>1, <4>2, <4>3
    <3> QED BY <3>1, <3>2
  <2>2. f = [i \in 0..n |-> f[i]] BY <1>10 DEF Loop
  <2>3. f = [i \in 0..n |-> IF i = 0 THEN base ELSE SiftOne(f[i - 1], count)] BY <2>1, <2>2
  <2> QED BY <1>1, <1>2, <2>3
<1>13. PICK g : g = (CHOOSE h : Is(h)) /\ Is(g)
  <2> HIDE DEF Is
  <2> QED BY <1>12
<1>14. g[n] \in T[n]
  <2>1. PICK H : H = {i \in 0..n : g[i] \in T[i]} OBVIOUS
  <2>2. \A i \in 0..n : g[i] = IF i = 0 THEN base ELSE SiftOne(g[i - 1], count) BY <1>1, <1>2, <1>13
  <2>3. 0 \in H BY <1>4, <2>1, <2>2
  <2>4. ASSUME NEW i \in 1..n, i - 1 \in H PROVE i \in H
    <3>1. i \in 0..n /\ i # 0 OBVIOUS
    <3>2. g[i] = SiftOne(g[i - 1], count) BY <2>2, <3>1
    <3>3. PICK x \in T[i - 1] : x = g[i - 1] BY <2>1, <2>4
    <3>4. SiftOne(x, count) \in T[i] BY <1>5
    <3> QED BY <2>1, <3>1, <3>2, <3>3, <3>4
  <2>5. 0..n \subseteq H BY <2>3, <2>4, Upwards
  <2> QED BY <2>1, <2>5
<1>15. PICK st : st = IF n <= 0 THEN base ELSE g[n] OBVIOUS
<1>16. st \in Sifting(s, from, count, count)
  <2>1. CASE n = 0 BY <1>1, <1>3, <1>4, <1>15, <2>1
  <2>2. CASE n # 0 BY <1>1, <1>3, <1>14, <1>15, <2>2
  <2> QED BY <2>1, <2>2
<1>17. Sift(s, from, count) = st.s
  <2>1. Sift(s, from, count) =
          (IF count <= 0 THEN [s |-> s, root |-> from] ELSE (CHOOSE h : Is(h))[count]).s
    BY DEF Sift, Iterate, SiftOne, Settled, LargerChild
  <2>2. st = IF count <= 0 THEN [s |-> s, root |-> from] ELSE (CHOOSE h : Is(h))[count]
    <3> HIDE DEF Is
    <3> QED BY <1>1, <1>2, <1>13, <1>15
  <2> HIDE DEF Is
  <2> QED BY <2>1, <2>2
<1> QED BY <1>16, <1>17, SettledIsHeap

-----------------------------------------------------------------------------
(* Sorting an index.                                                       *)

(* The two loops of db_index_sort.                                            *)
BuildOne(h, n, i) == Sift(h, n \div 2 - i, n)

TakeOne(h, n, i) == Sift(Swap(h, 1, n - i + 1), 0, n - i)

Built(s) == Iterate(LAMBDA h, i : Sift(h, Len(s) \div 2 - i, Len(s)), s, Len(s) \div 2)

Emptied(heap, n) == Iterate(LAMBDA h, i : Sift(Swap(h, 1, n - i + 1), 0, n - i), heap, n - 1)

LEMMA HeapSortTwice == \A s : HeapSort(s) = Emptied(Built(s), Len(s))
BY DEF HeapSort, Emptied, Built, Iterate

Building(s, n, i) == {h \in Seq(Ents) : Shuffled(h, s, n) /\ HeapFrom(h, n \div 2 - i, n)}

Above(h, n, m) == \A b \in m + 1..n : \A a \in 1..b - 1 : ~Greater(h[a], h[b])

Emptying(s, n, i) ==
    {h \in Seq(Ents) : Shuffled(h, s, n) /\ HeapFrom(h, 0, n - i) /\ Above(h, n, n - i)}

LEMMA BuildOneStays ==
    ASSUME NEW s \in Seq(Ents), NEW n \in Nat, n = Len(s), NEW i \in 1..n \div 2, NEW h \in Building(s, n, i - 1)
    PROVE  BuildOne(h, n, i) \in Building(s, n, i)
<1>1. h \in Seq(Ents) /\ Shuffled(h, s, n) /\ HeapFrom(h, n \div 2 - (i - 1), n) BY DEF Building
<1>2. PICK q \in Nat : q = n \div 2 OBVIOUS
<1>3. PICK from \in Nat : from = q - i /\ from + 1 = q - (i - 1) BY <1>2
<1>4. n \in 0..Len(h) BY <1>1 DEF Shuffled
<1>5. HeapFrom(h, from + 1, n) BY <1>1, <1>2, <1>3
<1>6. PICK r : r = Sift(h, from, n) OBVIOUS
<1>7. r \in Seq(Ents) /\ Shuffled(r, h, n) /\ HeapFrom(r, from, n) BY <1>1, <1>4, <1>5, <1>6, SiftIs
<1>8. Shuffled(r, s, n) BY <1>1, <1>7, ShuffleMore
<1>9. r = BuildOne(h, n, i) BY <1>2, <1>3, <1>6 DEF BuildOne
<1> QED BY <1>2, <1>3, <1>7, <1>8, <1>9 DEF Building

LEMMA BuildStarts ==
    ASSUME NEW s \in Seq(Ents), NEW n \in Nat
    PROVE  s \in Building(s, n, 0)
<1>1. Shuffled(s, s, n) BY ShuffleNone
<1>2. PICK q \in Nat : q = n \div 2 OBVIOUS
<1>3. n <= 2 * q + 1 BY <1>2
<1>4. ASSUME NEW k \in q - 0..n - 1 PROVE OverChildren(s, k, s[k + 1], n)
  <2>1. k \in Nat /\ q <= k BY <1>2
  <2>2. \A c \in {2 * k + 1, 2 * k + 2} : ~(c < n) BY <1>3, <2>1
  <2> QED BY <2>2 DEF OverChildren
<1>5. HeapFrom(s, n \div 2 - 0, n) BY <1>2, <1>4 DEF HeapFrom
<1> QED BY <1>1, <1>5 DEF Building

(* The first entry of a heap is not below any other.                          *)
LEMMA TopIsGreatest ==
    ASSUME NEW h \in Seq(Ents), NEW m \in 1..Len(h), HeapFrom(h, 0, m), NEW k \in 1..m
    PROVE  ~Greater(h[k], h[1])
<1>1. PICK n \in Nat : n = Len(h) /\ \A j \in 1..n : h[j] \in Ents BY ElementOfSeq, LenProperties
<1>2. m \in Nat /\ 1 <= m /\ m <= n BY <1>1
<1>3. PICK H : H = {i \in 0..m : \A j \in 1..i : ~Greater(h[j], h[1])} OBVIOUS
<1>4. 0 \in H BY <1>2, <1>3
<1>5. ASSUME NEW i \in 1..m, i - 1 \in H PROVE i \in H
  <2>1. ~Greater(h[i], h[1])
    <3>1. CASE i = 1
      <4>1. h[1] \in Ents BY <1>1, <1>2
      <4> QED BY <3>1, <4>1, Ordered
    <3>2. CASE i # 1
      <4>1. PICK p \in Nat : i - 1 = 2 * p + 1 \/ i - 1 = 2 * p + 2
        <5>1. PICK j \in Nat : i = j + 2 BY <3>2
        <5>2. PICK p \in Nat : j = 2 * p \/ j = 2 * p + 1
          <6>1. j \div 2 \in Nat /\ (j = 2 * (j \div 2) \/ j = 2 * (j \div 2) + 1) OBVIOUS
          <6> QED BY <6>1
        <5>3. i - 1 = 2 * p + 1 \/ i - 1 = 2 * p + 2 BY <5>1, <5>2
        <5> QED BY <5>3
      <4>2. p \in 0..m - 1 /\ p + 1 \in 1..i - 1 /\ i - 1 < m BY <1>2, <4>1
      <4>3. OverChildren(h, p, h[p + 1], m) BY <4>2 DEF HeapFrom
      <4>4. ~Greater(h[i - 1 + 1], h[p + 1]) BY <4>1, <4>2, <4>3 DEF OverChildren
      <4>5. i - 1 + 1 = i OBVIOUS
      <4>6. ~Greater(h[p + 1], h[1]) BY <1>3, <1>5, <4>2
      <4>7. h[i] \in Ents /\ h[p + 1] \in Ents /\ h[1] \in Ents BY <1>1, <1>2, <4>2
      <4> QED BY <4>4, <4>5, <4>6, <4>7, Ordered
    <3> QED BY <3>1, <3>2
  <2>2. \A j \in 1..i : j \in 1..i - 1 \/ j = i OBVIOUS
  <2>3. \A j \in 1..i - 1 : ~Greater(h[j], h[1]) BY <1>3, <1>5
  <2>4. \A j \in 1..i : ~Greater(h[j], h[1]) BY <2>1, <2>2, <2>3
  <2>5. i \in 0..m OBVIOUS
  <2> QED BY <1>3, <2>4, <2>5
<1>6. 0..m \subseteq H BY <1>2, <1>4, <1>5, Upwards
<1>7. m \in H BY <1>2, <1>6
<1> QED BY <1>3, <1>7

LEMMA TakeOneStays ==
    ASSUME NEW s \in Seq(Ents), NEW n \in Nat, n = Len(s), NEW i \in 1..n - 1, NEW h \in Emptying(s, n, i - 1)
    PROVE  TakeOne(h, n, i) \in Emptying(s, n, i)
<1>1. /\ h \in Seq(Ents) /\ Shuffled(h, s, n) /\ HeapFrom(h, 0, n - (i - 1)) /\ Above(h, n, n - (i - 1))
  BY DEF Emptying
<1>2. PICK m \in Nat : m = n - i /\ m + 1 = n - (i - 1) /\ m + 1 = n - i + 1 /\ m >= 1 /\ m + 1 <= n
  <2>1. n - i \in Nat /\ n - i + 1 = n - (i - 1) /\ n - i >= 1 /\ n - i + 1 <= n OBVIOUS
  <2> QED BY <2>1
<1>3. Len(h) = n /\ \A j \in 1..n : h[j] \in Ents
  <2>1. Len(h) = n BY <1>1 DEF Shuffled
  <2> QED BY <1>1, <2>1, ElementOfSeq
<1>4. HeapFrom(h, 0, m + 1) /\ Above(h, n, m + 1) BY <1>1, <1>2
<1>5. PICK g : g = Swap(h, 1, m + 1) OBVIOUS
<1>6. /\ g \in Seq(Ents) /\ Len(g) = n /\ g[m + 1] = h[1]
      /\ \A k \in 1..n : k # 1 /\ k # m + 1 => g[k] = h[k]
  <2>1. 1 \in 1..Len(h) /\ m + 1 \in 1..Len(h) BY <1>2, <1>3
  <2>2. /\ Swap(h, 1, m + 1) \in Seq(Ents) /\ Len(Swap(h, 1, m + 1)) = Len(h)
        /\ Swap(h, 1, m + 1)[m + 1] = h[1]
        /\ \A k \in 1..Len(h) : k # 1 /\ k # m + 1 => Swap(h, 1, m + 1)[k] = h[k]
    BY <1>1, <2>1, SwapIs
  <2> QED BY <1>3, <1>5, <2>2
<1>7. Shuffled(g, h, m + 1)
  <2>1. m + 1 \in 0..Len(h) /\ 1 \in 1..m + 1 /\ m + 1 \in 1..m + 1 BY <1>2, <1>3
  <2>2. Shuffled(Swap(h, 1, m + 1), h, m + 1) BY <1>1, <2>1, SwapShuffles
  <2> QED BY <1>5, <2>2
<1>8. HeapFrom(g, 0 + 1, m)
  <2>1. ASSUME NEW k \in 0 + 1..m - 1, NEW c \in {2 * k + 1, 2 * k + 2}, c < m PROVE ~Greater(g[c + 1], g[k + 1])
    <3>1. k \in 0..m + 1 - 1 /\ c < m + 1 /\ c + 1 \in 1..n /\ k + 1 \in 1..n BY <1>2, <2>1
    <3>2. c + 1 # 1 /\ c + 1 # m + 1 /\ k + 1 # 1 /\ k + 1 # m + 1 BY <1>2, <2>1
    <3>3. OverChildren(h, k, h[k + 1], m + 1) BY <1>4, <3>1 DEF HeapFrom
    <3>4. ~Greater(h[c + 1], h[k + 1]) BY <3>1, <3>3 DEF OverChildren
    <3> QED BY <1>6, <3>1, <3>2, <3>4
  <2> QED BY <2>1 DEF HeapFrom, OverChildren
<1>9. PICK r : r = Sift(g, 0, m) OBVIOUS
<1>10. r \in Seq(Ents) /\ Shuffled(r, g, m) /\ HeapFrom(r, 0, m)
  <2>1. m \in 0..Len(g) /\ 0 \in Nat BY <1>2, <1>6
  <2>2. /\ Sift(g, 0, m) \in Seq(Ents) /\ Shuffled(Sift(g, 0, m), g, m)
        /\ HeapFrom(Sift(g, 0, m), 0, m)
    BY <1>6, <1>8, <2>1, SiftIs
  <2> QED BY <1>9, <2>2
<1>11. Shuffled(r, h, m + 1)
  <2>1. m + 1 \in Nat /\ m <= m + 1 /\ m + 1 <= Len(g) BY <1>2, <1>6
  <2>2. Shuffled(r, g, m + 1) BY <1>6, <1>10, <2>1, ShuffleWider
  <2> QED BY <1>7, <2>2, ShuffleMore
<1>12. Shuffled(r, s, n)
  <2>1. m + 1 \in Nat /\ m + 1 <= n /\ n <= Len(h) BY <1>2, <1>3
  <2>2. Shuffled(r, h, n) BY <1>1, <1>10, <1>11, <2>1, ShuffleWider
  <2> QED BY <1>1, <2>2, ShuffleMore
<1>13. Above(r, n, m)
  <2>1. ASSUME NEW b \in m + 1..n, NEW a \in 1..b - 1 PROVE ~Greater(r[a], r[b])
    <3>1. a \in 1..n /\ b \in 1..n BY <1>2
    <3>2. \A j \in m + 1 + 1..n : r[j] = h[j] BY <1>3, <1>11 DEF Shuffled
    <3>3. r[m + 1] = h[1]
      <4>1. m + 1 \in m + 1..Len(g) BY <1>2, <1>6
      <4>2. r[m + 1] = g[m + 1] BY <1>10, <4>1 DEF Shuffled
      <4> QED BY <1>6, <4>2
    <3>4. CASE b = m + 1
      <4>1. a \in 1..m + 1 BY <3>4
      <4>2. PICK k \in 1..m + 1 : r[a] = h[k] BY <1>11, <4>1 DEF Shuffled
      <4>3. m + 1 \in 1..Len(h) BY <1>2, <1>3
      <4>4. ~Greater(h[k], h[1]) BY <1>1, <1>4, <4>3, TopIsGreatest
      <4> QED BY <3>3, <3>4, <4>2, <4>4
    <3>5. CASE b # m + 1
      <4>0. b \in m + 1 + 1..n BY <1>2, <3>5
      <4>1. b \in m + 1 + 1..n /\ r[b] = h[b] BY <3>2, <4>0
      <4>2. \E k \in 1..b - 1 : r[a] = h[k]
        <5>1. CASE a \in 1..m + 1
          <6>1. PICK k \in 1..m + 1 : r[a] = h[k] BY <1>11, <5>1 DEF Shuffled
          <6>2. k \in 1..b - 1 BY <1>2, <4>1
          <6> QED BY <6>1, <6>2
        <5>2. CASE a \notin 1..m + 1
          <6>1. a \in m + 1 + 1..n BY <1>2, <3>1, <5>2
          <6> QED BY <3>2, <6>1
        <5> QED BY <5>1, <5>2
      <4>3. PICK k \in 1..b - 1 : r[a] = h[k] BY <4>2
      <4>4. ~Greater(h[k], h[b]) BY <1>4, <4>1, <4>3 DEF Above
      <4> QED BY <4>1, <4>3, <4>4
    <3> QED BY <3>4, <3>5
  <2> QED BY <2>1 DEF Above
<1>14. r = TakeOne(h, n, i) BY <1>2, <1>5, <1>9 DEF TakeOne
<1> QED BY <1>2, <1>10, <1>12, <1>13, <1>14 DEF Emptying

LEMMA BuiltIs ==
    ASSUME NEW s \in Seq(Ents), NEW n \in Nat, n = Len(s)
    PROVE  Built(s) \in Seq(Ents) /\ Shuffled(Built(s), s, n) /\ HeapFrom(Built(s), 0, n)
<1>1. PICK m \in Nat : m = n \div 2 /\ m = Len(s) \div 2 OBVIOUS
<1>2. PICK T : T = [k \in 0..m |-> Building(s, n, k)] OBVIOUS
<1>3. s \in T[0] BY <1>1, <1>2, BuildStarts
<1>4. ASSUME NEW k \in 1..m, NEW x \in T[k - 1] PROVE BuildOne(x, n, k) \in T[k]
  <2>1. k \in 0..m /\ k - 1 \in 0..m OBVIOUS
  <2>2. x \in Building(s, n, k - 1) BY <1>2, <2>1
  <2>3. BuildOne(x, n, k) \in Building(s, n, k) BY <1>1, <2>2, BuildOneStays
  <2> QED BY <1>2, <2>1, <2>3
<1>5. PICK D : D = Seq(Ents) OBVIOUS
<1>6. \A k \in 0..m : T[k] \subseteq D BY <1>2, <1>5 DEF Building
<1>7. PICK F : F = [z \in D \X (1..m) |-> BuildOne(z[1], n, z[2])] OBVIOUS
<1>8. ASSUME NEW x \in D, NEW i \in 1..m PROVE F[<<x, i>>] = BuildOne(x, n, i)
  <2>1. <<x, i>> \in D \X (1..m) OBVIOUS
  <2>2. <<x, i>>[1] = x /\ <<x, i>>[2] = i OBVIOUS
  <2>3. F[<<x, i>>] = BuildOne(<<x, i>>[1], n, <<x, i>>[2]) BY <1>7, <2>1, Zenon
  <2> QED BY <2>2, <2>3
<1>9. PICK f : Loop(f, m, s, F) BY LoopExists
<1>10. \A i \in 0..m : f[i] \in T[i]
  <2>1. ASSUME NEW i \in 1..m, NEW x \in T[i - 1] PROVE F[<<x, i>>] \in T[i]
    <3>1. i - 1 \in 0..m OBVIOUS
    <3>2. x \in D BY <1>6, <3>1
    <3> QED BY <1>4, <1>8, <3>2
  <2>2. \A i \in 1..m : \A x \in T[i - 1] : F[<<x, i>>] \in T[i] BY <2>1
  <2> QED BY <1>3, <1>9, <2>2, LoopStays
<1> DEFINE Is(h) == h = [i \in 0..Len(s) \div 2 |-> IF i = 0 THEN s ELSE Sift(h[i - 1], Len(s) \div 2 - i, Len(s))]
<1>11. Is(f)
  <2>1. ASSUME NEW i \in 0..m PROVE f[i] = IF i = 0 THEN s ELSE BuildOne(f[i - 1], n, i)
    <3>1. CASE i = 0 BY <1>9, <3>1 DEF Loop
    <3>2. CASE i # 0
      <4>1. i \in 1..m /\ i - 1 \in 0..m BY <3>2
      <4>2. f[i] = F[<<f[i - 1], i>>] BY <1>9, <3>2 DEF Loop
      <4>3. f[i - 1] \in D BY <1>6, <1>10, <4>1
      <4> QED BY <1>8, <3>2, <4>1, <4>2, <4>3
    <3> QED BY <3>1, <3>2
  <2>2. f = [i \in 0..m |-> f[i]] BY <1>9 DEF Loop
  <2>3. f = [i \in 0..m |-> IF i = 0 THEN s ELSE BuildOne(f[i - 1], n, i)] BY <2>1, <2>2
  <2> QED BY <1>1, <2>3 DEF BuildOne
<1>12. PICK g : g = (CHOOSE h : Is(h)) /\ Is(g)
  <2> HIDE DEF Is
  <2> QED BY <1>11
<1>13. g[m] \in T[m]
  <2>1. PICK H : H = {i \in 0..m : g[i] \in T[i]} OBVIOUS
  <2>2. \A i \in 0..m : g[i] = IF i = 0 THEN s ELSE BuildOne(g[i - 1], n, i)
    <3>1. \A i \in 0..Len(s) \div 2 : g[i] = IF i = 0 THEN s ELSE Sift(g[i - 1], Len(s) \div 2 - i, Len(s))
      BY <1>12
    <3>2. \A i : BuildOne(g[i - 1], n, i) = Sift(g[i - 1], Len(s) \div 2 - i, Len(s)) BY DEF BuildOne
    <3> QED BY <1>1, <3>1, <3>2
  <2>3. 0 \in H BY <1>3, <2>1, <2>2
  <2>4. ASSUME NEW i \in 1..m, i - 1 \in H PROVE i \in H
    <3>1. i \in 0..m /\ i # 0 OBVIOUS
    <3>2. g[i] = BuildOne(g[i - 1], n, i) BY <2>2, <3>1
    <3>3. PICK x \in T[i - 1] : x = g[i - 1] BY <2>1, <2>4
    <3>4. BuildOne(x, n, i) \in T[i] BY <1>4
    <3> QED BY <2>1, <3>1, <3>2, <3>3, <3>4
  <2>5. 0..m \subseteq H BY <2>3, <2>4, Upwards
  <2> QED BY <2>1, <2>5
<1>14. PICK r : r = IF m <= 0 THEN s ELSE g[m] OBVIOUS
<1>15. r \in Building(s, n, m)
  <2>1. CASE m = 0 BY <1>2, <1>3, <1>14, <2>1
  <2>2. CASE m # 0 BY <1>2, <1>13, <1>14, <2>2
  <2> QED BY <2>1, <2>2
<1>16. Built(s) = r
  <2>1. Built(s) = IF Len(s) \div 2 <= 0 THEN s ELSE (CHOOSE h : Is(h))[Len(s) \div 2]
    BY DEF Built, Iterate
  <2>2. r = IF Len(s) \div 2 <= 0 THEN s ELSE (CHOOSE h : Is(h))[Len(s) \div 2]
    <3> HIDE DEF Is
    <3> QED BY <1>1, <1>12, <1>14
  <2> HIDE DEF Is
  <2> QED BY <2>1, <2>2
<1>17. n \div 2 - m = 0 BY <1>1
<1> QED BY <1>15, <1>16, <1>17 DEF Building

LEMMA EmptyStarts ==
    ASSUME NEW s, NEW n \in Nat, NEW h \in Seq(Ents), Shuffled(h, s, n), HeapFrom(h, 0, n)
    PROVE  h \in Emptying(s, n, 0)
<1>1. n - 0 = n OBVIOUS
<1>2. Above(h, n, n)
  <2>1. n + 1..n = {} OBVIOUS
  <2> QED BY <2>1 DEF Above
<1> QED BY <1>1, <1>2 DEF Emptying

LEMMA EmptiedIs ==
    ASSUME NEW s \in Seq(Ents), NEW n \in Nat, n = Len(s), NEW heap \in Seq(Ents),
           Shuffled(heap, s, n), HeapFrom(heap, 0, n)
    PROVE  LET r == Emptied(heap, n)
           IN  r \in Seq(Ents) /\ Shuffled(r, s, n) /\ \A b \in 1..n : \A a \in 1..b - 1 : ~Greater(r[a], r[b])
<1>01. CASE n = 0
  <2>1. n - 1 <= 0 /\ 1..n = {} BY <1>01
  <2>2. Emptied(heap, n) = heap BY <2>1 DEF Emptied, Iterate
  <2> QED BY <2>1, <2>2
<1>02. CASE n # 0
  <2>1. PICK m \in Nat : m = n - 1 BY <1>02
  <2>2. PICK T : T = [k \in 0..m |-> Emptying(s, n, k)] OBVIOUS
  <2>3. heap \in T[0] BY <2>1, <2>2, EmptyStarts
  <2>4. ASSUME NEW k \in 1..m, NEW x \in T[k - 1] PROVE TakeOne(x, n, k) \in T[k]
    <3>1. k \in 0..m /\ k - 1 \in 0..m OBVIOUS
    <3>2. x \in Emptying(s, n, k - 1) BY <2>2, <3>1
    <3>3. TakeOne(x, n, k) \in Emptying(s, n, k) BY <2>1, <3>2, TakeOneStays
    <3> QED BY <2>2, <3>1, <3>3
  <2>5. PICK D : D = Seq(Ents) OBVIOUS
  <2>6. \A k \in 0..m : T[k] \subseteq D BY <2>2, <2>5 DEF Emptying
  <2>7. PICK F : F = [z \in D \X (1..m) |-> TakeOne(z[1], n, z[2])] OBVIOUS
  <2>8. ASSUME NEW x \in D, NEW i \in 1..m PROVE F[<<x, i>>] = TakeOne(x, n, i)
    <3>1. <<x, i>> \in D \X (1..m) OBVIOUS
    <3>2. <<x, i>>[1] = x /\ <<x, i>>[2] = i OBVIOUS
    <3>3. F[<<x, i>>] = TakeOne(<<x, i>>[1], n, <<x, i>>[2]) BY <2>7, <3>1, Zenon
    <3> QED BY <3>2, <3>3
  <2>9. PICK f : Loop(f, m, heap, F) BY LoopExists
  <2>10. \A i \in 0..m : f[i] \in T[i]
    <3>1. ASSUME NEW i \in 1..m, NEW x \in T[i - 1] PROVE F[<<x, i>>] \in T[i]
      <4>1. i - 1 \in 0..m OBVIOUS
      <4>2. x \in D BY <2>6, <4>1
      <4> QED BY <2>4, <2>8, <4>2
    <3>2. \A i \in 1..m : \A x \in T[i - 1] : F[<<x, i>>] \in T[i] BY <3>1
    <3> QED BY <2>3, <2>9, <3>2, LoopStays
  <2> DEFINE Is(h) == h = [i \in 0..n - 1 |-> IF i = 0 THEN heap ELSE Sift(Swap(h[i - 1], 1, n - i + 1), 0, n - i)]
  <2>11. Is(f)
    <3>1. ASSUME NEW i \in 0..m PROVE f[i] = IF i = 0 THEN heap ELSE TakeOne(f[i - 1], n, i)
      <4>1. CASE i = 0 BY <2>9, <4>1 DEF Loop
      <4>2. CASE i # 0
        <5>1. i \in 1..m /\ i - 1 \in 0..m BY <4>2
        <5>2. f[i] = F[<<f[i - 1], i>>] BY <2>9, <4>2 DEF Loop
        <5>3. f[i - 1] \in D BY <2>6, <2>10, <5>1
        <5> QED BY <2>8, <4>2, <5>1, <5>2, <5>3
      <4> QED BY <4>1, <4>2
    <3>2. f = [i \in 0..m |-> f[i]] BY <2>9 DEF Loop
    <3>3. f = [i \in 0..m |-> IF i = 0 THEN heap ELSE TakeOne(f[i - 1], n, i)] BY <3>1, <3>2
    <3> QED BY <2>1, <3>3 DEF TakeOne
  <2>12. PICK g : g = (CHOOSE h : Is(h)) /\ Is(g)
    <3> HIDE DEF Is
    <3> QED BY <2>11
  <2>13. g[m] \in T[m]
    <3>1. PICK H : H = {i \in 0..m : g[i] \in T[i]} OBVIOUS
    <3>2. \A i \in 0..m : g[i] = IF i = 0 THEN heap ELSE TakeOne(g[i - 1], n, i) BY <2>1, <2>12 DEF TakeOne
    <3>3. 0 \in H BY <2>3, <3>1, <3>2
    <3>4. ASSUME NEW i \in 1..m, i - 1 \in H PROVE i \in H
      <4>1. i \in 0..m /\ i # 0 OBVIOUS
      <4>2. g[i] = TakeOne(g[i - 1], n, i) BY <3>2, <4>1
      <4>3. PICK x \in T[i - 1] : x = g[i - 1] BY <3>1, <3>4
      <4>4. TakeOne(x, n, i) \in T[i] BY <2>4
      <4> QED BY <3>1, <4>1, <4>2, <4>3, <4>4
    <3>5. 0..m \subseteq H BY <3>3, <3>4, Upwards
    <3> QED BY <3>1, <3>5
  <2>14. PICK r : r = IF m <= 0 THEN heap ELSE g[m] OBVIOUS
  <2>15. r \in Emptying(s, n, m)
    <3>1. CASE m = 0 BY <2>2, <2>3, <2>14, <3>1
    <3>2. CASE m # 0 BY <2>2, <2>13, <2>14, <3>2
    <3> QED BY <3>1, <3>2
  <2>16. Emptied(heap, n) = r
    <3>1. Emptied(heap, n) = IF n - 1 <= 0 THEN heap ELSE (CHOOSE h : Is(h))[n - 1]
      BY DEF Emptied, Iterate
    <3>2. r = IF n - 1 <= 0 THEN heap ELSE (CHOOSE h : Is(h))[n - 1]
      <4> HIDE DEF Is
      <4> QED BY <2>1, <2>12, <2>14
    <3> HIDE DEF Is
    <3> QED BY <3>1, <3>2
  <2>17. /\ r \in Seq(Ents) /\ Shuffled(r, s, n) /\ Above(r, n, 1)
    <3>1. n - m = 1 BY <2>1
    <3> QED BY <2>15, <3>1 DEF Emptying
  <2>18. ASSUME NEW b \in 1..n, NEW a \in 1..b - 1 PROVE ~Greater(r[a], r[b])
    <3>1. b \in 1 + 1..n OBVIOUS
    <3> QED BY <2>17, <3>1 DEF Above
  <2> QED BY <2>16, <2>17, <2>18
<1> QED BY <1>01, <1>02

(* db_index_sort puts the entries in order.                                   *)
LEMMA HeapSortIs ==
    ASSUME NEW s \in Seq(Ents)
    PROVE  LET r == HeapSort(s)
           IN  /\ r \in Seq(Ents) /\ Shuffled(r, s, Len(s))
               /\ \A b \in 1..Len(s) : \A a \in 1..b - 1 : ~Greater(r[a], r[b])
<1>1. PICK n \in Nat : n = Len(s) BY LenProperties
<1>2. PICK heap : heap = Built(s) OBVIOUS
<1>3. heap \in Seq(Ents) /\ Shuffled(heap, s, n) /\ HeapFrom(heap, 0, n) BY <1>1, <1>2, BuiltIs
<1>4. PICK r : r = Emptied(heap, n) OBVIOUS
<1>5. r \in Seq(Ents) /\ Shuffled(r, s, n) /\ \A b \in 1..n : \A a \in 1..b - 1 : ~Greater(r[a], r[b])
  BY <1>1, <1>3, <1>4, EmptiedIs
<1>6. HeapSort(s) = r BY <1>1, <1>2, <1>4, HeapSortTwice
<1> QED BY <1>1, <1>5, <1>6

-----------------------------------------------------------------------------
(* What an index holds.                                                    *)

IndexRecs == [name : IndexNames, tid : Nat, col : Nat, ents : Seq(Ents)]

(* An index is on an INT column of a table.                                   *)
OnColumn(ix, ts) ==
    /\ ix.tid \in 1..Len(ts) /\ ix.col \in DOMAIN ts[ix.tid].types
    /\ ts[ix.tid].types[ix.col] = 0

(* The entries are the keys in column col and the identities of the rows.     *)
Keyed(ents, col, rows) ==
    /\ \A x \in rows : \E k \in 1..Len(ents) : ents[k] = <<x.val[col], x.id>>
    /\ \A k \in 1..Len(ents) : \E x \in rows : ents[k] = <<x.val[col], x.id>>

Rising(ents) == \A k \in 1..Len(ents) - 1 : Greater(ents[k + 1], ents[k])

IndexGood(ix, pg, ts) ==
    /\ OnColumn(ix, ts) /\ Rising(ix.ents)
    /\ Keyed(ix.ents, ix.col, TagRows(pg, ix.tid))

IndexesGood(ixs, pg, ts) ==
    /\ ixs \in Seq(IndexRecs) /\ Len(ixs) <= MaxIndexes
    /\ \A i \in 1..Len(ixs) : IndexGood(ixs[i], pg, ts)

(* What a statement keeps of pages, catalogue and addresses.                  *)
Stored(pg, ts, ptr, nr) == Catalogue(ts) /\ TablesHold(pg, ts) /\ RowsGood(pg, ts, ptr, nr)

LEMMA StoredIs ==
    ASSUME NEW pg, NEW ts, NEW ptr, NEW nr, Stored(pg, ts, ptr, nr)
    PROVE  /\ Catalogue(ts) /\ TablesHold(pg, ts) /\ PagesIn(pg, Len(ts)) /\ Tidied(pg, ts)
           /\ Located(pg, ptr, nr) /\ RowsDiffer(pg)
BY RowsAreListed DEF Stored, RowsGood

(* The address, the identity and the key of a row.                            *)
LEMMA RowKey ==
    ASSUME NEW pg, NEW ts, NEW ptr, NEW nr, Stored(pg, ts, ptr, nr), NEW t \in 1..Len(ts), NEW x \in TagRows(pg, t)
    PROVE  /\ x.id \in RowIds /\ ptr[x.id] = x.at
           /\ \E p \in Pages : pg[p].tid = t /\ \E j \in 1..Len(pg[p].slots) :
                 x.at = <<p, j>> /\ x = PageRows(pg, p)[j]
           /\ \A c \in DOMAIN ts[t].types : ts[t].types[c] = 0 => x.val[c] \in Ints /\ <<x.val[c], x.id>> \in Ents
<1>1. /\ Catalogue(ts) /\ PagesIn(pg, Len(ts)) /\ Tidied(pg, ts) /\ Located(pg, ptr, nr) BY StoredIs
<1>2. PICK p \in Pages : pg[p].tid = t /\ x \in RowsAt(pg, p) BY DEF TagRows
<1>3. PICK j \in 1..Len(pg[p].slots) : x = PageRows(pg, p)[j] BY <1>2 DEF RowsAt
<1>4. PageRows(pg, p)[j] = [id |-> pg[p].slots[j].row, at |-> <<p, j>>, val |-> pg[p].recs[j]]
  BY <1>1, PageRowsAre
<1>5. x.id = pg[p].slots[j].row /\ x.at = <<p, j>> /\ x.val = pg[p].recs[j] BY <1>3, <1>4
<1>6. x.id \in RowIds BY <1>1, <1>5, PageIs
<1>7. ptr[x.id] = x.at BY <1>1, <1>5 DEF Located
<1>8. PICK v \in RowVals(ts[t].types) : v = pg[p].recs[j]
  <2>1. t # 0 OBVIOUS
  <2>2. pg[p].recs \in Seq(RowVals(ts[t].types)) /\ Len(pg[p].recs) = Len(pg[p].slots)
    BY <1>1, <1>2, <2>1 DEF Tidied, Tidy
  <2>3. j \in 1..Len(pg[p].recs) BY <2>2
  <2> QED BY <2>2, <2>3, ElementOfSeq
<1>9. ASSUME NEW c \in DOMAIN ts[t].types, ts[t].types[c] = 0 PROVE x.val[c] \in Ints /\ <<x.val[c], x.id>> \in Ents
  <2>1. v[c] \in Ints BY <1>9 DEF RowVals
  <2>2. Ints \subseteq Int BY DbAssumptions DEF DbAssumptions
  <2>3. x.id \in Int BY <1>6, Sizes DEF RowIds
  <2>4. x.val[c] \in Ints /\ x.val[c] \in Int BY <1>5, <1>8, <2>1, <2>2
  <2> QED BY <2>3, <2>4 DEF Ents
<1> QED BY <1>2, <1>3, <1>5, <1>6, <1>7, <1>9

LEMMA Quotient ==
    ASSUME NEW a \in Nat, NEW w \in Nat, w >= 1, NEW n \in Nat, n * w <= a
    PROVE  a \div w \in Nat /\ n <= a \div w
<1>1. PICK q \in Int, r \in Int : q = a \div w /\ a = q * w + r /\ 0 <= r /\ r < w
  <2>1. a \div w \in Int /\ a % w \in 0..w - 1 /\ a = (a \div w) * w + (a % w) OBVIOUS
  <2> QED BY <2>1
<1>2. q \in Nat
  <2>1. SUFFICES ASSUME q < 0 PROVE FALSE OBVIOUS
  <2>2. PICK k \in Nat : q = -1 - k BY <2>1
  <2>3. q * w = -w - k * w BY <2>2
  <2>4. k * w \in Nat OBVIOUS
  <2> QED BY <1>1, <2>3, <2>4
<1>3. n <= q
  <2>1. SUFFICES ASSUME n > q PROVE FALSE BY <1>2
  <2>2. PICK k \in Nat : n = q + 1 + k BY <1>2, <2>1
  <2>3. n * w = q * w + w + k * w BY <1>2, <2>2
  <2>4. k * w \in Nat /\ q * w \in Nat BY <1>2
  <2> QED BY <1>1, <2>3, <2>4
<1> QED BY <1>1, <1>2, <1>3

(* An index has room for the rows of any table.                               *)
LEMMA RowsFit ==
    ASSUME NEW pg, NEW ts, NEW ptr, NEW nr, Stored(pg, ts, ptr, nr), NEW t \in 1..Len(ts)
    PROVE  /\ Lists(TableRows(pg, ts[t]), TagRows(pg, t))
           /\ Len(TableRows(pg, ts[t])) \in 0..IndexRows
<1>1. /\ Catalogue(ts) /\ TablesHold(pg, ts) /\ PagesIn(pg, Len(ts)) /\ Tidied(pg, ts) /\ RowsDiffer(pg) BY StoredIs
<1>2. PICK rows : rows = TableRows(pg, ts[t]) OBVIOUS
<1>3. Lists(rows, TagRows(pg, t))
  <2>1. PICK c : Holds(pg, ts[t], t, c) BY <1>1 DEF TablesHold
  <2> QED BY <1>1, <1>2, <2>1, TagRowsListed
<1>4. PICK s \in Schemas : s = ts[t].types BY <1>1, TabsIn
<1>5. PICK w \in Nat : w = SlotSize + RecSize(s) /\ w >= 1 BY SchemaIs, Sizes
<1>6. PICK a \in Nat : a = PageSize - HeaderSize
  <2>1. RecSize(s) \in Nat /\ HeaderSize + SlotSize + RecSize(s) <= PageSize BY SchemaIs
  <2> QED BY <2>1, Sizes
<1>7. PICK k \in Nat : k = a \div w
  <2>1. 0 * w <= a OBVIOUS
  <2> QED BY <1>5, <2>1, Quotient
<1>8. IndexRows >= NPages * k BY <1>4, <1>5, <1>6, <1>7, DbAssumptions DEF DbAssumptions
<1>9. ASSUME NEW p \in Pages, pg[p].tid = t PROVE Len(pg[p].slots) \in 0..k
  <2>1. PICK n \in Nat : n = Len(pg[p].slots) BY <1>1, PageIs
  <2>2. HeaderSize + n * w <= PageSize
    <3>1. t # 0 OBVIOUS
    <3> QED BY <1>1, <1>4, <1>5, <1>9, <2>1, <3>1 DEF Tidied, Tidy
  <2>3. n * w \in Nat OBVIOUS
  <2>4. n * w <= a BY <1>6, <2>2, <2>3, Sizes
  <2>5. n <= k BY <1>5, <1>7, <2>4, Quotient
  <2> QED BY <2>1, <2>5
<1>10. PICK l \in Nat : l = Len(rows) BY <1>3, LenProperties DEF Lists
<1>11. PICK f : f = [i \in 1..l |-> rows[i].at] OBVIOUS
<1>12. PICK S, T : S = 1..l /\ T = Pages \X (1..k) OBVIOUS
<1>13. \A i \in 1..l : rows[i] \in TagRows(pg, t) BY <1>3, <1>10, ElementOfSeq DEF Lists
<1>14. f \in Injection(S, T)
  <2>1. ASSUME NEW i \in 1..l PROVE f[i] \in T
    <3>1. PICK p \in Pages : pg[p].tid = t /\ \E j \in 1..Len(pg[p].slots) : rows[i].at = <<p, j>>
      BY SMTT(30), <1>13, RowKey
    <3>2. PICK j \in 1..Len(pg[p].slots) : rows[i].at = <<p, j>> BY <3>1
    <3>3. j \in 1..k BY <1>9, <3>1
    <3>4. <<p, j>> \in Pages \X (1..k) BY <3>3
    <3>5. f[i] = <<p, j>> BY <1>11, <3>2
    <3> QED BY <1>12, <3>4, <3>5
  <2>2. ASSUME NEW i \in 1..l, NEW j \in 1..l, f[i] = f[j] PROVE i = j
    <3>1. rows[i].at = rows[j].at BY <1>11, <2>2
    <3>2. PICK x \in TagRows(pg, t), y \in TagRows(pg, t) : x = rows[i] /\ y = rows[j] BY <1>13
    <3>3. PICK p \in Pages : \E m \in 1..Len(pg[p].slots) : x.at = <<p, m>> /\ x = PageRows(pg, p)[m] BY RowKey
    <3>4. PICK m \in 1..Len(pg[p].slots) : x.at = <<p, m>> /\ x = PageRows(pg, p)[m] BY <3>3
    <3>5. PICK q \in Pages : \E o \in 1..Len(pg[q].slots) : y.at = <<q, o>> /\ y = PageRows(pg, q)[o] BY RowKey
    <3>6. PICK o \in 1..Len(pg[q].slots) : y.at = <<q, o>> /\ y = PageRows(pg, q)[o] BY <3>5
    <3>60. <<p, m>> = <<q, o>> BY <3>1, <3>2, <3>4, <3>6
    <3>61. p = q /\ m = o BY <3>60
    <3>7. rows[i] = rows[j] BY <3>2, <3>4, <3>6, <3>61
    <3> QED BY <1>3, <1>10, <3>7 DEF Lists
  <2>3. f \in [S -> T] BY <1>11, <1>12, <2>1
  <2> QED BY <1>12, <2>2, <2>3 DEF Injection, IsInjective
<1>15. IsFiniteSet(S) /\ Cardinality(S) = l BY <1>12, FS_Interval
<1>16. IsFiniteSet(T) /\ Cardinality(T) = NPages * k
  <2>1. IsFiniteSet(Pages) /\ Cardinality(Pages) = NPages BY Sizes, FS_Interval DEF Pages
  <2>2. IsFiniteSet(1..k) /\ Cardinality(1..k) = k BY FS_Interval
  <2>3. IsFiniteSet(Pages \X (1..k)) /\ Cardinality(Pages \X (1..k)) = Cardinality(Pages) * Cardinality(1..k)
    BY <2>1, <2>2, FS_Product
  <2> QED BY <1>12, <2>1, <2>2, <2>3
<1>17. l <= NPages * k BY <1>14, <1>15, <1>16, FS_Injection DEF ExistsInjection
<1>18. NPages * k \in Nat BY Sizes
<1> QED BY <1>2, <1>3, <1>8, <1>10, <1>17, <1>18, Sizes

-----------------------------------------------------------------------------
(* Rebuilding an index.                                                    *)

LEMMA IndexIs ==
    ASSUME NEW ix \in IndexRecs
    PROVE  /\ ix.tid \in Nat /\ ix.col \in Nat /\ ix.ents \in Seq(Ents)
           /\ \A e \in Seq(Ents) : LET new == [ix EXCEPT !.ents = e]
                                   IN  new \in IndexRecs /\ new.tid = ix.tid /\ new.col = ix.col /\ new.ents = e
           /\ \A t \in Nat : LET new == [ix EXCEPT !.tid = t]
                             IN  new \in IndexRecs /\ new.tid = t /\ new.col = ix.col /\ new.ents = ix.ents
BY DEF IndexRecs

(* db_index_rebuild.                                                          *)
LEMMA RebuildIs ==
    ASSUME NEW pg, NEW ts, NEW ptr, NEW nr, Stored(pg, ts, ptr, nr), NEW ix \in IndexRecs, OnColumn(ix, ts)
    PROVE  /\ Rebuild(pg, ts, ix) \in IndexRecs /\ Rebuild(pg, ts, ix).tid = ix.tid
           /\ Rebuild(pg, ts, ix).col = ix.col
           /\ IndexGood(Rebuild(pg, ts, ix), pg, ts)
<1>1. PICK t \in 1..Len(ts), c \in Nat :
         t = ix.tid /\ c = ix.col /\ c \in DOMAIN ts[t].types /\ ts[t].types[c] = 0
  <2>1. ix.col \in Nat BY IndexIs
  <2> QED BY <2>1 DEF OnColumn
<1>2. PICK rows : rows = TableRows(pg, ts[t]) OBVIOUS
<1>3. Lists(rows, TagRows(pg, t)) /\ Len(rows) \in 0..IndexRows BY <1>2, RowsFit
<1>4. PICK n \in Nat : n = Len(rows) /\ n <= IndexRows BY <1>3, Sizes
<1>5. DOMAIN rows = 1..n /\ \A i \in 1..n : rows[i] \in TagRows(pg, t)
  BY <1>3, <1>4, LenProperties, ElementOfSeq DEF Lists
<1>6. PICK ents : ents = [i \in 1..n |-> <<rows[i].val[c], rows[i].id>>] OBVIOUS
<1>7. ASSUME NEW x \in TagRows(pg, t) PROVE <<x.val[c], x.id>> \in Ents
  <2>1. \A d \in DOMAIN ts[t].types : ts[t].types[d] = 0 => <<x.val[d], x.id>> \in Ents BY RowKey
  <2> QED BY <1>1, <2>1
<1>8. ents \in Seq(Ents) /\ Len(ents) = n /\ DOMAIN ents = 1..n
  <2>1. \A i \in 1..n : ents[i] \in Ents BY <1>5, <1>6, <1>7
  <2>2. ents \in [1..n -> Ents] BY <1>6, <2>1
  <2> QED BY <2>2
<1>9. Distinct(ents)
  <2>1. ASSUME NEW i \in 1..n, NEW j \in 1..n, ents[i] = ents[j] PROVE i = j
    <3>1. PICK x \in TagRows(pg, t), y \in TagRows(pg, t) : x = rows[i] /\ y = rows[j] BY <1>5
    <3>2. <<x.val[c], x.id>> = <<y.val[c], y.id>> BY <1>6, <2>1, <3>1
    <3>3. x.id = y.id BY <3>2
    <3>4. x.at = y.at
      <4>1. ptr[x.id] = x.at /\ ptr[y.id] = y.at BY RowKey
      <4> QED BY <3>3, <4>1
    <3>5. PICK p \in Pages : \E m \in 1..Len(pg[p].slots) : x.at = <<p, m>> /\ x = PageRows(pg, p)[m] BY RowKey
    <3>6. PICK m \in 1..Len(pg[p].slots) : x.at = <<p, m>> /\ x = PageRows(pg, p)[m] BY <3>5
    <3>7. PICK q \in Pages : \E o \in 1..Len(pg[q].slots) : y.at = <<q, o>> /\ y = PageRows(pg, q)[o] BY RowKey
    <3>8. PICK o \in 1..Len(pg[q].slots) : y.at = <<q, o>> /\ y = PageRows(pg, q)[o] BY <3>7
    <3>9. <<p, m>> = <<q, o>> BY <3>4, <3>6, <3>8
    <3>10. p = q /\ m = o BY <3>9
    <3>11. rows[i] = rows[j] BY <3>1, <3>6, <3>8, <3>10
    <3> QED BY <1>3, <1>4, <3>11 DEF Lists
  <2> QED BY <1>8, <2>1 DEF Distinct
<1>10. PICK r : r = HeapSort(ents) OBVIOUS
<1>11. r \in Seq(Ents) /\ Shuffled(r, ents, n) /\ \A b \in 1..n : \A a \in 1..b - 1 : ~Greater(r[a], r[b])
  <2>1. /\ HeapSort(ents) \in Seq(Ents) /\ Shuffled(HeapSort(ents), ents, Len(ents))
        /\ \A b \in 1..Len(ents) : \A a \in 1..b - 1 : ~Greater(HeapSort(ents)[a], HeapSort(ents)[b])
    BY <1>8, HeapSortIs
  <2> QED BY <1>8, <1>10, <2>1
<1>12. Len(r) = n /\ Distinct(r) /\ DOMAIN r = 1..n
  <2>1. Len(r) = n /\ Distinct(r) BY <1>8, <1>9, <1>11 DEF Shuffled
  <2> QED BY <1>11, <2>1, LenProperties
<1>13. Rising(r)
  <2>1. ASSUME NEW k \in 1..n - 1 PROVE Greater(r[k + 1], r[k])
    <3>1. k + 1 \in 1..n /\ k \in 1..n /\ k \in 1..k + 1 - 1 /\ k # k + 1 OBVIOUS
    <3>2. ~Greater(r[k], r[k + 1]) BY <1>11, <3>1
    <3>3. r[k] # r[k + 1] BY <1>12, <3>1 DEF Distinct
    <3>4. r[k] \in Ents /\ r[k + 1] \in Ents BY <1>11, <1>12, <3>1, ElementOfSeq
    <3> QED BY <3>2, <3>3, <3>4, Ordered
  <2> QED BY <1>12, <2>1 DEF Rising
<1>14. Keyed(r, c, TagRows(pg, t))
  <2>1. ASSUME NEW x \in TagRows(pg, t) PROVE \E k \in 1..n : r[k] = <<x.val[c], x.id>>
    <3>1. PICK i \in 1..n : rows[i] = x BY <1>3, <1>4 DEF Lists
    <3>2. PICK k \in 1..n : ents[i] = r[k] BY <1>11 DEF Shuffled
    <3> QED BY <1>6, <3>1, <3>2
  <2>2. ASSUME NEW k \in 1..n PROVE \E x \in TagRows(pg, t) : r[k] = <<x.val[c], x.id>>
    <3>1. PICK i \in 1..n : r[k] = ents[i] BY <1>11 DEF Shuffled
    <3> QED BY <1>5, <1>6, <3>1
  <2> QED BY <1>12, <2>1, <2>2 DEF Keyed
<1>15. PICK new : new = [ix EXCEPT !.ents = r] OBVIOUS
<1>16. new \in IndexRecs /\ new.tid = t /\ new.col = c /\ new.ents = r BY <1>1, <1>11, <1>15, IndexIs
<1>17. Rebuild(pg, ts, ix) = new
  <2>1. ix.tid \in DOMAIN ts
    <3>1. DOMAIN ts = 1..Len(ts) BY StoredIs, TabsIn
    <3> QED BY <1>1, <3>1
  <2>2. ~(Len(ents) > IndexRows) BY <1>4, <1>8, Sizes
  <2>3. [i \in DOMAIN rows |-> <<rows[i].val[ix.col], rows[i].id>>] = ents BY <1>1, <1>5, <1>6
  <2>4. Rebuild(pg, ts, ix) = [ix EXCEPT !.ents = IF Len(ents) > IndexRows THEN SubSeq(ents, 1, IndexRows)
                                                  ELSE HeapSort(ents)]
    BY <1>1, <1>2, <2>1, <2>3 DEF Rebuild
  <2> QED BY <1>10, <1>15, <2>2, <2>4
<1>18. IndexGood(new, pg, ts) BY <1>1, <1>13, <1>14, <1>16 DEF IndexGood, OnColumn
<1> QED BY <1>1, <1>16, <1>17, <1>18

(* An array of n indexes, given one by one.                                   *)
LEMMA GoodList ==
    ASSUME NEW pg, NEW ts, NEW n \in Nat, n <= MaxIndexes, NEW f, f = [i \in 1..n |-> f[i]],
           \A i \in 1..n : f[i] \in IndexRecs /\ IndexGood(f[i], pg, ts)
    PROVE  IndexesGood(f, pg, ts)
<1>1. f \in [1..n -> IndexRecs] OBVIOUS
<1>2. f \in Seq(IndexRecs) /\ Len(f) = n BY <1>1
<1> QED BY <1>2 DEF IndexesGood

(* db_index_rebuild_table, with every index of another table in order.        *)
LEMMA RebuiltGood ==
    ASSUME NEW pg, NEW ts, NEW ptr, NEW nr, Stored(pg, ts, ptr, nr), NEW ixs \in Seq(IndexRecs),
           Len(ixs) <= MaxIndexes, NEW t,
           \A i \in 1..Len(ixs) : OnColumn(ixs[i], ts) /\ (ixs[i].tid # t => IndexGood(ixs[i], pg, ts))
    PROVE  IndexesGood(RebuildTable(pg, ts, ixs, t), pg, ts)
<1>1. PICK n \in Nat : n = Len(ixs) BY LenProperties
<1>2. DOMAIN ixs = 1..n /\ \A i \in 1..n : ixs[i] \in IndexRecs BY <1>1, LenProperties, ElementOfSeq
<1>3. PICK f : f = RebuildTable(pg, ts, ixs, t) OBVIOUS
<1>4. f = [i \in 1..n |-> f[i]] BY <1>2, <1>3 DEF RebuildTable
<1>5. ASSUME NEW i \in 1..n PROVE f[i] \in IndexRecs /\ IndexGood(f[i], pg, ts)
  <2>1. PICK ix \in IndexRecs : ix = ixs[i] BY <1>2
  <2>2. f[i] = IF ix.tid = t THEN Rebuild(pg, ts, ix) ELSE ix BY <1>2, <1>3, <2>1 DEF RebuildTable
  <2>3. OnColumn(ix, ts) /\ (ix.tid # t => IndexGood(ix, pg, ts)) BY <1>1, <2>1
  <2>4. Rebuild(pg, ts, ix) \in IndexRecs /\ IndexGood(Rebuild(pg, ts, ix), pg, ts) BY <2>3, RebuildIs
  <2> QED BY <2>2, <2>3, <2>4
<1> QED BY <1>1, <1>3, <1>4, <1>5, GoodList

(* Pages of table t in new that show the rows of table s in pg.               *)
LEMMA RowsSame ==
    ASSUME NEW pg, NEW new, NEW s, NEW t,
           \A q \in Pages : pg[q].tid = s => new[q].tid = t
               /\ new[q].slots = pg[q].slots /\ new[q].recs = pg[q].recs,
           \A q \in Pages : new[q].tid = t => pg[q].tid = s \/ new[q].slots = << >>
    PROVE  TagRows(new, t) = TagRows(pg, s)
<1>1. ASSUME NEW q \in Pages, pg[q].tid = s PROVE RowsAt(new, q) = RowsAt(pg, q)
  <2>1. new[q].slots = pg[q].slots /\ new[q].recs = pg[q].recs BY <1>1
  <2>2. PageRows(new, q) = PageRows(pg, q) BY <2>1 DEF PageRows
  <2> QED BY <2>1, <2>2 DEF RowsAt
<1>2. ASSUME NEW q \in Pages, new[q].slots = << >> PROVE RowsAt(new, q) = {}
  BY <1>2, NoPlaces DEF RowsAt
<1>3. ASSUME NEW x PROVE x \in TagRows(new, t) <=> x \in TagRows(pg, s)
  <2>1. ASSUME x \in TagRows(new, t) PROVE x \in TagRows(pg, s)
    <3>1. PICK q \in Pages : new[q].tid = t /\ x \in RowsAt(new, q) BY <2>1 DEF TagRows
    <3>2. pg[q].tid = s BY <1>2, <3>1
    <3> QED BY <1>1, <3>1, <3>2 DEF TagRows
  <2>2. ASSUME x \in TagRows(pg, s) PROVE x \in TagRows(new, t)
    <3>1. PICK q \in Pages : pg[q].tid = s /\ x \in RowsAt(pg, q) BY <2>2 DEF TagRows
    <3>2. new[q].tid = t BY <3>1
    <3> QED BY <1>1, <3>1, <3>2 DEF TagRows
  <2> QED BY <2>1, <2>2
<1> QED BY <1>3

LEMMA StillGood ==
    ASSUME NEW pg, NEW ts, NEW new, NEW us, NEW ix, IndexGood(ix, pg, ts),
           Len(us) \in Nat, Len(ts) \in Nat, ix.tid <= Len(us), us[ix.tid].types = ts[ix.tid].types,
           TagRows(new, ix.tid) = TagRows(pg, ix.tid)
    PROVE  IndexGood(ix, new, us)
BY DEF IndexGood, OnColumn

(* The property follows.                                                      *)
LEMMA ExactFollows ==
    ASSUME StoreInv, IndexesGood(idx, page, tabs)
    PROVE  IndexesExact
<1>1. PICK n \in Nat : n = Len(idx) /\ DOMAIN idx = 1..n BY LenProperties DEF IndexesGood
<1>2. Stored(page, tabs, row_ptr, next_rowid) BY DEF StoreInv, Stored
<1>3. DOMAIN tabs = 1..Len(tabs) BY TabsIn DEF StoreInv
<1>4. ASSUME NEW i \in 1..n
      PROVE  /\ idx[i].tid \in DOMAIN tabs
             /\ idx[i].col \in DOMAIN tabs[idx[i].tid].types
             /\ tabs[idx[i].tid].types[idx[i].col] = 0
             /\ LET rows == TableRows(page, tabs[idx[i].tid])
                    ents == idx[i].ents
                IN  /\ ToSet(ents) = {<<rows[k].val[idx[i].col], rows[k].id>> : k \in DOMAIN rows}
                    /\ \A k \in 1 .. Len(ents) - 1 : Greater(ents[k + 1], ents[k])
  <2>1. PICK ix \in IndexRecs : ix = idx[i] /\ IndexGood(ix, page, tabs)
    BY <1>1, ElementOfSeq DEF IndexesGood
  <2>2. PICK t \in 1..Len(tabs), c \in Nat, ents \in Seq(Ents) : t = ix.tid /\ c = ix.col /\ ents = ix.ents
    <3>1. ix.tid \in 1..Len(tabs) BY <2>1 DEF IndexGood, OnColumn
    <3>2. ix.ents \in Seq(Ents) /\ ix.col \in Nat BY IndexIs
    <3> QED BY <3>1, <3>2
  <2>3. PICK rows : rows = TableRows(page, tabs[t]) OBVIOUS
  <2>4. Lists(rows, TagRows(page, t)) BY <1>2, <2>3, RowsFit
  <2>5. DOMAIN rows = 1..Len(rows) /\ \A k \in 1..Len(rows) : rows[k] \in TagRows(page, t)
    BY <2>4, LenProperties, ElementOfSeq DEF Lists
  <2>6. DOMAIN ents = 1..Len(ents) BY LenProperties
  <2>7. Keyed(ents, c, TagRows(page, t)) /\ Rising(ents) BY <2>1, <2>2 DEF IndexGood
  <2>8. ASSUME NEW e PROVE e \in ToSet(ents) <=> e \in {<<rows[k].val[c], rows[k].id>> : k \in DOMAIN rows}
    <3>1. e \in ToSet(ents) <=> \E k \in 1..Len(ents) : ents[k] = e BY <2>6 DEF ToSet
    <3>2. ASSUME NEW k \in 1..Len(ents), ents[k] = e PROVE \E j \in 1..Len(rows) : e = <<rows[j].val[c], rows[j].id>>
      <4>1. PICK x \in TagRows(page, t) : ents[k] = <<x.val[c], x.id>> BY <2>7 DEF Keyed
      <4>2. PICK j \in 1..Len(rows) : rows[j] = x BY <2>4 DEF Lists
      <4> QED BY <3>2, <4>1, <4>2
    <3>3. ASSUME NEW j \in 1..Len(rows), e = <<rows[j].val[c], rows[j].id>> PROVE \E k \in 1..Len(ents) : ents[k] = e
      BY <2>5, <2>7, <3>3 DEF Keyed
    <3> QED BY <2>5, <3>1, <3>2, <3>3
  <2>9. ToSet(ents) = {<<rows[k].val[c], rows[k].id>> : k \in DOMAIN rows} BY <2>8
  <2>10. c \in DOMAIN tabs[t].types /\ tabs[t].types[c] = 0 BY <2>1, <2>2 DEF IndexGood, OnColumn
  <2> QED BY <1>3, <2>1, <2>2, <2>3, <2>7, <2>9, <2>10 DEF Rising
<1> QED BY <1>1, <1>4 DEF IndexesExact

-----------------------------------------------------------------------------
(* The indexes after a statement.                                          *)

LEMMA AllGood ==
    ASSUME NEW pg, NEW ts, NEW new, NEW us, Catalogue(ts), Catalogue(us), Len(ts) <= Len(us),
           \A i \in 1..Len(ts) : us[i].types = ts[i].types /\ TagRows(new, i) = TagRows(pg, i),
           NEW ixs, IndexesGood(ixs, pg, ts)
    PROVE  IndexesGood(ixs, new, us)
<1>1. Len(ts) \in Nat /\ Len(us) \in Nat BY TabsIn, Sizes
<1>2. ASSUME NEW i \in 1..Len(ixs) PROVE IndexGood(ixs[i], new, us)
  <2>1. PICK ix : ix = ixs[i] /\ IndexGood(ix, pg, ts) BY DEF IndexesGood
  <2>2. ix.tid \in 1..Len(ts) BY <2>1 DEF IndexGood, OnColumn
  <2>3. ix.tid <= Len(us) BY <1>1, <2>2
  <2>4. IndexGood(ix, new, us) BY <1>1, <2>1, <2>2, <2>3, StillGood
  <2> QED BY <2>1, <2>4
<1> QED BY <1>2 DEF IndexesGood

LEMMA OthersGood ==
    ASSUME NEW pg, NEW ts, NEW new, NEW us, NEW ptr, NEW nr, Stored(new, us, ptr, nr),
           Catalogue(ts), Len(ts) <= Len(us), NEW t,
           \A i \in 1..Len(ts) : us[i].types = ts[i].types /\ (i # t => TagRows(new, i) = TagRows(pg, i)),
           NEW ixs, IndexesGood(ixs, pg, ts)
    PROVE  IndexesGood(RebuildTable(new, us, ixs, t), new, us)
<1>1. Len(ts) \in Nat /\ Len(us) \in Nat /\ Catalogue(us) BY StoredIs, TabsIn, Sizes
<1>2. ASSUME NEW i \in 1..Len(ixs) PROVE OnColumn(ixs[i], us) /\ (ixs[i].tid # t => IndexGood(ixs[i], new, us))
  <2>1. PICK ix : ix = ixs[i] /\ IndexGood(ix, pg, ts) BY DEF IndexesGood
  <2>2. ix.tid \in 1..Len(ts) BY <2>1 DEF IndexGood, OnColumn
  <2>3. ix.tid <= Len(us) /\ us[ix.tid].types = ts[ix.tid].types BY <1>1, <2>2
  <2>4. OnColumn(ix, us) BY <1>1, <2>1, <2>2, <2>3 DEF IndexGood, OnColumn
  <2>5. ix.tid # t => TagRows(new, ix.tid) = TagRows(pg, ix.tid) BY <2>2
  <2>6. ix.tid # t => IndexGood(ix, new, us) BY <1>1, <2>1, <2>3, <2>5, StillGood
  <2> QED BY <2>1, <2>4, <2>6
<1>3. ixs \in Seq(IndexRecs) /\ Len(ixs) <= MaxIndexes BY DEF IndexesGood
<1> QED BY <1>2, <1>3, RebuiltGood

LEMMA StoreIs ==
    ASSUME StoreInv
    PROVE  /\ Stored(page, tabs, row_ptr, next_rowid) /\ Catalogue(tabs)
           /\ DOMAIN tabs = 1..Len(tabs) /\ Len(tabs) \in 0..MaxTables /\ MaxTables \in Nat
           /\ page \in [Pages -> PageRecs] /\ PagesIn(page, Len(tabs))
BY TabsIn, Sizes DEF StoreInv, Stored, RowsGood, PagesIn

(* A statement that writes to the pages of table t only.                      *)
Frame(pg, new, t) == \A q \in Pages : new[q].tid = pg[q].tid /\ (pg[q].tid # t => new[q] = pg[q])

LEMMA FrameKeeps ==
    ASSUME NEW pg, NEW new, NEW t, NEW i, i # t, Frame(pg, new, t)
    PROVE  TagRows(new, i) = TagRows(pg, i)
<1>1. \A q \in Pages : pg[q].tid = i => new[q].tid = i /\ new[q].slots = pg[q].slots /\ new[q].recs = pg[q].recs
  BY DEF Frame
<1>2. \A q \in Pages : new[q].tid = i => pg[q].tid = i BY DEF Frame
<1> QED BY <1>1, <1>2, RowsSame

LEMMA CreateKeeps ==
    ASSUME StoreInv, StoreInv', IndexesGood(idx, page, tabs), NEW n \in Names, NEW s \in Schemas, CreateTable(n, s)
    PROVE  IndexesGood(idx', page', tabs')
<1>1. PICK p, t : p = AllocPage /\ t = Len(tabs) + 1 OBVIOUS
<1>2. PICK tab : tab = [name |-> n, types |-> s, first |-> p, last |-> p] OBVIOUS
<1>3. /\ AllocPage # 0 /\ TakePage /\ page' = [page EXCEPT ![p] = EmptyPage(t)]
      /\ tabs' = Append(tabs, tab) /\ idx' = idx
  BY <1>1, <1>2 DEF CreateTable
<1>4. Catalogue(tabs) /\ page \in [Pages -> PageRecs] /\ Len(tabs) \in Nat BY StoreIs
<1>5. Catalogue(tabs') BY DEF StoreInv
<1>6. p \in Pages /\ page[p].tid = 0 BY <1>1, <1>3, Allocated
<1>7. tab \in TabRecs BY <1>2, <1>6 DEF TabRecs
<1>8. Len(tabs') = Len(tabs) + 1 /\ \A i \in 1..Len(tabs) : tabs'[i] = tabs[i]
  <2>1. tabs \in Seq(TabRecs) BY <1>4 DEF Catalogue
  <2> QED BY <1>3, <1>7, <2>1, AppendProperties
<1>9. /\ \A q \in Pages : q # p => page'[q] = page[q]
      /\ page'[p].slots = << >>
  <2>1. page'[p] = EmptyPage(t) BY <1>3, <1>4, <1>6
  <2> QED BY <1>3, <1>4, <2>1 DEF EmptyPage
<1>10. ASSUME NEW i \in 1..Len(tabs) PROVE TagRows(page', i) = TagRows(page, i)
  <2>1. i # 0 OBVIOUS
  <2>2. \A q \in Pages : page[q].tid = i => page'[q].tid = i
           /\ page'[q].slots = page[q].slots /\ page'[q].recs = page[q].recs
    BY <1>6, <1>9, <2>1
  <2>3. \A q \in Pages : page'[q].tid = i => page[q].tid = i \/ page'[q].slots = << >> BY <1>9
  <2> QED BY <2>2, <2>3, RowsSame
<1>11. Len(tabs) <= Len(tabs') BY <1>4, <1>8
<1> QED BY <1>3, <1>4, <1>5, <1>8, <1>10, <1>11, AllGood

LEMMA InsertKeeps ==
    ASSUME StoreInv, StoreInv', IndexesGood(idx, page, tabs),
           NEW t \in DOMAIN tabs, NEW vals, Insert(t, vals)
    PROVE  IndexesGood(idx', page', tabs')
<1>1. /\ Catalogue(tabs) /\ page \in [Pages -> PageRecs] /\ Len(tabs) \in Nat /\ t \in 1..Len(tabs)
      /\ PagesIn(page, Len(tabs)) /\ TablesHold(page, tabs)
  BY StoreIs DEF StoreInv
<1>2. Stored(page', tabs', row_ptr', next_rowid') /\ Catalogue(tabs') BY DEF StoreInv, Stored
<1>3. PICK old, rs : old = tabs[t].last /\ rs = RecSize(tabs[t].types) OBVIOUS
<1>4. PICK full : full = (PageSpace(old, rs) < rs + SlotSize) OBVIOUS
<1>5. PICK p : p = IF full THEN AllocPage ELSE old OBVIOUS
<1>6. PICK base : base = IF full THEN Linked(page, p, t, old) ELSE page OBVIOUS
<1>7. PICK off : off = Len(base[p].recs) + 1 OBVIOUS
<1>8. /\ p # 0
      /\ IF full THEN TakePage ELSE UNCHANGED <<next_page, free_list>>
      /\ tabs' = Retailed(tabs, t, p)
      /\ IF next_rowid >= RowLimit
         THEN page' = base /\ idx' = idx
         ELSE page' = RowPut(base, p, off, next_rowid, vals) /\ idx' = RebuildTable(page', tabs', idx, t)
  BY ZenonT(30), <1>3, <1>4, <1>5, <1>6, <1>7 DEF Insert, Linked, Retailed, RowPut
<1>9. old \in Pages /\ page[old].tid = t
  <2>1. PICK c : Holds(page, tabs[t], t, c) BY <1>1 DEF TablesHold
  <2>2. IsChain(page, c) /\ c[Len(c)] = old BY <1>3, <2>1 DEF Holds
  <2>3. Len(c) \in 1..NPages /\ NPages \in Nat /\ \A i \in 1..Len(c) : c[i] \in Pages BY <2>2, ChainIn
  <2>4. Len(c) \in 1..Len(c) BY <2>3
  <2> QED BY <2>1, <2>2, <2>3, <2>4 DEF Holds
<1>10. full => p \in Pages /\ page[p].tid = 0 /\ p # old
  <2>1. full => p \in Pages /\ page[p].tid = 0 BY <1>5, <1>8, Allocated
  <2>2. t # 0 BY <1>1
  <2> QED BY <1>9, <2>1, <2>2
<1>11. p \in Pages BY <1>5, <1>9, <1>10
<1>12. /\ base = [q \in Pages |-> base[q]] /\ base[p].tid = t
       /\ \A q \in Pages : page[q].tid # t /\ q # p => base[q] = page[q]
       /\ \A q \in Pages : page[q].tid = t => base[q].tid = t
            /\ base[q].slots = page[q].slots /\ base[q].recs = page[q].recs
       /\ \A q \in Pages : base[q].tid = t => page[q].tid = t \/ base[q].slots = << >>
       /\ full => base[p] = EmptyPage(t)
  <2>1. CASE ~full
    <3>1. base = page /\ p = old BY <1>5, <1>6, <2>1
    <3>2. base[p].tid = t BY <1>9, <3>1
    <3> QED BY <1>1, <2>1, <3>1, <3>2
  <2>2. CASE full
    <3>1. /\ base[p] = EmptyPage(t) /\ base[old] = [page[old] EXCEPT !.next = p]
          /\ \A q \in Pages : q # p /\ q # old => base[q] = page[q]
          /\ base = [q \in Pages |-> base[q]]
      <4>1. base = Linked(page, p, t, old) BY <1>6, <2>2
      <4> QED BY <1>1, <1>9, <1>10, <2>2, <4>1, LinkedIs
    <3>2. base[p].tid = t /\ base[p].slots = << >> BY <3>1 DEF EmptyPage
    <3>3. base[old].tid = page[old].tid /\ base[old].slots = page[old].slots /\ base[old].recs = page[old].recs
      <4>1. PICK x \in PageRecs : x = page[old] BY <1>1, <1>9
      <4> QED BY <3>1, <4>1 DEF PageRecs
    <3>4. t # 0 BY <1>1
    <3>5. \A q \in Pages : page[q].tid = t => q # p BY <1>10, <2>2, <3>4
    <3> QED BY <1>9, <1>10, <2>2, <3>1, <3>2, <3>3, <3>5
  <2> QED BY <2>1, <2>2
<1>13. Len(tabs') = Len(tabs) /\ \A i \in 1..Len(tabs) : tabs'[i].types = tabs[i].types
  BY <1>1, <1>8, <1>11, RetailedIs
<1>14. Len(tabs) <= Len(tabs') BY <1>1, <1>13
<1>15. CASE next_rowid >= RowLimit
  <2>1. page' = base /\ idx' = idx BY <1>8, <1>15
  <2>2. ASSUME NEW i \in 1..Len(tabs) PROVE TagRows(page', i) = TagRows(page, i)
    <3>1. CASE i = t
      <4>1. \A q \in Pages : page[q].tid = i => page'[q].tid = i
               /\ page'[q].slots = page[q].slots /\ page'[q].recs = page[q].recs
        BY <1>12, <2>1, <3>1
      <4>2. \A q \in Pages : page'[q].tid = i => page[q].tid = i \/ page'[q].slots = << >>
        BY <1>12, <2>1, <3>1
      <4> QED BY <4>1, <4>2, RowsSame
    <3>2. CASE i # t
      <4>1. \A q \in Pages : page[q].tid = i => q # p BY <1>1, <1>5, <1>9, <1>10, <3>2
      <4>2. \A q \in Pages : page[q].tid = i => page'[q].tid = i
               /\ page'[q].slots = page[q].slots /\ page'[q].recs = page[q].recs
        BY <1>12, <2>1, <3>2, <4>1
      <4>3. \A q \in Pages : page'[q].tid = i => page[q].tid = i
        BY <1>12, <2>1, <3>2
      <4> QED BY <4>2, <4>3, RowsSame
    <3> QED BY <3>1, <3>2
  <2> QED BY <1>1, <1>2, <1>13, <1>14, <2>1, <2>2, AllGood
<1>16. CASE ~(next_rowid >= RowLimit)
  <2>1. page' = RowPut(base, p, off, next_rowid, vals) /\ idx' = RebuildTable(page', tabs', idx, t)
    BY <1>8, <1>16
  <2>2. \A q \in Pages : q # p => page'[q] = base[q] BY <1>11, <1>12, <2>1 DEF RowPut
  <2>3. page'[p].tid = t
    <3>1. PICK m \in 0..MaxTables : m = page'[p].tid
      <4>1. PagesIn(page', Len(tabs')) BY DEF StoreInv, RowsGood
      <4> QED BY <1>11, <4>1, PageIs
    <3>2. PICK x \in PageRecs : x = base[p]
      <4>1. CASE full
        <5>1. base[p] = EmptyPage(t) BY <1>12, <4>1
        <5>2. tabs[t].types \in Schemas /\ t \in 0..MaxTables BY <1>1, TabsIn, Sizes
        <5> QED BY <5>1, <5>2, EmptyIsTidy
      <4>2. CASE ~full BY <1>1, <1>5, <1>6, <1>9, <4>2
      <4> QED BY <4>1, <4>2
    <3>3. PICK s, r : page'[p] = [x EXCEPT !.slots = s, !.recs = r]
      BY <1>11, <1>12, <2>1, <3>2 DEF RowPut
    <3> QED BY <1>12, <3>2, <3>3 DEF PageRecs
  <2>4. ASSUME NEW i \in 1..Len(tabs), i # t PROVE TagRows(page', i) = TagRows(page, i)
    <3>1. \A q \in Pages : page[q].tid = i => q # p BY <1>1, <1>5, <1>9, <1>10, <2>4
    <3>2. \A q \in Pages : page[q].tid = i => page'[q].tid = i
             /\ page'[q].slots = page[q].slots /\ page'[q].recs = page[q].recs
      BY <1>12, <2>2, <2>4, <3>1
    <3>3. \A q \in Pages : page'[q].tid = i => page[q].tid = i
      BY <1>12, <2>2, <2>3, <2>4
    <3> QED BY <3>2, <3>3, RowsSame
  <2>5. IndexesGood(RebuildTable(page', tabs', idx, t), page', tabs')
    BY <1>1, <1>2, <1>13, <1>14, <2>4, OthersGood
  <2> QED BY <2>1, <2>5
<1> QED BY <1>15, <1>16

LEMMA UpdateKeeps ==
    ASSUME StoreInv, StoreInv', IndexesGood(idx, page, tabs), NEW t \in DOMAIN tabs,
           NEW c \in DOMAIN tabs[t].types, NEW v \in Literals, NEW w, Update(t, c, v, w)
    PROVE  IndexesGood(idx', page', tabs')
<1>1. Catalogue(tabs) /\ TablesHold(page, tabs) /\ Len(tabs) \in Nat /\ t \in 1..Len(tabs)
      /\ page \in [Pages -> PageRecs]
  BY StoreIs DEF StoreInv
<1>2. Stored(page', tabs', row_ptr', next_rowid') BY DEF StoreInv, Stored
<1>3. PICK d : d = Chain(page, tabs[t].first) OBVIOUS
<1>4. Holds(page, tabs[t], t, d) BY <1>1, <1>3, FirstIsChain
<1>5. \A p \in Pages : p \in ToSet(d) <=> page[p].tid = t
  <2>1. DOMAIN d = 1..Len(d) BY <1>4, ChainIn DEF Holds
  <2> QED BY <1>4, <2>1 DEF Holds, ToSet
<1>6. PICK types : types = tabs[t].types OBVIOUS
<1>7. /\ page' = [p \in Pages |-> IF p \notin ToSet(d) THEN page[p]
                                  ELSE [page[p] EXCEPT !.recs = Rewritten(page[p].recs, types, c, v, w)]]
      /\ tabs' = tabs /\ idx' = RebuildTable(page', tabs', idx, t)
  BY <1>3, <1>6 DEF Update, Rewritten
<1>8. ASSUME NEW q \in Pages PROVE page'[q].tid = page[q].tid /\ (page[q].tid # t => page'[q] = page[q])
  <2>1. PICK x \in PageRecs : x = page[q] BY <1>1
  <2>2. CASE q \in ToSet(d)
    <3>1. page'[q] = [x EXCEPT !.recs = Rewritten(x.recs, types, c, v, w)] BY <1>7, <2>1, <2>2
    <3>2. page'[q].tid = x.tid BY <3>1 DEF PageRecs
    <3> QED BY <1>5, <2>1, <2>2, <3>2
  <2>3. CASE q \notin ToSet(d) BY <1>7, <2>3
  <2> QED BY <2>2, <2>3
<1>9. ASSUME NEW i \in 1..Len(tabs), i # t PROVE TagRows(page', i) = TagRows(page, i)
  <2>1. Frame(page, page', t) BY <1>8 DEF Frame
  <2> QED BY <1>9, <2>1, FrameKeeps
<1> QED BY <1>1, <1>2, <1>7, <1>9, OthersGood

LEMMA DeleteKeeps ==
    ASSUME StoreInv, StoreInv', IndexesGood(idx, page, tabs), NEW t \in DOMAIN tabs, NEW w, Delete(t, w)
    PROVE  IndexesGood(idx', page', tabs')
<1>1. Catalogue(tabs) /\ Len(tabs) \in Nat BY StoreIs
<1>2. Stored(page', tabs', row_ptr', next_rowid') BY DEF StoreInv, Stored
<1>3. /\ tabs' = tabs
      /\ (page' = page /\ idx' = idx) \/ idx' = RebuildTable(page', tabs', idx, t)
  BY DEF Delete
<1>4. Frame(page, page', t) BY DeleteStep DEF Frame
<1>5. ASSUME NEW i \in 1..Len(tabs), i # t PROVE TagRows(page', i) = TagRows(page, i) BY <1>4, <1>5, FrameKeeps
<1>6. CASE page' = page /\ idx' = idx BY <1>3, <1>6
<1>7. CASE idx' = RebuildTable(page', tabs', idx, t) BY <1>1, <1>2, <1>3, <1>5, <1>7, OthersGood
<1> QED BY <1>3, <1>6, <1>7

LEMMA DropKeeps ==
    ASSUME StoreInv, StoreInv', IndexesGood(idx, page, tabs), NEW t \in DOMAIN tabs, DropTable(t)
    PROVE  IndexesGood(idx', page', tabs')
<1>1. PICK n \in Nat : n = Len(tabs)
  <2>1. Len(tabs) \in Nat BY StoreIs
  <2> QED BY <2>1
<1>2. Catalogue(tabs) /\ t \in 1..n /\ PagesIn(page, Len(tabs)) BY <1>1, StoreIs
<1>3. tabs' = Less(tabs, t) /\ idx' = OnDrop(idx, t, n) BY <1>1 DEF DropTable, Less
<1>4. Len(tabs') = n - 1 /\ \A i \in 1..n - 1 : tabs'[i] = IF i = t THEN tabs[n] ELSE tabs[i]
  BY <1>1, <1>2, <1>3, TabsLess
<1>5. Handed(page, page', t, n) BY <1>1, DropStep
<1>6. ASSUME NEW s \in 1..n, s # t
      PROVE  TagRows(page', IF s = n THEN t ELSE s) = TagRows(page, s)
  <2>1. s # 0 /\ t # 0 BY <1>2
  <2>2. CASE s = n
    <3>1. \A q \in Pages : page[q].tid = n => page'[q].tid = t
             /\ page'[q].slots = page[q].slots /\ page'[q].recs = page[q].recs
      BY <1>5, <1>6, <2>2 DEF Handed
    <3>2. \A q \in Pages : page'[q].tid = t => page[q].tid = n \/ page'[q].slots = << >>
      BY <1>5 DEF Handed
    <3>3. TagRows(page', t) = TagRows(page, n) BY <3>1, <3>2, RowsSame
    <3> QED BY <2>2, <3>3
  <2>3. CASE s # n
    <3>1. \A q \in Pages : page[q].tid = s => page'[q].tid = s
             /\ page'[q].slots = page[q].slots /\ page'[q].recs = page[q].recs
      BY <1>5, <1>6, <2>3 DEF Handed
    <3>2. \A q \in Pages : page'[q].tid = s => page[q].tid = s
      BY <1>5, <1>6, <2>1, <2>3 DEF Handed
    <3>3. TagRows(page', s) = TagRows(page, s) BY <3>1, <3>2, RowsSame
    <3> QED BY <2>3, <3>3
  <2> QED BY <2>2, <2>3
<1>7. idx \in Seq(IndexRecs) /\ Len(idx) <= MaxIndexes BY DEF IndexesGood
<1>8. PICK S : S = {ix \in IndexRecs : IndexGood(ix, page, tabs)} OBVIOUS
<1>9. idx \in Seq(S)
  <2>1. PICK m \in Nat : m = Len(idx) BY <1>7, LenProperties
  <2>2. idx \in [1..m -> IndexRecs] BY <1>7, <2>1
  <2>3. \A i \in 1..m : idx[i] \in S BY <1>8, <2>1, <2>2 DEF IndexesGood
  <2>4. idx \in [1..m -> S] BY <2>2, <2>3
  <2> QED BY <2>4
<1>10. PICK left \in Seq(S) : /\ Len(left) <= Len(idx) /\ \A i \in 1..Len(left) : left[i].tid # t
                              /\ OnDrop(idx, t, n) = Renumbered(left, t, n)
  BY <1>9, OnDropIs
<1>11. PICK l \in Nat : l = Len(left) /\ DOMAIN left = 1..l /\ l <= MaxIndexes
  <2>1. PICK l \in Nat : l = Len(left) BY LenProperties
  <2>2. Len(idx) \in Nat BY <1>7, LenProperties
  <2>3. l <= MaxIndexes BY <1>7, <1>10, <2>1, <2>2, Sizes
  <2>4. DOMAIN left = 1..l BY <2>1, LenProperties
  <2> QED BY <2>1, <2>3, <2>4
<1>12. PICK f : f = Renumbered(left, t, n) OBVIOUS
<1>13. f = [i \in 1..l |-> f[i]] BY <1>11, <1>12 DEF Renumbered
<1>14. ASSUME NEW i \in 1..l PROVE f[i] \in IndexRecs /\ IndexGood(f[i], page', tabs')
  <2>1. PICK ix \in S : ix = left[i] BY <1>11, ElementOfSeq
  <2>2. ix \in IndexRecs /\ IndexGood(ix, page, tabs) /\ ix.tid # t BY <1>8, <1>10, <1>11, <2>1
  <2>3. PICK s \in 1..n : s = ix.tid BY <1>1, <2>2 DEF IndexGood, OnColumn
  <2>4. PICK new : new = IF s = n THEN [ix EXCEPT !.tid = t] ELSE ix OBVIOUS
  <2>5. f[i] = new BY <1>11, <1>12, <2>1, <2>3, <2>4 DEF Renumbered
  <2>6. PICK u : u = IF s = n THEN t ELSE s OBVIOUS
  <2>7. new \in IndexRecs /\ new.tid = u /\ new.col = ix.col /\ new.ents = ix.ents
    <3>1. t \in Nat BY <1>2
    <3>2. \A k \in Nat : /\ [ix EXCEPT !.tid = k] \in IndexRecs /\ [ix EXCEPT !.tid = k].tid = k
                         /\ [ix EXCEPT !.tid = k].col = ix.col /\ [ix EXCEPT !.tid = k].ents = ix.ents
      BY <2>2, IndexIs
    <3> QED BY <2>2, <2>3, <2>4, <2>6, <3>1, <3>2
  <2>8. u \in 1..n - 1 /\ tabs'[u] = tabs[s]
    <3>1. s # t BY <2>2, <2>3
    <3>2. u \in 1..n - 1 BY <1>2, <2>3, <2>6, <3>1
    <3> QED BY <1>4, <2>6, <3>1, <3>2
  <2>9. TagRows(page', u) = TagRows(page, s) BY <1>6, <2>2, <2>3, <2>6
  <2>10. OnColumn(new, tabs') BY <1>1, <1>4, <2>2, <2>3, <2>7, <2>8 DEF IndexGood, OnColumn
  <2>11. Rising(new.ents) /\ Keyed(new.ents, new.col, TagRows(page', new.tid))
    BY <2>2, <2>3, <2>7, <2>9 DEF IndexGood
  <2> QED BY <2>5, <2>7, <2>10, <2>11 DEF IndexGood
<1> QED BY <1>3, <1>10, <1>11, <1>12, <1>13, <1>14, GoodList

LEMMA CreateIndexKeeps ==
    ASSUME StoreInv, IndexesGood(idx, page, tabs), NEW m \in IndexNames, NEW t \in DOMAIN tabs,
           NEW c \in DOMAIN tabs[t].types, CreateIndex(m, t, c)
    PROVE  IndexesGood(idx', page', tabs')
<1>1. PICK x : x = [name |-> m, tid |-> t, col |-> c, ents |-> << >>] OBVIOUS
<1>2. PICK new : new = Rebuild(page, tabs, x) OBVIOUS
<1>3. /\ Len(idx) < MaxIndexes /\ tabs[t].types[c] = 0
      /\ idx' = Append(idx, new) /\ page' = page /\ tabs' = tabs
  BY <1>1, <1>2 DEF CreateIndex
<1>4. Stored(page, tabs, row_ptr, next_rowid) /\ Catalogue(tabs) /\ t \in 1..Len(tabs) BY StoreIs
<1>5. t \in Nat /\ c \in Nat
  <2>1. PICK s \in Schemas : s = tabs[t].types BY <1>4, TabsIn
  <2>2. s \in Seq({0, 1}) BY <2>1, DbAssumptions DEF DbAssumptions
  <2>3. DOMAIN s = 1..Len(s) /\ Len(s) \in Nat BY <2>2, LenProperties
  <2> QED BY <1>4, <2>1, <2>3
<1>6. x \in IndexRecs /\ x.tid = t /\ x.col = c
  <2>1. << >> \in Seq(Ents) OBVIOUS
  <2> QED BY <1>1, <1>5, <2>1 DEF IndexRecs
<1>7. OnColumn(x, tabs) BY <1>3, <1>4, <1>6 DEF OnColumn
<1>8. new \in IndexRecs /\ IndexGood(new, page, tabs) BY <1>2, <1>4, <1>6, <1>7, RebuildIs
<1>9. PICK n \in Nat : n = Len(idx) /\ idx \in Seq(IndexRecs) BY LenProperties DEF IndexesGood
<1>10. /\ Append(idx, new) \in Seq(IndexRecs) /\ Len(Append(idx, new)) = n + 1
       /\ \A i \in 1..n : Append(idx, new)[i] = idx[i]
       /\ Append(idx, new)[n + 1] = new
  BY <1>8, <1>9, AppendProperties
<1>11. n + 1 <= MaxIndexes BY <1>3, <1>9, Sizes
<1>12. ASSUME NEW i \in 1..n + 1 PROVE IndexGood(Append(idx, new)[i], page, tabs)
  <2>1. CASE i = n + 1 BY <1>8, <1>10, <2>1
  <2>2. CASE i # n + 1
    <3>1. i \in 1..n BY <2>2
    <3>2. IndexGood(idx[i], page, tabs) BY <1>9, <3>1 DEF IndexesGood
    <3> QED BY <1>10, <3>1, <3>2
  <2> QED BY <2>1, <2>2
<1>13. IndexesGood(Append(idx, new), page, tabs) BY <1>10, <1>11, <1>12 DEF IndexesGood
<1> QED BY <1>3, <1>13

LEMMA IndexesNext ==
    ASSUME StoreInv, IndexesGood(idx, page, tabs), DbNext
    PROVE  StoreInv' /\ IndexesGood(idx', page', tabs')
<1>1. StoreInv' BY StoreNext
<1>2. ASSUME NEW n \in Names, NEW s \in Schemas, CreateTable(n, s) PROVE IndexesGood(idx', page', tabs')
  BY <1>1, <1>2, CreateKeeps
<1>3. ASSUME NEW t \in DOMAIN tabs, DropTable(t) PROVE IndexesGood(idx', page', tabs')
  BY <1>1, <1>3, DropKeeps
<1>4. ASSUME NEW t \in DOMAIN tabs, NEW v \in RowVals(tabs[t].types), Insert(t, v)
      PROVE  IndexesGood(idx', page', tabs')
  BY <1>1, <1>4, InsertKeeps
<1>5. ASSUME NEW t \in DOMAIN tabs, NEW c \in DOMAIN tabs[t].types, NEW v \in Literals, NEW w \in Wheres,
             Update(t, c, v, w)
      PROVE  IndexesGood(idx', page', tabs')
  BY <1>1, <1>5, UpdateKeeps
<1>6. ASSUME NEW t \in DOMAIN tabs, NEW w \in Wheres, Delete(t, w) PROVE IndexesGood(idx', page', tabs')
  BY <1>1, <1>6, DeleteKeeps
<1>7. ASSUME NEW t \in DOMAIN tabs, NEW m \in IndexNames, NEW c \in DOMAIN tabs[t].types, CreateIndex(m, t, c)
      PROVE  IndexesGood(idx', page', tabs')
  BY <1>7, CreateIndexKeeps
<1> QED BY <1>1, <1>2, <1>3, <1>4, <1>5, <1>6, <1>7 DEF DbNext

LEMMA IndexesAlways == DbSpec => [](StoreInv /\ IndexesGood(idx, page, tabs))
<1>1. DbInit => StoreInv /\ IndexesGood(idx, page, tabs)
  <2>1. ASSUME DbInit PROVE IndexesGood(idx, page, tabs)
    <3>1. idx = << >> /\ << >> \in Seq(IndexRecs) /\ Len(<< >>) = 0 BY <2>1 DEF DbInit
    <3> QED BY <3>1, Sizes DEF IndexesGood
  <2> QED BY <2>1, StartsGood
<1>2. StoreInv /\ IndexesGood(idx, page, tabs) /\ [DbNext]_dbVars => (StoreInv /\ IndexesGood(idx, page, tabs))'
  <2>1. ASSUME StoreInv, IndexesGood(idx, page, tabs), DbNext PROVE StoreInv' /\ IndexesGood(idx', page', tabs')
    BY <2>1, IndexesNext
  <2>2. ASSUME StoreInv, IndexesGood(idx, page, tabs), UNCHANGED dbVars
        PROVE  StoreInv' /\ IndexesGood(idx', page', tabs')
    BY <2>2 DEF StoreInv, dbVars
  <2> QED BY <2>1, <2>2
<1> QED BY <1>1, <1>2, PTL DEF DbSpec

(* Every index holds exactly the keys and identities of its table's rows, in   *)
(* strictly increasing order.                                                  *)
THEOREM IndexesAreExact == DbSpec => []IndexesExact
<1>1. StoreInv /\ IndexesGood(idx, page, tabs) => IndexesExact BY ExactFollows
<1> QED BY <1>1, IndexesAlways, PTL

-----------------------------------------------------------------------------
(* The key-value pairs: the binary search finds the place of any key.         *)

Pairs == Keys \X Vals

(* The keys of s increase, over any distance.                                 *)
Sorted(s) == s \in Seq(Pairs) /\ \A i, j \in 1..Len(s) : i < j => s[i][1] < s[j][1]

LEMMA PairIs ==
    ASSUME NEW s, Sorted(s), NEW i \in 1..Len(s)
    PROVE  s[i] \in Pairs /\ s[i][1] \in Int
<1>1. PICK k \in Keys, v \in Vals : s[i] = <<k, v>> BY ElementOfSeq DEF Sorted, Pairs
<1>2. Keys \subseteq Int BY SessionAssumptions DEF SessionAssumptions
<1> QED BY <1>1, <1>2 DEF Pairs

(* One round of the search, and the ranges [lo, hi] left after i rounds: the   *)
(* keys before lo are below k, those after hi are not.                        *)
Halve(s, k, r) ==
    LET mid == (r.lo + r.hi) \div 2
    IN  IF r.lo > r.hi THEN r
        ELSE IF s[mid + 1][1] = k THEN [lo |-> mid, hi |-> mid - 1]
        ELSE IF k > s[mid + 1][1] THEN [r EXCEPT !.lo = mid + 1]
        ELSE [r EXCEPT !.hi = mid - 1]

Ranges(s, k, n, i) ==
    {r \in [lo : 0..n, hi : -1..n - 1] :
        /\ r.lo <= r.hi + 1 /\ (r.lo <= r.hi => r.hi - r.lo + 1 <= n - i)
        /\ \A j \in 1..r.lo : s[j][1] < k
        /\ \A j \in r.hi + 2..n : s[j][1] >= k}

LEMMA HalveStays ==
    ASSUME NEW s, Sorted(s), NEW k \in Int, NEW n \in Nat, n = Len(s), NEW i \in 1..n, NEW r \in Ranges(s, k, n, i - 1)
    PROVE  Halve(s, k, r) \in Ranges(s, k, n, i)
<1>1. PICK lo \in 0..n, hi \in -1..n - 1 :
         /\ lo = r.lo /\ hi = r.hi /\ r = [lo |-> lo, hi |-> hi]
         /\ lo <= hi + 1 /\ (lo <= hi => hi - lo + 1 <= n - (i - 1))
         /\ \A j \in 1..lo : s[j][1] < k
         /\ \A j \in hi + 2..n : s[j][1] >= k
  BY DEF Ranges
<1>2. CASE lo > hi
  <2>1. Halve(s, k, r) = r BY <1>1, <1>2 DEF Halve
  <2> QED BY <1>1, <1>2, <2>1 DEF Ranges
<1>3. CASE ~(lo > hi)
  <2>1. PICK mid \in Nat : mid = (lo + hi) \div 2 /\ lo <= mid /\ mid <= hi
    <3>1. (lo + hi) \div 2 \in Nat /\ lo <= (lo + hi) \div 2 /\ (lo + hi) \div 2 <= hi BY <1>3
    <3> QED BY <3>1
  <2>0. hi - lo + 1 <= n - i + 1
    <3>1. hi - lo + 1 <= n - (i - 1) /\ n - (i - 1) = n - i + 1 BY <1>1, <1>3
    <3> QED BY <3>1
  <2>2. mid + 1 \in 1..n BY <2>1
  <2>3. PICK key \in Int : key = s[mid + 1][1] BY <2>2, PairIs
  <2>4. \A j \in 1..mid : s[j][1] \in Int /\ s[j][1] < key
    <3>1. \A j \in 1..mid : j \in 1..n /\ j < mid + 1 BY <2>2
    <3> QED BY <2>2, <2>3, <3>1, PairIs DEF Sorted
  <2>5. \A j \in mid + 2..n : s[j][1] \in Int /\ key < s[j][1]
    <3>1. \A j \in mid + 2..n : j \in 1..n /\ mid + 1 < j BY <2>2
    <3> QED BY <2>2, <2>3, <3>1, PairIs DEF Sorted
  <2>6. CASE key = k
    <3>1. Halve(s, k, r) = [lo |-> mid, hi |-> mid - 1] BY <1>1, <1>3, <2>1, <2>3, <2>6 DEF Halve
    <3>2. \A j \in mid - 1 + 2..n : j = mid + 1 \/ j \in mid + 2..n BY <2>1
    <3>3. ASSUME NEW j \in mid - 1 + 2..n PROVE s[j][1] >= k
      <4>1. CASE j = mid + 1
        <5>1. s[j][1] = k BY <2>3, <2>6, <4>1, Zenon
        <5>2. k >= k OBVIOUS
        <5> QED BY <5>1, <5>2
      <4>2. CASE j \in mid + 2..n
        <5>1. s[j][1] \in Int /\ key < s[j][1] BY <2>5, <4>2
        <5> QED BY <2>6, <5>1
      <4> QED BY <3>2, <4>1, <4>2
    <3>4. \A j \in 1..mid : s[j][1] < k BY <2>4, <2>6
    <3>5. mid \in 0..n /\ mid - 1 \in -1..n - 1 BY <2>2
    <3>6. [lo |-> mid, hi |-> mid - 1] \in Ranges(s, k, n, i) BY <3>3, <3>4, <3>5 DEF Ranges
    <3> QED BY <3>1, <3>6
  <2>7. CASE k > key
    <3>0. [r EXCEPT !.lo = mid + 1] = [lo |-> mid + 1, hi |-> hi] BY <1>1
    <3>1. Halve(s, k, r) = [lo |-> mid + 1, hi |-> hi]
      <4>1. (r.lo + r.hi) \div 2 = mid /\ ~(r.lo > r.hi) BY <1>1, <1>3, <2>1
      <4>2. s[mid + 1][1] # k /\ k > s[mid + 1][1] BY <2>3, <2>7
      <4> QED BY <3>0, <4>1, <4>2, Zenon DEF Halve
    <3>2. \A j \in 1..mid + 1 : j = mid + 1 \/ j \in 1..mid BY <2>1
    <3>3. ASSUME NEW j \in 1..mid + 1 PROVE s[j][1] < k
      <4>1. CASE j = mid + 1 BY <2>3, <2>7, <4>1
      <4>2. CASE j \in 1..mid
        <5>1. s[j][1] \in Int /\ s[j][1] < key BY <2>4, <4>2
        <5> QED BY <2>3, <2>7, <5>1
      <4> QED BY <3>2, <4>1, <4>2
    <3>4. mid + 1 \in 0..n /\ mid + 1 <= hi + 1 BY <2>1, <2>2
    <3>5. hi - (mid + 1) + 1 <= n - i BY <2>0, <2>1
    <3>6. [lo |-> mid + 1, hi |-> hi] \in Ranges(s, k, n, i) BY <1>1, <3>3, <3>4, <3>5 DEF Ranges
    <3> QED BY <3>1, <3>6
  <2>8. CASE k < key
    <3>0. [r EXCEPT !.hi = mid - 1] = [lo |-> lo, hi |-> mid - 1] BY <1>1
    <3>1. Halve(s, k, r) = [lo |-> lo, hi |-> mid - 1]
      <4>1. (r.lo + r.hi) \div 2 = mid /\ ~(r.lo > r.hi) BY <1>1, <1>3, <2>1
      <4>2. s[mid + 1][1] # k /\ ~(k > s[mid + 1][1]) BY <2>3, <2>8
      <4> QED BY <3>0, <4>1, <4>2, Zenon DEF Halve
    <3>2. \A j \in mid - 1 + 2..n : j = mid + 1 \/ j \in mid + 2..n BY <2>1
    <3>3. ASSUME NEW j \in mid - 1 + 2..n PROVE s[j][1] >= k
      <4>1. CASE j = mid + 1 BY <2>3, <2>8, <4>1
      <4>2. CASE j \in mid + 2..n
        <5>1. s[j][1] \in Int /\ key < s[j][1] BY <2>5, <4>2
        <5> QED BY <2>3, <2>8, <5>1
      <4> QED BY <3>2, <4>1, <4>2
    <3>4. mid - 1 \in -1..n - 1 /\ lo <= mid - 1 + 1 BY <2>1, <2>2
    <3>5. mid - 1 - lo + 1 <= n - i BY <2>0, <2>1
    <3>6. [lo |-> lo, hi |-> mid - 1] \in Ranges(s, k, n, i) BY <1>1, <3>3, <3>4, <3>5 DEF Ranges
    <3> QED BY <3>1, <3>6
  <2> QED BY <2>3, <2>6, <2>7, <2>8
<1> QED BY <1>2, <1>3

LEMMA KvFindIs ==
    ASSUME NEW s, Sorted(s), NEW k \in Int
    PROVE  /\ KvFind(s, k) \in 0..Len(s)
           /\ \A j \in 1..KvFind(s, k) : s[j][1] < k
           /\ \A j \in KvFind(s, k) + 1..Len(s) : s[j][1] >= k
<1>1. PICK n \in Nat : n = Len(s) BY LenProperties DEF Sorted
<1>2. PICK base : base = [lo |-> 0, hi |-> n - 1] OBVIOUS
<1>3. PICK T : T = [i \in 0..n |-> Ranges(s, k, n, i)] OBVIOUS
<1>4. PICK D : D = [lo : 0..n, hi : -1..n - 1] OBVIOUS
<1>5. base \in T[0]
  <2>1. base \in D /\ base.lo = 0 /\ base.hi = n - 1 BY <1>2, <1>4
  <2>2. \A j \in 1..0 : s[j][1] < k OBVIOUS
  <2>3. \A j \in n - 1 + 2..n : s[j][1] >= k OBVIOUS
  <2> QED BY <1>3, <1>4, <2>1, <2>2, <2>3 DEF Ranges
<1>6. PICK F : F = [z \in D \X (1..n) |-> Halve(s, k, z[1])] OBVIOUS
<1>7. ASSUME NEW x \in D, NEW i \in 1..n PROVE F[<<x, i>>] = Halve(s, k, x)
  <2>1. <<x, i>> \in D \X (1..n) /\ <<x, i>>[1] = x OBVIOUS
  <2>2. F[<<x, i>>] = Halve(s, k, <<x, i>>[1]) BY <1>6, <2>1, Zenon
  <2> QED BY <2>1, <2>2
<1>8. ASSUME NEW i \in 1..n, NEW x \in T[i - 1] PROVE x \in D /\ Halve(s, k, x) \in T[i]
  <2>1. i - 1 \in 0..n /\ i \in 0..n OBVIOUS
  <2>2. x \in Ranges(s, k, n, i - 1) BY <1>3, <2>1
  <2>3. Halve(s, k, x) \in Ranges(s, k, n, i) BY <1>1, <2>2, HalveStays
  <2> QED BY <1>3, <1>4, <2>1, <2>2, <2>3 DEF Ranges
<1>9. PICK f : Loop(f, n, base, F) BY LoopExists
<1>10. \A i \in 0..n : f[i] \in T[i]
  <2>1. \A i \in 1..n : \A x \in T[i - 1] : F[<<x, i>>] \in T[i] BY <1>7, <1>8
  <2> QED BY <1>5, <1>9, <2>1, LoopStays
<1> DEFINE Is(h) == h = [i \in 0..n |-> IF i = 0 THEN base ELSE Halve(s, k, h[i - 1])]
<1>11. Is(f)
  <2>1. ASSUME NEW i \in 0..n PROVE f[i] = IF i = 0 THEN base ELSE Halve(s, k, f[i - 1])
    <3>1. f[i] = IF i = 0 THEN base ELSE F[<<f[i - 1], i>>] BY <1>9 DEF Loop
    <3>2. i # 0 => i \in 1..n /\ i - 1 \in 0..n OBVIOUS
    <3>3. i # 0 => f[i - 1] \in D BY <1>8, <1>10, <3>2
    <3> QED BY <1>7, <3>1, <3>2, <3>3
  <2>2. f = [i \in 0..n |-> f[i]] BY <1>9 DEF Loop
  <2> QED BY <2>1, <2>2
<1>12. PICK g : g = (CHOOSE h : Is(h)) /\ Is(g)
  <2> HIDE DEF Is
  <2> QED BY <1>11
<1>13. g[n] \in T[n]
  <2>1. \A i \in 0..n : g[i] = IF i = 0 THEN base ELSE Halve(s, k, g[i - 1]) BY <1>12
  <2>2. g[0] = f[0] BY <1>9, <2>1 DEF Loop
  <2>3. ASSUME NEW i \in 1..n, g[i - 1] = f[i - 1] PROVE g[i] = f[i]
    <3>1. i \in 0..n /\ i # 0 OBVIOUS
    <3>2. g[i] = Halve(s, k, f[i - 1]) BY <2>1, <2>3, <3>1
    <3>3. f[i] = Halve(s, k, f[i - 1]) BY <1>11, <3>1
    <3> QED BY <3>2, <3>3
  <2>4. \A i \in 0..n : g[i] = f[i]
    <3> HIDE DEF Is
    <3> QED BY <2>2, <2>3, SameLoop
  <2> QED BY <1>10, <2>4
<1>14. PICK r : r = IF n <= 0 THEN base ELSE g[n] OBVIOUS
<1>15. r \in T[n]
  <2>1. CASE n = 0 BY <1>5, <1>14, <2>1
  <2>2. CASE n # 0 BY <1>13, <1>14, <2>2
  <2> QED BY <2>1, <2>2
<1>16. KvFind(s, k) = r.lo
  <2>1. KvFind(s, k) = (IF n <= 0 THEN base ELSE (CHOOSE h : Is(h))[n]).lo
    BY <1>1, <1>2 DEF KvFind, Iterate, Halve
  <2> HIDE DEF Is
  <2> QED BY <1>12, <1>14, <2>1
<1>17. r \in Ranges(s, k, n, n) BY <1>3, <1>15
<1>18. r.lo \in 0..n /\ r.hi + 2 = r.lo + 1 BY <1>17 DEF Ranges
<1> QED BY <1>1, <1>16, <1>17, <1>18 DEF Ranges

(* A key that is not above the last key of s, nor equal to any, has its place. *)
LEMMA KvHasIs ==
    ASSUME NEW s, Sorted(s), NEW k \in Int
    PROVE  KvHas(s, k) <=> \E i \in 1..Len(s) : s[i][1] = k
<1>1. PICK n \in Nat : n = Len(s) BY LenProperties DEF Sorted
<1>2. PICK at \in 0..n : at = KvFind(s, k) BY <1>1, KvFindIs
<1>3. (\A j \in 1..at : s[j][1] < k) /\ (\A j \in at + 1..n : s[j][1] >= k) BY <1>1, <1>2, KvFindIs
<1>4. ASSUME at < n, s[at + 1][1] = k PROVE \E i \in 1..n : s[i][1] = k
  <2>1. at + 1 \in 1..n BY <1>4
  <2> QED BY <1>4, <2>1
<1>5. ASSUME NEW i \in 1..n, s[i][1] = k PROVE at < n /\ s[at + 1][1] = k
  <2>1. ~(i <= at)
    <3>1. i <= at => i \in 1..at OBVIOUS
    <3> QED BY <1>3, <1>5, <3>1
  <2>2. at + 1 \in 1..n /\ at + 1 \in at + 1..n BY <2>1
  <2>3. i # at + 1 => at + 1 < i BY <2>1
  <2>4. i # at + 1 => s[at + 1][1] < k BY <1>1, <1>5, <2>2, <2>3 DEF Sorted
  <2>5. s[at + 1][1] \in Int /\ s[at + 1][1] >= k BY <1>1, <1>3, <2>2, PairIs
  <2> QED BY <1>5, <2>1, <2>2, <2>4, <2>5
<1> QED BY <1>1, <1>2, <1>4, <1>5 DEF KvHas

(* r is s, of length n, with e put in place k.                                *)
IsInserted(r, s, n, k, e) ==
    /\ Len(r) = n + 1
    /\ \A j \in 1..n + 1 : r[j] = IF j < k THEN s[j] ELSE IF j = k THEN e ELSE s[j - 1]

LEMMA Inserted ==
    ASSUME NEW S, NEW s \in Seq(S), NEW e \in S, NEW n \in Nat, n = Len(s), NEW k \in 1..n + 1
    PROVE  InsertAt(s, k, e) \in Seq(S) /\ IsInserted(InsertAt(s, k, e), s, n, k, e)
<1>1. \A i \in 1..n : s[i] \in S BY ElementOfSeq
<1>2. PICK a, b : a = SubSeq(s, 1, k - 1) /\ b = SubSeq(s, k, n) OBVIOUS
<1>3. a \in Seq(S) /\ Len(a) = k - 1 /\ \A i \in 1..k - 1 : a[i] = s[i]
  <2>1. 1 \in Int /\ k - 1 \in Int OBVIOUS
  <2>2. \A i \in 1..k - 1 : s[i] \in S
    <3>1. \A i \in 1..k - 1 : i \in 1..n OBVIOUS
    <3> QED BY <1>1, <3>1
  <2>3. /\ SubSeq(s, 1, k - 1) \in Seq(S) /\ Len(SubSeq(s, 1, k - 1)) = IF 1 <= k - 1 THEN k - 1 - 1 + 1 ELSE 0
        /\ \A i \in 1..k - 1 - 1 + 1 : SubSeq(s, 1, k - 1)[i] = s[1 + i - 1]
    BY <2>1, <2>2, SubSeqProperties
  <2>4. \A i \in 1..k - 1 : i \in 1..k - 1 - 1 + 1 /\ 1 + i - 1 = i OBVIOUS
  <2>5. Len(a) = k - 1 BY <1>2, <2>3
  <2> QED BY <1>2, <2>3, <2>4, <2>5
<1>4. b \in Seq(S) /\ Len(b) = n - k + 1 /\ \A i \in 1..n - k + 1 : b[i] = s[k + i - 1]
  <2>1. k \in Int /\ n \in Int OBVIOUS
  <2>2. \A i \in k..n : s[i] \in S
    <3>1. \A i \in k..n : i \in 1..n OBVIOUS
    <3> QED BY <1>1, <3>1
  <2>3. /\ SubSeq(s, k, n) \in Seq(S) /\ Len(SubSeq(s, k, n)) = IF k <= n THEN n - k + 1 ELSE 0
        /\ \A i \in 1..n - k + 1 : SubSeq(s, k, n)[i] = s[k + i - 1]
    BY <2>1, <2>2, SubSeqProperties
  <2>4. Len(b) = n - k + 1 BY <1>2, <2>3
  <2> QED BY <1>2, <2>3, <2>4
<1>5. PICK c : c = a \o <<e>> OBVIOUS
<1>6. c \in Seq(S) /\ Len(c) = k /\ c[k] = e /\ \A i \in 1..k - 1 : c[i] = s[i]
  <2>1. c = Append(a, e) BY <1>3, <1>5
  <2>2. /\ Append(a, e) \in Seq(S) /\ Len(Append(a, e)) = Len(a) + 1
        /\ \A i \in 1..Len(a) : Append(a, e)[i] = a[i] /\ Append(a, e)[Len(a) + 1] = e
    BY <1>3, AppendProperties
  <2>3. Append(a, e)[Len(a) + 1] = e BY <1>3
  <2> QED BY <1>3, <2>1, <2>2, <2>3
<1>7. PICK d : d = c \o b OBVIOUS
<1>8. d \in Seq(S) /\ Len(d) = n + 1 /\ \A i \in 1..n + 1 : d[i] = IF i <= k THEN c[i] ELSE b[i - k]
  <2>1. /\ c \o b \in Seq(S) /\ Len(c \o b) = Len(c) + Len(b)
        /\ \A i \in 1..Len(c) + Len(b) : (c \o b)[i] = IF i <= Len(c) THEN c[i] ELSE b[i - Len(c)]
    BY <1>4, <1>6, ConcatProperties
  <2>2. Len(c) + Len(b) = n + 1 BY <1>4, <1>6
  <2> QED BY <1>6, <1>7, <2>1, <2>2
<1>9. ASSUME NEW j \in 1..n + 1 PROVE d[j] = IF j < k THEN s[j] ELSE IF j = k THEN e ELSE s[j - 1]
  <2>1. CASE j < k
    <3>1. j \in 1..k - 1 /\ j <= k BY <2>1
    <3> QED BY <1>6, <1>8, <2>1, <3>1
  <2>2. CASE j = k BY <1>6, <1>8, <2>2
  <2>3. CASE j > k
    <3>1. j - k \in 1..n - k + 1 /\ k + (j - k) - 1 = j - 1 /\ ~(j <= k) /\ ~(j < k) /\ j # k BY <2>3
    <3>2. d[j] = b[j - k] BY <1>8, <3>1
    <3> QED BY <1>4, <3>1, <3>2
  <2> QED BY <2>1, <2>2, <2>3
<1>10. InsertAt(s, k, e) = d BY <1>2, <1>5, <1>7 DEF InsertAt
<1> QED BY <1>8, <1>9, <1>10 DEF IsInserted

(* kv_put keeps the pairs sorted and within their room.                       *)
PairsGood(s) == Sorted(s) /\ Len(s) <= KvMax

LEMMA PutKeepsPairs ==
    ASSUME NEW s, PairsGood(s), NEW k \in Keys, NEW v \in Vals
    PROVE  PairsGood(KvWith(s, k, v))
<1>1. PICK n \in Nat : n = Len(s) /\ n <= KvMax BY LenProperties DEF PairsGood, Sorted
<1>2. k \in Int /\ KvMax \in Nat BY SessionAssumptions DEF SessionAssumptions
<1>3. Sorted(s) /\ s \in Seq(Pairs) BY DEF PairsGood, Sorted
<1>4. PICK at \in 0..n : at = KvFind(s, k) BY <1>1, <1>2, <1>3, KvFindIs
<1>5. (\A j \in 1..at : s[j][1] < k) /\ (\A j \in at + 1..n : s[j][1] >= k) BY <1>1, <1>2, <1>3, <1>4, KvFindIs
<1>6. PICK e \in Pairs : e = <<k, v>> /\ e[1] = k
  <2>1. <<k, v>> \in Pairs /\ <<k, v>>[1] = k BY DEF Pairs
  <2> QED BY <2>1
<1>7. CASE KvHas(s, k)
  <2>1. at + 1 \in 1..n /\ s[at + 1][1] = k BY <1>1, <1>4, <1>7 DEF KvHas
  <2>2. PICK r : r = [s EXCEPT ![at + 1] = e] OBVIOUS
  <2>3. r \in Seq(Pairs) /\ Len(r) = n /\ r[at + 1] = e /\ \A j \in 1..n : j # at + 1 => r[j] = s[j]
    BY <1>1, <1>3, <2>1, <2>2, ExceptSeq
  <2>4. \A j \in 1..n : r[j][1] = s[j][1] BY <1>6, <2>1, <2>3
  <2>5. \A i, j \in 1..n : i < j => r[i][1] < r[j][1] BY <1>1, <1>3, <2>4 DEF Sorted
  <2>6. KvWith(s, k, v) = r BY <1>4, <1>6, <1>7, <2>2 DEF KvWith
  <2> QED BY <1>1, <2>3, <2>5, <2>6 DEF PairsGood, Sorted
<1>8. CASE ~KvHas(s, k) /\ n >= KvMax
  <2>1. KvWith(s, k, v) = s BY <1>1, <1>8 DEF KvWith
  <2> QED BY <2>1
<1>9. CASE ~KvHas(s, k) /\ ~(n >= KvMax)
  <2>1. PICK p \in 1..n + 1 : p = at + 1 OBVIOUS
  <2>2. PICK r : r = InsertAt(s, p, e) OBVIOUS
  <2>3. /\ r \in Seq(Pairs) /\ Len(r) = n + 1
        /\ \A j \in 1..n + 1 : r[j] = IF j < at + 1 THEN s[j] ELSE IF j = at + 1 THEN e ELSE s[j - 1]
    <3>1. InsertAt(s, p, e) \in Seq(Pairs) /\ IsInserted(InsertAt(s, p, e), s, n, p, e)
      BY <1>1, <1>3, Inserted
    <3> QED BY <2>1, <2>2, <3>1 DEF IsInserted
  <2>4. \A j \in 1..n : s[j][1] \in Int BY <1>1, <1>3, PairIs
  <2>5. \A j \in at + 1..n : s[j][1] > k
    <3>1. ASSUME NEW j \in at + 1..n PROVE s[j][1] > k
      <4>1. j \in 1..n /\ s[j][1] >= k BY <1>5
      <4>2. s[j][1] # k BY <1>1, <1>2, <1>3, <1>9, <4>1, KvHasIs
      <4> QED BY <1>2, <2>4, <4>1, <4>2
    <3> QED BY <3>1
  <2>6. ASSUME NEW i \in 1..n + 1, NEW j \in 1..n + 1, i < j PROVE r[i][1] < r[j][1]
    <3>1. CASE j < at + 1
      <4>1. r[i] = s[i] /\ r[j] = s[j] /\ i \in 1..n /\ j \in 1..n BY <2>3, <2>6, <3>1
      <4> QED BY <1>1, <1>3, <2>6, <4>1 DEF Sorted
    <3>2. CASE j = at + 1
      <4>1. r[i] = s[i] /\ r[j] = e /\ i \in 1..at BY <2>3, <2>6, <3>2
      <4>2. s[i][1] < k BY <1>5, <4>1
      <4> QED BY <1>6, <4>1, <4>2
    <3>3. CASE j > at + 1 /\ i < at + 1
      <4>1. r[i] = s[i] /\ r[j] = s[j - 1] /\ i \in 1..n /\ j - 1 \in 1..n /\ i < j - 1 BY <2>3, <3>3
      <4> QED BY <1>1, <1>3, <4>1 DEF Sorted
    <3>4. CASE j > at + 1 /\ i = at + 1
      <4>1. r[i] = e /\ r[j] = s[j - 1] /\ j - 1 \in at + 1..n BY <2>3, <3>4
      <4>2. s[j - 1][1] > k /\ s[j - 1][1] \in Int BY <2>4, <2>5, <4>1
      <4> QED BY <1>2, <1>6, <4>1, <4>2
    <3>5. CASE j > at + 1 /\ i > at + 1
      <4>1. r[i] = s[i - 1] /\ r[j] = s[j - 1] /\ i - 1 \in 1..n /\ j - 1 \in 1..n /\ i - 1 < j - 1 BY <2>3, <2>6, <3>5
      <4> QED BY <1>1, <1>3, <4>1 DEF Sorted
    <3> QED BY <3>1, <3>2, <3>3, <3>4, <3>5
  <2>7. KvWith(s, k, v) = r BY <1>1, <1>4, <1>6, <1>9, <2>1, <2>2 DEF KvWith
  <2>8. n + 1 <= KvMax BY <1>1, <1>2, <1>9
  <2> QED BY <2>3, <2>6, <2>7, <2>8 DEF PairsGood, Sorted
<1> QED BY <1>7, <1>8, <1>9

(* kv_del as well.                                                            *)
LEMMA DelKeepsPairs ==
    ASSUME NEW s, PairsGood(s), NEW k \in Keys, KvHas(s, k)
    PROVE  PairsGood(RemoveAt(s, KvFind(s, k) + 1))
<1>1. PICK n \in Nat : n = Len(s) /\ n <= KvMax BY LenProperties DEF PairsGood, Sorted
<1>2. k \in Int /\ KvMax \in Nat BY SessionAssumptions DEF SessionAssumptions
<1>3. Sorted(s) /\ s \in Seq(Pairs) BY DEF PairsGood, Sorted
<1>4. PICK at \in 1..n : at = KvFind(s, k) + 1
  <2>1. KvFind(s, k) \in 0..n /\ KvFind(s, k) < n BY <1>1, <1>2, <1>3, KvFindIs DEF KvHas
  <2>2. KvFind(s, k) + 1 \in 1..n BY <2>1
  <2> QED BY <2>2
<1>5. PICK r : r = RemoveAt(s, at) OBVIOUS
<1>6. r \in Seq(Pairs) /\ Len(r) = n - 1 /\ \A j \in 1..n - 1 : r[j] = IF j < at THEN s[j] ELSE s[j + 1]
  BY <1>1, <1>3, <1>5, Removed
<1>7. ASSUME NEW i \in 1..n - 1, NEW j \in 1..n - 1, i < j PROVE r[i][1] < r[j][1]
  <2>1. PICK l \in 1..n, m \in 1..n : r[i] = s[l] /\ r[j] = s[m] /\ l < m
    <3>1. i \in 1..n /\ i + 1 \in 1..n /\ j \in 1..n /\ j + 1 \in 1..n /\ i < j + 1 /\ i + 1 < j + 1 BY <1>7
    <3>2. CASE j < at
      <4>1. r[i] = s[i] /\ r[j] = s[j] BY <1>6, <1>7, <3>2
      <4> QED BY <1>7, <3>1, <4>1
    <3>3. CASE ~(j < at)
      <4>1. r[j] = s[j + 1] /\ (r[i] = s[i] \/ r[i] = s[i + 1]) BY <1>6, <3>3
      <4> QED BY <3>1, <4>1
    <3> QED BY <3>2, <3>3
  <2> QED BY <1>1, <1>3, <2>1 DEF Sorted
<1>8. n - 1 <= KvMax BY <1>1, <1>2
<1> QED BY <1>4, <1>5, <1>6, <1>7, <1>8 DEF PairsGood, Sorted

-----------------------------------------------------------------------------
(* The slots of a database of an image, whose rows may have no identity yet.  *)

OldSlots  == [off : Nat, row : {0} \cup RowIds]
OldPages  == [tid : 0..MaxTables, slots : Seq(OldSlots), recs : Seq(Values), next : 0..NPages]

OldPagesIn(pg, n) ==
    /\ pg \in [Pages -> OldPages]
    /\ \A p \in Pages : pg[p].tid <= n
    /\ \A p \in Pages : pg[p].tid = 0 => pg[p].slots = << >> /\ pg[p].recs = << >>

PlacesAt(pg, p)  == {<<p, j>> : j \in 1..Len(pg[p].slots)}
TagPlaces(pg, t) == UNION {PlacesAt(pg, p) : p \in Tagged(pg, t)}
EveryPlace(pg)   == UNION {PlacesAt(pg, p) : p \in Pages}

LEMMA OldPageIs ==
    ASSUME NEW pg \in [Pages -> OldPages], NEW p \in Pages
    PROVE  /\ pg[p].tid \in 0..MaxTables /\ pg[p].next \in 0..NPages
           /\ pg[p].slots \in Seq(OldSlots) /\ pg[p].recs \in Seq(Values)
           /\ Len(pg[p].slots) \in Nat /\ DOMAIN pg[p].slots = 1..Len(pg[p].slots)
           /\ \A j \in 1..Len(pg[p].slots) : pg[p].slots[j].off \in Nat /\ pg[p].slots[j].row \in {0} \cup RowIds
<1>1. PICK x \in OldPages : x = pg[p] OBVIOUS
<1>2. x.tid \in 0..MaxTables /\ x.next \in 0..NPages /\ x.slots \in Seq(OldSlots) /\ x.recs \in Seq(Values)
  BY DEF OldPages
<1>3. ASSUME NEW j \in 1..Len(x.slots) PROVE x.slots[j].off \in Nat /\ x.slots[j].row \in {0} \cup RowIds
  <2>1. x.slots[j] \in OldSlots BY <1>2, ElementOfSeq
  <2> QED BY <2>1 DEF OldSlots
<1>4. Len(x.slots) \in Nat /\ DOMAIN x.slots = 1..Len(x.slots) BY <1>2, LenProperties
<1> QED BY <1>1, <1>2, <1>3, <1>4

LEMMA PlacesApart ==
    ASSUME NEW pg, NEW p, NEW q, p # q
    PROVE  Disjoint(PlacesAt(pg, p), PlacesAt(pg, q))
<1>1. ASSUME NEW x \in PlacesAt(pg, p), NEW y \in PlacesAt(pg, q) PROVE x # y
  <2>1. PICK i \in 1..Len(pg[p].slots) : x = <<p, i>> BY DEF PlacesAt
  <2>2. PICK j \in 1..Len(pg[q].slots) : y = <<q, j>> BY DEF PlacesAt
  <2> QED BY <2>1, <2>2
<1> QED BY <1>1 DEF Disjoint

LEMMA TagPlacesApart ==
    ASSUME NEW pg, NEW s, NEW t, s # t
    PROVE  Disjoint(TagPlaces(pg, s), TagPlaces(pg, t))
<1>1. ASSUME NEW x \in TagPlaces(pg, s), NEW y \in TagPlaces(pg, t) PROVE x # y
  <2>1. PICK p \in Pages : pg[p].tid = s /\ x \in PlacesAt(pg, p) BY DEF TagPlaces, Tagged
  <2>2. PICK q \in Pages : pg[q].tid = t /\ y \in PlacesAt(pg, q) BY DEF TagPlaces, Tagged
  <2>3. Disjoint(PlacesAt(pg, p), PlacesAt(pg, q)) BY <2>1, <2>2, PlacesApart
  <2> QED BY <2>1, <2>2, <2>3 DEF Disjoint
<1> QED BY <1>1 DEF Disjoint

(* db_rebuild_rowids visits every slot of every page once.                    *)
LEMMA PlacesAre ==
    ASSUME NEW pg, NEW ts, Catalogue(ts), TablesHold(pg, ts), OldPagesIn(pg, Len(ts))
    PROVE  Lists(Places(pg, ts), EveryPlace(pg))
<1>1. PICK n \in Nat : n = Len(ts) /\ DOMAIN ts = 1..n BY TabsIn, Sizes
<1>2. PICK S : S = [t \in 1..n |-> TagPlaces(pg, t)] OBVIOUS
<1> DEFINE At(p) == [j \in DOMAIN pg[p].slots |-> <<p, j>>]
           Of(t) == LET chain == Chain(pg, ts[t].first)
                    IN  FlattenSeq([i \in DOMAIN chain |-> [j \in DOMAIN pg[chain[i]].slots |-> <<chain[i], j>>]])
<1>3. ASSUME NEW p \in Pages PROVE Lists(At(p), PlacesAt(pg, p))
  <2>1. PICK m \in Nat : m = Len(pg[p].slots) /\ DOMAIN pg[p].slots = 1..m BY OldPageIs DEF OldPagesIn
  <2>2. PICK s : s = At(p) /\ s = [j \in 1..m |-> <<p, j>>] BY <2>1
  <2>3. \A j \in 1..m : s[j] \in PlacesAt(pg, p) BY <2>1, <2>2 DEF PlacesAt
  <2>4. s \in [1..m -> PlacesAt(pg, p)] BY <2>2, <2>3
  <2>5. s \in Seq(PlacesAt(pg, p)) /\ Len(s) = m BY <2>4
  <2>6. \A x \in PlacesAt(pg, p) : \E j \in 1..m : s[j] = x BY <2>1, <2>2 DEF PlacesAt
  <2>7. \A i, j \in 1..m : s[i] = s[j] => i = j BY <2>2
  <2> QED BY <2>2, <2>5, <2>6, <2>7 DEF Lists
<1>4. ASSUME NEW t \in 1..n PROVE Lists(Of(t), S[t])
  <2>1. PICK c : Holds(pg, ts[t], t, c) BY <1>1 DEF TablesHold
  <2>2. IsChain(pg, c) /\ c[1] = ts[t].first BY <2>1 DEF Holds
  <2>3. Chain(pg, ts[t].first) = c BY <2>2, ChainFollowed
  <2>4. PICK m \in Nat : m = Len(c) /\ DOMAIN c = 1..m /\ \A i \in 1..m : c[i] \in Pages BY <2>2, ChainIn
  <2>5. PICK g : g = [i \in 1..m |-> At(c[i])] OBVIOUS
  <2>6. PICK R : R = [i \in 1..m |-> PlacesAt(pg, c[i])] OBVIOUS
  <2>7. \A i \in 1..m : Lists(g[i], R[i])
    <3> HIDE DEF At
    <3> QED BY <1>3, <2>4, <2>5, <2>6
  <2>8. Apart(R, m)
    <3>1. ASSUME NEW i \in 1..m, NEW j \in 1..m, i # j PROVE Disjoint(R[i], R[j])
      <4>1. c[i] # c[j] BY <2>2, <2>4, <3>1, ChainIn
      <4> QED BY <2>6, <4>1, PlacesApart
    <3> QED BY <3>1 DEF Apart
  <2>9. g = [i \in 1..m |-> g[i]] BY <2>5
  <2>10. Lists(FlattenSeq(g), UpTo(R, m))
    <3> HIDE DEF At, Of
    <3> QED BY <2>7, <2>8, <2>9, FlattenIs
  <2>11. UpTo(R, m) = S[t]
    <3>1. ASSUME NEW x, x \in UpTo(R, m) PROVE x \in TagPlaces(pg, t)
      <4>1. PICK i \in 1..m : x \in PlacesAt(pg, c[i]) BY <2>6, <3>1 DEF UpTo
      <4>2. c[i] \in Tagged(pg, t) BY <2>1, <2>4 DEF Holds, Tagged
      <4> QED BY <4>1, <4>2 DEF TagPlaces
    <3>2. ASSUME NEW x, x \in TagPlaces(pg, t) PROVE x \in UpTo(R, m)
      <4>1. PICK p \in Pages : pg[p].tid = t /\ x \in PlacesAt(pg, p) BY <3>2 DEF TagPlaces, Tagged
      <4>2. PICK i \in 1..m : c[i] = p BY <2>1, <2>4, <4>1 DEF Holds
      <4>3. x \in R[i] BY <2>6, <4>1, <4>2
      <4> QED BY <4>3 DEF UpTo
    <3> QED BY <1>2, <3>1, <3>2
  <2>12. Of(t) = FlattenSeq(g) BY <2>3, <2>4, <2>5
  <2> HIDE DEF Of
  <2> QED BY <2>10, <2>11, <2>12
<1>5. PICK g : g = [t \in 1..n |-> Of(t)] OBVIOUS
<1>6. Apart(S, n)
  <2>1. ASSUME NEW i \in 1..n, NEW j \in 1..n, i # j PROVE Disjoint(S[i], S[j])
    <3>1. Disjoint(TagPlaces(pg, i), TagPlaces(pg, j)) BY <2>1, TagPlacesApart
    <3> QED BY <1>2, <3>1
  <2> QED BY <2>1 DEF Apart
<1>7. Lists(FlattenSeq(g), UpTo(S, n))
  <2> HIDE DEF Of
  <2>1. g = [t \in 1..n |-> g[t]] /\ \A t \in 1..n : Lists(g[t], S[t]) BY <1>4, <1>5
  <2> QED BY <1>6, <2>1, FlattenIs
<1>8. UpTo(S, n) = EveryPlace(pg)
  <2>1. ASSUME NEW x, x \in UpTo(S, n) PROVE x \in EveryPlace(pg)
    <3>1. PICK t \in 1..n : x \in TagPlaces(pg, t) BY <1>2, <2>1 DEF UpTo
    <3> QED BY <3>1 DEF TagPlaces, Tagged, EveryPlace
  <2>2. ASSUME NEW x, x \in EveryPlace(pg) PROVE x \in UpTo(S, n)
    <3>1. PICK p \in Pages : x \in PlacesAt(pg, p) BY <2>2 DEF EveryPlace
    <3>2. pg[p].tid \in 0..MaxTables /\ MaxTables \in Nat /\ pg[p].tid <= n BY <1>1, OldPageIs, Sizes DEF OldPagesIn
    <3>3. pg[p].tid # 0
      <4>1. ASSUME pg[p].tid = 0 PROVE FALSE
        <5>1. pg[p].slots = << >> BY <4>1 DEF OldPagesIn
        <5> QED BY <3>1, <5>1, NoPlaces DEF PlacesAt
      <4> QED BY <4>1
    <3>4. PICK t \in 1..n : t = pg[p].tid BY <3>2, <3>3
    <3>5. x \in S[t] BY <1>2, <3>1, <3>4 DEF TagPlaces, Tagged
    <3> QED BY <3>5 DEF UpTo
  <2> QED BY <2>1, <2>2
<1>9. Places(pg, ts) = FlattenSeq(g) BY <1>1, <1>5 DEF Places
<1> QED BY <1>7, <1>8, <1>9

-----------------------------------------------------------------------------
(* Giving identities and addresses to the rows, one place after the other.    *)

RowAt(g, x) == g[x[1]].slots[x[2]].row

RowSet(g, p, j, row) == [g EXCEPT ![p].slots[j].row = row]

(* h is g but for the identities of its rows.                                 *)
ButRows(g, h) ==
    \A q \in Pages :
        /\ h[q].tid = g[q].tid /\ h[q].next = g[q].next /\ h[q].recs = g[q].recs
        /\ Len(h[q].slots) = Len(g[q].slots)
        /\ \A i \in 1..Len(g[q].slots) : h[q].slots[i].off = g[q].slots[i].off

OnlyRow(g, h, p, j, row) ==
    /\ h \in [Pages -> OldPages] /\ ButRows(g, h)
    /\ \A q \in Pages : \A i \in 1..Len(g[q].slots) :
          h[q].slots[i].row = IF q = p /\ i = j THEN row ELSE g[q].slots[i].row

LEMMA RowSetIs ==
    ASSUME NEW g \in [Pages -> OldPages], NEW p \in Pages, NEW j \in 1..Len(g[p].slots), NEW row \in RowIds
    PROVE  OnlyRow(g, RowSet(g, p, j, row), p, j, row)
<1>1. PICK x \in OldPages : x = g[p] OBVIOUS
<1>2. PICK sl \in Seq(OldSlots) : sl = x.slots BY DEF OldPages
<1>3. PICK n \in Nat : n = Len(sl) /\ j \in 1..n BY <1>1, <1>2, LenProperties
<1>4. PICK z \in OldSlots : z = sl[j] BY <1>2, <1>3, ElementOfSeq
<1>5. PICK z2 : z2 = [z EXCEPT !.row = row] OBVIOUS
<1>6. z2 \in OldSlots /\ z2.off = z.off /\ z2.row = row BY <1>5 DEF OldSlots
<1>7. PICK sl2 : sl2 = [sl EXCEPT ![j] = z2] OBVIOUS
<1>8. sl2 \in Seq(OldSlots) /\ Len(sl2) = n /\ sl2[j] = z2 /\ \A i \in 1..n : i # j => sl2[i] = sl[i]
  BY <1>3, <1>6, <1>7, ExceptSeq
<1>9. PICK y : y = [x EXCEPT !.slots = sl2] OBVIOUS
<1>10. y \in OldPages /\ y.slots = sl2 /\ y.tid = x.tid /\ y.next = x.next /\ y.recs = x.recs
  BY <1>8, <1>9 DEF OldPages
<1>11. PICK h : h = [g EXCEPT ![p] = y] OBVIOUS
<1>12. h \in [Pages -> OldPages] /\ h[p] = y /\ \A q \in Pages : q # p => h[q] = g[q] BY <1>10, <1>11
<1>13. RowSet(g, p, j, row) = h BY <1>1, <1>2, <1>4, <1>5, <1>7, <1>9, <1>11 DEF RowSet
<1>14. ASSUME NEW q \in Pages
       PROVE  /\ h[q].tid = g[q].tid /\ h[q].next = g[q].next /\ h[q].recs = g[q].recs
              /\ Len(h[q].slots) = Len(g[q].slots)
              /\ \A i \in 1..Len(g[q].slots) :
                    /\ h[q].slots[i].off = g[q].slots[i].off
                    /\ h[q].slots[i].row = IF q = p /\ i = j THEN row ELSE g[q].slots[i].row
  <2>1. CASE q # p
    <3>1. h[q] = g[q] BY <1>12, <2>1
    <3> QED BY <2>1, <3>1
  <2>2. CASE q = p
    <3>1. h[q] = y /\ g[q] = x /\ g[q].slots = sl /\ h[q].slots = sl2 BY <1>1, <1>2, <1>10, <1>12, <2>2
    <3>2. ASSUME NEW i \in 1..n
          PROVE  sl2[i].off = sl[i].off /\ sl2[i].row = IF i = j THEN row ELSE sl[i].row
      <4>1. CASE i = j BY <1>4, <1>6, <1>8, <4>1
      <4>2. CASE i # j BY <1>8, <4>2
      <4> QED BY <4>1, <4>2
    <3> QED BY <1>3, <1>8, <1>10, <2>2, <3>1, <3>2
  <2> QED BY <2>1, <2>2
<1> QED BY <1>12, <1>13, <1>14 DEF OnlyRow, ButRows

NumStates == [page : [Pages -> OldPages], ptr : Ptrs, next : 1..RowLimit]

(* One visit of db_rebuild_rowids.                                            *)
NumberOne(st, x) ==
    LET p    == x[1]
        j    == x[2]
        slot == st.page[p].slots[j]
        row  == IF slot.row = 0 THEN st.next ELSE slot.row
    IN  [page |-> [st.page EXCEPT ![p].slots[j].row = row],
         ptr  |-> [st.ptr EXCEPT ![row] = <<p, slot.off>>],
         next |-> IF row >= st.next THEN row + 1 ELSE st.next]

(* Either no row has an identity and there are enough to give, or each row has *)
(* its own.                                                                   *)
Unnumbered(pg, ps) == Len(ps) < RowLimit /\ \A k \in 1..Len(ps) : RowAt(pg, ps[k]) = 0
Identified(pg, ps) ==
    /\ \A k \in 1..Len(ps) : RowAt(pg, ps[k]) \in RowIds
    /\ \A k, l \in 1..Len(ps) : RowAt(pg, ps[k]) = RowAt(pg, ps[l]) => k = l

Numbering(st, pg, ps, i) ==
    /\ st \in NumStates /\ ButRows(pg, st.page)
    /\ \A k \in i + 1..Len(ps) : RowAt(st.page, ps[k]) = RowAt(pg, ps[k])
    /\ \A k \in 1..i : RowAt(st.page, ps[k]) \in 1..st.next - 1 /\ st.ptr[RowAt(st.page, ps[k])] = ps[k]
    /\ \A r \in RowIds : st.ptr[r] = NoRow \/ \E k \in 1..i : RowAt(st.page, ps[k]) = r
    /\ \/ Unnumbered(pg, ps) /\ st.next = i + 1
       \/ Identified(pg, ps) /\ \A k \in 1..i : RowAt(st.page, ps[k]) = RowAt(pg, ps[k])

(* A list of the places of tidy pages.                                        *)
PlaceList(pg, ps) ==
    /\ pg \in [Pages -> OldPages] /\ Lists(ps, EveryPlace(pg))
    /\ \A p \in Pages : \A j \in 1..Len(pg[p].slots) : pg[p].slots[j].off = j

LEMMA PlaceIs ==
    ASSUME NEW pg, NEW ps, PlaceList(pg, ps), NEW k \in 1..Len(ps)
    PROVE  \E p \in Pages : \E j \in 1..Len(pg[p].slots) : ps[k] = <<p, j>>
<1>1. ps \in Seq(EveryPlace(pg)) BY DEF PlaceList, Lists
<1>2. PICK x \in EveryPlace(pg) : x = ps[k] BY <1>1, ElementOfSeq
<1>3. PICK p \in Pages : x \in PlacesAt(pg, p) BY DEF EveryPlace
<1>4. PICK j \in 1..Len(pg[p].slots) : x = <<p, j>> BY <1>3 DEF PlacesAt
<1> QED BY <1>2, <1>4

LEMMA NumberStays ==
    ASSUME NEW pg, NEW ps, PlaceList(pg, ps), NEW n \in Nat, n = Len(ps), NEW i \in 1..n,
           NEW st, Numbering(st, pg, ps, i - 1)
    PROVE  Numbering(NumberOne(st, ps[i]), pg, ps, i)
<1>0. PICK p \in Pages : \E j \in 1..Len(pg[p].slots) : ps[i] = <<p, j>> BY PlaceIs
<1>1. PICK j \in 1..Len(pg[p].slots) : ps[i] = <<p, j>> BY <1>0
<1>2. PICK g \in [Pages -> OldPages], ptr \in Ptrs, next \in 1..RowLimit :
         st.page = g /\ st.ptr = ptr /\ st.next = next BY DEF Numbering, NumStates
<1>3. ButRows(pg, g) BY <1>2 DEF Numbering
<1>4. Len(g[p].slots) = Len(pg[p].slots) /\ g[p].slots[j].off = j
  BY <1>3 DEF ButRows, PlaceList
<1>5. j \in 1..Len(g[p].slots) /\ j \in Nat
  <2>1. Len(pg[p].slots) \in Nat BY OldPageIs DEF PlaceList
  <2> QED BY <1>4, <2>1
<1>6. \A k \in i..n : RowAt(g, ps[k]) = RowAt(pg, ps[k])
  <2>1. i - 1 + 1 = i OBVIOUS
  <2> QED BY <1>2, <2>1 DEF Numbering
<1>7. \A k \in 1..i - 1 : RowAt(g, ps[k]) \in 1..next - 1 /\ ptr[RowAt(g, ps[k])] = ps[k]
  BY <1>2 DEF Numbering
<1>8. \A r \in RowIds : ptr[r] = NoRow \/ \E k \in 1..i - 1 : RowAt(g, ps[k]) = r BY <1>2 DEF Numbering
<1>9. PICK old : old = g[p].slots[j].row /\ old = RowAt(pg, ps[i])
  <2>1. RowAt(g, ps[i]) = g[p].slots[j].row BY <1>1 DEF RowAt
  <2>2. i \in i..n OBVIOUS
  <2> QED BY <1>6, <2>1, <2>2
<1>10. PICK row : row = IF old = 0 THEN next ELSE old OBVIOUS
<1>11. RowLimit \in Nat /\ RowIds = 1..RowLimit - 1 BY Sizes DEF RowIds
<1>12. row \in RowIds /\ \A k \in 1..i - 1 : RowAt(g, ps[k]) # row
  <2>1. CASE Unnumbered(pg, ps) /\ next = i
    <3>0. Len(ps) < RowLimit /\ RowAt(pg, ps[i]) = 0 BY <2>1 DEF Unnumbered
    <3>1. old = 0 /\ i < RowLimit BY <1>9, <1>11, <3>0
    <3>2. row = i BY <1>10, <2>1, <3>1
    <3> QED BY <1>7, <1>11, <2>1, <3>1, <3>2
  <2>2. CASE Identified(pg, ps) /\ \A k \in 1..i - 1 : RowAt(g, ps[k]) = RowAt(pg, ps[k])
    <3>1. old \in RowIds BY <1>9, <2>2 DEF Identified
    <3>2. row = old BY <1>10, <1>11, <3>1
    <3>3. ASSUME NEW k \in 1..i - 1 PROVE RowAt(g, ps[k]) # row
      <4>1. k \in 1..n /\ k # i OBVIOUS
      <4>2. RowAt(pg, ps[k]) # RowAt(pg, ps[i]) BY <2>2, <4>1 DEF Identified
      <4> QED BY <1>9, <2>2, <3>2, <4>2
    <3> QED BY <3>1, <3>2, <3>3
  <2>3. i - 1 + 1 = i OBVIOUS
  <2> QED BY <1>2, <2>1, <2>2, <2>3 DEF Numbering
<1>13. PICK h : h = RowSet(g, p, j, row) OBVIOUS
<1>14. OnlyRow(g, h, p, j, row) BY <1>5, <1>12, <1>13, RowSetIs
<1>15. ButRows(pg, h)
  <2>1. ButRows(g, h) BY <1>14 DEF OnlyRow
  <2> QED BY <1>3, <2>1 DEF ButRows
<1>16. RowAt(h, ps[i]) = row /\ \A k \in 1..n : k # i => RowAt(h, ps[k]) = RowAt(g, ps[k])
  <2>1. RowAt(h, ps[i]) = row BY <1>1, <1>5, <1>14 DEF OnlyRow, RowAt
  <2>2. ASSUME NEW k \in 1..n, k # i PROVE RowAt(h, ps[k]) = RowAt(g, ps[k])
    <3>1. PICK q \in Pages : \E m \in 1..Len(pg[q].slots) : ps[k] = <<q, m>> BY PlaceIs
    <3>2. PICK m \in 1..Len(pg[q].slots) : ps[k] = <<q, m>> BY <3>1
    <3>3. ps[k] # ps[i] BY <2>2 DEF PlaceList, Lists
    <3>4. ~(q = p /\ m = j) BY <1>1, <3>2, <3>3
    <3>5. m \in 1..Len(g[q].slots) BY <1>3 DEF ButRows
    <3>6. h[q].slots[m].row = g[q].slots[m].row BY <1>14, <3>4, <3>5 DEF OnlyRow
    <3> QED BY <3>2, <3>6 DEF RowAt
  <2> QED BY <2>1, <2>2
<1>17. PICK f : f = [ptr EXCEPT ![row] = <<p, j>>] OBVIOUS
<1>18. f \in Ptrs /\ f[row] = ps[i] /\ \A r \in RowIds : r # row => f[r] = ptr[r]
  <2>1. <<p, j>> \in Pages \X Nat BY <1>5
  <2> QED BY <1>1, <1>12, <1>17, <2>1 DEF Ptrs
<1>19. PICK m : m = IF row >= next THEN row + 1 ELSE next OBVIOUS
<1>20. m \in 1..RowLimit /\ m >= next /\ row < m BY <1>11, <1>12, <1>19
<1>21. PICK new : new = [page |-> h, ptr |-> f, next |-> m] OBVIOUS
<1>22. NumberOne(st, ps[i]) = new
  <2>1. ps[i][1] = p /\ ps[i][2] = j BY <1>1
  <2>2. g[p].slots[j].off = j BY <1>4
  <2>3. (IF g[p].slots[j].row = 0 THEN next ELSE g[p].slots[j].row) = row BY <1>9, <1>10
  <2>4. NumberOne(st, ps[i]) =
          LET slot == g[p].slots[j]
              r    == IF slot.row = 0 THEN next ELSE slot.row
          IN  [page |-> [g EXCEPT ![p].slots[j].row = r],
               ptr  |-> [ptr EXCEPT ![r] = <<p, slot.off>>],
               next |-> IF r >= next THEN r + 1 ELSE next]
    BY <1>2, <2>1, Zenon DEF NumberOne
  <2>5. NumberOne(st, ps[i]) = [page |-> [g EXCEPT ![p].slots[j].row = row],
                                ptr  |-> [ptr EXCEPT ![row] = <<p, j>>],
                                next |-> IF row >= next THEN row + 1 ELSE next]
    BY <2>2, <2>3, <2>4, Zenon
  <2> QED BY <1>13, <1>17, <1>19, <1>21, <2>5, Zenon DEF RowSet
<1>23. new \in NumStates /\ new.page = h /\ new.ptr = f /\ new.next = m
  BY <1>14, <1>18, <1>20, <1>21 DEF NumStates, OnlyRow
<1>24. ASSUME NEW k \in i + 1..n PROVE RowAt(h, ps[k]) = RowAt(pg, ps[k])
  <2>1. k \in 1..n /\ k # i /\ k \in i..n OBVIOUS
  <2> QED BY <1>6, <1>16, <2>1
<1>25. ASSUME NEW k \in 1..i PROVE RowAt(h, ps[k]) \in 1..m - 1 /\ f[RowAt(h, ps[k])] = ps[k]
  <2>1. CASE k = i
    <3>1. row \in 1..m - 1 BY <1>11, <1>12, <1>20
    <3> QED BY <1>16, <1>18, <2>1, <3>1
  <2>2. CASE k # i
    <3>1. k \in 1..i - 1 /\ k \in 1..n BY <2>2
    <3>2. PICK r : r = RowAt(g, ps[k]) /\ r = RowAt(h, ps[k]) BY <1>16, <2>2, <3>1
    <3>3. r \in 1..next - 1 /\ ptr[r] = ps[k] /\ r # row BY <1>7, <1>12, <3>1, <3>2
    <3>4. r \in RowIds /\ r \in 1..m - 1 BY <1>11, <1>20, <3>3
    <3> QED BY <1>18, <3>2, <3>3, <3>4
  <2> QED BY <2>1, <2>2
<1>26. ASSUME NEW r \in RowIds PROVE f[r] = NoRow \/ \E k \in 1..i : RowAt(h, ps[k]) = r
  <2>1. CASE r = row
    <3>1. i \in 1..i OBVIOUS
    <3> QED BY <1>16, <2>1, <3>1
  <2>2. CASE r # row
    <3>1. f[r] = ptr[r] BY <1>18, <2>2
    <3>2. ASSUME NEW k \in 1..i - 1, RowAt(g, ps[k]) = r PROVE \E l \in 1..i : RowAt(h, ps[l]) = r
      <4>1. k \in 1..i /\ k \in 1..n /\ k # i OBVIOUS
      <4> QED BY <1>16, <3>2, <4>1
    <3> QED BY <1>8, <3>1, <3>2
  <2> QED BY <2>1, <2>2
<1>27. \/ Unnumbered(pg, ps) /\ m = i + 1
       \/ Identified(pg, ps) /\ \A k \in 1..i : RowAt(h, ps[k]) = RowAt(pg, ps[k])
  <2>1. CASE Unnumbered(pg, ps) /\ next = i
    <3>1. old = 0 BY <1>9, <2>1 DEF Unnumbered
    <3>2. m = i + 1 BY <1>10, <1>19, <2>1, <3>1
    <3> QED BY <2>1, <3>2
  <2>2. CASE Identified(pg, ps) /\ \A k \in 1..i - 1 : RowAt(g, ps[k]) = RowAt(pg, ps[k])
    <3>1. old \in RowIds BY <1>9, <2>2 DEF Identified
    <3>2. row = old BY <1>10, <1>11, <3>1
    <3>3. ASSUME NEW k \in 1..i PROVE RowAt(h, ps[k]) = RowAt(pg, ps[k])
      <4>1. CASE k = i BY <1>9, <1>16, <3>2, <4>1
      <4>2. CASE k # i
        <5>1. k \in 1..i - 1 /\ k \in 1..n BY <4>2
        <5> QED BY <1>16, <2>2, <4>2, <5>1
      <4> QED BY <4>1, <4>2
    <3> QED BY <2>2, <3>3
  <2>3. i - 1 + 1 = i OBVIOUS
  <2> QED BY <1>2, <2>1, <2>2, <2>3 DEF Numbering
<1>28. Numbering(new, pg, ps, i) BY <1>15, <1>23, <1>24, <1>25, <1>26, <1>27 DEF Numbering
<1> QED BY <1>22, <1>28

Numbered(pg, ps) ==
    Iterate(LAMBDA st, i : NumberOne(st, ps[i]),
            [page |-> pg, ptr |-> [r \in RowIds |-> NoRow], next |-> 1], Len(ps))

(* db_rebuild_rowids gives every row its identity and its address.            *)
LEMMA NumberingIs ==
    ASSUME NEW pg, NEW ps, PlaceList(pg, ps), Unnumbered(pg, ps) \/ Identified(pg, ps)
    PROVE  Numbering(Numbered(pg, ps), pg, ps, Len(ps))
<1>0. PICK base : base = [page |-> pg, ptr |-> [r \in RowIds |-> NoRow], next |-> 1] OBVIOUS
<1>1. PICK n \in Nat : n = Len(ps) BY LenProperties DEF PlaceList, Lists
<1>2. PICK T : T = [i \in 0..n |-> {st \in NumStates : Numbering(st, pg, ps, i)}] OBVIOUS
<1>3. base \in T[0]
  <2>1. base \in NumStates /\ base.page = pg /\ base.next = 1 /\ \A r \in RowIds : base.ptr[r] = NoRow
    <3>1. 1 \in 1..RowLimit BY Sizes
    <3> QED BY <1>0, <3>1 DEF NumStates, Ptrs, PlaceList
  <2>2. ButRows(pg, pg) BY DEF ButRows
  <2>3. 1..0 = {} OBVIOUS
  <2>4. Numbering(base, pg, ps, 0) BY <2>1, <2>2, <2>3 DEF Numbering
  <2> QED BY <1>2, <2>1, <2>4
<1>4. PICK F : F = [z \in NumStates \X (1..n) |-> NumberOne(z[1], ps[z[2]])] OBVIOUS
<1>5. ASSUME NEW x \in NumStates, NEW i \in 1..n PROVE F[<<x, i>>] = NumberOne(x, ps[i])
  <2>1. <<x, i>> \in NumStates \X (1..n) /\ <<x, i>>[1] = x /\ <<x, i>>[2] = i OBVIOUS
  <2>2. F[<<x, i>>] = NumberOne(<<x, i>>[1], ps[<<x, i>>[2]]) BY <1>4, <2>1, Zenon
  <2> QED BY <2>1, <2>2
<1>6. ASSUME NEW i \in 1..n, NEW x \in T[i - 1] PROVE x \in NumStates /\ NumberOne(x, ps[i]) \in T[i]
  <2>1. i - 1 \in 0..n /\ i \in 0..n OBVIOUS
  <2>2. x \in NumStates /\ Numbering(x, pg, ps, i - 1) BY <1>2, <2>1
  <2>3. Numbering(NumberOne(x, ps[i]), pg, ps, i) BY <1>1, <2>2, NumberStays
  <2>4. NumberOne(x, ps[i]) \in NumStates BY <2>3 DEF Numbering
  <2> QED BY <1>2, <2>1, <2>2, <2>3, <2>4
<1>7. PICK f : Loop(f, n, base, F) BY LoopExists
<1>8. \A i \in 0..n : f[i] \in T[i]
  <2>1. \A i \in 1..n : \A x \in T[i - 1] : F[<<x, i>>] \in T[i] BY <1>5, <1>6
  <2> QED BY <1>3, <1>7, <2>1, LoopStays
<1> DEFINE Is(h) == h = [i \in 0..n |-> IF i = 0 THEN base ELSE NumberOne(h[i - 1], ps[i])]
<1>9. Is(f)
  <2>1. ASSUME NEW i \in 0..n PROVE f[i] = IF i = 0 THEN base ELSE NumberOne(f[i - 1], ps[i])
    <3>1. f[i] = IF i = 0 THEN base ELSE F[<<f[i - 1], i>>] BY <1>7 DEF Loop
    <3>2. i # 0 => i \in 1..n /\ i - 1 \in 0..n OBVIOUS
    <3>3. i # 0 => f[i - 1] \in NumStates BY <1>6, <1>8, <3>2
    <3> QED BY <1>5, <3>1, <3>2, <3>3
  <2>2. f = [i \in 0..n |-> f[i]] BY <1>7 DEF Loop
  <2> QED BY <2>1, <2>2
<1>10. PICK g : g = (CHOOSE h : Is(h)) /\ Is(g)
  <2> HIDE DEF Is
  <2> QED BY <1>9
<1>11. g[n] \in T[n]
  <2>1. \A i \in 0..n : g[i] = IF i = 0 THEN base ELSE NumberOne(g[i - 1], ps[i]) BY <1>10
  <2>2. g[0] = f[0] BY <1>7, <2>1 DEF Loop
  <2>3. ASSUME NEW i \in 1..n, g[i - 1] = f[i - 1] PROVE g[i] = f[i]
    <3>1. i \in 0..n /\ i # 0 OBVIOUS
    <3>2. g[i] = NumberOne(f[i - 1], ps[i]) BY <2>1, <2>3, <3>1
    <3>3. f[i] = NumberOne(f[i - 1], ps[i]) BY <1>9, <3>1
    <3> QED BY <3>2, <3>3
  <2>4. \A i \in 0..n : g[i] = f[i]
    <3> HIDE DEF Is
    <3> QED BY <2>2, <2>3, SameLoop
  <2> QED BY <1>8, <2>4
<1>12. PICK r : r = IF n <= 0 THEN base ELSE g[n] OBVIOUS
<1>13. r \in T[n]
  <2>1. CASE n = 0 BY <1>3, <1>12, <2>1
  <2>2. CASE n # 0 BY <1>11, <1>12, <2>2
  <2> QED BY <2>1, <2>2
<1>14. Numbered(pg, ps) = r
  <2>1. Numbered(pg, ps) = IF n <= 0 THEN base ELSE (CHOOSE h : Is(h))[n]
    BY <1>0, <1>1 DEF Numbered, Iterate
  <2> HIDE DEF Is
  <2> QED BY <1>10, <1>12, <2>1
<1>15. Numbering(r, pg, ps, n)
  <2>1. n \in 0..n OBVIOUS
  <2> QED BY <1>2, <1>13, <2>1
<1> QED BY <1>1, <1>14, <1>15

LEMMA RebuildRowidsIs ==
    ASSUME NEW pg, NEW ts, PlaceList(pg, Places(pg, ts)), Unnumbered(pg, Places(pg, ts)) \/ Identified(pg, Places(pg, ts))
    PROVE  Numbering(RebuildRowids(pg, ts), pg, Places(pg, ts), Len(Places(pg, ts)))
<1>1. RebuildRowids(pg, ts) = Numbered(pg, Places(pg, ts))
  BY DEF RebuildRowids, Numbered, NumberOne, Iterate
<1> QED BY <1>1, NumberingIs

-----------------------------------------------------------------------------
(* The facts of a before-image or a file, and what is restored from them.     *)

DocsGood(d) ==
    /\ d \in Seq(DocNames \X Contents) /\ Len(d) <= DocMax
    /\ \A i, j \in 1..Len(d) : d[i][1] = d[j][1] => i = j

DefinitionRecs == [name : IndexNames, tid : Nat, col : Nat]

DefinitionsGood(ds, ts) ==
    /\ ds \in Seq(DefinitionRecs) /\ Len(ds) <= MaxIndexes
    /\ \A i \in 1..Len(ds) : OnColumn(ds[i], ts)

FactsGood(f) ==
    /\ Catalogue(f.tabs) /\ TablesHold(f.page, f.tabs)
    /\ Pool(f.page, f.next_page, f.free_list)
    /\ OldPagesIn(f.page, Len(f.tabs)) /\ Tidied(f.page, f.tabs)
    /\ Unnumbered(f.page, Places(f.page, f.tabs)) \/ Identified(f.page, Places(f.page, f.tabs))
    /\ DefinitionsGood(f.defs, f.tabs)
    /\ PairsGood(f.kv) /\ DocsGood(f.docs)

LEMMA PlacesTidy ==
    ASSUME NEW pg, NEW ts, Catalogue(ts), TablesHold(pg, ts), OldPagesIn(pg, Len(ts)), Tidied(pg, ts)
    PROVE  PlaceList(pg, Places(pg, ts))
<1>1. pg \in [Pages -> OldPages] BY DEF OldPagesIn
<1>2. Lists(Places(pg, ts), EveryPlace(pg)) BY PlacesAre
<1>3. ASSUME NEW p \in Pages, NEW j \in 1..Len(pg[p].slots) PROVE pg[p].slots[j].off = j
  <2>1. CASE pg[p].tid = 0
    <3>1. pg[p].slots = << >> BY <2>1 DEF OldPagesIn
    <3> QED BY <3>1, NoPlaces
  <2>2. CASE pg[p].tid # 0 BY <2>2 DEF Tidied, Tidy
  <2> QED BY <2>1, <2>2
<1> QED BY <1>1, <1>2, <1>3 DEF PlaceList

(* The rebuilt pages and addresses are in order.                              *)
LEMMA RebuiltStore ==
    ASSUME NEW f, FactsGood(f), NEW r, r = RebuildRowids(f.page, f.tabs)
    PROVE  Stored(r.page, f.tabs, r.ptr, r.next) /\ Pool(r.page, f.next_page, f.free_list)
<1>1. PICK pg, ts : pg = f.page /\ ts = f.tabs OBVIOUS
<1>2. /\ Catalogue(ts) /\ TablesHold(pg, ts) /\ Pool(pg, f.next_page, f.free_list)
      /\ OldPagesIn(pg, Len(ts)) /\ Tidied(pg, ts)
      /\ Unnumbered(pg, Places(pg, ts)) \/ Identified(pg, Places(pg, ts))
  BY <1>1 DEF FactsGood
<1>3. PICK ps : ps = Places(pg, ts) OBVIOUS
<1>4. PlaceList(pg, ps) BY <1>2, <1>3, PlacesTidy
<1>5. PICK n \in Nat : n = Len(ps) BY <1>4, LenProperties DEF PlaceList, Lists
<1>6. Numbering(r, pg, ps, n) BY <1>1, <1>2, <1>3, <1>4, <1>5, RebuildRowidsIs
<1>7. PICK new \in [Pages -> OldPages], ptr \in Ptrs, next \in 1..RowLimit :
         r.page = new /\ r.ptr = ptr /\ r.next = next BY <1>6 DEF Numbering, NumStates
<1>8. ButRows(pg, new) BY <1>6, <1>7 DEF Numbering
<1>9. RowLimit \in Nat /\ RowIds = 1..RowLimit - 1 BY Sizes DEF RowIds
<1>10. ASSUME NEW p \in Pages, NEW j \in 1..Len(new[p].slots)
       PROVE  new[p].slots[j].row \in 1..next - 1 /\ ptr[new[p].slots[j].row] = <<p, j>>
  <2>1. j \in 1..Len(pg[p].slots) BY <1>8 DEF ButRows
  <2>2. <<p, j>> \in EveryPlace(pg) BY <2>1 DEF EveryPlace, PlacesAt
  <2>3. PICK k \in 1..n : ps[k] = <<p, j>> BY <1>4, <1>5, <2>2 DEF PlaceList, Lists
  <2>4. RowAt(new, ps[k]) = new[p].slots[j].row BY <2>3 DEF RowAt
  <2>5. RowAt(new, ps[k]) \in 1..next - 1 /\ ptr[RowAt(new, ps[k])] = ps[k] BY <1>6, <1>7 DEF Numbering
  <2> QED BY <2>3, <2>4, <2>5
<1>11. PagesIn(new, Len(ts))
  <2>1. ASSUME NEW p \in Pages
        PROVE  new[p] \in PageRecs /\ new[p].tid <= Len(ts)
               /\ (new[p].tid = 0 => new[p].slots = << >> /\ new[p].recs = << >>)
    <3>1. PICK x \in OldPages : x = new[p] OBVIOUS
    <3>2. PICK sl \in Seq(OldSlots) : sl = x.slots BY DEF OldPages
    <3>3. PICK m \in Nat : m = Len(sl) BY LenProperties
    <3>4. ASSUME NEW j \in 1..m PROVE sl[j] \in SlotRecs
      <4>1. sl[j] \in OldSlots BY <3>3, ElementOfSeq
      <4>2. sl[j].row \in 1..next - 1 BY <1>10, <3>1, <3>2, <3>3
      <4>3. sl[j].row \in RowIds BY <1>9, <4>2
      <4> QED BY <4>1, <4>3 DEF OldSlots, SlotRecs
    <3>5. sl \in Seq(SlotRecs)
      <4>1. sl \in [1..m -> OldSlots] BY <3>3, LenProperties
      <4>2. sl \in [1..m -> SlotRecs] BY <3>4, <4>1
      <4> QED BY <4>2
    <3>6. x \in PageRecs BY <3>2, <3>5 DEF OldPages, PageRecs
    <3>7. x.tid = pg[p].tid /\ x.recs = pg[p].recs /\ Len(sl) = Len(pg[p].slots) BY <1>8, <3>1, <3>2 DEF ButRows
    <3>8. x.tid <= Len(ts) BY <1>2, <3>7 DEF OldPagesIn
    <3>9. ASSUME x.tid = 0 PROVE x.slots = << >> /\ x.recs = << >>
      <4>1. pg[p].slots = << >> /\ pg[p].recs = << >> BY <1>2, <3>7, <3>9 DEF OldPagesIn
      <4>2. Len(sl) = 0 BY <3>7, <4>1, NoPlaces
      <4>3. sl = << >> BY <4>2, EmptySeq
      <4> QED BY <3>2, <3>7, <4>1, <4>3
    <3> QED BY <3>1, <3>6, <3>8, <3>9
  <2>2. new \in [Pages -> PageRecs] BY <2>1
  <2> QED BY <2>1, <2>2 DEF PagesIn
<1>12. Tidied(new, ts)
  <2>1. ASSUME NEW p \in Pages, new[p].tid # 0 PROVE Tidy(new[p], ts[new[p].tid].types)
    <3>1. /\ new[p].tid = pg[p].tid /\ new[p].recs = pg[p].recs /\ Len(new[p].slots) = Len(pg[p].slots)
          /\ \A j \in 1..Len(pg[p].slots) : new[p].slots[j].off = pg[p].slots[j].off
      BY <1>8 DEF ButRows
    <3>2. Tidy(pg[p], ts[pg[p].tid].types) BY <1>2, <2>1, <3>1 DEF Tidied
    <3> QED BY <3>1, <3>2 DEF Tidy
  <2> QED BY <2>1 DEF Tidied
<1>13. Located(new, ptr, next)
  <2>1. ASSUME NEW p \in Pages, NEW j \in 1..Len(new[p].slots)
        PROVE  new[p].slots[j].row < next /\ ptr[new[p].slots[j].row] = <<p, j>>
    <3>1. PICK row : row = new[p].slots[j].row OBVIOUS
    <3>2. row \in 1..next - 1 /\ ptr[row] = <<p, j>> BY <1>10, <3>1
    <3>3. row < next BY <1>9, <3>2
    <3> QED BY <3>1, <3>2, <3>3
  <2>2. ASSUME NEW x \in RowIds, ptr[x] # NoRow
        PROVE  \E p \in Pages : \E j \in 1..Len(new[p].slots) : new[p].slots[j].row = x
    <3>1. PICK k \in 1..n : RowAt(new, ps[k]) = x BY <1>6, <1>7, <2>2 DEF Numbering
    <3>2. PICK p \in Pages : \E j \in 1..Len(pg[p].slots) : ps[k] = <<p, j>> BY <1>4, <1>5, PlaceIs
    <3>3. PICK j \in 1..Len(pg[p].slots) : ps[k] = <<p, j>> BY <3>2
    <3>4. j \in 1..Len(new[p].slots) BY <1>8 DEF ButRows
    <3>5. new[p].slots[j].row = x BY <3>1, <3>3 DEF RowAt
    <3> QED BY <3>4, <3>5
  <2> QED BY <2>1, <2>2 DEF Located
<1>14. TablesHold(new, ts) BY <1>2, <1>8, HeldSame DEF ButRows
<1>15. Pool(new, f.next_page, f.free_list) BY <1>2, <1>8, PoolSame DEF ButRows
<1>16. RowsGood(new, ts, ptr, next) BY <1>11, <1>12, <1>13 DEF RowsGood, Ptrs
<1> QED BY <1>1, <1>2, <1>7, <1>14, <1>15, <1>16 DEF Stored

LEMMA AllRebuilt ==
    ASSUME NEW pg, NEW ts, NEW ptr, NEW nr, Stored(pg, ts, ptr, nr), NEW ds, DefinitionsGood(ds, ts)
    PROVE  IndexesGood(RebuildAll(pg, ts, [i \in DOMAIN ds |->
               [name |-> ds[i].name, tid |-> ds[i].tid, col |-> ds[i].col, ents |-> << >>]]), pg, ts)
<1>1. PICK n \in Nat : n = Len(ds) /\ n <= MaxIndexes /\ DOMAIN ds = 1..n
  BY LenProperties DEF DefinitionsGood
<1>2. PICK ixs : ixs = [i \in 1..n |-> [name |-> ds[i].name, tid |-> ds[i].tid, col |-> ds[i].col, ents |-> << >>]]
  OBVIOUS
<1>3. PICK g : g = [i \in 1..n |-> Rebuild(pg, ts, ixs[i])] OBVIOUS
<1>4. ASSUME NEW i \in 1..n PROVE g[i] \in IndexRecs /\ IndexGood(g[i], pg, ts)
  <2>1. ds[i] \in DefinitionRecs BY <1>1, ElementOfSeq DEF DefinitionsGood
  <2>2. OnColumn(ds[i], ts) BY <1>1 DEF DefinitionsGood
  <2>3. << >> \in Seq(Ents) OBVIOUS
  <2>4. PICK ix : ix = [name |-> ds[i].name, tid |-> ds[i].tid, col |-> ds[i].col, ents |-> << >>] OBVIOUS
  <2>5. ix \in IndexRecs BY <2>1, <2>3, <2>4 DEF DefinitionRecs, IndexRecs
  <2>6. OnColumn(ix, ts) BY <2>2, <2>4 DEF OnColumn
  <2>7. Rebuild(pg, ts, ix) \in IndexRecs /\ IndexGood(Rebuild(pg, ts, ix), pg, ts) BY <2>5, <2>6, RebuildIs
  <2>8. g[i] = Rebuild(pg, ts, ix) BY <1>2, <1>3, <2>4
  <2> QED BY <2>7, <2>8
<1>5. g = [i \in 1..n |-> g[i]] BY <1>3
<1>6. IndexesGood(g, pg, ts) BY <1>1, <1>4, <1>5, GoodList
<1>7. RebuildAll(pg, ts, ixs) = g BY <1>2, <1>3 DEF RebuildAll
<1> QED BY <1>1, <1>2, <1>6, <1>7

(* What Restore leads to from good facts.                                     *)
LEMMA RestoreGood ==
    ASSUME NEW f, FactsGood(f), Restore(f)
    PROVE  StoreInv' /\ IndexesGood(idx', page', tabs') /\ PairsGood(kv') /\ DocsGood(docs')
<1>1. PICK r : r = RebuildRowids(f.page, f.tabs) OBVIOUS
<1>2. /\ tabs' = f.tabs /\ free_list' = f.free_list /\ next_page' = f.next_page
      /\ kv' = f.kv /\ docs' = f.docs
      /\ page' = r.page /\ row_ptr' = r.ptr /\ next_rowid' = r.next
  BY <1>1 DEF Restore
<1>3. idx' = RebuildAll(r.page, f.tabs, [i \in DOMAIN f.defs |->
               [name |-> f.defs[i].name, tid |-> f.defs[i].tid, col |-> f.defs[i].col, ents |-> << >>]])
  BY <1>1 DEF Restore
<1>4. Stored(r.page, f.tabs, r.ptr, r.next) /\ Pool(r.page, f.next_page, f.free_list) BY <1>1, RebuiltStore
<1>5. DefinitionsGood(f.defs, f.tabs) BY DEF FactsGood
<1>6. IndexesGood(idx', r.page, f.tabs) BY <1>3, <1>4, <1>5, AllRebuilt
<1>7. StoreInv' BY <1>2, <1>4 DEF StoreInv, Stored
<1> QED BY <1>2, <1>6, <1>7 DEF FactsGood

(* Pages, catalogue and addresses in order give good facts.                   *)
LEMMA StoredFacts ==
    ASSUME NEW f, NEW ptr, NEW nr, Stored(f.page, f.tabs, ptr, nr), Pool(f.page, f.next_page, f.free_list),
           DefinitionsGood(f.defs, f.tabs), PairsGood(f.kv), DocsGood(f.docs)
    PROVE  FactsGood(f)
<1>1. PICK pg, ts : pg = f.page /\ ts = f.tabs OBVIOUS
<1>2. /\ Catalogue(ts) /\ TablesHold(pg, ts) /\ PagesIn(pg, Len(ts)) /\ Tidied(pg, ts)
      /\ Located(pg, ptr, nr)
  BY <1>1, StoredIs
<1>3. OldPagesIn(pg, Len(ts))
  <2>1. SlotRecs \subseteq OldSlots BY DEF SlotRecs, OldSlots
  <2>2. \A s \in Seq(SlotRecs) : s \in Seq(OldSlots) BY <2>1, SeqMonotonic
  <2>3. PageRecs \subseteq OldPages
    <3>1. ASSUME NEW x \in PageRecs PROVE x \in OldPages
      <4>1. x.slots \in Seq(OldSlots) BY <2>2 DEF PageRecs
      <4> QED BY <4>1 DEF PageRecs, OldPages
    <3> QED BY <3>1
  <2>4. pg \in [Pages -> OldPages] BY <1>2, <2>3 DEF PagesIn
  <2> QED BY <1>2, <2>4 DEF PagesIn, OldPagesIn
<1>4. PICK ps : ps = Places(pg, ts) OBVIOUS
<1>5. PlaceList(pg, ps) BY <1>2, <1>3, <1>4, PlacesTidy
<1>6. Identified(pg, ps)
  <2>1. ASSUME NEW k \in 1..Len(ps) PROVE RowAt(pg, ps[k]) \in RowIds /\ ptr[RowAt(pg, ps[k])] = ps[k]
    <3>1. PICK p \in Pages : \E j \in 1..Len(pg[p].slots) : ps[k] = <<p, j>> BY <1>5, PlaceIs
    <3>2. PICK j \in 1..Len(pg[p].slots) : ps[k] = <<p, j>> BY <3>1
    <3>3. RowAt(pg, ps[k]) = pg[p].slots[j].row BY <3>2 DEF RowAt
    <3>4. pg[p].slots[j].row \in RowIds BY <1>2, PageIs
    <3>5. ptr[pg[p].slots[j].row] = <<p, j>> BY <1>2 DEF Located
    <3> QED BY <3>2, <3>3, <3>4, <3>5
  <2>2. ASSUME NEW k \in 1..Len(ps), NEW l \in 1..Len(ps), RowAt(pg, ps[k]) = RowAt(pg, ps[l]) PROVE k = l
    <3>1. ps[k] = ps[l] BY <2>1, <2>2
    <3> QED BY <1>5, <3>1 DEF PlaceList, Lists
  <2> QED BY <2>1, <2>2 DEF Identified
<1> QED BY <1>1, <1>2, <1>3, <1>4, <1>6 DEF FactsGood

LEMMA DefinitionsAre ==
    ASSUME IndexesGood(idx, page, tabs)
    PROVE  DefinitionsGood(Definitions, tabs)
<1>1. PICK n \in Nat : n = Len(idx) /\ n <= MaxIndexes /\ DOMAIN idx = 1..n
  BY LenProperties DEF IndexesGood
<1>2. PICK d : d = Definitions OBVIOUS
<1>3. d = [i \in 1..n |-> [name |-> idx[i].name, tid |-> idx[i].tid, col |-> idx[i].col]]
  BY <1>1, <1>2 DEF Definitions
<1>4. ASSUME NEW i \in 1..n PROVE d[i] \in DefinitionRecs /\ OnColumn(d[i], tabs)
  <2>1. PICK ix \in IndexRecs : ix = idx[i] BY <1>1, ElementOfSeq DEF IndexesGood
  <2>2. OnColumn(ix, tabs) BY <1>1, <2>1 DEF IndexesGood, IndexGood
  <2>3. d[i] = [name |-> ix.name, tid |-> ix.tid, col |-> ix.col] BY <1>3, <2>1
  <2>4. d[i] \in DefinitionRecs BY <2>3 DEF IndexRecs, DefinitionRecs
  <2>5. OnColumn(d[i], tabs) BY <2>2, <2>3 DEF OnColumn
  <2> QED BY <2>4, <2>5
<1>5. d \in [1..n -> DefinitionRecs] BY <1>3, <1>4
<1>6. d \in Seq(DefinitionRecs) /\ Len(d) = n BY <1>5
<1> QED BY <1>1, <1>2, <1>4, <1>6 DEF DefinitionsGood

(* BEGIN keeps good facts.                                                    *)
LEMMA FactsAre ==
    ASSUME StoreInv, IndexesGood(idx, page, tabs), PairsGood(kv), DocsGood(docs)
    PROVE  FactsGood(Facts)
<1>1. PICK f : f = Facts OBVIOUS
<1>2. /\ f.tabs = tabs /\ f.free_list = free_list /\ f.kv = kv /\ f.docs = docs
      /\ f.defs = Definitions /\ f.next_page = next_page /\ f.page = page
  BY <1>1 DEF Facts
<1>3. Stored(page, tabs, row_ptr, next_rowid) /\ Pool(page, next_page, free_list) BY DEF StoreInv, Stored
<1>4. DefinitionsGood(Definitions, tabs) BY DefinitionsAre
<1>5. FactsGood(f) BY <1>2, <1>3, <1>4, StoredFacts
<1> QED BY <1>1, <1>5

(* So does save: the file leaves out pages that hold nothing.                 *)
LEMMA ImageIs ==
    ASSUME StoreInv, IndexesGood(idx, page, tabs), PairsGood(kv), DocsGood(docs)
    PROVE  FactsGood(Loaded(Image(Facts)))
<1>1. PICK f : f = Loaded(Image(Facts)) OBVIOUS
<1>2. PICK new : new = [p \in Pages |-> IF p <= next_page THEN SubSeq(page, 1, next_page)[p] ELSE EmptyPage(0)]
  OBVIOUS
<1>3. /\ f.tabs = tabs /\ f.free_list = free_list /\ f.kv = kv /\ f.docs = docs
      /\ f.defs = Definitions /\ f.next_page = next_page /\ f.page = new
  <2>1. PICK img : img = Image(Facts) OBVIOUS
  <2>2. /\ img.head.tabs = tabs /\ img.head.free_list = free_list /\ img.head.kv = kv /\ img.head.docs = docs
        /\ img.head.defs = Definitions /\ img.npages = next_page
        /\ img.pages = SubSeq(page, 1, next_page)
    BY <2>1 DEF Image, Header, Facts
  <2>3. f.page = [p \in Pages |-> IF p <= img.npages THEN img.pages[p] ELSE EmptyPage(0)]
    BY <1>1, <2>1 DEF Loaded
  <2>4. /\ f.tabs = img.head.tabs /\ f.free_list = img.head.free_list /\ f.kv = img.head.kv
        /\ f.docs = img.head.docs /\ f.defs = img.head.defs /\ f.next_page = img.npages
    BY <1>1, <2>1 DEF Loaded
  <2> QED BY <1>2, <2>2, <2>3, <2>4
<1>4. /\ Stored(page, tabs, row_ptr, next_rowid) /\ Pool(page, next_page, free_list)
      /\ Catalogue(tabs) /\ TablesHold(page, tabs) /\ RowsGood(page, tabs, row_ptr, next_rowid)
  BY DEF StoreInv, Stored
<1>5. PagesIn(page, Len(tabs)) /\ Tidied(page, tabs) /\ Located(page, row_ptr, next_rowid)
      /\ page \in [Pages -> PageRecs]
  BY <1>4 DEF RowsGood, PagesIn
<1>6. next_page \in 0..NPages /\ NPages \in Nat /\ Pages = 1..NPages BY <1>4, Sizes DEF Pool, Pages
<1>7. \A p \in 1..next_page : SubSeq(page, 1, next_page)[p] = page[p]
  <2>1. page \in Seq(PageRecs) /\ Len(page) = NPages BY <1>5, <1>6
  <2>2. 1 \in Int /\ next_page \in Int BY <1>6
  <2>3. \A i \in 1..next_page : page[i] \in PageRecs BY <1>5, <1>6
  <2>4. \A i \in 1..next_page - 1 + 1 : SubSeq(page, 1, next_page)[i] = page[1 + i - 1]
    BY <2>1, <2>2, <2>3, SubSeqProperties
  <2>5. \A i \in 1..next_page : i \in 1..next_page - 1 + 1 /\ 1 + i - 1 = i BY <1>6
  <2> QED BY <2>4, <2>5
<1>8. ASSUME NEW p \in Pages
      PROVE  \/ new[p] = page[p]
             \/ new[p] = EmptyPage(0) /\ page[p].tid = 0 /\ page[p].slots = << >>
  <2>1. CASE p <= next_page
    <3>1. p \in 1..next_page BY <1>6, <2>1
    <3> QED BY <1>2, <1>7, <2>1, <3>1
  <2>2. CASE ~(p <= next_page)
    <3>1. page[p].tid = 0 BY <1>4, <1>6, <2>2 DEF Pool
    <3>2. page[p].slots = << >> BY <1>5, <3>1 DEF PagesIn
    <3> QED BY <1>2, <2>2, <3>1, <3>2
  <2> QED BY <2>1, <2>2
<1>9. ASSUME NEW p \in Pages
      PROVE  /\ new[p] \in PageRecs /\ new[p].tid = page[p].tid /\ new[p].slots = page[p].slots
             /\ (new[p].tid # 0 => new[p] = page[p])
             /\ (new[p].tid = 0 => new[p].slots = << >> /\ new[p].recs = << >>)
  <2>1. CASE new[p] = page[p]
    <3>1. page[p].tid = 0 => page[p].slots = << >> /\ page[p].recs = << >> BY <1>5 DEF PagesIn
    <3> QED BY <1>5, <2>1, <3>1
  <2>2. CASE new[p] = EmptyPage(0) /\ page[p].tid = 0 /\ page[p].slots = << >>
    <3>1. EmptyPage(0).tid = 0 /\ EmptyPage(0).slots = << >> /\ EmptyPage(0).recs = << >> BY DEF EmptyPage
    <3>2. EmptyPage(0) \in PageRecs
      <4>1. 0 \in 0..MaxTables /\ 0 \in 0..NPages BY Sizes
      <4> QED BY <4>1 DEF EmptyPage, PageRecs
    <3> QED BY <2>2, <3>1, <3>2
  <2> QED BY <1>8, <2>1, <2>2
<1>10. PagesIn(new, Len(tabs))
  <2>1. new \in [Pages -> PageRecs] BY <1>2, <1>9
  <2>2. \A p \in Pages : new[p].tid <= Len(tabs) BY <1>5, <1>9 DEF PagesIn
  <2> QED BY <1>9, <2>1, <2>2 DEF PagesIn
<1>11. Tidied(new, tabs) BY <1>5, <1>9 DEF Tidied
<1>12. Located(new, row_ptr, next_rowid) BY <1>5, <1>9, LocatedSame
<1>13. TablesHold(new, tabs)
  <2>1. ASSUME NEW t \in 1..Len(tabs) PROVE \E c : Holds(new, tabs[t], t, c)
    <3>1. PICK c : Holds(page, tabs[t], t, c) BY <1>4 DEF TablesHold
    <3>2. t # 0 OBVIOUS
    <3>3. \A q \in Pages : page[q].tid = t => new[q].next = page[q].next BY <1>9, <3>2
    <3>4. \A q \in Pages : page[q].tid = t <=> new[q].tid = t BY <1>9
    <3>5. Holds(new, tabs[t], t, c) BY <3>1, <3>3, <3>4, HoldsSame
    <3> QED BY <3>5
  <2> QED BY <2>1 DEF TablesHold
<1>14. Pool(new, next_page, free_list) BY <1>4, <1>9, PoolSame
<1>15. Stored(new, tabs, row_ptr, next_rowid) BY <1>4, <1>10, <1>11, <1>12, <1>13 DEF Stored, RowsGood
<1>16. DefinitionsGood(Definitions, tabs) BY DefinitionsAre
<1>17. FactsGood(f) BY <1>3, <1>14, <1>15, <1>16, StoredFacts
<1> QED BY <1>1, <1>17

(* A new process starts from good facts.                                      *)
LEMMA BlankGood == FactsGood(Blank)
<1>1. PICK f : f = Blank OBVIOUS
<1>2. /\ f.tabs = << >> /\ f.free_list = << >> /\ f.kv = << >> /\ f.docs = << >> /\ f.defs = << >>
      /\ f.next_page = 0 /\ f.page = [p \in Pages |-> EmptyPage(0)]
  BY <1>1 DEF Blank
<1>3. PICK pg : pg = f.page OBVIOUS
<1>4. ASSUME NEW p \in Pages
      PROVE  pg[p].tid = 0 /\ pg[p].slots = << >> /\ pg[p].recs = << >> /\ pg[p] \in OldPages
  <2>1. pg[p] = [tid |-> 0, slots |-> << >>, recs |-> << >>, next |-> 0] BY <1>2, <1>3 DEF EmptyPage
  <2>2. << >> \in Seq(OldSlots) /\ << >> \in Seq(Values) OBVIOUS
  <2> QED BY <2>1, <2>2, Sizes DEF OldPages
<1>5. Len(<< >>) = 0 /\ 1..Len(<< >>) = {} /\ 1..0 = {} BY NoPlaces
<1>6. Catalogue(<< >>)
  <2>1. << >> \in Seq(TabRecs) OBVIOUS
  <2> QED BY <1>5, <2>1, Sizes DEF Catalogue
<1>7. TablesHold(pg, << >>) BY <1>5 DEF TablesHold
<1>8. Pool(pg, 0, << >>)
  <2>1. FreePages(pg, 0) = {} BY NoPlaces DEF FreePages
  <2>2. Lists(<< >>, {}) BY EmptySeq DEF Lists
  <2>3. 0 \in 0..NPages BY Sizes
  <2> QED BY <1>4, <2>1, <2>2, <2>3 DEF Pool
<1>9. OldPagesIn(pg, Len(<< >>))
  <2>1. pg \in [Pages -> OldPages] BY <1>2, <1>3, <1>4
  <2>2. \A p \in Pages : pg[p].tid <= 0 BY <1>4
  <2> QED BY <1>4, <1>5, <2>1, <2>2 DEF OldPagesIn
<1>10. Tidied(pg, << >>) BY <1>4 DEF Tidied
<1>11. Identified(pg, Places(pg, << >>))
  <2>1. PICK ps : ps = Places(pg, << >>) OBVIOUS
  <2>2. Lists(ps, EveryPlace(pg)) BY <1>6, <1>7, <1>9, <2>1, PlacesAre
  <2>3. EveryPlace(pg) = {} BY <1>4, <1>5 DEF EveryPlace, PlacesAt
  <2>4. 1..Len(ps) = {}
    <3>1. ASSUME NEW k \in 1..Len(ps) PROVE FALSE
      <4>1. ps \in Seq({}) BY <2>2, <2>3 DEF Lists
      <4>2. ps[k] \in {} BY <4>1, ElementOfSeq
      <4> QED BY <4>2
    <3> QED BY <3>1
  <2> QED BY <2>1, <2>4 DEF Identified
<1>12. DefinitionsGood(<< >>, << >>)
  <2>1. << >> \in Seq(DefinitionRecs) OBVIOUS
  <2> QED BY <1>5, <2>1, Sizes DEF DefinitionsGood
<1>13. KvMax \in Nat /\ DocMax \in Nat BY SessionAssumptions DEF SessionAssumptions
<1>14. PairsGood(<< >>)
  <2>1. << >> \in Seq(Pairs) OBVIOUS
  <2> QED BY <1>5, <1>13, <2>1 DEF PairsGood, Sorted
<1>15. DocsGood(<< >>)
  <2>1. << >> \in Seq(DocNames \X Contents) OBVIOUS
  <2> QED BY <1>5, <1>13, <2>1 DEF DocsGood
<1>16. FactsGood(f)
  BY <1>2, <1>3, <1>6, <1>7, <1>8, <1>9, <1>10, <1>11, <1>12, <1>14, <1>15 DEF FactsGood
<1> QED BY <1>1, <1>16

(* doc_put keeps one document of each name, and the list within its room.     *)
LEMMA PutKeepsDocs ==
    ASSUME DocsGood(docs), NEW m \in DocNames, NEW c \in Contents, DocPut(m, c)
    PROVE  DocsGood(docs')
<1>1. PICK d \in Seq(DocNames \X Contents) : d = docs /\ Len(d) <= DocMax
         /\ \A i, j \in 1..Len(d) : d[i][1] = d[j][1] => i = j
  BY DEF DocsGood
<1>2. PICK n \in Nat : n = Len(d) /\ DOMAIN d = 1..n BY LenProperties
<1>3. PICK e \in DocNames \X Contents : e = <<m, c>> /\ e[1] = m
  <2>1. <<m, c>> \in DocNames \X Contents /\ <<m, c>>[1] = m OBVIOUS
  <2> QED BY <2>1
<1>4. PICK known : known = {i \in 1..n : d[i][1] = m} OBVIOUS
<1>5. docs' = IF known # {} THEN [d EXCEPT ![Min(known)] = e]
              ELSE IF Len(d) >= DocMax THEN d ELSE Append(d, e)
  BY <1>1, <1>2, <1>3, <1>4 DEF DocPut
<1>6. CASE known # {}
  <2>1. known \in SUBSET Nat BY <1>4
  <2>2. \E i \in known : \A j \in known : i <= j BY <1>6, <2>1, LeastNumber
  <2>3. Min(known) \in known BY <2>2 DEF Min
  <2>4. PICK at \in 1..n : at = Min(known) /\ d[at][1] = m BY <1>4, <2>3
  <2>5. PICK r : r = [d EXCEPT ![at] = e] OBVIOUS
  <2>6. r \in Seq(DocNames \X Contents) /\ Len(r) = n /\ \A j \in 1..n : r[j] = IF j = at THEN e ELSE d[j]
    BY <1>2, <2>5, ExceptSeq
  <2>7. \A j \in 1..n : r[j][1] = d[j][1] BY <1>3, <2>4, <2>6
  <2>8. DocsGood(r) BY <1>1, <1>2, <2>6, <2>7 DEF DocsGood
  <2> QED BY <1>5, <1>6, <2>4, <2>5, <2>8
<1>7. CASE known = {} /\ Len(d) >= DocMax BY <1>1, <1>5, <1>7
<1>8. CASE known = {} /\ ~(Len(d) >= DocMax)
  <2>1. PICK r : r = Append(d, e) OBVIOUS
  <2>2. /\ r \in Seq(DocNames \X Contents) /\ Len(r) = n + 1 /\ r[n + 1] = e
        /\ \A j \in 1..n : r[j] = d[j]
    BY <1>2, <2>1, AppendProperties
  <2>3. \A j \in 1..n : d[j][1] # m BY <1>4, <1>8
  <2>4. DocMax \in Nat BY SessionAssumptions DEF SessionAssumptions
  <2>5. n + 1 <= DocMax BY <1>2, <1>8, <2>4
  <2>6. ASSUME NEW i \in 1..n + 1, NEW j \in 1..n + 1, r[i][1] = r[j][1] PROVE i = j
    <3>1. CASE i \in 1..n /\ j \in 1..n BY <1>1, <1>2, <2>2, <2>6, <3>1
    <3>2. CASE i = n + 1 /\ j \in 1..n BY <1>3, <2>2, <2>3, <2>6, <3>2
    <3>3. CASE i \in 1..n /\ j = n + 1 BY <1>3, <2>2, <2>3, <2>6, <3>3
    <3>4. CASE i = n + 1 /\ j = n + 1 BY <3>4
    <3>5. (i \in 1..n \/ i = n + 1) /\ (j \in 1..n \/ j = n + 1) OBVIOUS
    <3> QED BY <3>1, <3>2, <3>3, <3>4, <3>5
  <2>7. DocsGood(r) BY <2>2, <2>5, <2>6 DEF DocsGood
  <2> QED BY <1>5, <1>8, <2>1, <2>7
<1> QED BY <1>6, <1>7, <1>8

-----------------------------------------------------------------------------
(* The session.                                                               *)

LiveGood == StoreInv /\ IndexesGood(idx, page, tabs) /\ PairsGood(kv) /\ DocsGood(docs)

(* The live state is in order, and so is what ROLLBACK or load would make of   *)
(* the before-image and the file.                                             *)
SessionInv ==
    /\ LiveGood
    /\ undo # Nothing => FactsGood(undo)
    /\ file # Nothing => FactsGood(Loaded(file))

(* Images that load to good facts: those save writes, and older ones whose rows *)
(* have no identities and are few enough to get one each.                     *)
GoodImages(images) == \A img \in images : FactsGood(Loaded(img))

LEMMA SessionStarts ==
    ASSUME NEW images, GoodImages(images), SessionInit(images)
    PROVE  SessionInv
<1>1. DbInit /\ kv = << >> /\ docs = << >> /\ undo = Nothing /\ file \in {Nothing} \cup images
  BY DEF SessionInit
<1>2. StoreInv BY <1>1, StartsGood
<1>3. IndexesGood(idx, page, tabs)
  <2>1. idx = << >> /\ << >> \in Seq(IndexRecs) /\ Len(<< >>) = 0 BY <1>1 DEF DbInit
  <2> QED BY <2>1, Sizes DEF IndexesGood
<1>4. PairsGood(kv) /\ DocsGood(docs)
  <2>1. FactsGood(Blank) /\ Blank.kv = << >> /\ Blank.docs = << >> BY BlankGood DEF Blank
  <2> QED BY <1>1, <2>1 DEF FactsGood
<1>5. file # Nothing => FactsGood(Loaded(file)) BY <1>1 DEF GoodImages
<1> QED BY <1>1, <1>2, <1>3, <1>4, <1>5 DEF SessionInv, LiveGood

(* What leaves the tables alone leaves them in order.                         *)
LEMMA TablesSame ==
    ASSUME StoreInv, IndexesGood(idx, page, tabs), UNCHANGED dbVars
    PROVE  StoreInv' /\ IndexesGood(idx', page', tabs')
BY DEF StoreInv, dbVars

LEMMA SessionStep ==
    ASSUME SessionInv, SessionNext
    PROVE  SessionInv'
<1> DEFINE Live == StoreInv' /\ IndexesGood(idx', page', tabs') /\ PairsGood(kv') /\ DocsGood(docs')
           Kept == /\ undo' # Nothing => FactsGood(undo')
                   /\ file' # Nothing => FactsGood(Loaded(file'))
<1>1. /\ StoreInv /\ IndexesGood(idx, page, tabs) /\ PairsGood(kv) /\ DocsGood(docs)
      /\ undo # Nothing => FactsGood(undo)
      /\ file # Nothing => FactsGood(Loaded(file))
  BY DEF SessionInv, LiveGood
<1>2. UNCHANGED <<undo, file>> => Kept
  <2>1. ASSUME undo' = undo, file' = file PROVE Kept BY <1>1, <2>1
  <2> QED BY <2>1
<1>3. undo' = Nothing /\ UNCHANGED file => Kept
  <2>1. ASSUME undo' = Nothing, file' = file PROVE Kept BY <1>1, <2>1
  <2> QED BY <2>1
<1>4. UNCHANGED <<dbVars, kv, docs>> => Live
  <2>1. ASSUME UNCHANGED dbVars, kv' = kv, docs' = docs PROVE Live BY <1>1, <2>1, TablesSame
  <2> QED BY <2>1
<1>5. ASSUME Statement PROVE Live /\ Kept
  <2>1. DbNext /\ kv' = kv /\ docs' = docs /\ undo' = undo /\ file' = file BY <1>5 DEF Statement
  <2>2. StoreInv' /\ IndexesGood(idx', page', tabs') BY <1>1, <2>1, IndexesNext
  <2> QED BY <1>1, <1>2, <2>1, <2>2
<1>6. ASSUME NEW k \in Keys, NEW v \in Vals, KvPut(k, v) PROVE Live /\ Kept
  <2>1. /\ kv' = KvWith(kv, k, v) /\ UNCHANGED dbVars /\ docs' = docs /\ undo' = undo /\ file' = file
    BY <1>6 DEF KvPut
  <2>2. PairsGood(kv') BY <1>1, <2>1, PutKeepsPairs
  <2>3. StoreInv' /\ IndexesGood(idx', page', tabs') BY <1>1, <2>1, TablesSame
  <2> QED BY <1>1, <1>2, <2>1, <2>2, <2>3
<1>7. ASSUME NEW k \in Keys, KvDel(k) PROVE Live /\ Kept
  <2>1. /\ KvHas(kv, k) /\ kv' = RemoveAt(kv, KvFind(kv, k) + 1)
        /\ UNCHANGED dbVars /\ docs' = docs /\ undo' = undo /\ file' = file
    BY <1>7 DEF KvDel
  <2>2. PairsGood(kv') BY <1>1, <2>1, DelKeepsPairs
  <2>3. StoreInv' /\ IndexesGood(idx', page', tabs') BY <1>1, <2>1, TablesSame
  <2> QED BY <1>1, <1>2, <2>1, <2>2, <2>3
<1>8. ASSUME NEW n \in DocNames, NEW c \in Contents, DocPut(n, c) PROVE Live /\ Kept
  <2>1. UNCHANGED dbVars /\ kv' = kv /\ undo' = undo /\ file' = file BY <1>8 DEF DocPut
  <2>2. DocsGood(docs') BY <1>1, <1>8, PutKeepsDocs
  <2>3. StoreInv' /\ IndexesGood(idx', page', tabs') BY <1>1, <2>1, TablesSame
  <2> QED BY <1>1, <1>2, <2>1, <2>2, <2>3
<1>9. ASSUME Begin PROVE Live /\ Kept
  <2>1. undo' = Facts /\ UNCHANGED <<dbVars, kv, docs>> /\ file' = file BY <1>9 DEF Begin
  <2>2. FactsGood(Facts) BY <1>1, FactsAre
  <2> QED BY <1>1, <1>4, <2>1, <2>2
<1>10. ASSUME Commit PROVE Live /\ Kept BY <1>3, <1>4, <1>10 DEF Commit
<1>11. ASSUME Rollback PROVE Live /\ Kept
  <2>1. undo # Nothing /\ Restore(undo) /\ undo' = Nothing /\ UNCHANGED file BY <1>11 DEF Rollback
  <2>2. Live BY <1>1, <2>1, RestoreGood
  <2> QED BY <1>3, <2>1, <2>2
<1>12. ASSUME Save PROVE Live /\ Kept
  <2>1. file' = Image(Facts) /\ UNCHANGED <<dbVars, kv, docs>> /\ undo' = undo BY <1>12 DEF Save
  <2>2. FactsGood(Loaded(Image(Facts))) BY <1>1, ImageIs
  <2> QED BY <1>1, <1>4, <2>1, <2>2
<1>13. ASSUME Load PROVE Live /\ Kept
  <2>1. file # Nothing /\ Restore(Loaded(file)) /\ UNCHANGED <<undo, file>> BY <1>13 DEF Load
  <2>2. Live BY <1>1, <2>1, RestoreGood
  <2> QED BY <1>2, <2>1, <2>2
<1>14. ASSUME Restart PROVE Live /\ Kept
  <2>1. Restore(Blank) /\ undo' = Nothing /\ UNCHANGED file BY <1>14 DEF Restart
  <2>2. Live BY <2>1, BlankGood, RestoreGood
  <2> QED BY <1>3, <2>1, <2>2
<1>15. Live /\ Kept
  BY <1>5, <1>6, <1>7, <1>8, <1>9, <1>10, <1>11, <1>12, <1>13, <1>14 DEF SessionNext
<1> QED BY <1>15 DEF SessionInv, LiveGood

LEMMA SessionAlways ==
    ASSUME NEW CONSTANT images, GoodImages(images)
    PROVE  SessionSpec(images) => []SessionInv
<1>1. SessionInit(images) => SessionInv BY SessionStarts
<1>2. SessionInv /\ [SessionNext]_sessionVars => SessionInv'
  <2>1. ASSUME SessionInv, SessionNext PROVE SessionInv' BY <2>1, SessionStep
  <2>2. ASSUME SessionInv, UNCHANGED sessionVars PROVE SessionInv'
    BY <2>2, TablesSame DEF SessionInv, LiveGood, sessionVars
  <2> QED BY <2>1, <2>2
<1> QED BY <1>1, <1>2, PTL DEF SessionSpec

LEMMA StoresFollow ==
    ASSUME SessionInv
    PROVE  StoresOK
<1>1. Sorted(kv) /\ Len(kv) <= KvMax /\ DocsGood(docs) BY DEF SessionInv, LiveGood, PairsGood
<1>2. Len(kv) \in Nat BY <1>1, LenProperties DEF Sorted
<1>3. ASSUME NEW i \in 1..Len(kv) - 1 PROVE kv[i][1] < kv[i + 1][1]
  <2>1. i \in 1..Len(kv) /\ i + 1 \in 1..Len(kv) /\ i < i + 1 BY <1>2
  <2> QED BY <1>1, <2>1 DEF Sorted
<1>4. DOMAIN docs = 1..Len(docs) BY <1>1, LenProperties DEF DocsGood
<1>5. Len(docs) <= DocMax /\ \A i, j \in 1..Len(docs) : docs[i][1] = docs[j][1] => i = j BY <1>1 DEF DocsGood
<1> QED BY <1>1, <1>3, <1>4, <1>5 DEF StoresOK

(* For any statements, puts, transactions, saves, loads and restarts: the      *)
(* pairs stay sorted, no document is there twice, and both stores keep to      *)
(* their sizes.                                                                *)
THEOREM StoresAreKept ==
    ASSUME NEW CONSTANT images, GoodImages(images)
    PROVE  SessionSpec(images) => []StoresOK
<1>1. SessionInv => StoresOK BY StoresFollow
<1> QED BY <1>1, SessionAlways, PTL

(* After ROLLBACK, load and restart too, row addresses and indexes agree with  *)
(* the pages, and no page is lost or used twice.                               *)
THEOREM DerivedIsRebuilt ==
    ASSUME NEW CONSTANT images, GoodImages(images)
    PROVE  SessionSpec(images) => []DerivedRebuilt
<1>1. SessionInv => DerivedRebuilt
  BY ConservedFollows, LocatedFollows, ExactFollows DEF SessionInv, LiveGood, DerivedRebuilt
<1> QED BY <1>1, SessionAlways, PTL

-----------------------------------------------------------------------------
(* The scan of an index: the binary search for its start.                     *)

(* Keys never fall along the entries.                                         *)
Climbing(ents) == \A i, j \in 1..Len(ents) : i <= j => ents[i][1] <= ents[j][1]

LEMMA RisingClimbs ==
    ASSUME NEW ents \in Seq(Ents), Rising(ents)
    PROVE  Climbing(ents)
<1>1. PICK n \in Nat : n = Len(ents) BY LenProperties
<1>2. ASSUME NEW i \in 1..n PROVE ents[i][1] \in Int /\ ents[i] \in Ents
  <2>1. ents[i] \in Ents BY <1>1, ElementOfSeq
  <2> QED BY <2>1 DEF Ents
<1>3. ASSUME NEW i \in 1..n PROVE \A d \in 0..n - i : ents[i][1] <= ents[i + d][1]
  <2>1. PICK m \in Nat : m = n - i OBVIOUS
  <2>2. PICK H : H = {d \in 0..m : ents[i][1] <= ents[i + d][1]} OBVIOUS
  <2>3. 0 \in H
    <3>1. i + 0 = i /\ ents[i][1] <= ents[i][1] BY <1>2
    <3> QED BY <2>2, <3>1
  <2>4. ASSUME NEW d \in 1..m, d - 1 \in H PROVE d \in H
    <3>1. PICK k \in 1..n - 1 : k = i + (d - 1) /\ k + 1 = i + d BY <2>1
    <3>2. Greater(ents[k + 1], ents[k]) BY <1>1, <3>1 DEF Rising
    <3>3. k \in 1..n /\ k + 1 \in 1..n OBVIOUS
    <3>4. ents[k][1] <= ents[k + 1][1] BY <1>2, <3>2, <3>3 DEF Greater
    <3>5. ents[i][1] <= ents[k][1] BY <2>2, <2>4, <3>1
    <3>6. ents[i][1] <= ents[k + 1][1] BY <1>2, <3>3, <3>4, <3>5
    <3> QED BY <2>2, <3>1, <3>6
  <2>5. 0..m \subseteq H BY <2>3, <2>4, Upwards
  <2> QED BY <2>1, <2>2, <2>5
<1>4. ASSUME NEW i \in 1..n, NEW j \in 1..n, i <= j PROVE ents[i][1] <= ents[j][1]
  <2>1. j - i \in 0..n - i /\ i + (j - i) = j BY <1>4
  <2> QED BY <1>3, <2>1
<1> QED BY <1>1, <1>4 DEF Climbing

(* No entry is there twice.                                                   *)
LEMMA RisingDiffers ==
    ASSUME NEW ents \in Seq(Ents), Rising(ents)
    PROVE  \A i, j \in 1..Len(ents) : ents[i] = ents[j] => i = j
<1>1. PICK n \in Nat : n = Len(ents) BY LenProperties
<1>2. ASSUME NEW i \in 1..n PROVE ents[i] \in Ents BY <1>1, ElementOfSeq
<1>3. ASSUME NEW i \in 1..n PROVE \A d \in 0..n - i : d # 0 => Greater(ents[i + d], ents[i])
  <2>1. PICK m \in Nat : m = n - i OBVIOUS
  <2>2. PICK H : H = {d \in 0..m : d # 0 => Greater(ents[i + d], ents[i])} OBVIOUS
  <2>3. 0 \in H BY <2>2
  <2>4. ASSUME NEW d \in 1..m, d - 1 \in H PROVE d \in H
    <3>1. PICK k \in 1..n - 1 : k = i + (d - 1) /\ k + 1 = i + d BY <2>1
    <3>2. Greater(ents[k + 1], ents[k]) BY <1>1, <3>1 DEF Rising
    <3>3. k \in 1..n /\ k + 1 \in 1..n OBVIOUS
    <3>4. d - 1 = 0 => k = i BY <3>1
    <3>5. d - 1 # 0 => Greater(ents[k], ents[i]) BY <2>2, <2>4, <3>1
    <3>6. Greater(ents[k + 1], ents[i])
      <4>1. PICK a \in Ents, b \in Ents, c \in Ents : a = ents[k + 1] /\ b = ents[k] /\ c = ents[i] BY <1>2, <3>3
      <4>2. CASE d - 1 = 0 BY <3>2, <3>4, <4>2
      <4>3. CASE d - 1 # 0
        <5>1. Greater(a, b) /\ Greater(b, c) BY <3>2, <3>5, <4>1, <4>3
        <5>2. PICK a1 \in Int, a2 \in Int : a = <<a1, a2>> BY DEF Ents
        <5>3. PICK b1 \in Int, b2 \in Int : b = <<b1, b2>> BY DEF Ents
        <5>4. PICK c1 \in Int, c2 \in Int : c = <<c1, c2>> BY DEF Ents
        <5>5. Greater(a, c) BY <5>1, <5>2, <5>3, <5>4 DEF Greater
        <5> QED BY <4>1, <5>5
      <4> QED BY <4>2, <4>3
    <3> QED BY <2>2, <3>1, <3>6
  <2>5. 0..m \subseteq H BY <2>3, <2>4, Upwards
  <2> QED BY <2>1, <2>2, <2>5
<1>4. ASSUME NEW i \in 1..n, NEW j \in 1..n, i < j PROVE ents[i] # ents[j]
  <2>1. j - i \in 0..n - i /\ i + (j - i) = j /\ j - i # 0 BY <1>4
  <2>2. Greater(ents[j], ents[i]) BY <1>3, <2>1
  <2> QED BY <1>2, <2>2, Ordered
<1>5. ASSUME NEW i \in 1..n, NEW j \in 1..n, ents[i] = ents[j] PROVE i = j
  <2>1. i < j \/ j < i \/ i = j OBVIOUS
  <2> QED BY <1>4, <1>5, <2>1
<1> QED BY <1>1, <1>5

Below(e, key, inc) == e[1] < key \/ (~inc /\ e[1] = key)

(* One round of the search.                                                   *)
Narrow(ents, key, inc, r) ==
    LET mid == (r.lo + r.hi) \div 2
    IN  IF r.lo >= r.hi THEN r
        ELSE IF ents[mid + 1][1] < key \/ (~inc /\ ents[mid + 1][1] = key)
             THEN [r EXCEPT !.lo = mid + 1]
             ELSE [r EXCEPT !.hi = mid]

(* What is left after i rounds, B being the places of the entries below.      *)
Bounds(B, n, i) ==
    {r \in [lo : 0..n, hi : 0..n] :
        /\ r.lo <= r.hi /\ r.hi - r.lo <= n - i
        /\ 1..r.lo \subseteq B /\ B \subseteq 1..r.hi}

LEMMA NarrowStays ==
    ASSUME NEW ents, NEW key, NEW inc, NEW n \in Nat, NEW B,
           B = {j \in 1..n : Below(ents[j], key, inc)}, \A j \in B : 1..j \subseteq B,
           NEW i \in 1..n, NEW r \in Bounds(B, n, i - 1)
    PROVE  Narrow(ents, key, inc, r) \in Bounds(B, n, i)
<1>1. PICK lo \in 0..n, hi \in 0..n :
         /\ lo = r.lo /\ hi = r.hi /\ r = [lo |-> lo, hi |-> hi]
         /\ lo <= hi /\ hi - lo <= n - (i - 1)
         /\ 1..lo \subseteq B /\ B \subseteq 1..hi
  BY DEF Bounds
<1>2. CASE lo >= hi
  <2>1. Narrow(ents, key, inc, r) = r BY <1>1, <1>2 DEF Narrow
  <2>2. hi - lo <= n - i BY <1>1, <1>2
  <2> QED BY <1>1, <2>1, <2>2 DEF Bounds
<1>3. CASE ~(lo >= hi)
  <2>1. PICK mid \in Nat : mid = (lo + hi) \div 2 /\ lo <= mid /\ mid < hi
    <3>1. (lo + hi) \div 2 \in Nat /\ lo <= (lo + hi) \div 2 /\ (lo + hi) \div 2 < hi BY <1>3
    <3> QED BY <3>1
  <2>2. mid + 1 \in 1..n /\ mid \in 0..n BY <2>1
  <2>3. hi - lo <= n - i + 1
    <3>1. n - (i - 1) = n - i + 1 OBVIOUS
    <3> QED BY <1>1, <3>1
  <2>4. CASE mid + 1 \in B
    <3>1. Below(ents[mid + 1], key, inc) BY <2>4
    <3>2. Narrow(ents, key, inc, r) = [lo |-> mid + 1, hi |-> hi] BY <1>1, <1>3, <2>1, <3>1 DEF Narrow, Below
    <3>3. 1..mid + 1 \subseteq B BY <2>4
    <3>4. hi - (mid + 1) <= n - i /\ mid + 1 <= hi BY <2>1, <2>3
    <3>5. mid + 1 \in 0..n BY <2>2
    <3>6. PICK x : x = [lo |-> mid + 1, hi |-> hi] OBVIOUS
    <3>7. x \in [lo : 0..n, hi : 0..n] /\ x.lo = mid + 1 /\ x.hi = hi BY <3>5, <3>6
    <3> QED BY <1>1, <3>2, <3>3, <3>4, <3>6, <3>7 DEF Bounds
  <2>5. CASE mid + 1 \notin B
    <3>1. ~Below(ents[mid + 1], key, inc) BY <2>2, <2>5
    <3>2. Narrow(ents, key, inc, r) = [lo |-> lo, hi |-> mid] BY <1>1, <1>3, <2>1, <3>1 DEF Narrow, Below
    <3>3. ASSUME NEW j \in B PROVE j \in 1..mid
      <4>1. j \in 1..n /\ 1..j \subseteq B OBVIOUS
      <4>2. ~(mid + 1 <= j)
        <5>1. mid + 1 <= j => mid + 1 \in 1..j BY <2>2, <4>1
        <5> QED BY <2>5, <4>1, <5>1
      <4> QED BY <2>2, <4>1, <4>2
    <3>4. mid - lo <= n - i BY <2>1, <2>3
    <3>6. PICK x : x = [lo |-> lo, hi |-> mid] OBVIOUS
    <3>7. x \in [lo : 0..n, hi : 0..n] /\ x.lo = lo /\ x.hi = mid BY <2>2, <3>6
    <3> QED BY <1>1, <2>1, <3>2, <3>3, <3>4, <3>6, <3>7 DEF Bounds
  <2> QED BY <2>4, <2>5
<1> QED BY <1>2, <1>3

LEMMA LowerBoundIs ==
    ASSUME NEW ents, NEW key, NEW inc, NEW n \in Nat, n = Len(ents), NEW B,
           B = {j \in 1..n : Below(ents[j], key, inc)}, \A j \in B : 1..j \subseteq B
    PROVE  LowerBound(ents, key, inc) \in 0..n /\ B = 1..LowerBound(ents, key, inc)
<1>2. PICK base : base = [lo |-> 0, hi |-> n] OBVIOUS
<1>3. PICK T : T = [i \in 0..n |-> Bounds(B, n, i)] OBVIOUS
<1>4. PICK D : D = [lo : 0..n, hi : 0..n] OBVIOUS
<1>5. base \in T[0]
  <2>1. base \in D /\ base.lo = 0 /\ base.hi = n BY <1>2, <1>4
  <2>2. 1..0 \subseteq B /\ B \subseteq 1..n /\ n - 0 <= n - 0 /\ 0 <= n OBVIOUS
  <2>3. base \in Bounds(B, n, 0) BY <1>4, <2>1, <2>2 DEF Bounds
  <2> QED BY <1>3, <2>3
<1>6. PICK F : F = [z \in D \X (1..n) |-> Narrow(ents, key, inc, z[1])] OBVIOUS
<1>7. ASSUME NEW x \in D, NEW i \in 1..n PROVE F[<<x, i>>] = Narrow(ents, key, inc, x)
  <2>1. <<x, i>> \in D \X (1..n) /\ <<x, i>>[1] = x OBVIOUS
  <2>2. F[<<x, i>>] = Narrow(ents, key, inc, <<x, i>>[1]) BY <1>6, <2>1, Zenon
  <2> QED BY <2>1, <2>2
<1>8. ASSUME NEW i \in 1..n, NEW x \in T[i - 1] PROVE x \in D /\ Narrow(ents, key, inc, x) \in T[i]
  <2>1. i - 1 \in 0..n /\ i \in 0..n OBVIOUS
  <2>2. x \in Bounds(B, n, i - 1) BY <1>3, <2>1
  <2>3. Narrow(ents, key, inc, x) \in Bounds(B, n, i) BY <2>2, NarrowStays
  <2> QED BY <1>3, <1>4, <2>1, <2>2, <2>3 DEF Bounds
<1>9. PICK f : Loop(f, n, base, F) BY LoopExists
<1>10. \A i \in 0..n : f[i] \in T[i]
  <2>1. \A i \in 1..n : \A x \in T[i - 1] : F[<<x, i>>] \in T[i] BY <1>7, <1>8
  <2> QED BY <1>5, <1>9, <2>1, LoopStays
<1> DEFINE Is(h) == h = [i \in 0..n |-> IF i = 0 THEN base ELSE Narrow(ents, key, inc, h[i - 1])]
<1>11. Is(f)
  <2>1. ASSUME NEW i \in 0..n PROVE f[i] = IF i = 0 THEN base ELSE Narrow(ents, key, inc, f[i - 1])
    <3>1. f[i] = IF i = 0 THEN base ELSE F[<<f[i - 1], i>>] BY <1>9 DEF Loop
    <3>2. i # 0 => i \in 1..n /\ i - 1 \in 0..n OBVIOUS
    <3>3. i # 0 => f[i - 1] \in D BY <1>8, <1>10, <3>2
    <3> QED BY <1>7, <3>1, <3>2, <3>3
  <2>2. f = [i \in 0..n |-> f[i]] BY <1>9 DEF Loop
  <2> QED BY <2>1, <2>2
<1>12. PICK g : g = (CHOOSE h : Is(h)) /\ Is(g)
  <2> HIDE DEF Is
  <2> QED BY <1>11
<1>13. g[n] \in T[n]
  <2>1. \A i \in 0..n : g[i] = IF i = 0 THEN base ELSE Narrow(ents, key, inc, g[i - 1]) BY <1>12
  <2>2. g[0] = f[0] BY <1>9, <2>1 DEF Loop
  <2>3. ASSUME NEW i \in 1..n, g[i - 1] = f[i - 1] PROVE g[i] = f[i]
    <3>1. i \in 0..n /\ i # 0 OBVIOUS
    <3>2. g[i] = Narrow(ents, key, inc, f[i - 1]) BY <2>1, <2>3, <3>1
    <3>3. f[i] = Narrow(ents, key, inc, f[i - 1]) BY <1>11, <3>1
    <3> QED BY <3>2, <3>3
  <2>4. \A i \in 0..n : g[i] = f[i]
    <3> HIDE DEF Is
    <3> QED BY ONLY n \in Nat, <2>2, <2>3, SameLoop
  <2> QED BY <1>10, <2>4
<1>14. PICK r : r = IF n <= 0 THEN base ELSE g[n] OBVIOUS
<1>15. r \in T[n]
  <2>1. CASE n = 0 BY <1>5, <1>14, <2>1
  <2>2. CASE n # 0 BY <1>13, <1>14, <2>2
  <2> QED BY <2>1, <2>2
<1>16. LowerBound(ents, key, inc) = r.lo
  <2>1. LowerBound(ents, key, inc) = (IF n <= 0 THEN base ELSE (CHOOSE h : Is(h))[n]).lo
    BY <1>2 DEF LowerBound, Iterate, Narrow
  <2> HIDE DEF Is
  <2> QED BY <1>12, <1>14, <2>1
<1>17. r \in Bounds(B, n, n) BY <1>3, <1>15
<1>18. r.lo \in 0..n /\ r.hi = r.lo BY <1>17 DEF Bounds
<1>19. B = 1..r.lo BY <1>17, <1>18 DEF Bounds
<1> QED BY <1>16, <1>18, <1>19

(* The elements of s, of length n, at the places K, in order.                 *)
Picked(s, n, K) == [i \in 1..n |-> IF i \in K THEN <<s[i]>> ELSE << >>]

At(s, K) == {s[i] : i \in K}

LEMMA PickedIs ==
    ASSUME NEW n \in Nat, NEW s, NEW K, K \subseteq 1..n, \A i, j \in K : s[i] = s[j] => i = j
    PROVE  Lists(FlattenSeq(Picked(s, n, K)), At(s, K))
<1>0. PICK R : R = At(s, K) /\ R = {s[i] : i \in K} BY DEF At
<1>1. PICK g : g = Picked(s, n, K) /\ g = [i \in 1..n |-> IF i \in K THEN <<s[i]>> ELSE << >>] BY DEF Picked
<1>2. PICK S : S = [i \in 1..n |-> IF i \in K THEN {s[i]} ELSE {}] OBVIOUS
<1>3. ASSUME NEW i \in 1..n PROVE Lists(g[i], S[i])
  <2>1. CASE i \in K
    <3>1. g[i] = <<s[i]>> /\ S[i] = {s[i]} BY <1>1, <1>2, <2>1
    <3>2. PICK x : x = s[i] OBVIOUS
    <3>3. <<x>> \in Seq({x}) /\ Len(<<x>>) = 1 /\ <<x>>[1] = x OBVIOUS
    <3>4. Lists(<<x>>, {x}) BY <3>3 DEF Lists
    <3> QED BY <3>1, <3>2, <3>4
  <2>2. CASE i \notin K
    <3>1. g[i] = << >> /\ S[i] = {} BY <1>1, <1>2, <2>2
    <3>2. Lists(<< >>, {}) BY EmptySeq DEF Lists
    <3> QED BY <3>1, <3>2
  <2> QED BY <2>1, <2>2
<1>4. Apart(S, n)
  <2>1. ASSUME NEW i \in 1..n, NEW j \in 1..n, i # j PROVE S[i] \cap S[j] = {}
    <3>1. ASSUME NEW x \in S[i], x \in S[j] PROVE FALSE
      <4>1. i \in K /\ x = s[i] BY <1>2, <3>1
      <4>2. j \in K /\ x = s[j] BY <1>2, <3>1
      <4> QED BY <2>1, <4>1, <4>2
    <3> QED BY <3>1
  <2> QED BY <2>1 DEF Apart, Disjoint
<1>5. g = [i \in 1..n |-> g[i]] BY <1>1
<1>6. Lists(FlattenSeq(g), UpTo(S, n)) BY <1>3, <1>4, <1>5, FlattenIs
<1>7. UpTo(S, n) = R
  <2>1. ASSUME NEW x \in UpTo(S, n) PROVE x \in R
    <3>1. PICK i \in 1..n : x \in S[i] BY DEF UpTo
    <3>2. i \in K /\ x = s[i] BY <1>2, <3>1
    <3> QED BY <1>0, <3>2
  <2>2. ASSUME NEW i \in K PROVE s[i] \in UpTo(S, n)
    <3>1. i \in 1..n /\ s[i] \in S[i] BY <1>2
    <3> QED BY <3>1 DEF UpTo
  <2> QED BY <1>0, <2>1, <2>2
<1> QED BY <1>0, <1>1, <1>6, <1>7

(* The entries a comparison with key is true of.                              *)
Compared(ents, key, op) == {i \in 1..Len(ents) : CmpMatches(ents[i][1] - key, op)}

Stops(k, key, op) == (op \in {0, 4} /\ k > key) \/ (op = 2 /\ k >= key)

Start(ents, key, op) == IF op \in {0, 5} THEN LowerBound(ents, key, TRUE)
                        ELSE IF op = 3 THEN LowerBound(ents, key, FALSE) ELSE 0

(* The entries the scan gives out.                                            *)
Visited(ents, key, op) ==
    {i \in 1..Len(ents) :
        /\ \A j \in Start(ents, key, op) + 1..i : ~Stops(ents[j][1], key, op)
        /\ Start(ents, key, op) < i
        /\ op = 0 => ents[i][1] = key
        /\ op = 1 => ents[i][1] # key}

LEMMA CmpIs ==
    ASSUME NEW a \in Int, NEW b \in Int
    PROVE  /\ CmpMatches(a - b, 0) <=> a = b
           /\ CmpMatches(a - b, 1) <=> a # b
           /\ CmpMatches(a - b, 2) <=> a < b
           /\ CmpMatches(a - b, 3) <=> a > b
           /\ CmpMatches(a - b, 4) <=> a <= b
           /\ CmpMatches(a - b, 5) <=> a >= b
BY DEF CmpMatches

(* From its start to where it stops the scan gives out exactly these.         *)
LEMMA VisitedIs ==
    ASSUME NEW ents \in Seq(Ents), Rising(ents), NEW key \in Int, NEW op \in 0..5
    PROVE  Visited(ents, key, op) = Compared(ents, key, op)
<1>1. PICK n \in Nat : n = Len(ents) BY LenProperties
<1>2. PICK k : k = [i \in 1..n |-> ents[i][1]] OBVIOUS
<1>3. ASSUME NEW i \in 1..n PROVE ents[i][1] = k[i] /\ k[i] \in Int
  <2>1. ents[i] \in Ents BY <1>1, ElementOfSeq
  <2> QED BY <1>2, <2>1 DEF Ents
<1>4. ASSUME NEW i \in 1..n, NEW j \in 1..n, i <= j PROVE k[i] <= k[j]
  <2>1. Climbing(ents) BY RisingClimbs
  <2> QED BY <1>1, <1>3, <1>4, <2>1 DEF Climbing
<1>5. PICK lb : lb = LowerBound(ents, key, TRUE) OBVIOUS
<1>6. lb \in 0..n /\ \A i \in 1..n : lb < i <=> k[i] >= key
  <2>1. PICK B : B = {j \in 1..n : Below(ents[j], key, TRUE)} OBVIOUS
  <2>2. \A j \in 1..n : j \in B <=> k[j] < key BY <1>3, <2>1 DEF Below
  <2>3. ASSUME NEW j \in B PROVE 1..j \subseteq B
    <3>1. j \in 1..n /\ k[j] < key BY <2>1, <2>2
    <3>2. ASSUME NEW i \in 1..j PROVE i \in B
      <4>1. i \in 1..n /\ k[i] <= k[j] BY <1>4, <3>1
      <4>2. k[i] < key BY <1>3, <3>1, <4>1
      <4> QED BY <2>2, <4>1, <4>2
    <3> QED BY <3>2
  <2>4. lb \in 0..n /\ B = 1..lb BY <1>1, <1>5, <2>1, <2>3, LowerBoundIs
  <2>5. ASSUME NEW i \in 1..n PROVE lb < i <=> k[i] >= key
    <3>1. lb < i <=> i \notin B BY <2>4
    <3> QED BY <1>3, <2>2, <3>1
  <2> QED BY <2>4, <2>5
<1>7. PICK ub : ub = LowerBound(ents, key, FALSE) OBVIOUS
<1>8. ub \in 0..n /\ \A i \in 1..n : ub < i <=> k[i] > key
  <2>1. PICK B : B = {j \in 1..n : Below(ents[j], key, FALSE)} OBVIOUS
  <2>2. \A j \in 1..n : j \in B <=> k[j] <= key BY <1>3, <2>1 DEF Below
  <2>3. ASSUME NEW j \in B PROVE 1..j \subseteq B
    <3>1. j \in 1..n /\ k[j] <= key BY <2>1, <2>2
    <3>2. ASSUME NEW i \in 1..j PROVE i \in B
      <4>1. i \in 1..n /\ k[i] <= k[j] BY <1>4, <3>1
      <4>2. k[i] <= key BY <1>3, <3>1, <4>1
      <4> QED BY <2>2, <4>1, <4>2
    <3> QED BY <3>2
  <2>4. ub \in 0..n /\ B = 1..ub BY <1>1, <1>7, <2>1, <2>3, LowerBoundIs
  <2>5. ASSUME NEW i \in 1..n PROVE ub < i <=> k[i] > key
    <3>1. ub < i <=> i \notin B BY <2>4
    <3> QED BY <1>3, <2>2, <3>1
  <2> QED BY <2>4, <2>5
<1>9. ASSUME NEW i \in 1..n PROVE i \in Visited(ents, key, op) <=> i \in Compared(ents, key, op)
  <2>1. PICK start \in 0..n : start = Start(ents, key, op)
    <3>0. lb \in 0..n /\ ub \in 0..n /\ 0 \in 0..n BY <1>6, <1>8
    <3>1. Start(ents, key, op) \in 0..n BY <1>5, <1>7, <3>0 DEF Start
    <3> QED BY <3>1
  <2>2. i \in Visited(ents, key, op) <=>
          /\ \A j \in start + 1..i : ~Stops(k[j], key, op)
          /\ start < i /\ (op = 0 => k[i] = key) /\ (op = 1 => k[i] # key)
    <3>1. \A j \in start + 1..i : ents[j][1] = k[j] BY <1>3
    <3>2. ents[i][1] = k[i] BY <1>3
    <3> QED BY <1>1, <2>1, <3>1, <3>2 DEF Visited
  <2>3. i \in Compared(ents, key, op) <=> CmpMatches(k[i] - key, op) BY <1>1, <1>3 DEF Compared
  <2>4. \A j \in start + 1..i : j \in 1..n /\ k[j] \in Int /\ k[j] <= k[i] BY <1>3, <1>4
  <2>5. start < i => i \in start + 1..i OBVIOUS
  <2>6. k[i] \in Int BY <1>3
  <2>7. CASE op = 0
    <3>1. start = lb BY <1>5, <2>1, <2>7 DEF Start
    <3>2. \A j \in start + 1..i : Stops(k[j], key, op) <=> k[j] > key BY <2>7 DEF Stops
    <3>3. k[i] = key => \A j \in start + 1..i : ~(k[j] > key) BY <2>4, <2>6
    <3>4. k[i] = key => start < i BY <1>6, <2>6, <3>1
    <3>5. CmpMatches(k[i] - key, op) <=> k[i] = key BY <2>6, <2>7, CmpIs
    <3> QED BY <2>2, <2>3, <2>7, <3>2, <3>3, <3>4, <3>5
  <2>8. CASE op = 1
    <3>1. start = 0 BY <2>1, <2>8 DEF Start
    <3>2. \A j \in start + 1..i : ~Stops(k[j], key, op) BY <2>8 DEF Stops
    <3>3. start < i BY <3>1
    <3>4. CmpMatches(k[i] - key, op) <=> k[i] # key BY <2>6, <2>8, CmpIs
    <3> QED BY <2>2, <2>3, <2>8, <3>2, <3>3, <3>4
  <2>9. CASE op = 2
    <3>1. start = 0 /\ start < i BY <2>1, <2>9 DEF Start
    <3>2. \A j \in start + 1..i : Stops(k[j], key, op) <=> k[j] >= key BY <2>9 DEF Stops
    <3>3. (\A j \in start + 1..i : ~(k[j] >= key)) <=> k[i] < key BY <2>4, <2>5, <2>6, <3>1
    <3>4. CmpMatches(k[i] - key, op) <=> k[i] < key BY <2>6, <2>9, CmpIs
    <3> QED BY <2>2, <2>3, <2>9, <3>1, <3>2, <3>3, <3>4
  <2>10. CASE op = 3
    <3>1. start = ub BY <1>7, <2>1, <2>10 DEF Start
    <3>2. \A j \in start + 1..i : ~Stops(k[j], key, op) BY <2>10 DEF Stops
    <3>3. start < i <=> k[i] > key BY <1>8, <3>1
    <3>4. CmpMatches(k[i] - key, op) <=> k[i] > key BY <2>6, <2>10, CmpIs
    <3> QED BY <2>2, <2>3, <2>10, <3>2, <3>3, <3>4
  <2>11. CASE op = 4
    <3>1. start = 0 /\ start < i BY <2>1, <2>11 DEF Start
    <3>2. \A j \in start + 1..i : Stops(k[j], key, op) <=> k[j] > key BY <2>11 DEF Stops
    <3>3. (\A j \in start + 1..i : ~(k[j] > key)) <=> k[i] <= key BY <2>4, <2>5, <2>6, <3>1
    <3>4. CmpMatches(k[i] - key, op) <=> k[i] <= key BY <2>6, <2>11, CmpIs
    <3> QED BY <2>2, <2>3, <2>11, <3>1, <3>2, <3>3, <3>4
  <2>12. CASE op = 5
    <3>1. start = lb BY <1>5, <2>1, <2>12 DEF Start
    <3>2. \A j \in start + 1..i : ~Stops(k[j], key, op) BY <2>12 DEF Stops
    <3>3. start < i <=> k[i] >= key BY <1>6, <3>1
    <3>4. CmpMatches(k[i] - key, op) <=> k[i] >= key BY <2>6, <2>12, CmpIs
    <3> QED BY <2>2, <2>3, <2>12, <3>2, <3>3, <3>4
  <2>13. op = 0 \/ op = 1 \/ op = 2 \/ op = 3 \/ op = 4 \/ op = 5 OBVIOUS
  <2> QED BY <2>7, <2>8, <2>9, <2>10, <2>11, <2>12, <2>13
<1>10. Visited(ents, key, op) \subseteq 1..n /\ Compared(ents, key, op) \subseteq 1..n
  BY <1>1 DEF Visited, Compared
<1> QED BY <1>9, <1>10

(* The scan leads to the records of the entries the comparison is true of, to  *)
(* each once, when every entry has an address of its own.                     *)
LEMMA ScanIs ==
    ASSUME NEW ix, NEW ents \in Seq(Ents), ents = ix.ents, Rising(ents), NEW key \in Int, NEW op \in 0..5,
           \A i \in 1..Len(ents) : row_ptr[ents[i][2]] # NoRow,
           \A i, j \in 1..Len(ents) : row_ptr[ents[i][2]] = row_ptr[ents[j][2]] => i = j
    PROVE  Lists(IndexScan(ix, key, op), {row_ptr[ents[i][2]] : i \in Compared(ents, key, op)})
<1>1. PICK n \in Nat : n = Len(ents) /\ DOMAIN ents = 1..n BY LenProperties
<1>2. PICK K : K = Visited(ents, key, op) OBVIOUS
<1>3. K = Compared(ents, key, op) /\ K \subseteq 1..n
  <2>1. K = Compared(ents, key, op) BY <1>2, VisitedIs
  <2> QED BY <1>1, <2>1 DEF Compared
<1>4. PICK s : s = [i \in 1..n |-> row_ptr[ents[i][2]]] OBVIOUS
<1>5. Lists(FlattenSeq(Picked(s, n, K)), At(s, K))
  <2>1. \A i, j \in K : s[i] = s[j] => i = j BY <1>1, <1>3, <1>4
  <2> QED BY ONLY n \in Nat, <1>3, <2>1, PickedIs
<1>6. At(s, K) = {row_ptr[ents[i][2]] : i \in K}
  <2>1. \A i \in K : s[i] = row_ptr[ents[i][2]] BY <1>3, <1>4
  <2> QED BY ONLY <2>1 DEF At
<1> DEFINE Read(i) == /\ \A j \in Start(ents, key, op) + 1..i : ~Stops(ents[j][1], key, op)
                      /\ Start(ents, key, op) < i
                      /\ op = 0 => ents[i][1] = key
                      /\ op = 1 => ents[i][1] # key
                      /\ row_ptr[ents[i][2]] # NoRow
<1>7. \A i \in 1..n : Read(i) <=> i \in K BY <1>1, <1>2 DEF Visited
<1>8. IndexScan(ix, key, op) = FlattenSeq([i \in DOMAIN ents |-> IF Read(i) THEN <<row_ptr[ents[i][2]]>> ELSE << >>])
  BY Zenon DEF IndexScan, Start, Stops
<1>9. [i \in DOMAIN ents |-> IF Read(i) THEN <<row_ptr[ents[i][2]]>> ELSE << >>]
      = Picked(s, n, K)
  <2>1. ASSUME NEW i \in 1..n
        PROVE  (IF Read(i) THEN <<row_ptr[ents[i][2]]>> ELSE << >>) = (IF i \in K THEN <<s[i]>> ELSE << >>)
    <3> HIDE DEF Read
    <3> QED BY <1>4, <1>7
  <2> HIDE DEF Read
  <2> QED BY <1>1, <2>1 DEF Picked
<1>10. IndexScan(ix, key, op) = FlattenSeq(Picked(s, n, K))
  <2> HIDE DEF Read
  <2> QED BY <1>8, <1>9, Zenon
<1> QED BY ONLY <1>3, <1>5, <1>6, <1>10, Zenon

-----------------------------------------------------------------------------
(* The plans of SELECT.                                                       *)

LEMMA ListsCount ==
    ASSUME NEW S, NEW s, Lists(s, S)
    PROVE  IsFiniteSet(S) /\ Cardinality(S) = Len(s)
<1>1. PICK m \in Nat : m = Len(s) BY LenProperties DEF Lists
<1>2. s \in [1..m -> S] BY <1>1, LenProperties DEF Lists
<1>3. s \in Bijection(1..m, S)
  <2>1. \A i, j \in 1..m : s[i] = s[j] => i = j BY <1>1 DEF Lists
  <2>2. \A x \in S : \E i \in 1..m : s[i] = x BY <1>1 DEF Lists
  <2> QED BY <1>2, <2>1, <2>2 DEF Bijection, Injection, Surjection, IsInjective
<1>4. IsFiniteSet(1..m) /\ Cardinality(1..m) = m BY FS_Interval
<1>5. IsFiniteSet(S) /\ Cardinality(1..m) = Cardinality(S) BY <1>3, <1>4, FS_Bijection DEF ExistsBijection
<1> QED BY <1>1, <1>4, <1>5

(* Literals and INT columns lie so close together that no comparison by        *)
(* subtraction overflows.                                                     *)
NoOverflow == \A a, b \in Ints : a - b \in -(IntRange \div 2)..(IntRange \div 2) - 1

LEMMA MinusIs ==
    ASSUME NoOverflow, NEW a \in Ints, NEW b \in Ints
    PROVE  Minus(a, b) = a - b
<1>1. PICK h \in Nat : h = IntRange \div 2 /\ IntRange = 2 * h /\ h >= 1
  <2>1. IntRange \in Nat \ {0} /\ IntRange % 2 = 0 BY DbAssumptions DEF DbAssumptions
  <2> QED BY <2>1
<1>2. a \in Int /\ b \in Int BY DbAssumptions DEF DbAssumptions
<1>3. PICK d \in Int : d = a - b /\ -h <= d /\ d <= h - 1
  <2>1. a - b \in -h..h - 1 BY <1>1 DEF NoOverflow
  <2> QED BY <1>1, <1>2, <2>1
<1>4. PICK x \in 0..2 * h - 1 : x = d + h BY <1>1, <1>3
<1>5. PICK R \in Nat \ {0} : R = 2 * h BY <1>1
<1>6. x % R = x
  <2>1. x \in Nat /\ x < R BY <1>4, <1>5
  <2> QED BY <2>1
<1>7. Minus(a, b) = (x % R) - h BY <1>1, <1>3, <1>4, <1>5 DEF Minus
<1> QED BY <1>3, <1>4, <1>6, <1>7

(* A row is known by its address.                                             *)
LEMMA SameRow ==
    ASSUME NEW pg, NEW ts, NEW ptr, NEW nr, Stored(pg, ts, ptr, nr), NEW t \in 1..Len(ts),
           NEW x \in TagRows(pg, t), NEW y \in TagRows(pg, t), x.at = y.at
    PROVE  x = y
<1>1. PICK p \in Pages : \E m \in 1..Len(pg[p].slots) : x.at = <<p, m>> /\ x = PageRows(pg, p)[m] BY RowKey
<1>2. PICK m \in 1..Len(pg[p].slots) : x.at = <<p, m>> /\ x = PageRows(pg, p)[m] BY <1>1
<1>3. PICK q \in Pages : \E o \in 1..Len(pg[q].slots) : y.at = <<q, o>> /\ y = PageRows(pg, q)[o] BY RowKey
<1>4. PICK o \in 1..Len(pg[q].slots) : y.at = <<q, o>> /\ y = PageRows(pg, q)[o] BY <1>3
<1>5. <<p, m>> = <<q, o>> BY <1>2, <1>4
<1>6. p = q /\ m = o BY <1>5
<1> QED BY <1>2, <1>4, <1>6

Clause(c, op, v) == [col |-> c, op |-> op, type |-> 0, val |-> v]

(* The rows of table t whose column c compares with v as op says.             *)
RowsHit(t, c, op, v) == {x \in TagRows(page, t) : CmpMatches(x.val[c] - v, op)}
RowsHitAt(t, c, op, v) == {x.at : x \in RowsHit(t, c, op, v)}

LEMMA MatchIs ==
    ASSUME NoOverflow, NEW pg, NEW ts, NEW ptr, NEW nr, Stored(pg, ts, ptr, nr), NEW t \in 1..Len(ts),
           NEW c \in DOMAIN ts[t].types, ts[t].types[c] = 0, NEW op, NEW v \in Ints, NEW x \in TagRows(pg, t)
    PROVE  /\ Match(ts[t].types, x.val, Clause(c, op, v)) <=> CmpMatches(x.val[c] - v, op)
           /\ pg[x.at[1]].recs[x.at[2]] = x.val /\ x.at # NoRow
<1>1. x.val[c] \in Ints BY RowKey
<1>2. Minus(x.val[c], v) = x.val[c] - v BY <1>1, MinusIs
<1>3. c # 0
  <2>1. PICK s \in Schemas : s = ts[t].types BY StoredIs, TabsIn
  <2>2. s \in Seq({0, 1}) BY DbAssumptions DEF DbAssumptions
  <2>3. DOMAIN s = 1..Len(s) BY <2>2, LenProperties
  <2> QED BY <2>1, <2>3
<1>4. Match(ts[t].types, x.val, Clause(c, op, v)) <=> CmpMatches(Minus(x.val[c], v), op)
  BY <1>3 DEF Match, Clause
<1>5. PagesIn(pg, Len(ts)) /\ Tidied(pg, ts) BY StoredIs
<1>6. PICK p \in Pages : \E j \in 1..Len(pg[p].slots) : x.at = <<p, j>> /\ x.val = pg[p].recs[j]
  BY <1>5, RowIn
<1>7. PICK j \in 1..Len(pg[p].slots) : x.at = <<p, j>> /\ x.val = pg[p].recs[j] BY <1>6
<1>8. x.at[1] = p /\ x.at[2] = j /\ x.at # NoRow
  <2>1. p # 0 BY Sizes DEF Pages
  <2> QED BY <1>7, <2>1 DEF NoRow
<1> QED BY <1>2, <1>4, <1>7, <1>8

(* The scan of an exact index leads to these rows.                            *)
LEMMA ScanHits ==
    ASSUME StoreInv, NEW ix \in IndexRecs, IndexGood(ix, page, tabs), NoOverflow,
           NEW op \in 0..5, NEW v \in Ints
    PROVE  Lists(IndexScan(ix, v, op), RowsHitAt(ix.tid, ix.col, op, v))
<1>1. Stored(page, tabs, row_ptr, next_rowid) BY DEF StoreInv, Stored
<1>a. PICK t \in 1..Len(tabs) : t = ix.tid BY DEF IndexGood, OnColumn
<1>b. PICK ents \in Seq(Ents) : ents = ix.ents BY IndexIs
<1>c. PICK c : c = ix.col OBVIOUS
<1>2. t = ix.tid /\ c = ix.col /\ ents = ix.ents BY <1>a, <1>b, <1>c
<1>3. Rising(ents) /\ Keyed(ents, c, TagRows(page, t)) BY <1>2 DEF IndexGood
<1>4. c \in DOMAIN tabs[t].types /\ tabs[t].types[c] = 0 BY <1>2 DEF IndexGood, OnColumn
<1>5. PICK n \in Nat : n = Len(ents) BY LenProperties
<1>6. ASSUME NEW k \in 1..n
      PROVE  \E x \in TagRows(page, t) : /\ ents[k] = <<x.val[c], x.id>> /\ row_ptr[ents[k][2]] = x.at
                                         /\ ents[k][1] = x.val[c] /\ x.at # NoRow
  <2>1. PICK x \in TagRows(page, t) : ents[k] = <<x.val[c], x.id>> BY <1>3, <1>5 DEF Keyed
  <2>2. row_ptr[x.id] = x.at BY <1>1, RowKey
  <2>3. x.at # NoRow BY <1>1, <1>4, MatchIs
  <2> QED BY <2>1, <2>2, <2>3
<1>7. \A k \in 1..n : row_ptr[ents[k][2]] # NoRow BY <1>6
<1>8. ASSUME NEW k \in 1..n, NEW l \in 1..n, row_ptr[ents[k][2]] = row_ptr[ents[l][2]] PROVE k = l
  <2>1. PICK x \in TagRows(page, t) : ents[k] = <<x.val[c], x.id>> /\ row_ptr[ents[k][2]] = x.at BY <1>6
  <2>2. PICK y \in TagRows(page, t) : ents[l] = <<y.val[c], y.id>> /\ row_ptr[ents[l][2]] = y.at BY <1>6
  <2>3. x = y BY <1>1, <1>8, <2>1, <2>2, SameRow
  <2>4. ents[k] = ents[l] BY <2>1, <2>2, <2>3
  <2> QED BY <1>3, <1>5, <2>4, RisingDiffers
<1>9. v \in Int BY DbAssumptions DEF DbAssumptions
<1>10. Lists(IndexScan(ix, v, op), {row_ptr[ents[k][2]] : k \in Compared(ents, v, op)})
  BY <1>2, <1>3, <1>5, <1>7, <1>8, <1>9, ScanIs
<1>11. {row_ptr[ents[k][2]] : k \in Compared(ents, v, op)} = {x.at : x \in RowsHit(t, c, op, v)}
  <2>1. ASSUME NEW k \in Compared(ents, v, op) PROVE \E x \in RowsHit(t, c, op, v) : row_ptr[ents[k][2]] = x.at
    <3>1. k \in 1..n /\ CmpMatches(ents[k][1] - v, op) BY <1>5 DEF Compared
    <3>2. PICK x \in TagRows(page, t) : row_ptr[ents[k][2]] = x.at /\ ents[k][1] = x.val[c] BY <1>6, <3>1
    <3> QED BY <3>1, <3>2 DEF RowsHit
  <2>2. ASSUME NEW x \in RowsHit(t, c, op, v) PROVE \E k \in Compared(ents, v, op) : row_ptr[ents[k][2]] = x.at
    <3>1. x \in TagRows(page, t) /\ CmpMatches(x.val[c] - v, op) BY DEF RowsHit
    <3>2. PICK k \in 1..n : ents[k] = <<x.val[c], x.id>> BY <1>3, <1>5, <3>1 DEF Keyed
    <3>3. ents[k][1] = x.val[c] /\ ents[k][2] = x.id BY <3>2
    <3>4. row_ptr[x.id] = x.at BY <1>1, <3>1, RowKey
    <3>5. k \in Compared(ents, v, op) BY <1>5, <3>1, <3>3 DEF Compared
    <3> QED BY <3>3, <3>4, <3>5
  <2> QED BY <2>1, <2>2
<1>12. Lists(IndexScan(ix, v, op), RowsHitAt(t, c, op, v)) BY <1>10, <1>11 DEF RowsHitAt
<1> QED BY <1>2, <1>12

(* The first index on the column is one of them.                              *)
LEMMA FirstIndex ==
    ASSUME IndexesGood(idx, page, tabs), NEW i \in DOMAIN idx, NEW on,
           on = {j \in DOMAIN idx : idx[j].tid = idx[i].tid /\ idx[j].col = idx[i].col}
    PROVE  /\ on # {} /\ idx[Min(on)] \in IndexRecs /\ IndexGood(idx[Min(on)], page, tabs)
           /\ idx[Min(on)].tid = idx[i].tid /\ idx[Min(on)].col = idx[i].col
<1>1. PICK n \in Nat : n = Len(idx) /\ DOMAIN idx = 1..n BY LenProperties DEF IndexesGood
<1>2. on \in SUBSET Nat /\ on # {} BY <1>1
<1>3. \E j \in on : \A k \in on : j <= k BY <1>2, LeastNumber
<1>4. PICK m \in on : m = Min(on) BY <1>3 DEF Min
<1>5. m \in 1..n BY <1>1
<1>6. idx[m] \in IndexRecs /\ IndexGood(idx[m], page, tabs) BY <1>1, <1>5, ElementOfSeq DEF IndexesGood
<1> QED BY <1>2, <1>4, <1>6

(* The plan of a clause on a column that an index serves.                     *)
LEMMA PlanIs ==
    ASSUME NEW t, NEW w, NEW on, on = {j \in DOMAIN idx : idx[j].tid = t /\ idx[j].col = w.col},
           NEW cursor, w.col # 0 /\ w.type = 0 /\ on # {}, cursor = IndexScan(idx[Min(on)], w.val, w.op)
    PROVE  SelectPlan(t, w) = FlattenSeq([k \in DOMAIN cursor |->
               IF Match(tabs[t].types, page[cursor[k][1]].recs[cursor[k][2]], w)
               THEN <<cursor[k]>> ELSE << >>])
BY DEF SelectPlan

LEMMA PlanReads ==
    ASSUME StoreInv, IndexesGood(idx, page, tabs), NoOverflow, NEW i \in DOMAIN idx,
           NEW op \in 0..5, NEW v \in Ints, NEW t, NEW c, t = idx[i].tid, c = idx[i].col
    PROVE  /\ Lists(SelectPlan(t, Clause(c, op, v)), RowsHitAt(t, c, op, v))
           /\ t \in 1..Len(tabs) /\ c \in DOMAIN tabs[t].types /\ tabs[t].types[c] = 0
<1>1. PICK on : on = {j \in DOMAIN idx : idx[j].tid = t /\ idx[j].col = c} OBVIOUS
<1>2. PICK ix \in IndexRecs : ix = idx[Min(on)] /\ on # {} /\ IndexGood(ix, page, tabs) /\ ix.tid = t /\ ix.col = c
  BY <1>1, FirstIndex
<1>3. t \in 1..Len(tabs) /\ c \in DOMAIN tabs[t].types /\ tabs[t].types[c] = 0
  BY <1>2 DEF IndexGood, OnColumn
<1>4. PICK A : A = {x.at : x \in RowsHit(t, c, op, v)} /\ A = RowsHitAt(t, c, op, v) BY DEF RowsHitAt
<1>5. PICK cursor : cursor = IndexScan(ix, v, op) /\ Lists(cursor, A) BY <1>2, <1>4, ScanHits
<1>6. PICK n \in Nat : n = Len(cursor) /\ DOMAIN cursor = 1..n BY <1>5, LenProperties DEF Lists
<1>7. Stored(page, tabs, row_ptr, next_rowid) BY DEF StoreInv, Stored
<1>8. PICK w : w = Clause(c, op, v) OBVIOUS
<1>9. ASSUME NEW k \in 1..n PROVE Match(tabs[t].types, page[cursor[k][1]].recs[cursor[k][2]], w)
  <2>1. cursor[k] \in A BY <1>5, <1>6, ElementOfSeq DEF Lists
  <2>2. PICK x \in RowsHit(t, c, op, v) : cursor[k] = x.at BY <1>4, <2>1
  <2>3. x \in TagRows(page, t) /\ CmpMatches(x.val[c] - v, op) BY DEF RowsHit
  <2>4. Match(tabs[t].types, x.val, w) /\ page[x.at[1]].recs[x.at[2]] = x.val
    BY <1>3, <1>7, <1>8, <2>3, MatchIs
  <2> QED BY <2>2, <2>4
<1>10. w.col = c /\ w.type = 0 /\ w.val = v /\ w.op = op BY <1>8 DEF Clause
<1>11. c # 0
  <2>1. PICK s \in Schemas : s = tabs[t].types BY <1>3, <1>7, StoredIs, TabsIn
  <2>2. s \in Seq({0, 1}) BY DbAssumptions DEF DbAssumptions
  <2>3. DOMAIN s = 1..Len(s) BY <2>2, LenProperties
  <2> QED BY <1>3, <2>1, <2>3
<1> DEFINE Passes(k) == Match(tabs[t].types, page[cursor[k][1]].recs[cursor[k][2]], w)
<1>12. SelectPlan(t, w) = FlattenSeq([k \in DOMAIN cursor |-> IF Passes(k) THEN <<cursor[k]>> ELSE << >>])
  <2>1. {j \in DOMAIN idx : idx[j].tid = t /\ idx[j].col = w.col} = on BY <1>1, <1>10
  <2>2. w.col # 0 /\ w.type = 0 /\ on # {} BY <1>2, <1>10, <1>11
  <2>3. IndexScan(idx[Min(on)], w.val, w.op) = cursor BY <1>2, <1>5, <1>10
  <2> QED BY <2>1, <2>2, <2>3, PlanIs
<1>13. [k \in DOMAIN cursor |-> IF Passes(k) THEN <<cursor[k]>> ELSE << >>] = Picked(cursor, n, 1..n)
  <2>1. \A k \in 1..n : Passes(k) BY <1>9
  <2> HIDE DEF Passes
  <2> QED BY <1>6, <2>1 DEF Picked
<1>14. SelectPlan(t, w) = FlattenSeq(Picked(cursor, n, 1..n))
  <2> HIDE DEF Passes
  <2> QED BY <1>12, <1>13, Zenon
<1>15. Lists(FlattenSeq(Picked(cursor, n, 1..n)), At(cursor, 1..n))
  <2>1. \A k, l \in 1..n : cursor[k] = cursor[l] => k = l BY <1>5, <1>6 DEF Lists
  <2> QED BY ONLY n \in Nat, <2>1, PickedIs
<1>16. At(cursor, 1..n) = A
  <2>1. \A k \in 1..n : cursor[k] \in A BY <1>5, <1>6, ElementOfSeq DEF Lists
  <2>2. \A a \in A : \E k \in 1..n : cursor[k] = a BY <1>5, <1>6 DEF Lists
  <2> QED BY <2>1, <2>2 DEF At
<1> QED BY <1>3, <1>4, <1>8, <1>14, <1>15, <1>16

(* The rows that the clause keeps, and the addresses of some rows.            *)
Kept(rows, t, w) == {k \in DOMAIN rows : Match(tabs[t].types, rows[k].val, w)}
KeptAt(rows, ks) == {rows[k].at : k \in ks}

LEMMA PlanFollows ==
    ASSUME StoreInv, IndexesGood(idx, page, tabs), NoOverflow,
           NEW i \in DOMAIN idx, NEW op \in 0..5, NEW v \in Ints, NEW t, NEW c, t = idx[i].tid, c = idx[i].col,
           NEW rows, rows = TableRows(page, tabs[t]), NEW w, w = [col |-> c, op |-> op, type |-> 0, val |-> v],
           NEW read, read = SelectPlan(t, w),
           NEW hits, hits = Kept(rows, t, w)
    PROVE  Len(read) = Cardinality(hits) /\ ToSet(read) = KeptAt(rows, hits)
<1>1. w = Clause(c, op, v) BY DEF Clause
<1>2. PICK A : A = {x.at : x \in RowsHit(t, c, op, v)} /\ A = RowsHitAt(t, c, op, v) BY DEF RowsHitAt
<1>3. Lists(read, A) /\ t \in 1..Len(tabs) /\ c \in DOMAIN tabs[t].types /\ tabs[t].types[c] = 0
  <2>1. read = SelectPlan(t, Clause(c, op, v)) BY <1>1
  <2>2. t = idx[i].tid /\ c = idx[i].col BY <1>1
  <2>3. /\ Lists(SelectPlan(t, Clause(c, op, v)), RowsHitAt(t, c, op, v))
        /\ t \in 1..Len(tabs) /\ c \in DOMAIN tabs[t].types /\ tabs[t].types[c] = 0
    BY ONLY StoreInv, IndexesGood(idx, page, tabs), NoOverflow, i \in DOMAIN idx,
            op \in 0..5, v \in Ints, <2>2, PlanReads
  <2> QED BY <1>2, <2>1, <2>3
<1>4. Stored(page, tabs, row_ptr, next_rowid) BY DEF StoreInv, Stored
<1>5. Lists(rows, TagRows(page, t)) BY <1>3, <1>4, RowsFit
<1>6. PICK n \in Nat : n = Len(rows) /\ DOMAIN rows = 1..n BY <1>5, LenProperties DEF Lists
<1>7. \A k \in 1..n : rows[k] \in TagRows(page, t) BY <1>5, <1>6, ElementOfSeq DEF Lists
<1>8. ASSUME NEW k \in 1..n PROVE k \in hits <=> rows[k] \in RowsHit(t, c, op, v)
  <2>1. PICK x \in TagRows(page, t) : x = rows[k] BY <1>7
  <2>2. Match(tabs[t].types, x.val, w) <=> CmpMatches(x.val[c] - v, op) BY <1>1, <1>3, <1>4, MatchIs
  <2> QED BY <1>6, <2>1, <2>2 DEF RowsHit, Kept
<1>9. hits \subseteq 1..n BY <1>6 DEF Kept
<1>10. ASSUME NEW a PROVE a \in A <=> \E k \in hits : a = rows[k].at
  <2>1. ASSUME NEW k \in hits, a = rows[k].at PROVE a \in A BY <1>2, <1>8, <1>9, <2>1
  <2>2. ASSUME a \in A PROVE \E k \in hits : a = rows[k].at
    <3>1. PICK x \in RowsHit(t, c, op, v) : a = x.at BY <1>2, <2>2
    <3>2. PICK k \in 1..n : rows[k] = x BY <1>5, <1>6 DEF Lists, RowsHit
    <3> QED BY <1>8, <3>1, <3>2
  <2> QED BY <2>1, <2>2
<1>11. ToSet(read) = A
  <2>1. DOMAIN read = 1..Len(read) BY <1>3, LenProperties DEF Lists
  <2>2. \A k \in 1..Len(read) : read[k] \in A BY <1>3, ElementOfSeq DEF Lists
  <2>3. \A a \in A : \E k \in 1..Len(read) : read[k] = a BY <1>3 DEF Lists
  <2> QED BY <2>1, <2>2, <2>3 DEF ToSet
<1>12. Len(read) = Cardinality(hits)
  <2>1. IsFiniteSet(A) /\ Cardinality(A) = Len(read) BY <1>3, ListsCount
  <2>2. PICK f : f = [k \in hits |-> rows[k].at] OBVIOUS
  <2>3. ASSUME NEW k \in hits, NEW l \in hits, f[k] = f[l] PROVE k = l
    <3>1. rows[k].at = rows[l].at BY <2>2, <2>3
    <3>2. PICK x \in TagRows(page, t), y \in TagRows(page, t) : x = rows[k] /\ y = rows[l] BY <1>7, <1>9
    <3>3. rows[k] = rows[l] BY <1>3, <1>4, <3>1, <3>2, SameRow
    <3> QED BY <1>5, <1>6, <1>9, <3>3 DEF Lists
  <2>4. f \in [hits -> A] BY <1>10, <2>2
  <2>5. \A a \in A : \E k \in hits : f[k] = a BY <1>10, <2>2
  <2>6. f \in Bijection(hits, A) BY <2>3, <2>4, <2>5 DEF Bijection, Injection, Surjection, IsInjective
  <2>7. IsFiniteSet(hits)
    <3>1. IsFiniteSet(1..n) BY FS_Interval
    <3> QED BY <1>9, <3>1, FS_Subset
  <2>8. Cardinality(hits) = Cardinality(A) BY <2>6, <2>7, FS_Bijection DEF ExistsBijection
  <2> QED BY <2>1, <2>8
<1>13. A = KeptAt(rows, hits) BY <1>10 DEF KeptAt
<1> QED BY <1>11, <1>12, <1>13

LEMMA PlansFollow ==
    ASSUME StoreInv, IndexesGood(idx, page, tabs), NoOverflow
    PROVE  PlansAgree
<1> SUFFICES ASSUME NEW i \in DOMAIN idx, NEW op \in 0..5, NEW v \in Ints
             PROVE  LET t    == idx[i].tid
                        rows == TableRows(page, tabs[t])
                        w    == [col |-> idx[i].col, op |-> op, type |-> 0, val |-> v]
                        read == SelectPlan(t, w)
                        hits == {k \in DOMAIN rows : Match(tabs[t].types, rows[k].val, w)}
                    IN  Len(read) = Cardinality(hits) /\ ToSet(read) = {rows[k].at : k \in hits}
  BY Zenon DEF PlansAgree
<1> DEFINE t    == idx[i].tid
           c    == idx[i].col
           rows == TableRows(page, tabs[t])
           w    == [col |-> c, op |-> op, type |-> 0, val |-> v]
           read == SelectPlan(t, w)
           hits == {k \in DOMAIN rows : Match(tabs[t].types, rows[k].val, w)}
<1>1. t = idx[i].tid /\ c = idx[i].col OBVIOUS
<1>2. rows = TableRows(page, tabs[t]) OBVIOUS
<1>3. w = [col |-> c, op |-> op, type |-> 0, val |-> v] OBVIOUS
<1>4. read = SelectPlan(t, w) OBVIOUS
<1>5. hits = Kept(rows, t, w) BY DEF Kept
<1>6. Len(read) = Cardinality(hits) /\ ToSet(read) = KeptAt(rows, hits)
  <2> HIDE DEF t, c, rows, w, read, hits
  <2> QED BY <1>1, <1>2, <1>3, <1>4, <1>5, PlanFollows
<1> QED BY <1>6 DEF KeptAt

(* With no overflow in a comparison, a WHERE clause reads the same rows        *)
(* through an index as it does without one.                                   *)
THEOREM PlansAlwaysAgree ==
    ASSUME NoOverflow
    PROVE  DbSpec => []PlansAgree
<1>1. StoreInv /\ IndexesGood(idx, page, tabs) => PlansAgree BY PlansFollow
<1> QED BY <1>1, IndexesAlways, PTL
=============================================================================
