------------------------------ MODULE HeapProofs -----------------------------
(* The kernel heap is cut exactly into the blocks callers hold and the blocks *)
(* on the free list, kfree takes exactly the pointers held, and what a holder *)
(* wrote stays: for a heap of any size and any sizes asked for.               *)
EXTENDS Heap, FiniteSetTheorems, WellFoundedInduction, TLAPS

-----------------------------------------------------------------------------
(* The invariant, about a memory m whose blocks end at top.  The free blocks  *)
(* are a set F here; that the list leads to all of it is ChainEnds.          *)

Sound(m, top, b) ==
    /\ b \in Granules /\ m[b].kind = "header"
    /\ m[b].size >= MinBlock /\ m[b].size % 16 = 0 /\ b + m[b].size <= top

(* The blocks held, U, and the free ones, F, cut the memory up.  A header that *)
(* says Used is that of a block held: those that merging leaves behind do not. *)
Cut(m, top, U, F) ==
    /\ U \cap F = {}
    /\ \A b \in U \cup F : Sound(m, top, b)
    /\ \A b \in U : m[b].state = Used
    /\ \A b \in F : m[b].state = Free
    /\ \A b \in U \cup F : b + m[b].size \in U \cup F \cup {top}
    /\ top > HeapStart => HeapStart \in U \cup F
    /\ \A b \in U \cup F : b = HeapStart \/ \E a \in U \cup F : a + m[a].size = b
    /\ \A a, b \in U \cup F : a < b => a + m[a].size <= b
    /\ \A a \in Granules : m[a].kind = "header" /\ m[a].state = Used => a \in U

(* n is the first of F above b, or 0 if there is none.                        *)
After(F, b, n) ==
    IF n = 0 THEN \A c \in F : c <= b
    ELSE n \in F /\ b < n /\ \A c \in F : c <= b \/ n <= c

Linked(m, head, F) == After(F, 0, head) /\ \A b \in F : After(F, b, m[b].next)

Apart(m, F) == \A b \in F : b + m[b].size \notin F

(* The blocks L that callers hold.                                            *)
Held(m, L) ==
    /\ \A r \in L : /\ r.ptr - Header \in Granules
                    /\ r.size >= 1 /\ Header + r.size <= m[r.ptr - Header].size
                    /\ r.written => \A a \in Granules :
                          r.ptr <= a /\ a < r.ptr + r.size => m[a] = Data
    /\ \A r, s \in L : r.ptr = s.ptr => r = s

Starts(L) == {r.ptr - Header : r \in L}

Records == [ptr : Granules, size : Nat, written : BOOLEAN]

Good(m, top, head, L, F) ==
    /\ m \in [Granules -> Contents]
    /\ top \in Granules
    /\ L \subseteq Records
    /\ F \subseteq Granules
    /\ Cut(m, top, Starts(L), F)
    /\ Linked(m, head, F)
    /\ Held(m, L)

HeapInv ==
    /\ HeapTypeOK
    /\ \E F \in SUBSET Granules : Good(mem, heap_ptr, heap_free, live, F) /\ Apart(mem, F)

-----------------------------------------------------------------------------
(* Granules and headers.                                                      *)

LEMMA GranuleIs == \A a : a \in Granules <=> a \in Nat /\ HeapStart <= a /\ a <= HeapLimit /\ a % 16 = 0
BY HeapAssumptions DEF Granules

LEMMA StartIsPositive == HeapStart \in Granules /\ HeapStart >= 1 /\ HeapLimit \in Nat /\ 0 \notin Granules
BY HeapAssumptions DEF Granules

LEMMA Sums == \A a, n \in Nat : a % 16 = 0 /\ n % 16 = 0 => (a + n) % 16 = 0
OBVIOUS

LEMMA Differences == \A a, n \in Nat : a % 16 = 0 /\ n % 16 = 0 /\ n <= a => (a - n) % 16 = 0
OBVIOUS

LEMMA Spaced == \A a, b \in Nat : a % 16 = 0 /\ b % 16 = 0 /\ a < b => a + 16 <= b
OBVIOUS

LEMMA RoundUpEnough ==
    ASSUME NEW size \in Int, size > 0
    PROVE  /\ RoundUp(size) \in Nat /\ RoundUp(size) % 16 = 0
           /\ RoundUp(size) >= MinBlock /\ RoundUp(size) >= Header + size
BY DEF RoundUp, MinBlock, Header

LEMMA HeaderTyped ==
    ASSUME NEW h \in Contents, h.kind = "header"
    PROVE  /\ h.next \in Granules \cup {0} /\ h.size \in 0..HeapLimit /\ h.state \in {Used, Free}
           /\ h = Hdr(h.next, h.size, h.state)
BY DEF Contents, Garbage, Data, Hdr

LEMMA HdrTyped ==
    ASSUME NEW n \in Granules \cup {0}, NEW size \in 0..HeapLimit, NEW st \in {Used, Free}
    PROVE  /\ Hdr(n, size, st) \in Contents /\ Hdr(n, size, st).kind = "header"
           /\ Hdr(n, size, st).next = n /\ Hdr(n, size, st).size = size
           /\ Hdr(n, size, st).state = st
BY DEF Contents, Hdr

LEMMA Plain == /\ Garbage \in Contents /\ Data \in Contents
               /\ Garbage.kind # "header" /\ Data.kind # "header"
BY DEF Contents, Garbage, Data

(* What heap_write_header leaves of a memory m.                               *)
Written(m, b, h, w) ==
    /\ w \in [Granules -> Contents]
    /\ w[b] = h
    /\ \A a \in Granules : a # b /\ a # b + 16 /\ (a # b - 16 \/ m[a].kind # "header")
                           => w[a] = m[a]
    /\ \A a \in Granules : a # b => w[a] \in {m[a], Garbage}
LEMMA HeaderWritten ==
    ASSUME NEW m \in [Granules -> Contents], NEW b \in Granules, NEW h \in Contents,
           NEW w, w = WriteHeader(m, b, h)
    PROVE  Written(m, b, h, w)
BY HeapAssumptions, Plain DEF WriteHeader, Granules, Written

Relinked(m, b, n, w) ==
    /\ w \in [Granules -> Contents]
    /\ w[b].kind = "header" /\ w[b].next = n
    /\ w[b].size = m[b].size /\ w[b].state = m[b].state
    /\ \A a \in Granules : a # b => w[a] = m[a]

LEMMA NextSet ==
    ASSUME NEW m \in [Granules -> Contents], NEW b \in Granules, m[b].kind = "header",
           NEW n \in Granules \cup {0}, NEW w, w = SetNext(m, b, n)
    PROVE  Relinked(m, b, n, w)
<1>1. m[b] \in Contents OBVIOUS
<1>2. PICK h : h = m[b] OBVIOUS
<1>3. h = [kind |-> "header", next |-> h.next, size |-> h.size, state |-> h.state]
      /\ h.size \in 0..HeapLimit /\ h.state \in {Used, Free}
  BY <1>1, <1>2, HeaderTyped DEF Hdr
<1>4. PICK g : g = [h EXCEPT !.next = n] OBVIOUS
<1>5. g = [kind |-> "header", next |-> n, size |-> h.size, state |-> h.state] BY <1>3, <1>4
<1>6. g \in Contents /\ g.kind = "header" /\ g.next = n /\ g.size = h.size /\ g.state = h.state
  BY <1>3, <1>5 DEF Contents
<1>7. SetNext(m, b, n) = [m EXCEPT ![b] = g] BY <1>2, <1>4 DEF SetNext
<1> QED BY <1>2, <1>6, <1>7 DEF Relinked

-----------------------------------------------------------------------------
(* The free list.                                                             *)

LEMMA LeastNumber ==
    ASSUME NEW I \in SUBSET Nat, I # {}
    PROVE  \E i \in I : \A j \in I : i <= j
<1> DEFINE Less == OpToRel(<, Nat)
<1>1. IsWellFoundedOn(Less, Nat) BY NatLessThanWellFounded
<1>2. PICK i \in I : \A j \in I : ~(<<j, i>> \in Less)
  <2> HIDE DEF Less
  <2> QED BY <1>1, WFMin
<1>3. ASSUME NEW j \in I PROVE i <= j
  <2>1. i \in Nat /\ j \in Nat OBVIOUS
  <2>2. ~(j < i) BY <1>2, <2>1 DEF OpToRel
  <2> QED BY <2>1, <2>2
<1> QED BY <1>3

LEMMA GranulesFinite == IsFiniteSet(Granules) /\ MaxChain \in Nat
<1>1. IsFiniteSet(Granules)
  <2>1. Granules \in SUBSET Nat /\ \A a \in Granules : a <= HeapLimit BY GranuleIs
  <2> QED BY <2>1, StartIsPositive, FS_BoundedSetOfNaturals
<1> QED BY <1>1, FS_CardinalityType DEF MaxChain

(* The chain as its definition says: there is such a function.                *)
LEMMA ChainIs ==
    /\ Chain[0] = heap_free
    /\ \A n \in 1..MaxChain :
          Chain[n] = IF FreeNode(mem, heap_ptr, Chain[n - 1]) THEN mem[Chain[n - 1]].next ELSE 0
<1> DEFINE Follow(last) == IF FreeNode(mem, heap_ptr, last) THEN mem[last].next ELSE 0
           Is(g, m) == g = [n \in 0..m |-> IF n = 0 THEN heap_free ELSE Follow(g[n - 1])]
           Bad == {m \in Nat : ~ \E g : Is(g, m)}
<1>1. Bad = {}
  <2> SUFFICES ASSUME Bad # {} PROVE FALSE OBVIOUS
  <2>1. PICK m \in Bad : \A j \in Bad : m <= j
    <3>1. Bad \in SUBSET Nat OBVIOUS
    <3> HIDE DEF Bad
    <3> QED BY <3>1, LeastNumber
  <2>2. m \in Nat /\ ~ \E g : Is(g, m) OBVIOUS
  <2> HIDE DEF Follow
  <2>3. CASE m = 0
    <3>1. Is([n \in 0..0 |-> heap_free], 0) OBVIOUS
    <3> QED BY <2>2, <2>3, <3>1
  <2>4. CASE m >= 1
    <3>1. m - 1 \in Nat /\ m - 1 \notin Bad BY <2>1, <2>2, <2>4
    <3>2. PICK g : Is(g, m - 1) BY <3>1
    <3>3. PICK f : f = [n \in 0..m |-> IF n = m THEN Follow(g[m - 1]) ELSE g[n]] OBVIOUS
    <3>4. ASSUME NEW n \in 0..m PROVE f[n] = IF n = 0 THEN heap_free ELSE Follow(f[n - 1])
      <4>1. CASE n = m
        <5>1. f[n] = Follow(g[m - 1]) BY <3>3, <4>1
        <5>2. f[n - 1] = g[m - 1] BY <2>2, <2>4, <3>3, <4>1
        <5> QED BY <2>4, <4>1, <5>1, <5>2
      <4>2. CASE n # m
        <5>1. n \in 0..m - 1 BY <2>2, <4>2
        <5>2. g[n] = IF n = 0 THEN heap_free ELSE Follow(g[n - 1]) BY <3>2, <5>1
        <5>3. f[n] = g[n] BY <3>3, <4>2
        <5>4. n # 0 => n - 1 \in 0..m /\ n - 1 # m BY <2>2, <5>1
        <5>5. n # 0 => f[n - 1] = g[n - 1] BY <3>3, <5>4
        <5> QED BY <5>2, <5>3, <5>5
      <4> QED BY <4>1, <4>2
    <3>5. f = [n \in 0..m |-> IF n = 0 THEN heap_free ELSE Follow(f[n - 1])] BY <3>3, <3>4
    <3> QED BY <2>2, <3>5
  <2> QED BY <2>2, <2>3, <2>4
<1>2. \E g : Is(g, MaxChain) BY <1>1, GranulesFinite
<1>3. Is(Chain, MaxChain)
  <2>1. Chain = CHOOSE g : Is(g, MaxChain) BY DEF Chain
  <2> HIDE DEF Is
  <2> QED BY <1>2, <2>1
<1> QED BY <1>3, GranulesFinite

(* What is known of a block.                                                  *)
LEMMA BlockKnown ==
    ASSUME NEW m, NEW top, NEW head, NEW L, NEW F, Good(m, top, head, L, F),
           NEW b \in Starts(L) \cup F
    PROVE  /\ b \in Granules /\ b \in Nat /\ b >= 1 /\ top \in Nat /\ top \in Granules
           /\ m[b] \in Contents /\ m[b].kind = "header"
           /\ m[b].size \in Nat /\ m[b].size \in 0..HeapLimit /\ m[b].size % 16 = 0
           /\ m[b].size >= 48 /\ b + m[b].size <= top
           /\ HeaderValid(m, top, b)
<1>1. /\ m \in [Granules -> Contents] /\ b \in Granules /\ Sound(m, top, b) /\ top \in Granules
  BY DEF Good, Cut, Sound
<1>2. m[b] \in Contents /\ m[b].kind = "header" BY <1>1 DEF Sound
<1>3. m[b].size \in 0..HeapLimit /\ m[b].size \in Nat BY <1>2, HeaderTyped, StartIsPositive
<1>4. b \in Nat /\ b >= 1 /\ top \in Nat BY <1>1, GranuleIs, StartIsPositive
<1>5. m[b].size % 16 = 0 /\ m[b].size >= 48 /\ b + m[b].size <= top BY <1>1 DEF Sound, MinBlock
<1>6. b + Header <= top BY <1>3, <1>4, <1>5 DEF Header
<1> QED BY <1>1, <1>2, <1>3, <1>4, <1>5, <1>6 DEF HeaderValid, Sound

LEMMA FreeSound ==
    ASSUME NEW m, NEW top, NEW head, NEW L, NEW F, Good(m, top, head, L, F), NEW b \in F
    PROVE  /\ FreeNode(m, top, b) /\ m[b].next \in F \cup {0} /\ After(F, b, m[b].next)
           /\ b \notin Starts(L)
<1>1. m[b].state = Free /\ After(F, b, m[b].next) /\ b \notin Starts(L)
  BY DEF Good, Cut, Linked
<1>2. m[b].next \in F \cup {0} BY <1>1 DEF After
<1> QED BY <1>1, <1>2, BlockKnown DEF FreeNode

(* The chain goes through F in order.                                         *)
Place(F, n) ==
    /\ Chain[n] \in F \cup {0}
    /\ n # 0 => /\ Chain[n] # 0 => Chain[n - 1] \in F
                /\ Chain[n - 1] = 0 => Chain[n] = 0
    /\ n = 0 => After(F, 0, Chain[n])
    /\ n # 0 /\ Chain[n - 1] # 0 => After(F, Chain[n - 1], Chain[n])
    /\ \A c \in F : Chain[n] = 0 \/ c < Chain[n] => \E k \in 0..n - 1 : Chain[k] = c
    /\ \A k \in 0..n - 1 : Chain[n] # 0 => Chain[k] \in F /\ Chain[k] < Chain[n]

LEMMA PlacesHold ==
    ASSUME NEW F, Good(mem, heap_ptr, heap_free, live, F), NEW n \in 0..MaxChain
    PROVE  Place(F, n)
<1> DEFINE Bad == {i \in 0..MaxChain : ~Place(F, i)}
<1>1. MaxChain \in Nat BY GranulesFinite
<1> SUFFICES ASSUME Bad # {} PROVE FALSE OBVIOUS
<1>2. PICK i \in Bad : \A j \in Bad : i <= j
  <2>1. Bad \in SUBSET Nat BY <1>1
  <2> HIDE DEF Bad
  <2> QED BY <2>1, LeastNumber
<1>3. i \in 0..MaxChain /\ ~Place(F, i) OBVIOUS
<1>4. F \subseteq Nat \ {0}
  BY BlockKnown
<1>5. ~FreeNode(mem, heap_ptr, 0) BY StartIsPositive DEF FreeNode, HeaderValid
<1>6. CASE i = 0
  <2>1. After(F, 0, heap_free) /\ Chain[0] = heap_free BY ChainIs DEF Good, Linked
  <2>2. Chain[0] \in F \cup {0} BY <2>1 DEF After
  <2>3. ASSUME NEW c \in F, Chain[0] = 0 \/ c < Chain[0] PROVE FALSE
    <3>1. PICK h : h = heap_free OBVIOUS
    <3>2. h \in F \cup {0} BY <2>1, <2>2, <3>1
    <3>3. c \in Nat /\ c >= 1 /\ h \in Nat BY <1>4, <3>2
    <3>4. h = 0 => c <= 0 BY <2>1, <3>1 DEF After
    <3>5. h # 0 => c <= 0 \/ h <= c BY <2>1, <3>1 DEF After
    <3> QED BY <2>1, <2>3, <3>1, <3>3, <3>4, <3>5
  <2> QED BY <1>3, <1>6, <2>1, <2>2, <2>3 DEF Place
<1>7. CASE i # 0
  <2>1. i - 1 \in 0..MaxChain /\ i - 1 \notin Bad /\ i \in 1..MaxChain BY <1>1, <1>2, <1>3, <1>7
  <2>2. Place(F, i - 1) BY <2>1
  <2>3. PICK x : x = Chain[i - 1] OBVIOUS
  <2>4. PICK y : y = Chain[i] OBVIOUS
  <2>5. x \in F \cup {0} /\ y = IF FreeNode(mem, heap_ptr, x) THEN mem[x].next ELSE 0
    BY <2>1, <2>2, <2>3, <2>4, ChainIs DEF Place
  <2>6. x = 0 => y = 0 BY <1>5, <2>5
  <2>7. x # 0 => x \in F /\ After(F, x, y) /\ y \in F \cup {0} BY <2>5, FreeSound
  <2>8. y \in F \cup {0} BY <2>5, <2>6, <2>7
  <2>9. ASSUME NEW c \in F, y = 0 \/ c < y PROVE \E k \in 0..i - 1 : Chain[k] = c
    <3>0. c \in Nat /\ c >= 1 /\ x \in Nat /\ y \in Nat BY <1>4, <2>5, <2>8
    <3>9. ASSUME x # 0 PROVE c <= x
      <4>1. y = 0 => c <= x BY <2>7, <3>9 DEF After
      <4>2. y # 0 => c <= x \/ y <= c BY <2>7, <3>9 DEF After
      <4> QED BY <2>9, <3>0, <4>1, <4>2
    <3>1. c = x \/ x = 0 \/ c < x BY <3>0, <3>9
    <3>2. c = x => Chain[i - 1] = c /\ i - 1 \in 0..i - 1 BY <2>1, <2>3
    <3>3. x = 0 \/ c < x => \E k \in 0..(i - 1) - 1 : Chain[k] = c BY <2>2, <2>3 DEF Place
    <3>4. \A k \in 0..(i - 1) - 1 : k \in 0..i - 1 BY <2>1
    <3> QED BY <3>1, <3>2, <3>3, <3>4
  <2>10. ASSUME NEW k \in 0..i - 1, y # 0 PROVE Chain[k] \in F /\ Chain[k] < y
    <3>1. x \in F /\ x < y BY <2>6, <2>7, <2>10 DEF After
    <3>2. k = i - 1 \/ k \in 0..(i - 1) - 1 BY <2>1
    <3>3. x # 0 /\ x \in Nat /\ y \in Nat BY <1>4, <2>8, <2>10, <3>1
    <3>4. ASSUME k \in 0..(i - 1) - 1 PROVE Chain[k] \in F /\ Chain[k] < x
      BY <2>2, <2>3, <3>3, <3>4 DEF Place
    <3>5. ASSUME k \in 0..(i - 1) - 1 PROVE Chain[k] < y
      <4>1. Chain[k] \in Nat BY <1>4, <3>4, <3>5
      <4> QED BY <3>1, <3>3, <3>4, <3>5, <4>1
    <3> QED BY <2>3, <3>1, <3>2, <3>4, <3>5
  <2>11. Place(F, i) BY <1>7, <2>3, <2>4, <2>6, <2>7, <2>8, <2>9, <2>10 DEF Place
  <2> QED BY <1>3, <2>11
<1> QED BY <1>6, <1>7

(* It is too long for all of it to be blocks: it leads to all of F.           *)
LEMMA ChainEnds ==
    ASSUME NEW F, Good(mem, heap_ptr, heap_free, live, F)
    PROVE  Chain[MaxChain] = 0 /\ FreeBlocks = F
<1>1. MaxChain \in Nat /\ IsFiniteSet(Granules) BY GranulesFinite
<1>2. F \subseteq Granules /\ F \subseteq Nat \ {0} BY BlockKnown DEF Good
<1>3. Chain[MaxChain] = 0
  <2> SUFFICES ASSUME Chain[MaxChain] # 0 PROVE FALSE OBVIOUS
  <2>1. ASSUME NEW k \in 0..MaxChain PROVE Chain[k] \in F
    <3>1. Place(F, MaxChain) BY <1>1, PlacesHold
    <3>2. k = MaxChain \/ k \in 0..MaxChain - 1 BY <1>1
    <3> QED BY <3>1, <3>2 DEF Place
  <2>2. PICK f : f = [k \in 0..MaxChain |-> Chain[k]] OBVIOUS
  <2>3. f \in [0..MaxChain -> Granules] BY <1>2, <2>1, <2>2
  <2>4. IsFiniteSet(0..MaxChain) /\ Cardinality(0..MaxChain) = MaxChain + 1 BY <1>1, FS_Interval
  <2>5. Cardinality(Granules) < Cardinality(0..MaxChain) BY <1>1, <2>4 DEF MaxChain
  <2>6. PICK j \in 0..MaxChain, k \in 0..MaxChain : j # k /\ f[j] = f[k]
    BY <1>1, <2>3, <2>4, <2>5, FS_PigeonHole
  <2>7. Chain[j] = Chain[k] /\ Chain[j] \in Nat /\ Chain[k] # 0 /\ Chain[j] # 0 BY <1>2, <2>1, <2>2, <2>6
  <2>8. j \in 0..k - 1 \/ k \in 0..j - 1 BY <2>6
  <2>9. Chain[j] < Chain[k] \/ Chain[k] < Chain[j]
    BY <2>7, <2>8, PlacesHold DEF Place
  <2> QED BY <2>7, <2>9
<1>4. F \subseteq FreeBlocks
  <2>1. ASSUME NEW c \in F PROVE c \in FreeBlocks
    <3>1. Place(F, MaxChain) BY <1>1, PlacesHold
    <3>2. PICK k \in 0..MaxChain - 1 : Chain[k] = c BY <1>3, <3>1 DEF Place
    <3> QED BY <1>1, <1>2, <3>2 DEF FreeBlocks
  <2> QED BY <2>1
<1>5. FreeBlocks \subseteq F BY PlacesHold DEF Place, FreeBlocks
<1> QED BY <1>3, <1>4, <1>5

-----------------------------------------------------------------------------
(* What changing headers does to the blocks.  Each lemma is about a memory m  *)
(* that is good and the memory w that an operation makes of it.               *)

(* Blocks do not overlap, and no header of a block is inside another one.     *)
LEMMA BlocksApart ==
    ASSUME NEW m, NEW top, NEW head, NEW L, NEW F, Good(m, top, head, L, F),
           NEW a \in Starts(L) \cup F, NEW b \in Starts(L) \cup F, a # b
    PROVE  /\ a < b => a + m[a].size <= b /\ a + 48 <= b
           /\ b < a => b + m[b].size <= a /\ b + 48 <= a
           /\ b # a + 16 /\ b # a - 16
<1>1. a < b => a + m[a].size <= b BY DEF Good, Cut
<1>2. b < a => b + m[b].size <= a BY DEF Good, Cut
<1>3. a \in Nat /\ b \in Nat /\ m[a].size \in Nat /\ m[b].size \in Nat
      /\ m[a].size >= 48 /\ m[b].size >= 48
  BY BlockKnown
<1> QED BY <1>1, <1>2, <1>3

(* What holders K wrote stays when only headers change, or bytes outside of   *)
(* their blocks.                                                              *)
LEMMA DataKept ==
    ASSUME NEW m, NEW top, NEW head, NEW L, NEW F, Good(m, top, head, L, F),
           NEW K \in SUBSET L, NEW w, NEW lo \in Int, NEW hi \in Int,
           \A x \in Starts(K) : w[x].size = m[x].size /\ (x + m[x].size <= lo \/ hi <= x),
           \A a \in Granules : w[a] = m[a] \/ m[a].kind = "header" \/ (lo <= a /\ a < hi)
    PROVE  Held(w, K)
<1>1. Held(m, L) /\ L \subseteq Records BY DEF Good
<1>2. ASSUME NEW r \in K
      PROVE  /\ r.ptr - Header \in Granules
             /\ r.size >= 1 /\ Header + r.size <= w[r.ptr - Header].size
             /\ r.written => \A a \in Granules :
                   r.ptr <= a /\ a < r.ptr + r.size => w[a] = Data
  <2>1. PICK x : x = r.ptr - Header OBVIOUS
  <2>2. x \in Starts(K) /\ x \in Starts(L) BY <2>1 DEF Starts
  <2>3. x \in Nat /\ m[x].size \in Nat BY <2>2, BlockKnown
  <2>4. r.ptr \in Nat /\ r.size \in Nat BY <1>1, GranuleIs DEF Records
  <2>5. x \in Granules /\ r.size >= 1 /\ Header + r.size <= m[x].size BY <1>1, <2>1 DEF Held
  <2>6. w[x].size = m[x].size /\ (x + m[x].size <= lo \/ hi <= x) BY <2>2
  <2>7. ASSUME r.written, NEW a \in Granules, r.ptr <= a, a < r.ptr + r.size PROVE w[a] = Data
    <3>1. m[a] = Data BY <1>1, <2>7 DEF Held
    <3>2. a \in Nat BY GranuleIs
    <3>3. x + 32 <= a /\ a < x + m[x].size BY <2>1, <2>3, <2>4, <2>5, <2>7, <3>2 DEF Header
    <3>4. ~(lo <= a /\ a < hi) BY <2>3, <2>6, <3>2, <3>3
    <3>5. m[a].kind # "header" BY <3>1, Plain
    <3> QED BY <3>1, <3>4, <3>5
  <2> QED BY <2>1, <2>5, <2>6, <2>7
<1>3. \A r, s \in K : r.ptr = s.ptr => r = s BY <1>1 DEF Held
<1> QED BY <1>2, <1>3 DEF Held

(* The free block above p.                                                    *)
LEMMA FirstAbove ==
    ASSUME NEW m, NEW top, NEW head, NEW L, NEW F, Good(m, top, head, L, F),
           NEW c \in F, NEW p \in F \cup {0}, NEW x \in F \cup {0}, After(F, p, c), After(F, x, c)
    PROVE  x = p
<1>1. /\ c \in Nat /\ c >= 1 /\ p \in Nat /\ x \in Nat
      /\ p = 0 \/ p \in F
      /\ x = 0 \/ x \in F
  <2>1. \A y \in F : y \in Nat /\ y >= 1 BY BlockKnown
  <2> QED BY <2>1
<1>2. p < c /\ x < c /\ (\A y \in F : y <= p \/ c <= y) /\ (\A y \in F : y <= x \/ c <= y)
  <2>1. c # 0 BY <1>1
  <2> QED BY <2>1 DEF After
<1>3. p # 0 => p <= x BY <1>1, <1>2
<1>4. x # 0 => x <= p BY <1>1, <1>2
<1> QED BY <1>1, <1>3, <1>4

(* The link that led to c, at p or at the head, leads to what followed it:    *)
(* the list without c.                                                        *)
Unlinks(m, head, F, c, p, w, head2) ==
    /\ After(F, p, c)
    /\ p = 0 => head = c /\ head2 = m[c].next
    /\ p # 0 => head2 = head /\ w[p].next = m[c].next
    /\ \A x \in F \ {c, p} : w[x].next = m[x].next

LEMMA Unlinked ==
    ASSUME NEW m, NEW top, NEW head, NEW L, NEW F, Good(m, top, head, L, F),
           NEW c \in F, NEW p \in F \cup {0}, NEW w, NEW head2,
           Unlinks(m, head, F, c, p, w, head2)
    PROVE  Linked(w, head2, F \ {c})
<1>0. /\ After(F, p, c)
      /\ p = 0 => head = c /\ head2 = m[c].next
      /\ p # 0 => head2 = head /\ w[p].next = m[c].next
      /\ \A x \in F \ {c, p} : w[x].next = m[x].next
  BY DEF Unlinks
<1>1. \A x \in F : x \in Nat /\ x >= 1 BY BlockKnown
<1>2. c \in Nat /\ p \in Nat /\ c # 0 /\ p < c BY <1>0, <1>1 DEF After
<1>3. After(F, 0, head) /\ \A x \in F : After(F, x, m[x].next) BY DEF Good, Linked
<1>4. ASSUME NEW x \in F \cup {0}, NEW n, After(F, x, n), n # c PROVE After(F \ {c}, x, n)
  BY <1>4 DEF After
<1>5. PICK n : n = m[c].next OBVIOUS
<1>6. After(F \ {c}, p, n)
  <2>1. \A y \in F : y <= p \/ c <= y BY <1>0, <1>2 DEF After
  <2>2. After(F, c, n) BY <1>3, <1>5
  <2>3. CASE n = 0
    <3>1. ASSUME NEW y \in F \ {c} PROVE y <= p
      <4>1. y <= c /\ y \in Nat /\ y # c BY <1>1, <2>2, <2>3 DEF After
      <4> QED BY <1>2, <2>1, <4>1
    <3> QED BY <2>3, <3>1 DEF After
  <2>4. CASE n # 0
    <3>1. n \in F /\ c < n /\ \A y \in F : y <= c \/ n <= y BY <2>2, <2>4 DEF After
    <3>2. n \in Nat /\ p < n /\ n # c BY <1>1, <1>2, <3>1
    <3>3. ASSUME NEW y \in F \ {c} PROVE y <= p \/ n <= y
      <4>1. y \in Nat /\ y # c /\ (y <= p \/ c <= y) /\ (y <= c \/ n <= y) BY <1>1, <2>1, <3>1
      <4> QED BY <1>2, <4>1
    <3> QED BY <2>4, <3>1, <3>2, <3>3 DEF After
  <2> QED BY <2>3, <2>4
<1>7. After(F \ {c}, 0, head2)
  <2>1. CASE p = 0 BY <1>0, <1>5, <1>6, <2>1
  <2>2. CASE p # 0
    <3>1. head # c BY <1>0, <1>3, <2>2, FirstAbove
    <3> QED BY <1>0, <1>3, <1>4, <2>2, <3>1
  <2> QED BY <2>1, <2>2
<1>8. ASSUME NEW x \in F \ {c} PROVE After(F \ {c}, x, w[x].next)
  <2>1. CASE x = p
    <3>1. p # 0 BY <1>1, <2>1
    <3> QED BY <1>0, <1>5, <1>6, <2>1, <3>1
  <2>2. CASE x # p
    <3>1. w[x].next = m[x].next BY <1>0, <2>2
    <3>2. m[x].next # c BY <1>0, <1>3, <2>2, FirstAbove
    <3> QED BY <1>3, <1>4, <3>1, <3>2
  <2> QED BY <2>1, <2>2
<1> QED BY <1>7, <1>8 DEF Linked

(* The blocks X keep their sizes.                                             *)
Sized(m, w, X) == \A x \in X : w[x].size = m[x].size

(* Two free blocks that touch become one.                                     *)
LEMMA MergeGood ==
    ASSUME NEW m, NEW top, NEW head, NEW L, NEW F, Good(m, top, head, L, F),
           NEW a \in F, NEW c \in F, a + m[a].size = c,
           NEW w, w = WriteHeader(m, a, Hdr(m[c].next, m[a].size + m[c].size, Free))
    PROVE  /\ Good(w, top, head, L, F \ {c})
           /\ w[a].size = m[a].size + m[c].size
           /\ Sized(m, w, F \ {a, c})
<1> DEFINE U == Starts(L)
           B == U \cup F
           B2 == U \cup (F \ {c})
<1>1. /\ a \in Granules /\ a \in Nat /\ m[a].size \in Nat /\ m[a].size >= 48 /\ m[a].size % 16 = 0
      /\ c \in Granules /\ c \in Nat /\ m[c].size \in Nat /\ m[c].size >= 48 /\ m[c].size % 16 = 0
      /\ c + m[c].size <= top /\ top \in Nat /\ top \in Granules /\ top <= HeapLimit
      /\ a >= 1
  BY BlockKnown, GranuleIs
<1>2. m \in [Granules -> Contents] /\ F \subseteq Granules /\ L \subseteq Records
      /\ a \in B2 /\ a < c /\ a \notin U /\ c \notin U
  BY <1>1 DEF Good, Cut
<1>3. PICK s \in Nat : s = m[a].size + m[c].size BY <1>1
<1>4. s >= 48 /\ s % 16 = 0 /\ a + s = c + m[c].size /\ s \in 0..HeapLimit /\ a + s <= top
  <2>1. PICK p \in Nat, q \in Nat : p = m[a].size /\ q = m[c].size BY <1>1
  <2>2. s = p + q /\ s % 16 = 0 BY <1>1, <1>3, <2>1, Sums
  <2>3. a + p = c BY <2>1
  <2>4. a + s = c + q /\ s >= 48 BY <1>1, <2>1, <2>2, <2>3
  <2>5. a + s <= top /\ s \in 0..HeapLimit
    <3>1. c + q <= top BY <1>1, <2>1
    <3> QED BY <1>1, <2>4, <3>1, StartIsPositive
  <2> QED BY <2>1, <2>2, <2>4, <2>5
<1>5. PICK h : h = Hdr(m[c].next, s, Free) OBVIOUS
<1>6. m[c].next \in Granules \cup {0} BY <1>2, FreeSound
<1>7. h \in Contents /\ h.kind = "header" /\ h.next = m[c].next /\ h.size = s /\ h.state = Free
  BY <1>4, <1>5, <1>6, HdrTyped DEF Used, Free
<1>8. /\ w \in [Granules -> Contents] /\ w[a] = h
      /\ \A x \in Granules : x # a /\ x # a + 16 /\ (x # a - 16 \/ m[x].kind # "header") => w[x] = m[x]
      /\ \A x \in Granules : x # a => w[x] \in {m[x], Garbage}
  <2>1. w = WriteHeader(m, a, h) BY <1>3, <1>5
  <2>2. m \in [Granules -> Contents] /\ a \in Granules /\ h \in Contents BY <1>1, <1>2, <1>7
  <2>3. Written(m, a, h, w) BY <2>1, <2>2, HeaderWritten
  <2> QED BY <2>3 DEF Written
<1>9. ASSUME NEW x \in B, x # a PROVE w[x] = m[x]
  <2>1. x \in Granules /\ x # a + 16 /\ x # a - 16 BY <1>9, BlockKnown, BlocksApart
  <2> QED BY <1>8, <1>9, <2>1
<1>10. Cut(w, top, U, F \ {c})
  <2>1. U \cap (F \ {c}) = {} BY DEF Good, Cut
  <2>2. ASSUME NEW x \in B2 PROVE Sound(w, top, x)
    <3>1. x # a => Sound(w, top, x)
      <4>1. Sound(m, top, x) BY DEF Good, Cut
      <4> QED BY <1>9, <4>1 DEF Sound
    <3>2. Sound(w, top, a) BY <1>1, <1>4, <1>7, <1>8 DEF Sound, MinBlock
    <3> QED BY <3>1, <3>2
  <2>3. \A x \in U : w[x].state = Used
    <3>1. \A x \in U : m[x].state = Used BY DEF Good, Cut
    <3> QED BY <1>2, <1>9, <3>1
  <2>4. \A x \in F \ {c} : w[x].state = Free
    <3>1. \A x \in F : m[x].state = Free BY DEF Good, Cut
    <3> QED BY <1>7, <1>8, <1>9, <3>1
  <2>5. ASSUME NEW x \in B2 PROVE x + w[x].size \in B2 \cup {top}
    <3>1. \A y \in B : y + m[y].size \in B \cup {top} BY DEF Good, Cut
    <3>2. CASE x = a
      <4>1. a + w[a].size = c + m[c].size BY <1>4, <1>7, <1>8
      <4>2. c + m[c].size \in B \cup {top} /\ c + m[c].size # c BY <1>1, <3>1
      <4> QED BY <3>2, <4>1, <4>2
    <3>3. CASE x # a
      <4>1. w[x] = m[x] /\ x \in Nat /\ m[x].size \in Nat /\ m[x].size >= 48 BY <1>9, <3>3, BlockKnown
      <4>2. x + m[x].size # c
        <5>1. x < a => x + m[x].size <= a BY <3>3, BlocksApart
        <5>2. x > a => c <= x BY <3>3, BlocksApart
        <5> QED BY <1>1, <1>2, <3>3, <4>1, <5>1, <5>2
      <4> QED BY <3>1, <4>1, <4>2
    <3> QED BY <3>2, <3>3
  <2>6. top > HeapStart => HeapStart \in B2
    <3>1. HeapStart # c BY <1>1, <1>2, GranuleIs, StartIsPositive
    <3> QED BY <3>1 DEF Good, Cut
  <2>7. ASSUME NEW x \in B2, x # HeapStart PROVE \E y \in B2 : y + w[y].size = x
    <3>1. PICK y \in B : y + m[y].size = x BY <2>7 DEF Good, Cut
    <3>2. CASE y = c
      <4>1. a + w[a].size = x BY <1>4, <1>7, <1>8, <3>1, <3>2
      <4> QED BY <1>2, <4>1
    <3>3. CASE y # c
      <4>1. y # a BY <3>1, <1>2
      <4> QED BY <1>9, <3>1, <3>3, <4>1
    <3> QED BY <3>2, <3>3
  <2>8. ASSUME NEW x \in B2, NEW y \in B2, x < y PROVE x + w[x].size <= y
    <3>1. x \in Nat /\ y \in Nat /\ m[x].size \in Nat /\ m[y].size \in Nat BY BlockKnown
    <3>2. x # y BY <2>8, <3>1
    <3>3. x + m[x].size <= y BY <2>8, <3>2, BlocksApart
    <3>4. CASE x = a
      <4>1. c <= y /\ c # y BY <1>2, <3>3, <3>4
      <4>2. c < y BY <1>1, <3>1, <4>1
      <4>3. c + m[c].size <= y BY <4>1, <4>2, BlocksApart
      <4> QED BY <1>4, <1>7, <1>8, <3>4, <4>3
    <3>5. CASE x # a BY <1>9, <3>3, <3>5
    <3> QED BY <3>4, <3>5
  <2>9. ASSUME NEW x \in Granules, w[x].kind = "header", w[x].state = Used PROVE x \in U
    <3>1. \A y \in Granules : m[y].kind = "header" /\ m[y].state = Used => y \in U BY DEF Good, Cut
    <3>2. x # a BY <1>7, <1>8, <2>9 DEF Used, Free
    <3>3. w[x] = m[x] BY <1>8, <2>9, <3>2, Plain
    <3> QED BY <2>9, <3>1, <3>3
  <2> QED BY <2>1, <2>2, <2>3, <2>4, <2>5, <2>6, <2>7, <2>8, <2>9 DEF Cut
<1>11. Linked(w, head, F \ {c})
  <2>1. After(F, a, c)
    <3>1. ASSUME NEW y \in F PROVE y <= a \/ c <= y
      <4>1. y \in Nat BY BlockKnown
      <4>2. ASSUME y > a PROVE c <= y
        <5>1. y # a BY <1>1, <4>1, <4>2
        <5> QED BY <4>2, <5>1, BlocksApart
      <4> QED BY <1>1, <4>1, <4>2
    <3>2. c # 0 BY <1>1, <1>2
    <3> QED BY <1>2, <3>1, <3>2 DEF After
  <2>2. a # 0 /\ a \in F \cup {0} BY <1>1
  <2>3. \A x \in F \ {c, a} : w[x].next = m[x].next BY <1>9
  <2>4. w[a].next = m[c].next BY <1>7, <1>8
  <2>5. Unlinks(m, head, F, c, a, w, head) BY <2>1, <2>2, <2>3, <2>4 DEF Unlinks
  <2> QED BY <2>2, <2>5, Unlinked
<1>12. Held(w, L)
  <2>1. ASSUME NEW x \in Starts(L)
        PROVE  w[x].size = m[x].size /\ (x + m[x].size <= a \/ c <= x)
    <3>1. x # a /\ x \in Nat /\ m[x].size \in Nat BY <1>2, BlockKnown
    <3>2. (x < a => x + m[x].size <= a) /\ (a < x => c <= x) BY <3>1, BlocksApart
    <3> QED BY <1>1, <1>9, <3>1, <3>2
  <2>2. ASSUME NEW x \in Granules PROVE w[x] = m[x] \/ m[x].kind = "header" \/ (a <= x /\ x < c)
    <3>1. x \in Nat BY GranuleIs
    <3>2. x = a \/ x = a + 16 => a <= x /\ x < c BY <1>1, <3>1
    <3>3. x # a /\ x # a + 16 /\ m[x].kind # "header" => w[x] = m[x] BY <1>8
    <3> QED BY <3>2, <3>3
  <2>3. a \in Int /\ c \in Int /\ L \in SUBSET L BY <1>1
  <2> QED BY <2>1, <2>2, <2>3, DataKept
<1>13. Good(w, top, head, L, F \ {c}) BY <1>1, <1>2, <1>8, <1>10, <1>11, <1>12 DEF Good
<1>14. Sized(m, w, F \ {a, c}) BY <1>9 DEF Sized
<1> QED BY <1>3, <1>7, <1>8, <1>13, <1>14

(* Blocks that keep their sizes still cut the memory up, whatever is free.    *)
LEMMA SameSizes ==
    ASSUME NEW m, NEW top, NEW head, NEW L, NEW F, Good(m, top, head, L, F),
           NEW U2, NEW F2, U2 \cup F2 = Starts(L) \cup F, U2 \cap F2 = {},
           NEW w, \A x \in Starts(L) \cup F : w[x].kind = "header" /\ w[x].size = m[x].size,
           \A x \in U2 : w[x].state = Used, \A x \in F2 : w[x].state = Free,
           \A x \in Granules : w[x].kind = "header" /\ w[x].state = Used => x \in U2
    PROVE  Cut(w, top, U2, F2)
<1> DEFINE B == Starts(L) \cup F
<1>1. Cut(m, top, Starts(L), F) BY DEF Good
<1>2. \A x \in B : Sound(w, top, x) BY <1>1 DEF Cut, Sound
<1>3. \A x \in B : x + w[x].size \in B \cup {top} BY <1>1 DEF Cut
<1>4. top > HeapStart => HeapStart \in B BY <1>1 DEF Cut
<1>5. \A x \in B : x = HeapStart \/ \E y \in B : y + w[y].size = x BY <1>1 DEF Cut
<1>6. \A x, y \in B : x < y => x + w[x].size <= y BY <1>1 DEF Cut
<1>7. B = U2 \cup F2 OBVIOUS
<1> HIDE DEF B
<1> QED BY <1>2, <1>3, <1>4, <1>5, <1>6, <1>7 DEF Cut

(* The blocks of L and one more.                                              *)
LEMMA OneMoreHeld ==
    ASSUME NEW L \in SUBSET Records, NEW b \in Granules, b + Header \in Granules, NEW size \in Nat,
           NEW n, n = [ptr |-> b + Header, size |-> size, written |-> FALSE]
    PROVE  L \cup {n} \subseteq Records /\ Starts(L \cup {n}) = Starts(L) \cup {b}
<1>1. b \in Nat BY GranuleIs
<1>2. n \in Records /\ n.ptr - Header = b /\ ~n.written BY <1>1 DEF Records, Header
<1> QED BY <1>2 DEF Starts

LEMMA OneMoreKept ==
    ASSUME NEW L \in SUBSET Records, NEW w, Held(w, L), NEW b \in Granules, b \notin Starts(L),
           NEW size \in Nat, size >= 1, Header + size <= w[b].size,
           NEW n, n = [ptr |-> b + Header, size |-> size, written |-> FALSE]
    PROVE  Held(w, L \cup {n})
<1>1. b \in Nat BY GranuleIs
<1>2. n.ptr - Header = b /\ ~n.written /\ n.size = size /\ n.ptr = b + Header BY <1>1 DEF Header
<1>3. ASSUME NEW r \in L PROVE r.ptr # n.ptr
  <2>1. r.ptr - Header \in Starts(L) BY DEF Starts
  <2> QED BY <1>2, <2>1
<1> QED BY <1>2, <1>3 DEF Held

(* A free block, c, with p before it on the list, is taken as a whole.        *)
Takes(m, head, F, c, p, w, head2) ==
    LET m2 == IF p # 0 THEN SetNext(m, p, m[c].next) ELSE m
    IN  /\ After(F, p, c)
        /\ p = 0 => head = c
        /\ w = WriteHeader(m2, c, Hdr(0, m[c].size, Used))
        /\ head2 = IF p # 0 THEN head ELSE m[c].next

LEMMA TakeGood ==
    ASSUME NEW m, NEW top, NEW head, NEW L, NEW F, Good(m, top, head, L, F),
           NEW c \in F, NEW p \in F \cup {0}, NEW w, NEW head2, Takes(m, head, F, c, p, w, head2),
           NEW size \in Nat, size >= 1, Header + size <= m[c].size,
           NEW n, n = [ptr |-> c + Header, size |-> size, written |-> FALSE]
    PROVE  /\ Good(w, top, head2, L \cup {n}, F \ {c})
           /\ Sized(m, w, F)
<1> DEFINE U == Starts(L)
           B == U \cup F
<1>17. PICK m2 : m2 = IF p # 0 THEN SetNext(m, p, m[c].next) ELSE m OBVIOUS
<1>18. /\ After(F, p, c)
       /\ p = 0 => head = c
       /\ w = WriteHeader(m2, c, Hdr(0, m[c].size, Used))
       /\ head2 = IF p # 0 THEN head ELSE m[c].next
  BY <1>17 DEF Takes
<1>1. /\ m \in [Granules -> Contents] /\ F \subseteq Granules /\ L \subseteq Records /\ U \cap F = {}
      /\ top \in Granules /\ c \in Granules /\ c \notin U /\ p \notin U
  BY BlockKnown, FreeSound, StartIsPositive DEF Good, Cut
<1>2. c \in Nat /\ c >= 1 /\ m[c].size \in 0..HeapLimit /\ m[c].size \in Nat /\ m[c].size >= 48
      /\ c + m[c].size <= top /\ top \in Nat /\ top <= HeapLimit /\ m[c].next \in Granules \cup {0}
  BY <1>1, BlockKnown, FreeSound, GranuleIs
<1>3. p # c /\ (p # 0 => p \in F /\ p \in Granules /\ m[p].kind = "header")
  <2>1. c # 0 BY <1>2
  <2>2. p < c BY <1>18, <2>1 DEF After
  <2> QED BY <1>2, <2>2, BlockKnown
<1>4. /\ m2 \in [Granules -> Contents]
      /\ \A x \in Granules : x # p => m2[x] = m[x]
      /\ p # 0 => /\ m2[p].kind = "header" /\ m2[p].next = m[c].next
                  /\ m2[p].size = m[p].size /\ m2[p].state = m[p].state
  <2>1. CASE p = 0 BY <1>1, <1>17, <2>1
  <2>2. CASE p # 0
    <3>1. m2 = SetNext(m, p, m[c].next) BY <1>17, <2>2
    <3>2. Relinked(m, p, m[c].next, m2) BY <1>1, <1>2, <1>3, <2>2, <3>1, NextSet
    <3> QED BY <3>2 DEF Relinked
  <2> QED BY <2>1, <2>2
<1>5. PICK h : h = Hdr(0, m[c].size, Used) OBVIOUS
<1>6. h \in Contents /\ h.kind = "header" /\ h.next = 0 /\ h.size = m[c].size /\ h.state = Used
  BY <1>2, <1>5, HdrTyped DEF Used, Free
<1>7. Written(m2, c, h, w) BY <1>1, <1>4, <1>5, <1>6, <1>18, HeaderWritten
<1>8. ASSUME NEW x \in B, x # c PROVE w[x] = m2[x]
  <2>1. x \in Granules /\ x # c + 16 /\ x # c - 16 BY <1>8, BlockKnown, BlocksApart
  <2> QED BY <1>7, <1>8, <2>1 DEF Written
<1>9. /\ w \in [Granules -> Contents] /\ w[c] = h
      /\ \A x \in B \ {c, p} : w[x] = m[x]
      /\ p # 0 => /\ w[p].kind = "header" /\ w[p].next = m[c].next
                  /\ w[p].size = m[p].size /\ w[p].state = m[p].state
  BY <1>3, <1>4, <1>7, <1>8, BlockKnown DEF Written
<1>10. ASSUME NEW x \in B PROVE w[x].kind = "header" /\ w[x].size = m[x].size
  <2>1. m[x].kind = "header" BY BlockKnown
  <2>2. x = p => p # 0 BY BlockKnown
  <2> QED BY <1>6, <1>9, <2>1, <2>2
<1>11. Starts(L \cup {n}) = U \cup {c} /\ L \cup {n} \subseteq Records
  <2>1. c + Header \in Granules
    <3>1. c % 16 = 0 /\ HeapStart <= c /\ HeapStart \in Nat BY <1>1, GranuleIs, StartIsPositive
    <3>2. (c + 32) % 16 = 0 BY <1>2, <3>1, Sums
    <3>3. c + 32 \in Nat /\ HeapStart <= c + 32 /\ c + 32 <= HeapLimit
      BY <1>2, <3>1, StartIsPositive
    <3> QED BY <3>2, <3>3, GranuleIs DEF Header
  <2> QED BY <1>1, <2>1, OneMoreHeld
<1>12. Cut(w, top, U \cup {c}, F \ {c})
  <2>1. \A x \in U \cup {c} : w[x].state = Used
    <3>1. \A x \in U : m[x].state = Used BY DEF Good, Cut
    <3> QED BY <1>1, <1>6, <1>9, <3>1
  <2>2. \A x \in F \ {c} : w[x].state = Free
    <3>1. \A x \in F : m[x].state = Free /\ x # 0 BY BlockKnown DEF Good, Cut
    <3> QED BY <1>9, <3>1
  <2>3. ASSUME NEW x \in Granules, w[x].kind = "header", w[x].state = Used PROVE x \in U \cup {c}
    <3>1. \A y \in Granules : m[y].kind = "header" /\ m[y].state = Used => y \in U BY DEF Good, Cut
    <3>2. CASE x = c BY <3>2
    <3>3. CASE x # c
      <4>1. w[x] = m2[x] BY <1>7, <2>3, <3>3, Plain DEF Written
      <4>2. x = p => p \in F /\ m2[p].state = m[p].state
        BY <1>3, <1>4, StartIsPositive
      <4>3. \A y \in F : m[y].state = Free BY DEF Good, Cut
      <4>4. x # p BY <2>3, <4>1, <4>2, <4>3 DEF Used, Free
      <4> QED BY <1>4, <2>3, <3>1, <4>1, <4>4
    <3> QED BY <3>2, <3>3
  <2>4. (U \cup {c}) \cup (F \ {c}) = B /\ (U \cup {c}) \cap (F \ {c}) = {} BY <1>1
  <2> QED BY <1>10, <2>1, <2>2, <2>3, <2>4, SameSizes
<1>13. Linked(w, head2, F \ {c})
  <2>1. \A x \in F \ {c, p} : w[x].next = m[x].next BY <1>9
  <2>2. p # 0 => w[p].next = m[c].next BY <1>9
  <2>3. Unlinks(m, head, F, c, p, w, head2) BY <1>18, <2>1, <2>2 DEF Unlinks
  <2> QED BY <2>3, Unlinked
<1>14. Held(w, L \cup {n})
  <2>1. Held(w, L)
    <3>0. PICK hi \in Int : hi = c + m[c].size BY <1>2
    <3>1. ASSUME NEW x \in Starts(L)
          PROVE  w[x].size = m[x].size /\ (x + m[x].size <= c \/ hi <= x)
      <4>1. x # c /\ x \in Nat /\ m[x].size \in Nat BY <1>1, BlockKnown
      <4>2. (x < c => x + m[x].size <= c) /\ (c < x => c + m[c].size <= x) BY <4>1, BlocksApart
      <4> QED BY <1>2, <1>10, <3>0, <4>1, <4>2
    <3>2. ASSUME NEW x \in Granules
          PROVE  w[x] = m[x] \/ m[x].kind = "header" \/ (c <= x /\ x < hi)
      <4>1. x \in Nat BY GranuleIs
      <4>2. x = c \/ x = c + 16 => c <= x /\ x < hi BY <1>2, <3>0, <4>1
      <4>3. x # c /\ x # c + 16 /\ m2[x].kind # "header" => w[x] = m2[x] BY <1>7 DEF Written
      <4>4. x # p => m2[x] = m[x] BY <1>4
      <4>5. x = p => m[x].kind = "header" BY <1>3, StartIsPositive
      <4> QED BY <4>2, <4>3, <4>4, <4>5
    <3>3. c \in Int /\ L \in SUBSET L BY <1>2
    <3> QED BY <3>1, <3>2, <3>3, DataKept
  <2>2. Header + size <= w[c].size BY <1>6, <1>9
  <2> QED BY <1>1, <2>1, <2>2, OneMoreKept
<1>15. Good(w, top, head2, L \cup {n}, F \ {c})
  BY <1>1, <1>9, <1>11, <1>12, <1>13, <1>14 DEF Good
<1>16. Sized(m, w, F) BY <1>10 DEF Sized
<1> QED BY <1>15, <1>16

(* A free block, c, becomes two: the first keeps req bytes.                   *)
Splits(m, c, req, d, s, w) ==
    /\ d = c + req
    /\ s = WriteHeader(m, d, Hdr(m[c].next, m[c].size - req, Free))
    /\ w = WriteHeader(s, c, Hdr(d, req, Free))
LEMMA SplitGood ==
    ASSUME NEW m, NEW top, NEW head, NEW L, NEW F, Good(m, top, head, L, F), NEW c \in F,
           NEW req \in Nat, req >= MinBlock, req % 16 = 0, m[c].size - req >= MinBlock,
           NEW d, NEW s, NEW w, Splits(m, c, req, d, s, w)
    PROVE  /\ Good(w, top, head, L, F \cup {d})
           /\ d \in Granules /\ d \notin F
           /\ s \in [Granules -> Contents]
           /\ w[c] = Hdr(d, req, Free) /\ w[c].size = req /\ w[d].size = m[c].size - req
           /\ Sized(m, w, F \ {c})
<1> DEFINE U == Starts(L)
           B == U \cup F
           F2 == F \cup {d}
           B2 == U \cup F2
<1>1. /\ m \in [Granules -> Contents] /\ F \subseteq Granules /\ L \subseteq Records
      /\ top \in Granules /\ c \in Granules /\ c \notin U
  BY BlockKnown, FreeSound DEF Good
<1>2. PICK n \in Nat : n = m[c].size BY BlockKnown
<1>3. /\ c \in Nat /\ c >= 1 /\ c % 16 = 0 /\ HeapStart <= c /\ HeapStart \in Nat
      /\ n % 16 = 0 /\ n \in 0..HeapLimit /\ n >= 48
      /\ c + n <= top /\ top \in Nat /\ top <= HeapLimit /\ HeapLimit \in Nat
      /\ m[c].next \in Granules \cup {0}
      /\ req >= 48 /\ n - req >= 48 /\ n - req \in Nat /\ (n - req) % 16 = 0
  <2>1. req >= 48 /\ n - req >= 48 BY <1>2 DEF MinBlock
  <2>2. n % 16 = 0 /\ n \in 0..HeapLimit /\ n >= 48 /\ c + n <= top BY <1>2, BlockKnown
  <2>3. (n - req) % 16 = 0 BY <2>1, <2>2, Differences
  <2>4. m[c].next \in Granules \cup {0} BY <1>1, FreeSound
  <2> QED BY <1>1, <1>2, <2>1, <2>2, <2>3, <2>4, GranuleIs, StartIsPositive
<1>4. d \in Nat /\ d >= c + 48 /\ d + 48 <= c + n /\ d + (n - req) = c + n
  BY <1>3 DEF Splits
<1>5. d \in Granules
  <2>1. d % 16 = 0 BY <1>3, Sums DEF Splits
  <2>2. HeapStart <= d /\ d <= HeapLimit BY <1>3, <1>4
  <2> QED BY <1>4, <2>1, <2>2, GranuleIs
<1>6. PICK hd : hd = Hdr(m[c].next, n - req, Free) OBVIOUS
<1>7. PICK hc : hc = Hdr(d, req, Free) OBVIOUS
<1>8. /\ hd \in Contents /\ hd.kind = "header" /\ hd.next = m[c].next /\ hd.size = n - req
      /\ hd.state = Free
  <2>1. n - req \in 0..HeapLimit BY <1>3
  <2> QED BY <1>3, <1>6, <2>1, HdrTyped DEF Used, Free
<1>9. /\ hc \in Contents /\ hc.kind = "header" /\ hc.next = d /\ hc.size = req /\ hc.state = Free
  <2>1. req \in 0..HeapLimit BY <1>3
  <2> QED BY <1>5, <1>7, <2>1, HdrTyped DEF Used, Free
<1>10. Written(m, d, hd, s) BY <1>1, <1>2, <1>5, <1>6, <1>8, HeaderWritten DEF Splits
<1>11. s \in [Granules -> Contents] BY <1>10 DEF Written
<1>12. Written(s, c, hc, w) BY <1>1, <1>7, <1>9, <1>11, HeaderWritten DEF Splits
<1>13. ASSUME NEW x \in B, x # c PROVE w[x] = m[x] /\ s[x] = m[x] /\ x # d
  <2>1. x \in Granules /\ x \in Nat /\ m[x].size \in Nat /\ m[x].size >= 48 BY <1>13, BlockKnown
  <2>2. x # c + 16 /\ x # c - 16 /\ (x < c => x + 48 <= c) /\ (c < x => c + n <= x)
    BY <1>2, <1>13, BlocksApart
  <2>3. x # d /\ x # d + 16 /\ x # d - 16 BY <1>3, <1>4, <1>13, <2>1, <2>2
  <2>4. s[x] = m[x] BY <1>10, <2>1, <2>3 DEF Written
  <2>5. w[x] = s[x] BY <1>12, <1>13, <2>1, <2>2 DEF Written
  <2> QED BY <2>3, <2>4, <2>5
<1>14. w[c] = hc BY <1>12 DEF Written
<1>15. w[d] = hd
  <2>1. d # c /\ d # c + 16 /\ d # c - 16 BY <1>3, <1>4
  <2>2. w[d] = s[d] BY <1>5, <1>12, <2>1 DEF Written
  <2> QED BY <1>10, <2>2 DEF Written
<1>16. d \notin B
  <2>1. d # c BY <1>3, <1>4
  <2> QED BY <1>13, <2>1
<1>17. w \in [Granules -> Contents] BY <1>12 DEF Written
<1>18. Cut(w, top, U, F2)
  <2>1. U \cap F2 = {} BY <1>16 DEF Good, Cut
  <2>2. ASSUME NEW x \in B2 PROVE Sound(w, top, x)
    <3>1. CASE x = c BY <1>1, <1>3, <1>9, <1>14, <3>1 DEF Sound, MinBlock
    <3>2. CASE x = d BY <1>3, <1>4, <1>5, <1>8, <1>15, <3>2 DEF Sound, MinBlock
    <3>3. CASE x # c /\ x # d
      <4>1. Sound(m, top, x) BY <3>3 DEF Good, Cut
      <4> QED BY <1>13, <3>3, <4>1 DEF Sound
    <3> QED BY <3>1, <3>2, <3>3
  <2>3. \A x \in U : w[x].state = Used
    <3>1. \A x \in U : m[x].state = Used BY DEF Good, Cut
    <3> QED BY <1>1, <1>13, <3>1
  <2>4. \A x \in F2 : w[x].state = Free
    <3>1. \A x \in F : m[x].state = Free BY DEF Good, Cut
    <3> QED BY <1>8, <1>9, <1>13, <1>14, <1>15, <3>1
  <2>5. ASSUME NEW x \in B2 PROVE x + w[x].size \in B2 \cup {top}
    <3>1. \A y \in B : y + m[y].size \in B \cup {top} BY DEF Good, Cut
    <3>2. CASE x = c BY <1>9, <1>14, <3>2 DEF Splits
    <3>3. CASE x = d
      <4>1. d + w[d].size = c + m[c].size BY <1>2, <1>4, <1>8, <1>15
      <4> QED BY <3>1, <3>3, <4>1
    <3>4. CASE x # c /\ x # d
      <4>1. x \in B /\ w[x].size = m[x].size BY <1>13, <3>4
      <4> QED BY <3>1, <4>1
    <3> QED BY <3>2, <3>3, <3>4
  <2>6. top > HeapStart => HeapStart \in B2 BY DEF Good, Cut
  <2>7. ASSUME NEW x \in B2, x # HeapStart PROVE \E y \in B2 : y + w[y].size = x
    <3>1. CASE x = d
      <4>1. c + w[c].size = d BY <1>9, <1>14 DEF Splits
      <4> QED BY <3>1, <4>1
    <3>2. CASE x # d
      <4>1. PICK y \in B : y + m[y].size = x BY <2>7, <3>2 DEF Good, Cut
      <4>2. CASE y = c
        <5>1. d + w[d].size = x BY <1>2, <1>4, <1>8, <1>15, <4>1, <4>2
        <5> QED BY <5>1
      <4>3. CASE y # c BY <1>13, <4>1, <4>3
      <4> QED BY <4>2, <4>3
    <3> QED BY <3>1, <3>2
  <2>8. ASSUME NEW x \in B2, NEW y \in B2, x < y PROVE x + w[x].size <= y
    <3>1. \A z \in B : z \in Nat /\ m[z].size \in Nat /\ m[z].size >= 48 BY BlockKnown
    <3>2. x \in Nat /\ y \in Nat BY <1>4, <3>1
    <3>3. ASSUME NEW z \in B, z # c PROVE (z < c => z + m[z].size <= c) /\ (c < z => c + n <= z)
      BY <1>2, <3>3, BlocksApart
    <3>4. CASE x = c
      <4>1. y # d => c + n <= y BY <2>8, <3>2, <3>3, <3>4
      <4> QED BY <1>3, <1>4, <1>9, <1>14, <3>2, <3>4, <4>1
    <3>5. CASE x = d
      <4>1. y # d /\ c < y BY <1>3, <1>4, <2>8, <3>2, <3>5
      <4>2. c + n <= y BY <1>3, <3>3, <4>1
      <4>3. d + w[d].size = c + n BY <1>4, <1>8, <1>15
      <4> QED BY <3>5, <4>2, <4>3
    <3>6. CASE x # c /\ x # d
      <4>1. x \in B /\ w[x].size = m[x].size /\ m[x].size \in Nat BY <1>13, <3>1, <3>6
      <4>2. CASE y # d
        <5>1. y \in B /\ x # y BY <2>8, <3>2, <4>2
        <5> QED BY <2>8, <4>1, <5>1, BlocksApart
      <4>3. CASE y = d
        <5>1. ~(c < x)
          <6>1. c < x => c + n <= x BY <3>3, <3>6, <4>1
          <6> QED BY <1>3, <1>4, <2>8, <3>2, <4>3, <6>1
        <5>2. x < c BY <1>3, <3>2, <3>6, <5>1
        <5>3. x + m[x].size <= c BY <3>3, <3>6, <4>1, <5>2
        <5> QED BY <1>3, <1>4, <3>2, <4>1, <4>3, <5>3
      <4> QED BY <4>2, <4>3
    <3> QED BY <3>4, <3>5, <3>6
  <2>9. ASSUME NEW x \in Granules, w[x].kind = "header", w[x].state = Used PROVE x \in U
    <3>1. \A y \in Granules : m[y].kind = "header" /\ m[y].state = Used => y \in U BY DEF Good, Cut
    <3>2. x # c /\ x # d BY <1>8, <1>9, <1>14, <1>15, <2>9 DEF Used, Free
    <3>3. w[x] = s[x] BY <1>12, <2>9, <3>2, Plain DEF Written
    <3>4. w[x] = m[x] BY <1>10, <2>9, <3>2, <3>3, Plain DEF Written
    <3> QED BY <2>9, <3>1, <3>4
  <2> QED BY <2>1, <2>2, <2>3, <2>4, <2>5, <2>6, <2>7, <2>8, <2>9 DEF Cut
<1>19. Linked(w, head, F2)
  <2>1. After(F, 0, head) /\ \A x \in F : After(F, x, m[x].next) BY DEF Good, Linked
  <2>2. \A x \in F : x \in Nat /\ x >= 1 BY BlockKnown
  <2>3. ASSUME NEW x \in F, x # c PROVE (x < c => x + 48 <= c) /\ (c < x => c + n <= x)
    BY <1>2, <2>3, BlocksApart
  <2>4. ASSUME NEW x \in F \cup {0}, x # c, NEW y, After(F, x, y) PROVE After(F2, x, y)
    <3>1. x \in Nat /\ (c <= x \/ x < c) BY <1>3, <2>2
    <3>2. CASE y = 0
      <4>1. \A z \in F : z <= x BY <2>4, <3>2 DEF After
      <4>2. c < x /\ x \in F BY <1>3, <2>4, <3>1, <4>1
      <4>3. d <= x BY <1>3, <1>4, <2>3, <2>4, <3>1, <4>2
      <4> QED BY <3>2, <4>1, <4>3 DEF After
    <3>3. CASE y # 0
      <4>1. y \in F /\ x < y /\ \A z \in F : z <= x \/ y <= z BY <2>4, <3>3 DEF After
      <4>2. y \in Nat BY <2>2, <4>1
      <4>3. d <= x \/ y <= d
        <5>1. CASE c < x
          <6>1. x \in F BY <1>3, <5>1
          <6> QED BY <1>3, <1>4, <2>3, <2>4, <3>1, <5>1, <6>1
        <5>2. CASE x < c
          <6>1. y <= c BY <1>3, <3>1, <4>1, <5>2
          <6> QED BY <1>3, <1>4, <4>2, <6>1
        <5> QED BY <1>3, <2>4, <3>1, <5>1, <5>2
      <4> QED BY <3>3, <4>1, <4>3 DEF After
    <3> QED BY <3>2, <3>3
  <2>5. After(F2, c, d)
    <3>1. ASSUME NEW z \in F PROVE z <= c \/ d <= z
      <4>1. z \in Nat /\ (c < z => c + n <= z) BY <1>3, <2>2, <2>3
      <4> QED BY <1>3, <1>4, <4>1
    <3>2. d # 0 /\ d \in F2 /\ c < d /\ d <= d BY <1>3, <1>4
    <3> QED BY <3>1, <3>2 DEF After
  <2>6. After(F2, d, m[c].next)
    <3>1. PICK y : y = m[c].next OBVIOUS
    <3>2. After(F, c, y) BY <2>1, <3>1
    <3>3. CASE y = 0
      <4>1. \A z \in F : z <= c /\ z \in Nat BY <2>2, <3>2, <3>3 DEF After
      <4>2. \A z \in F2 : z <= d BY <1>3, <1>4, <4>1
      <4> QED BY <3>1, <3>3, <4>2 DEF After
    <3>4. CASE y # 0
      <4>1. y \in F /\ c < y /\ \A z \in F : z <= c \/ y <= z BY <3>2, <3>4 DEF After
      <4>2. y \in Nat /\ c + n <= y BY <1>3, <2>2, <2>3, <4>1
      <4>3. d < y BY <1>3, <1>4, <4>2
      <4>4. ASSUME NEW z \in F2 PROVE z <= d \/ y <= z
        <5>1. z = d \/ z \in F OBVIOUS
        <5>2. z \in F => z \in Nat /\ (z <= c \/ y <= z) BY <2>2, <4>1
        <5> QED BY <1>3, <1>4, <5>1, <5>2
      <4> QED BY <3>1, <3>4, <4>1, <4>3, <4>4 DEF After
    <3> QED BY <3>3, <3>4
  <2>7. After(F2, 0, head) BY <1>3, <2>1, <2>4
  <2>8. ASSUME NEW x \in F2 PROVE After(F2, x, w[x].next)
    <3>1. CASE x = c BY <1>9, <1>14, <2>5, <3>1
    <3>2. CASE x = d BY <1>8, <1>15, <2>6, <3>2
    <3>3. CASE x # c /\ x # d BY <1>13, <2>1, <2>4, <3>3
    <3> QED BY <3>1, <3>2, <3>3
  <2> QED BY <2>7, <2>8 DEF Linked
<1>20. Held(w, L)
  <2>1. PICK hi \in Int : hi = c + n BY <1>3
  <2>2. ASSUME NEW x \in Starts(L)
        PROVE  w[x].size = m[x].size /\ (x + m[x].size <= c \/ hi <= x)
    <3>1. x # c /\ x \in Nat /\ m[x].size \in Nat BY <1>1, BlockKnown
    <3>2. (x < c => x + m[x].size <= c) /\ (c < x => c + n <= x) BY <1>2, <3>1, BlocksApart
    <3> QED BY <1>3, <1>13, <2>1, <3>1, <3>2
  <2>3. ASSUME NEW x \in Granules PROVE w[x] = m[x] \/ m[x].kind = "header" \/ (c <= x /\ x < hi)
    <3>1. x \in Nat BY GranuleIs
    <3>2. x = c \/ x = c + 16 \/ x = d \/ x = d - 16 \/ x = d + 16 => c <= x /\ x < hi
      BY <1>3, <1>4, <2>1, <3>1
    <3>3. x # d /\ x # d + 16 /\ x # d - 16 => s[x] = m[x] BY <1>10 DEF Written
    <3>4. x # c /\ x # c + 16 /\ s[x].kind # "header" => w[x] = s[x] BY <1>12 DEF Written
    <3> QED BY <3>2, <3>3, <3>4
  <2>4. c \in Int /\ L \in SUBSET L BY <1>3
  <2> QED BY <2>1, <2>2, <2>3, <2>4, DataKept
<1>21. Good(w, top, head, L, F2) BY <1>1, <1>5, <1>17, <1>18, <1>19, <1>20 DEF Good
<1>22. Sized(m, w, F \ {c}) BY <1>13 DEF Sized
<1> QED BY <1>2, <1>5, <1>7, <1>8, <1>9, <1>11, <1>14, <1>15, <1>16, <1>21, <1>22

(* A held block, b, whose payload is poisoned goes on the list between p and  *)
(* c, the free blocks around it.                                              *)
Around(F, head, b, p, c) ==
    /\ p \in F \cup {0} /\ c \in F \cup {0}
    /\ After(F, p, c)
    /\ p = 0 => head = c
    /\ p < b
    /\ c = 0 \/ b < c

Links(m, b, p, c, w) ==
    LET v == WriteHeader(Poison(m, b), b, Hdr(c, m[b].size, Free))
    IN  w = IF p # 0 THEN SetNext(v, p, b) ELSE v

LEMMA LinkGood ==
    ASSUME NEW m, NEW top, NEW head, NEW L, NEW F, Good(m, top, head, L, F),
           NEW r \in L, NEW b \in Starts(L), r.ptr - Header = b,
           NEW p, NEW c, Around(F, head, b, p, c), NEW w, Links(m, b, p, c, w),
           NEW head2, head2 = IF p = 0 THEN b ELSE head
    PROVE  /\ Good(w, top, head2, L \ {r}, F \cup {b})
           /\ Sized(m, w, F \cup {b})
<1> DEFINE U == Starts(L)
           B == U \cup F
           U2 == U \ {b}
           F2 == F \cup {b}
<1>1. /\ b \in U
      /\ p \in F \cup {0} /\ c \in F \cup {0} /\ After(F, p, c) /\ (p = 0 => head = c)
      /\ p < b /\ (c = 0 \/ b < c)
  BY DEF Around
<1>2. /\ m \in [Granules -> Contents] /\ F \subseteq Granules /\ L \subseteq Records
      /\ top \in Granules /\ b \in Granules /\ U \cap F = {} /\ b \notin F
  BY <1>1, BlockKnown DEF Good, Cut
<1>3. PICK n \in Nat : n = m[b].size BY <1>1, BlockKnown
<1>4. /\ b \in Nat /\ b >= 1 /\ n \in 0..HeapLimit /\ n >= 48
      /\ p \in Nat /\ c \in Nat /\ p # b /\ c # b
      /\ p # 0 => p \in F /\ p \in Granules /\ m[p].kind = "header"
  <2>1. b \in Nat /\ b >= 1 /\ n \in 0..HeapLimit /\ n >= 48 BY <1>1, <1>3, BlockKnown
  <2>2. \A x \in F : x \in Nat /\ x >= 1 /\ m[x].kind = "header" BY BlockKnown
  <2> QED BY <1>1, <1>2, <2>1, <2>2
<1>5. PICK q : q = Poison(m, b) OBVIOUS
<1>6. /\ q \in [Granules -> Contents]
      /\ \A x \in Granules : ~(b + 32 <= x /\ x < b + n) => q[x] = m[x]
      /\ \A x \in Granules : q[x] \in {m[x], Garbage}
  BY <1>2, <1>3, <1>5, Plain DEF Poison, Header
<1>7. PICK h : h = Hdr(c, n, Free) OBVIOUS
<1>8. /\ h \in Contents /\ h.kind = "header" /\ h.next = c /\ h.size = n /\ h.state = Free
  <2>1. c \in Granules \cup {0} BY <1>1, <1>2
  <2> QED BY <1>4, <1>7, <2>1, HdrTyped DEF Used, Free
<1>21. PICK v : v = WriteHeader(q, b, h) OBVIOUS
<1>22. w = IF p # 0 THEN SetNext(v, p, b) ELSE v BY <1>3, <1>5, <1>7, <1>21 DEF Links
<1>9. Written(q, b, h, v) BY <1>2, <1>6, <1>8, <1>21, HeaderWritten
<1>10. v \in [Granules -> Contents] /\ v[b] = h BY <1>9 DEF Written
<1>11. ASSUME NEW x \in B, x # b PROVE v[x] = m[x]
  <2>1. x \in Granules /\ x \in Nat BY BlockKnown
  <2>2. (x < b => x + 48 <= b) /\ (b < x => b + m[b].size <= x)
    BY <1>11, BlocksApart
  <2>3. b + n <= x => b + 48 <= x BY <1>4, <2>1
  <2>4. x # b + 16 /\ x # b - 16 BY <1>3, <1>4, <1>11, <2>1, <2>2, <2>3
  <2>5. ~(b + 32 <= x /\ x < b + n) BY <1>3, <1>4, <2>1, <2>2
  <2>6. q[x] = m[x] BY <1>6, <2>1, <2>5
  <2>7. v[x] = q[x] BY <1>9, <1>11, <2>1, <2>4 DEF Written
  <2> QED BY <2>6, <2>7
<1>12. /\ w \in [Granules -> Contents]
       /\ \A x \in Granules : x # p => w[x] = v[x]
       /\ p # 0 => /\ w[p].kind = "header" /\ w[p].next = b
                   /\ w[p].size = m[p].size /\ w[p].state = m[p].state
  <2>1. CASE p = 0 BY <1>10, <1>22, <2>1
  <2>2. CASE p # 0
    <3>1. w = SetNext(v, p, b) /\ v[p] = m[p] BY <1>4, <1>11, <1>22, <2>2
    <3>2. Relinked(v, p, b, w) BY <1>2, <1>4, <1>10, <2>2, <3>1, NextSet
    <3> QED BY <3>1, <3>2 DEF Relinked
  <2> QED BY <2>1, <2>2
<1>13. w[b] = h BY <1>2, <1>4, <1>10, <1>12
<1>14. ASSUME NEW x \in B, x # b, x # p PROVE w[x] = m[x]
  BY <1>11, <1>12, <1>14, BlockKnown
<1>15. ASSUME NEW x \in B PROVE w[x].kind = "header" /\ w[x].size = m[x].size
  <2>1. m[x].kind = "header" /\ x # 0 BY BlockKnown
  <2> QED BY <1>3, <1>8, <1>12, <1>13, <1>14, <2>1
<1>16. Starts(L \ {r}) = U2 /\ L \ {r} \subseteq Records
  <2>1. ASSUME NEW s \in L, s # r PROVE s.ptr - Header # b
    <3>1. s.ptr # r.ptr BY <2>1 DEF Good, Held
    <3>2. s.ptr \in Nat /\ r.ptr \in Nat BY <1>2, GranuleIs DEF Records
    <3> QED BY <3>1, <3>2 DEF Header
  <2> QED BY <1>2, <2>1 DEF Starts
<1>17. Cut(w, top, U2, F2)
  <2>1. \A x \in U2 : w[x].state = Used
    <3>1. \A x \in U : m[x].state = Used BY DEF Good, Cut
    <3>2. \A x \in U2 : x \in B /\ x # b /\ x # p
      <4>1. \A x \in U : x # 0 BY BlockKnown
      <4> QED BY <1>2, <1>4, <4>1
    <3> QED BY <1>14, <3>1, <3>2
  <2>2. \A x \in F2 : w[x].state = Free
    <3>1. \A x \in F : m[x].state = Free /\ x # 0 BY BlockKnown DEF Good, Cut
    <3> QED BY <1>8, <1>12, <1>13, <1>14, <3>1
  <2>3. ASSUME NEW x \in Granules, w[x].kind = "header", w[x].state = Used PROVE x \in U2
    <3>1. \A y \in Granules : m[y].kind = "header" /\ m[y].state = Used => y \in U BY DEF Good, Cut
    <3>2. \A y \in F : m[y].state = Free BY DEF Good, Cut
    <3>3. x # b BY <1>8, <1>13, <2>3 DEF Used, Free
    <3>4. x # p
      <4>1. x = p => p # 0 BY StartIsPositive
      <4> QED BY <1>4, <1>12, <2>3, <3>2, <4>1 DEF Used, Free
    <3>5. w[x] = v[x] BY <1>12, <3>4
    <3>6. v[x] = q[x] BY <1>9, <2>3, <3>3, <3>5, Plain DEF Written
    <3>7. q[x] = m[x] BY <1>6, <2>3, <3>5, <3>6, Plain
    <3> QED BY <2>3, <3>1, <3>3, <3>5, <3>6, <3>7
  <2>4. U2 \cup F2 = B /\ U2 \cap F2 = {} BY <1>1, <1>2
  <2> QED BY <1>15, <2>1, <2>2, <2>3, <2>4, SameSizes
<1>18. Linked(w, head2, F2)
  <2>1. After(F, 0, head) /\ \A x \in F : After(F, x, m[x].next) BY DEF Good, Linked
  <2>2. \A x \in F : x \in Nat /\ x >= 1 BY BlockKnown
  <2>3. ASSUME NEW x \in F PROVE x <= p \/ b < x
    <3>1. c = 0 => x <= p BY <1>1 DEF After
    <3>2. c # 0 => x <= p \/ c <= x BY <1>1 DEF After
    <3>3. x \in Nat BY <2>2
    <3>4. c # 0 => b < c BY <1>1
    <3>5. c <= x /\ b < c => b < x BY <1>4, <3>3
    <3> QED BY <3>1, <3>2, <3>4, <3>5
  <2>4. ASSUME NEW x \in F \cup {0}, x # p, NEW y, After(F, x, y) PROVE After(F2, x, y)
    <3>1. x \in Nat /\ (x <= p \/ b < x) BY <1>4, <2>2, <2>3
    <3>2. x <= p => p \in F /\ x < p BY <1>4, <2>4, <3>1
    <3>3. CASE y = 0
      <4>1. \A z \in F : z <= x BY <2>4, <3>3 DEF After
      <4>2. b < x BY <1>4, <3>1, <3>2, <4>1
      <4>3. b <= x BY <1>4, <3>1, <4>2
      <4> QED BY <3>3, <4>1, <4>3 DEF After
    <3>4. CASE y # 0
      <4>1. y \in F /\ x < y /\ \A z \in F : z <= x \/ y <= z BY <2>4, <3>4 DEF After
      <4>2. y \in Nat BY <2>2, <4>1
      <4>3. x <= p => y <= p BY <1>4, <3>1, <3>2, <4>1, <4>2
      <4>4. b <= x \/ y <= b BY <1>1, <1>4, <3>1, <4>2, <4>3
      <4> QED BY <3>4, <4>1, <4>4 DEF After
    <3> QED BY <3>3, <3>4
  <2>5. After(F2, p, b)
    <3>1. \A z \in F : z <= p \/ b <= z BY <1>4, <2>2, <2>3
    <3>2. b # 0 /\ b \in F2 /\ b <= b /\ p < b BY <1>1, <1>4
    <3> QED BY <3>1, <3>2 DEF After
  <2>6. After(F2, b, c)
    <3>1. CASE c = 0
      <4>1. \A z \in F : z <= p BY <1>1, <3>1 DEF After
      <4>2. \A z \in F2 : z <= b BY <1>1, <1>4, <2>2, <4>1
      <4> QED BY <3>1, <4>2 DEF After
    <3>2. CASE c # 0
      <4>1. c \in F /\ b < c /\ \A z \in F : z <= p \/ c <= z BY <1>1, <3>2 DEF After
      <4>2. \A z \in F2 : z <= b \/ c <= z BY <1>1, <1>4, <2>2, <4>1
      <4> QED BY <3>2, <4>1, <4>2 DEF After
    <3> QED BY <3>1, <3>2
  <2>7. After(F2, 0, head2)
    <3>1. CASE p = 0 BY <2>5, <3>1
    <3>2. CASE p # 0
      <4>1. 0 # p /\ head2 = head BY <3>2
      <4> QED BY <2>1, <2>4, <4>1
    <3> QED BY <3>1, <3>2
  <2>8. ASSUME NEW x \in F2 PROVE After(F2, x, w[x].next)
    <3>1. CASE x = b BY <1>8, <1>13, <2>6, <3>1
    <3>2. CASE x = p
      <4>1. p # 0 BY <1>4, <2>2, <3>2
      <4> QED BY <1>12, <2>5, <3>2, <4>1
    <3>3. CASE x # b /\ x # p BY <1>14, <2>1, <2>4, <3>3
    <3> QED BY <3>1, <3>2, <3>3
  <2> QED BY <2>7, <2>8 DEF Linked
<1>19. Held(w, L \ {r})
  <2>1. PICK hi \in Int : hi = b + n BY <1>4
  <2>2. ASSUME NEW x \in Starts(L \ {r})
        PROVE  w[x].size = m[x].size /\ (x + m[x].size <= b \/ hi <= x)
    <3>1. x \in U /\ x # b BY <1>16
    <3>2. x \in Nat /\ m[x].size \in Nat BY <3>1, BlockKnown
    <3>3. (x < b => x + m[x].size <= b) /\ (b < x => b + n <= x) BY <1>1, <1>3, <3>1, BlocksApart
    <3> QED BY <1>4, <1>15, <2>1, <3>1, <3>2, <3>3
  <2>3. ASSUME NEW x \in Granules PROVE w[x] = m[x] \/ m[x].kind = "header" \/ (b <= x /\ x < hi)
    <3>1. x \in Nat BY GranuleIs
    <3>2. x = b \/ x = b + 16 \/ (b + 32 <= x /\ x < b + n) => b <= x /\ x < hi BY <1>4, <2>1, <3>1
    <3>3. x # b /\ x # b + 16 /\ q[x].kind # "header" => v[x] = q[x] BY <1>9 DEF Written
    <3>4. ~(b + 32 <= x /\ x < b + n) => q[x] = m[x] BY <1>6
    <3>5. x # p => w[x] = v[x] BY <1>12
    <3>6. x = p => m[x].kind = "header" BY <1>4, StartIsPositive
    <3> QED BY <3>2, <3>3, <3>4, <3>5, <3>6
  <2>4. b \in Int /\ L \ {r} \in SUBSET L BY <1>4
  <2> QED BY <2>2, <2>3, <2>4, DataKept
<1>20. F2 \subseteq Granules BY <1>2
<1>23. Good(w, top, head2, L \ {r}, F2)
  BY <1>2, <1>12, <1>16, <1>17, <1>18, <1>19, <1>20 DEF Good
<1>24. Sized(m, w, F2) BY <1>1, <1>15 DEF Sized
<1> QED BY <1>23, <1>24

(* The last block ends at top.                                                *)
LEMMA BlocksReachTop ==
    ASSUME NEW m, NEW top, NEW head, NEW L, NEW F, Good(m, top, head, L, F), top # HeapStart
    PROVE  \E y \in Starts(L) \cup F : y + m[y].size = top
<1> DEFINE B == Starts(L) \cup F
           I == {top - b : b \in B}
<1>1. HeapStart \in B
  <2>1. top \in Granules BY DEF Good
  <2>2. top \in Nat /\ HeapStart \in Nat /\ top >= HeapStart BY <2>1, GranuleIs, StartIsPositive
  <2> QED BY <2>2 DEF Good, Cut
<1>2. ASSUME NEW b \in B PROVE b \in Nat /\ top \in Nat /\ m[b].size \in Nat /\ m[b].size >= 48
                               /\ b + m[b].size <= top
  BY BlockKnown
<1>3. I \in SUBSET Nat /\ I # {} BY <1>1, <1>2
<1>4. PICK i \in I : \A j \in I : i <= j
  <2> HIDE DEF I
  <2> QED BY <1>3, LeastNumber
<1>5. PICK b \in B : i = top - b OBVIOUS
<1>6. \A c \in B : c <= b
  <2>1. ASSUME NEW c \in B PROVE c <= b
    <3>1. top - c \in I OBVIOUS
    <3>2. top - b <= top - c BY <1>4, <1>5, <3>1
    <3> QED BY <1>2, <3>2
  <2> QED BY <2>1
<1>7. b + m[b].size \in B \cup {top} BY DEF Good, Cut
<1>8. b + m[b].size \notin B BY <1>2, <1>6
<1> QED BY <1>7, <1>8

(* The block cut from the memory above top.                                   *)
Extends(m, top, req, w, t) ==
    t = top + req /\ w = WriteHeader(m, top, Hdr(0, req, Used))
LEMMA TopGood ==
    ASSUME NEW m, NEW top, NEW head, NEW L, NEW F, Good(m, top, head, L, F),
           NEW req \in Nat, req >= MinBlock, req % 16 = 0, top + req <= HeapLimit,
           NEW size \in Nat, size >= 1, Header + size <= req,
           NEW w, NEW t, Extends(m, top, req, w, t),
           NEW n, n = [ptr |-> top + Header, size |-> size, written |-> FALSE]
    PROVE  /\ Good(w, t, head, L \cup {n}, F)
           /\ Sized(m, w, F)
           /\ top \notin Starts(L)
<1> DEFINE U == Starts(L)
           B == U \cup F
           B2 == B \cup {top}
<1>1. /\ m \in [Granules -> Contents] /\ F \subseteq Granules /\ L \subseteq Records
      /\ top \in Granules /\ U \cap F = {}
  BY DEF Good, Cut
<1>2. /\ top \in Nat /\ top % 16 = 0 /\ HeapStart <= top /\ top <= HeapLimit /\ HeapStart \in Nat
      /\ HeapLimit \in Nat /\ req >= 48
  BY <1>1, GranuleIs, StartIsPositive DEF MinBlock
<1>4. t \in Granules /\ t \in Nat /\ t >= top + 48 /\ t <= HeapLimit
  <2>1. t % 16 = 0 BY <1>2, Sums DEF Extends
  <2>2. t \in Nat /\ HeapStart <= t /\ t <= HeapLimit /\ t >= top + 48 BY <1>2 DEF Extends
  <2> QED BY <2>1, <2>2, GranuleIs
<1>5. PICK h : h = Hdr(0, req, Used) OBVIOUS
<1>6. h \in Contents /\ h.kind = "header" /\ h.size = req /\ h.state = Used
  <2>1. req \in 0..HeapLimit BY <1>2
  <2> QED BY <1>5, <2>1, HdrTyped DEF Used, Free
<1>7. Written(m, top, h, w) BY <1>1, <1>5, <1>6, HeaderWritten DEF Extends
<1>8. w \in [Granules -> Contents] /\ w[top] = h BY <1>7 DEF Written
<1>9. ASSUME NEW x \in B
      PROVE  /\ x # top /\ w[x] = m[x] /\ x < top /\ x \in Nat /\ m[x].size \in Nat
             /\ x + m[x].size <= top
  <2>1. x \in Granules /\ x \in Nat /\ m[x].size \in Nat /\ m[x].size >= 48 /\ x + m[x].size <= top
    BY BlockKnown
  <2>2. x < top /\ x # top /\ x # top + 16 /\ x # top - 16 BY <1>2, <2>1
  <2>3. w[x] = m[x] BY <1>7, <2>1, <2>2 DEF Written
  <2> QED BY <2>1, <2>2, <2>3
<1>10. top \notin B BY <1>9
<1>11. Starts(L \cup {n}) = U \cup {top} /\ L \cup {n} \subseteq Records
  <2>1. top + Header \in Granules
    <3>1. (top + 32) % 16 = 0 BY <1>2, Sums
    <3>2. top + 32 \in Nat /\ HeapStart <= top + 32 /\ top + 32 <= HeapLimit BY <1>2, <1>4
    <3> QED BY <3>1, <3>2, GranuleIs DEF Header
  <2> QED BY <1>1, <2>1, OneMoreHeld
<1>12. Cut(w, t, U \cup {top}, F)
  <2>1. (U \cup {top}) \cap F = {} BY <1>1, <1>10
  <2>2. ASSUME NEW x \in B2 PROVE Sound(w, t, x)
    <3>1. CASE x = top BY <1>1, <1>2, <1>6, <1>8, <3>1 DEF Sound, MinBlock, Extends
    <3>2. CASE x # top
      <4>1. Sound(m, top, x) BY <3>2 DEF Good, Cut
      <4>2. w[x] = m[x] /\ x \in Nat /\ m[x].size \in Nat /\ x + m[x].size <= top BY <1>9, <3>2
      <4>3. x + m[x].size <= t BY <1>2, <1>4, <4>2
      <4> QED BY <4>1, <4>2, <4>3 DEF Sound
    <3> QED BY <3>1, <3>2
  <2>3. \A x \in U \cup {top} : w[x].state = Used
    <3>1. \A x \in U : m[x].state = Used BY DEF Good, Cut
    <3> QED BY <1>6, <1>8, <1>9, <3>1
  <2>4. \A x \in F : w[x].state = Free
    <3>1. \A x \in F : m[x].state = Free BY DEF Good, Cut
    <3> QED BY <1>9, <3>1
  <2>5. ASSUME NEW x \in B2 PROVE x + w[x].size \in B2 \cup {t}
    <3>1. CASE x = top BY <1>6, <1>8, <3>1 DEF Extends
    <3>2. CASE x # top
      <4>1. x + m[x].size \in B \cup {top} BY <3>2 DEF Good, Cut
      <4> QED BY <1>9, <3>2, <4>1
    <3> QED BY <3>1, <3>2
  <2>6. HeapStart \in B2
    <3>1. top > HeapStart => HeapStart \in B BY DEF Good, Cut
    <3> QED BY <1>2, <3>1
  <2>7. ASSUME NEW x \in B2, x # HeapStart PROVE \E y \in B2 : y + w[y].size = x
    <3>1. CASE x # top
      <4>1. PICK y \in B : y + m[y].size = x BY <2>7, <3>1 DEF Good, Cut
      <4> QED BY <1>9, <4>1
    <3>2. CASE x = top
      <4>1. PICK y \in B : y + m[y].size = top BY <2>7, <3>2, BlocksReachTop
      <4> QED BY <1>9, <3>2, <4>1
    <3> QED BY <3>1, <3>2
  <2>8. ASSUME NEW x \in B2, NEW y \in B2, x < y PROVE x + w[x].size <= y
    <3>1. x # top BY <1>2, <1>9, <2>8
    <3>2. w[x] = m[x] /\ x + m[x].size <= top BY <1>9, <3>1
    <3>3. CASE y = top BY <3>2, <3>3
    <3>4. CASE y # top
      <4>1. x \in B /\ y \in B BY <3>1, <3>4
      <4> QED BY <2>8, <3>2, <4>1 DEF Good, Cut
    <3> QED BY <3>3, <3>4
  <2>9. ASSUME NEW x \in Granules, w[x].kind = "header", w[x].state = Used PROVE x \in U \cup {top}
    <3>1. \A y \in Granules : m[y].kind = "header" /\ m[y].state = Used => y \in U BY DEF Good, Cut
    <3>2. x # top => w[x] = m[x] BY <1>7, <2>9, Plain DEF Written
    <3> QED BY <2>9, <3>1, <3>2
  <2>10. (U \cup {top}) \cup F = B2 OBVIOUS
  <2> QED BY <2>1, <2>2, <2>3, <2>4, <2>5, <2>6, <2>7, <2>8, <2>9, <2>10 DEF Cut
<1>13. Linked(w, head, F)
  <2>1. \A x \in F : w[x].next = m[x].next BY <1>9
  <2> QED BY <2>1 DEF Good, Linked
<1>14. Held(w, L \cup {n})
  <2>1. Held(w, L)
    <3>1. ASSUME NEW x \in Starts(L)
          PROVE  w[x].size = m[x].size /\ (x + m[x].size <= top \/ t <= x)
      BY <1>9
    <3>2. ASSUME NEW x \in Granules
          PROVE  w[x] = m[x] \/ m[x].kind = "header" \/ (top <= x /\ x < t)
      <4>1. x \in Nat BY GranuleIs
      <4>2. x = top \/ x = top + 16 => top <= x /\ x < t BY <1>2, <1>4, <4>1
      <4>3. x # top /\ x # top + 16 /\ m[x].kind # "header" => w[x] = m[x] BY <1>7 DEF Written
      <4> QED BY <4>2, <4>3
    <3>3. top \in Int /\ t \in Int /\ L \in SUBSET L BY <1>2, <1>4
    <3> QED BY <3>1, <3>2, <3>3, DataKept
  <2>2. Header + size <= w[top].size BY <1>6, <1>8
  <2> QED BY <1>1, <1>10, <2>1, <2>2, OneMoreKept
<1>15. Good(w, t, head, L \cup {n}, F)
  BY <1>1, <1>4, <1>8, <1>11, <1>12, <1>13, <1>14 DEF Good
<1>16. Sized(m, w, F) BY <1>9 DEF Sized
<1> QED BY <1>10, <1>15, <1>16

(* A holder fills its block.                                                  *)
Fills(m, r, w, t) ==
    /\ w = [a \in Granules |-> IF a >= r.ptr /\ a < r.ptr + r.size THEN Data ELSE m[a]]
    /\ t = [r EXCEPT !.written = TRUE]
LEMMA WriteGood ==
    ASSUME NEW m, NEW top, NEW head, NEW L, NEW F, Good(m, top, head, L, F), NEW r \in L,
           NEW w, NEW t, Fills(m, r, w, t)
    PROVE  /\ Good(w, top, head, (L \ {r}) \cup {t}, F)
           /\ Sized(m, w, F)
<1> DEFINE U == Starts(L)
           B == U \cup F
           L2 == (L \ {r}) \cup {t}
<1>1. /\ m \in [Granules -> Contents] /\ F \subseteq Granules /\ L \subseteq Records
      /\ top \in Granules /\ U \cap F = {} /\ Held(m, L)
  BY DEF Good, Cut
<1>2. r.ptr \in Granules /\ r.ptr \in Nat /\ r.size \in Nat BY <1>1, GranuleIs DEF Records
<1>3. /\ t \in Records /\ t.ptr = r.ptr /\ t.size = r.size /\ t.written
  <2>1. r = [ptr |-> r.ptr, size |-> r.size, written |-> r.written] BY <1>1 DEF Records
  <2>2. t = [ptr |-> r.ptr, size |-> r.size, written |-> TRUE] BY <2>1 DEF Fills
  <2> QED BY <1>2, <2>2 DEF Records
<1>4. PICK b : b = r.ptr - Header OBVIOUS
<1>5. b \in U BY <1>4 DEF Starts
<1>6. b \in Nat /\ m[b].size \in Nat /\ r.ptr = b + 32 /\ r.ptr + r.size <= b + m[b].size
  <2>1. b \in Nat /\ m[b].size \in Nat BY <1>5, BlockKnown
  <2>2. Header + r.size <= m[b].size BY <1>1, <1>4 DEF Held
  <2> QED BY <1>2, <1>4, <2>1, <2>2 DEF Header
<1>7. ASSUME NEW x \in B PROVE w[x] = m[x]
  <2>1. x \in Granules /\ x \in Nat BY BlockKnown
  <2>2. x # b => (x < b => x + 48 <= b) /\ (b < x => b + m[b].size <= x) BY <1>5, BlocksApart
  <2>3. ~(x >= r.ptr /\ x < r.ptr + r.size) BY <1>2, <1>6, <2>1, <2>2
  <2> QED BY <2>1, <2>3 DEF Fills
<1>8. w \in [Granules -> Contents] BY <1>1, Plain DEF Fills
<1>9. Starts(L2) = U BY <1>3 DEF Starts
<1>10. L2 \subseteq Records BY <1>1, <1>3
<1>11. Cut(w, top, U, F)
  <2>1. ASSUME NEW x \in B PROVE w[x].kind = "header" /\ w[x].size = m[x].size BY <1>7, BlockKnown
  <2>2. (\A x \in U : w[x].state = Used) /\ (\A x \in F : w[x].state = Free)
    <3>1. (\A x \in U : m[x].state = Used) /\ (\A x \in F : m[x].state = Free) BY DEF Good, Cut
    <3> QED BY <1>7, <3>1
  <2>3. ASSUME NEW x \in Granules, w[x].kind = "header", w[x].state = Used PROVE x \in U
    <3>1. \A y \in Granules : m[y].kind = "header" /\ m[y].state = Used => y \in U BY DEF Good, Cut
    <3>2. w[x] = m[x] BY <2>3, Plain DEF Fills
    <3> QED BY <2>3, <3>1, <3>2
  <2> QED BY <1>1, <2>1, <2>2, <2>3, SameSizes
<1>12. Linked(w, head, F)
  <2>1. \A x \in F : w[x].next = m[x].next BY <1>7
  <2> QED BY <2>1 DEF Good, Linked
<1>13. Held(w, L2)
  <2>1. ASSUME NEW s \in L
        PROVE  /\ s.ptr - Header \in Granules
               /\ s.size >= 1 /\ Header + s.size <= w[s.ptr - Header].size
    <3>1. s.ptr - Header \in U BY DEF Starts
    <3> QED BY <1>1, <1>7, <3>1 DEF Held
  <2>2. ASSUME NEW s \in L2, s.written, NEW a \in Granules, s.ptr <= a, a < s.ptr + s.size
        PROVE  w[a] = Data
    <3>1. CASE s = t
      <4>1. a >= r.ptr /\ a < r.ptr + r.size BY <1>2, <1>3, <2>2, <3>1, GranuleIs
      <4> QED BY <4>1 DEF Fills
    <3>2. CASE s # t
      <4>1. m[a] = Data BY <1>1, <2>2, <3>2 DEF Held
      <4> QED BY <4>1 DEF Fills
    <3> QED BY <3>1, <3>2
  <2>3. ASSUME NEW s \in L2, NEW u \in L2, s.ptr = u.ptr PROVE s = u
    <3>1. \A x, y \in L : x.ptr = y.ptr => x = y BY <1>1 DEF Held
    <3>2. \A x \in L2 \ {t} : x \in L /\ x # r OBVIOUS
    <3>3. \A x \in L2 \ {t} : x.ptr # t.ptr BY <1>3, <3>1, <3>2
    <3>4. s # t /\ u # t => s = u BY <2>3, <3>1, <3>2
    <3> QED BY <2>3, <3>3, <3>4
  <2>4. \A s \in L2 : s \in L \/ (s.ptr = r.ptr /\ s.size = r.size) BY <1>3
  <2> QED BY <2>1, <2>2, <2>3, <2>4 DEF Held
<1>14. Good(w, top, head, L2, F) BY <1>1, <1>8, <1>9, <1>10, <1>11, <1>12, <1>13 DEF Good
<1>15. Sized(m, w, F) BY <1>7 DEF Sized
<1> QED BY <1>14, <1>15

-----------------------------------------------------------------------------
(* What the searches find.                                                    *)

(* The free block before place n of the chain.                                *)
LEMMA PrevIs ==
    ASSUME NEW F, Good(mem, heap_ptr, heap_free, live, F), NEW n \in 0..MaxChain,
           n # 0 => Chain[n - 1] # 0, NEW p, p = IF n = 0 THEN 0 ELSE Chain[n - 1]
    PROVE  /\ p \in F \cup {0} /\ Chain[n] \in F \cup {0} /\ After(F, p, Chain[n])
           /\ p = 0 => heap_free = Chain[n]
<1>1. Place(F, n) BY PlacesHold
<1>2. MaxChain \in Nat BY GranulesFinite
<1>3. n # 0 => n - 1 \in 0..MaxChain BY <1>2
<1>4. n # 0 => Chain[n - 1] \in F \cup {0} BY <1>3, PlacesHold DEF Place
<1> QED BY <1>1, <1>4, ChainIs DEF Place

LEMMA FitIs ==
    ASSUME NEW F, Good(mem, heap_ptr, heap_free, live, F), NEW req, NEW n, n = FirstFit(req), n >= 0
    PROVE  n \in 0..MaxChain /\ Chain[n] \in F /\ mem[Chain[n]].size >= req
<1> DEFINE Fits == {k \in 0..MaxChain : FreeNode(mem, heap_ptr, Chain[k]) /\ mem[Chain[k]].size >= req}
<1>1. Fits # {} /\ n = CHOOSE k \in Fits : \A j \in Fits : k <= j
  <2>1. n = IF Fits = {} THEN -1 ELSE CHOOSE k \in Fits : \A j \in Fits : k <= j BY DEF FirstFit
  <2> QED BY <2>1
<1>2. \E k \in Fits : \A j \in Fits : k <= j
  <2>1. Fits \in SUBSET Nat BY GranulesFinite
  <2> HIDE DEF Fits
  <2> QED BY <1>1, <2>1, LeastNumber
<1>3. n \in Fits
  <2> HIDE DEF Fits
  <2> QED BY <1>1, <1>2
<1>4. Chain[n] # 0 BY <1>3, StartIsPositive DEF FreeNode, HeaderValid
<1>5. Chain[n] \in F \cup {0} BY <1>3, PlacesHold DEF Place
<1> QED BY <1>3, <1>4, <1>5

LEMMA InsertIs ==
    ASSUME NEW F, Good(mem, heap_ptr, heap_free, live, F), NEW b \in Nat, b \notin F, b # 0,
           NEW p, p = PrevOf(b), NEW c, c = NextOf(b)
    PROVE  Around(F, heap_free, b, p, c)
<1> DEFINE I == {n \in 0..MaxChain : Chain[n] = 0 \/ Chain[n] >= b}
           At(n) == /\ Chain[n] = 0 \/ Chain[n] >= b
                    /\ \A k \in 0..n - 1 : Chain[k] # 0 /\ Chain[k] < b
<1>1. MaxChain \in Nat BY GranulesFinite
<1>2. ASSUME NEW n \in 0..MaxChain PROVE Chain[n] \in F \cup {0} /\ Chain[n] \in Nat
  <2>1. Chain[n] \in F \cup {0} BY PlacesHold DEF Place
  <2>2. \A x \in F : x \in Nat BY BlockKnown
  <2> QED BY <2>1, <2>2
<1>3. \E n \in 0..MaxChain : At(n)
  <2>1. I \in SUBSET Nat /\ MaxChain \in I BY <1>1, ChainEnds
  <2>2. PICK n \in I : \A j \in I : n <= j
    <3> HIDE DEF I
    <3> QED BY <2>1, LeastNumber
  <2>3. ASSUME NEW k \in 0..n - 1 PROVE Chain[k] # 0 /\ Chain[k] < b
    <3>1. k \in 0..MaxChain /\ k \notin I BY <1>1, <2>2
    <3>2. ~(Chain[k] = 0 \/ Chain[k] >= b) BY <3>1
    <3> QED BY <1>2, <3>1, <3>2
  <2> QED BY <2>2, <2>3
<1>4. PICK n : n = InsertAt(b) OBVIOUS
<1>5. n \in 0..MaxChain /\ At(n)
  <2>1. n = CHOOSE k \in 0..MaxChain : At(k) BY <1>4 DEF InsertAt
  <2> HIDE DEF At
  <2> QED BY <1>3, <2>1
<1>6. p = (IF n = 0 THEN 0 ELSE Chain[n - 1]) /\ c = Chain[n] BY <1>4 DEF PrevOf, NextOf
<1>7. n # 0 => n - 1 \in 0..n - 1 BY <1>1, <1>5
<1>8. n # 0 => Chain[n - 1] # 0 /\ Chain[n - 1] < b BY <1>5, <1>7
<1>9. p \in F \cup {0} /\ c \in F \cup {0} /\ After(F, p, c) /\ (p = 0 => heap_free = c)
  BY <1>5, <1>6, <1>8, PrevIs
<1>10. p < b BY <1>6, <1>8
<1>11. c = 0 \/ b < c
  <2>1. c \in Nat /\ (c = 0 \/ c >= b) BY <1>2, <1>5, <1>6
  <2>2. c # b BY <1>9
  <2> QED BY <2>1, <2>2
<1> QED BY <1>9, <1>10, <1>11 DEF Around

-----------------------------------------------------------------------------
(* The steps.                                                                 *)

(* What the free blocks that touch another one may be, while a block b goes   *)
(* between p and c.                                                           *)
TouchOnly(m, F, b, p, c) ==
    \A x \in F : x + m[x].size \in F =>
        \/ x = b /\ b + m[b].size = c
        \/ x = p /\ p + m[p].size = b

LEMMA NextMerged ==
    ASSUME NEW m, NEW top, NEW head, NEW L, NEW F, Good(m, top, head, L, F), NEW b \in F,
           NEW p \in F \cup {0}, NEW c \in F \cup {0}, p < b, c = 0 \/ b < c,
           TouchOnly(m, F, b, p, c), NEW w, w = MergeNext(m, b, c)
    PROVE  \E G \in SUBSET F : /\ Good(w, top, head, L, G) /\ b \in G /\ p \in G \cup {0}
                               /\ TouchOnly(w, G, b, p, 0)
<1>1. /\ \A x \in F : x \in Nat /\ x >= 1 /\ m[x].size \in Nat /\ m[x].size >= 48
      /\ p \in Nat /\ c \in Nat /\ p # b /\ c # b /\ (p # 0 => p # c)
  <2>1. \A x \in F : x \in Nat /\ x >= 1 /\ m[x].size \in Nat /\ m[x].size >= 48 BY BlockKnown
  <2> QED BY <2>1
<1>2. CASE c # 0 /\ b + m[b].size = c
  <2>1. w = WriteHeader(m, b, Hdr(m[c].next, m[b].size + m[c].size, Free)) BY <1>2 DEF MergeNext
  <2>2. /\ Good(w, top, head, L, F \ {c}) /\ w[b].size = m[b].size + m[c].size
        /\ Sized(m, w, F \ {b, c})
    BY <1>2, <2>1, MergeGood
  <2>3. c + m[c].size \notin F BY <1>1, <1>2 DEF TouchOnly
  <2>4. b + w[b].size = c + m[c].size
    <3>1. PICK i \in Nat, j \in Nat : i = m[b].size /\ j = m[c].size BY <1>1, <1>2
    <3>2. w[b].size = i + j /\ b + i = c /\ b \in Nat BY <1>1, <1>2, <2>2, <3>1
    <3> QED BY <3>1, <3>2
  <2>5. ASSUME NEW x \in F \ {c}, x + w[x].size \in F \ {c} PROVE x = p /\ p + w[p].size = b
    <3>1. x # b BY <2>3, <2>4, <2>5
    <3>2. w[x].size = m[x].size BY <2>2, <3>1 DEF Sized
    <3> QED BY <2>5, <3>1, <3>2 DEF TouchOnly
  <2>6. TouchOnly(w, F \ {c}, b, p, 0) BY <2>5 DEF TouchOnly
  <2>7. b \in F \ {c} /\ p \in (F \ {c}) \cup {0} /\ F \ {c} \in SUBSET F BY <1>1
  <2> QED BY <2>2, <2>6, <2>7
<1>3. CASE ~(c # 0 /\ b + m[b].size = c)
  <2>1. w = m BY <1>3 DEF MergeNext
  <2>2. b + m[b].size # 0 BY <1>1
  <2>3. TouchOnly(w, F, b, p, 0)
    <3>1. ASSUME NEW x \in F, x + m[x].size \in F PROVE x = p /\ p + m[p].size = b
      <4>1. x = b /\ b + m[b].size = c => c # 0 BY <2>2
      <4> QED BY <1>3, <3>1, <4>1 DEF TouchOnly
    <3> QED BY <2>1, <3>1 DEF TouchOnly
  <2> QED BY <2>1, <2>3
<1> QED BY <1>2, <1>3

LEMMA PrevMerged ==
    ASSUME NEW m, NEW top, NEW head, NEW L, NEW F, Good(m, top, head, L, F), NEW b \in F,
           NEW p \in F \cup {0}, p # b, TouchOnly(m, F, b, p, 0), NEW w, w = MergePrev(m, b, p)
    PROVE  \E G \in SUBSET F : Good(w, top, head, L, G) /\ Apart(w, G)
<1>1. \A x \in F : x \in Nat /\ x >= 1 /\ m[x].size \in Nat /\ m[x].size >= 48 BY BlockKnown
<1>2. ASSUME NEW x \in F, x + m[x].size \in F PROVE x = p /\ p + m[p].size = b
  BY <1>1, <1>2 DEF TouchOnly
<1>3. CASE p # 0 /\ p + m[p].size = b
  <2>1. w = WriteHeader(m, p, Hdr(m[b].next, m[p].size + m[b].size, Free)) BY <1>3 DEF MergePrev
  <2>2. p \in F BY <1>3
  <2>3. /\ Good(w, top, head, L, F \ {b}) /\ w[p].size = m[p].size + m[b].size
        /\ Sized(m, w, F \ {p, b})
    BY <1>3, <2>1, <2>2, MergeGood
  <2>4. p + w[p].size = b + m[b].size BY <1>1, <1>3, <2>2, <2>3
  <2>5. ASSUME NEW x \in F \ {b} PROVE x + w[x].size \notin F \ {b}
    <3>1. x = p => x + w[x].size \notin F BY <1>2, <2>4
    <3>2. x # p => w[x].size = m[x].size BY <2>3 DEF Sized
    <3> QED BY <1>2, <3>1, <3>2
  <2> QED BY <2>3, <2>5 DEF Apart
<1>4. CASE ~(p # 0 /\ p + m[p].size = b)
  <2>1. w = m BY <1>4 DEF MergePrev
  <2>2. \A x \in F : x + m[x].size \notin F BY <1>1, <1>2, <1>4
  <2> QED BY <2>1, <2>2 DEF Apart
<1> QED BY <1>3, <1>4

LEMMA GoodTyped ==
    ASSUME NEW m, NEW top, NEW head, NEW L, NEW F, Good(m, top, head, L, F)
    PROVE  /\ F \in SUBSET Granules /\ m \in [Granules -> Contents] /\ top \in Granules
           /\ head \in Granules \cup {0}
           /\ L \subseteq [ptr : Granules, size : Nat, written : BOOLEAN]
<1>1. head \in Granules \cup {0} BY DEF Good, Linked, After
<1> QED BY <1>1 DEF Good, Records

(* A live pointer, and only that, is one that kfree accepts.                  *)
LEMMA HeldIsAccepted ==
    ASSUME NEW F, Good(mem, heap_ptr, heap_free, live, F), NEW b
    PROVE  /\ b \in Starts(live) => HeaderValid(mem, heap_ptr, b) /\ mem[b].state = Used
           /\ HeaderValid(mem, heap_ptr, b) /\ mem[b].state = Used => b \in Starts(live)
<1>1. b \in Starts(live) => HeaderValid(mem, heap_ptr, b) /\ mem[b].state = Used
  <2>1. b \in Starts(live) => HeaderValid(mem, heap_ptr, b) BY BlockKnown
  <2> QED BY <2>1 DEF Good, Cut
<1>2. HeaderValid(mem, heap_ptr, b) /\ mem[b].state = Used => b \in Starts(live)
  BY DEF Good, Cut, HeaderValid
<1> QED BY <1>1, <1>2

LEMMA FreeStep ==
    ASSUME HeapInv, NEW q \in Int, kfree(q)
    PROVE  HeapInv' /\ \E r \in live : r.ptr = q /\ live' = live \ {r}
<1>1. PICK F \in SUBSET Granules : Good(mem, heap_ptr, heap_free, live, F) /\ Apart(mem, F)
  BY DEF HeapInv
<1>2. PICK b \in Int : b = q - Header BY DEF Header
<1>3. b \in Starts(live)
  <2>1. HeaderValid(mem, heap_ptr, b) /\ mem[b].state = Used BY <1>2 DEF kfree, PointerAccepted
  <2> QED BY <1>1, <2>1, HeldIsAccepted
<1>4. PICK r \in live : r.ptr - Header = b BY <1>3 DEF Starts
<1>5. live \subseteq Records /\ Held(mem, live) BY <1>1 DEF Good
<1>6. r.ptr = q
  <2>1. r.ptr \in Nat BY <1>5, GranuleIs DEF Records
  <2> QED BY <1>2, <1>4, <2>1 DEF Header
<1>7. live' = live \ {r}
  <2>1. live' = {s \in live : s.ptr # q} BY DEF kfree
  <2>2. \A s \in live : s.ptr = q => s = r BY <1>5, <1>6 DEF Held
  <2> QED BY <1>6, <2>1, <2>2
<1>8. PICK p : p = PrevOf(b) OBVIOUS
<1>9. PICK c : c = NextOf(b) OBVIOUS
<1>10. PICK w : Links(mem, b, p, c, w) BY DEF Links
<1>11. PICK head2 : head2 = IF p = 0 THEN b ELSE heap_free OBVIOUS
<1>12. mem' = MergePrev(MergeNext(w, b, c), b, p) /\ heap_free' = head2 /\ heap_ptr' = heap_ptr
  BY <1>2, <1>8, <1>9, <1>10, <1>11 DEF kfree, Links
<1>13. /\ \A x \in F : x \in Nat /\ x >= 1 /\ mem[x].size \in Nat /\ mem[x].size >= 48
       /\ b \in Nat /\ b # 0 /\ b \notin F /\ mem[b].size \in Nat /\ mem[b].size >= 48
  <2>1. \A x \in F : x \in Nat /\ x >= 1 /\ mem[x].size \in Nat /\ mem[x].size >= 48
    BY <1>1, BlockKnown
  <2>2. b \in Nat /\ b >= 1 /\ mem[b].size \in Nat /\ mem[b].size >= 48 BY <1>1, <1>3, BlockKnown
  <2>3. b \notin F BY <1>1, <1>3, FreeSound
  <2> QED BY <2>1, <2>2, <2>3
<1>14. Around(F, heap_free, b, p, c) BY <1>1, <1>8, <1>9, <1>13, InsertIs
<1>15. /\ Good(w, heap_ptr, head2, live \ {r}, F \cup {b})
       /\ Sized(mem, w, F \cup {b})
  BY <1>1, <1>3, <1>4, <1>10, <1>11, <1>14, LinkGood
<1>16. /\ p \in F \cup {0} /\ c \in F \cup {0} /\ p < b /\ (c = 0 \/ b < c) /\ p \in Nat /\ c \in Nat
       /\ \A x \in F : x <= p \/ (c # 0 /\ c <= x)
  BY <1>13, <1>14 DEF Around, After
<1>17. TouchOnly(w, F \cup {b}, b, p, c)
  <2>1. ASSUME NEW x \in F, b + mem[b].size = x PROVE x = c
    <3>1. c # 0 /\ c <= x BY <1>13, <1>16, <2>1
    <3>2. c \in F /\ b < c BY <1>16, <3>1
    <3>3. b + mem[b].size <= c BY <1>1, <1>3, <1>13, <3>2, BlocksApart
    <3> QED BY <1>13, <1>16, <2>1, <3>1, <3>3
  <2>2. ASSUME NEW x \in F, x + mem[x].size = b PROVE x = p
    <3>1. x <= p BY <1>13, <1>16, <2>2
    <3>2. p \in F BY <1>13, <1>16, <3>1
    <3>3. x # p => (x < p => x + mem[x].size <= p) BY <1>1, <3>2, BlocksApart
    <3>4. x \in Nat /\ p \in Nat /\ p < b BY <1>13, <1>16
    <3> QED BY <2>2, <3>1, <3>3, <3>4
  <2>3. \A x \in F : x + mem[x].size \notin F BY <1>1 DEF Apart
  <2>4. b + mem[b].size # b BY <1>13
  <2> QED BY <1>15, <2>1, <2>2, <2>3, <2>4 DEF TouchOnly, Sized
<1>18. PICK v : v = MergeNext(w, b, c) OBVIOUS
<1>19. PICK G : /\ Good(v, heap_ptr, head2, live \ {r}, G) /\ b \in G /\ p \in G \cup {0}
                /\ TouchOnly(v, G, b, p, 0)
  <2>1. PICK H : H = F \cup {b} OBVIOUS
  <2>2. PICK L : L = live \ {r} OBVIOUS
  <2>3. b \in H /\ p \in H \cup {0} /\ c \in H \cup {0} BY <1>16, <2>1
  <2>4. Good(w, heap_ptr, head2, L, H) /\ TouchOnly(w, H, b, p, c) BY <1>15, <1>17, <2>1, <2>2
  <2>5. \E G \in SUBSET H : /\ Good(v, heap_ptr, head2, L, G) /\ b \in G /\ p \in G \cup {0}
                            /\ TouchOnly(v, G, b, p, 0)
    BY <1>16, <1>18, <2>3, <2>4, NextMerged
  <2> QED BY <2>2, <2>5
<1>20. p # b BY <1>13, <1>16
<1>21. PICK K \in SUBSET G : Good(mem', heap_ptr, head2, live \ {r}, K) /\ Apart(mem', K)
  BY <1>12, <1>18, <1>19, <1>20, PrevMerged
<1>22. K \in SUBSET Granules BY <1>21 DEF Good
<1>23. Good(mem', heap_ptr', heap_free', live', K) BY <1>7, <1>12, <1>21
<1>24. HeapTypeOK' BY <1>23, GoodTyped DEF HeapTypeOK
<1> QED BY <1>6, <1>7, <1>21, <1>22, <1>23, <1>24 DEF HeapInv

(* A header written twice is the header written last.                         *)
LEMMA HeaderTwice ==
    ASSUME NEW s \in [Granules -> Contents], NEW c \in Granules, NEW g, NEW h, g.kind = "header",
           NEW p, NEW d, p # 0 => p \in Granules /\ p # c /\ p # c + 16 /\ p # c - 16,
           NEW v, v = WriteHeader(s, c, g),
           NEW x, x = (IF p # 0 THEN SetNext(v, p, d) ELSE v),
           NEW y, y = (IF p # 0 THEN SetNext(s, p, d) ELSE s)
    PROVE  WriteHeader(x, c, h) = WriteHeader(y, c, h)
<1>1. c \in Nat BY GranuleIs
<1>2. \A a \in Granules : v[a] = IF a = c THEN g
                                 ELSE IF a = c + 16 \/ (a = c - 16 /\ s[a].kind = "header") THEN Garbage
                                 ELSE s[a]
  BY DEF WriteHeader
<1>3. DOMAIN v = Granules /\ DOMAIN s = Granules BY DEF WriteHeader
<1>4. p # 0 => v[p] = s[p] BY <1>2
<1>5. ASSUME NEW a \in Granules
      PROVE  /\ a # p => x[a] = v[a] /\ y[a] = s[a]
             /\ a = p => x[a] = y[a]
  <2>1. CASE p = 0
    <3>1. x = v /\ y = s /\ a # p BY <2>1, StartIsPositive
    <3> QED BY <3>1
  <2>2. CASE p # 0
    <3>1. x = [v EXCEPT ![p].next = d] /\ y = [s EXCEPT ![p].next = d] BY <2>2 DEF SetNext
    <3>2. p \in Granules BY <2>2
    <3>3. x[p] = [v[p] EXCEPT !.next = d] /\ y[p] = [s[p] EXCEPT !.next = d] BY <1>3, <3>1, <3>2
    <3>4. a # p => x[a] = v[a] /\ y[a] = s[a] BY <1>3, <3>1
    <3> QED BY <1>4, <2>2, <3>3, <3>4
  <2> QED BY <2>1, <2>2
<1>6. PICK X : X = WriteHeader(x, c, h) OBVIOUS
<1>7. PICK Y : Y = WriteHeader(y, c, h) OBVIOUS
<1>8. ASSUME NEW a \in Granules PROVE X[a] = Y[a]
  <2>1. X[a] = IF a = c THEN h
               ELSE IF a = c + 16 \/ (a = c - 16 /\ x[a].kind = "header") THEN Garbage ELSE x[a]
    BY <1>6 DEF WriteHeader
  <2>2. Y[a] = IF a = c THEN h
               ELSE IF a = c + 16 \/ (a = c - 16 /\ y[a].kind = "header") THEN Garbage ELSE y[a]
    BY <1>7 DEF WriteHeader
  <2>3. CASE a = p BY <1>5, <2>1, <2>2, <2>3
  <2>4. CASE a # p /\ a # c /\ a # c + 16
    <3>1. x[a] = v[a] /\ y[a] = s[a] BY <1>5, <2>4
    <3>2. v[a] = IF a = c - 16 /\ s[a].kind = "header" THEN Garbage ELSE s[a] BY <1>2, <2>4
    <3>3. Garbage.kind # "header" BY Plain
    <3> QED BY <2>1, <2>2, <2>4, <3>1, <3>2, <3>3
  <2>5. CASE a = c \/ a = c + 16 BY <2>1, <2>2, <2>5
  <2> QED BY <2>3, <2>4, <2>5
<1>9. X \in [Granules -> UNION {{X[a]} : a \in Granules}] /\ DOMAIN Y = Granules
      /\ X = [a \in Granules |-> X[a]] /\ Y = [a \in Granules |-> Y[a]]
  BY <1>6, <1>7 DEF WriteHeader
<1> QED BY <1>6, <1>7, <1>8, <1>9

(* A block is handed out that no caller holds.                                *)
Grows(size) == \E at \in Granules : at \notin Starts(live) /\ Hold(at, size)

LEMMA ListStep ==
    ASSUME HeapInv, NEW size \in Int, AllocFromList(size)
    PROVE  HeapInv' /\ Grows(size)
<1>1. PICK F \in SUBSET Granules : Good(mem, heap_ptr, heap_free, live, F) /\ Apart(mem, F)
  BY DEF HeapInv
<1>2. size \in Nat /\ size >= 1 BY DEF AllocFromList
<1>3. PICK req : req = RoundUp(size) OBVIOUS
<1>4. req \in Nat /\ req % 16 = 0 /\ req >= MinBlock /\ req >= Header + size
  BY <1>2, <1>3, RoundUpEnough
<1>5. PICK n : n = FirstFit(req) OBVIOUS
<1>6. n >= 0 BY <1>3, <1>5 DEF AllocFromList
<1>7. PICK c : c = Chain[n] OBVIOUS
<1>8. PICK p : p = IF n = 0 THEN 0 ELSE Chain[n - 1] OBVIOUS
<1>9. n \in 0..MaxChain /\ c \in F /\ mem[c].size >= req BY <1>1, <1>5, <1>6, <1>7, FitIs
<1>10. /\ \A x \in F : x \in Nat /\ x >= 1 /\ mem[x].size \in Nat
       /\ c \in Nat /\ c >= 1 /\ c \in Granules /\ c \notin Starts(live) /\ mem[c].size \in Nat
       /\ mem \in [Granules -> Contents] /\ \A x \in F : x + mem[x].size \notin F
  <2>1. \A x \in F : x \in Nat /\ x >= 1 /\ mem[x].size \in Nat BY <1>1, BlockKnown
  <2>2. c \notin Starts(live) BY <1>1, <1>9, FreeSound
  <2> QED BY <1>1, <1>9, <2>1, <2>2 DEF Good, Apart
<1>11. p \in F \cup {0} /\ After(F, p, c) /\ (p = 0 => heap_free = c)
  <2>1. n # 0 => Chain[n - 1] # 0
    <3>1. Place(F, n) BY <1>1, <1>9, PlacesHold
    <3>2. Chain[n] # 0 BY <1>7, <1>9, <1>10
    <3> QED BY <3>1, <3>2 DEF Place
  <2> QED BY <1>1, <1>7, <1>8, <1>9, <2>1, PrevIs
<1>12. PICK r : r = [ptr |-> c + Header, size |-> size, written |-> FALSE] OBVIOUS
<1>13. /\ mem' = TakeFree(n, req).mem /\ heap_free' = TakeFree(n, req).head
       /\ Hold(TakeFree(n, req).at, size) /\ heap_ptr' = heap_ptr
  BY <1>3, <1>5 DEF AllocFromList
<1>14. TakeFree(n, req).at = c BY <1>7 DEF TakeFree
<1>15. live' = live \cup {r} /\ Grows(size)
  <2>1. Hold(c, size) BY <1>13, <1>14
  <2>2. live' = live \cup {r} BY <1>12, <2>1 DEF Hold
  <2> QED BY <1>10, <2>1, <2>2 DEF Grows
<1>16. CASE mem[c].size - req >= MinBlock
  <2>1. PICK d : d = c + req OBVIOUS
  <2>2. PICK s : s = WriteHeader(mem, d, Hdr(mem[c].next, mem[c].size - req, Free)) OBVIOUS
  <2>3. PICK m1 : m1 = IF p # 0 THEN SetNext(s, p, d) ELSE s OBVIOUS
  <2>4. /\ mem' = WriteHeader(m1, c, Hdr(0, req, Used))
        /\ heap_free' = IF p # 0 THEN heap_free ELSE d
    BY <1>7, <1>8, <1>13, <1>16, <2>1, <2>2, <2>3 DEF TakeFree
  <2>5. PICK w : w = WriteHeader(s, c, Hdr(d, req, Free)) OBVIOUS
  <2>6. /\ Good(w, heap_ptr, heap_free, live, F \cup {d})
        /\ d \in Granules /\ d \notin F
        /\ s \in [Granules -> Contents]
        /\ w[c] = Hdr(d, req, Free) /\ w[c].size = req /\ w[d].size = mem[c].size - req
        /\ Sized(mem, w, F \ {c})
    <3>1. Splits(mem, c, req, d, s, w) BY <2>1, <2>2, <2>5 DEF Splits
    <3> QED BY <1>1, <1>4, <1>9, <1>16, <3>1, SplitGood
  <2>7. PICK G : G = F \cup {d} OBVIOUS
  <2>8. c \in G /\ p \in G \cup {0} /\ After(G, p, c)
    <3>1. c <= d /\ c # 0 BY <1>4, <1>10, <2>1
    <3> QED BY <1>9, <1>11, <2>7, <3>1 DEF After
  <2>9. PICK m2 : m2 = IF p # 0 THEN SetNext(w, p, w[c].next) ELSE w OBVIOUS
  <2>10. w[c].next = d /\ Hdr(d, req, Free).kind = "header" BY <2>6 DEF Hdr
  <2>11. p # 0 => p \in Granules /\ p # c /\ p # c + 16 /\ p # c - 16
    <3>1. p # 0 => p \in F /\ p # c BY <1>10, <1>11 DEF After
    <3> QED BY <1>1, <1>9, <3>1, BlocksApart
  <2>12. mem' = WriteHeader(m2, c, Hdr(0, w[c].size, Used))
    <3>1. m2 = IF p # 0 THEN SetNext(w, p, d) ELSE w BY <2>9, <2>10
    <3>2. PICK g, h : g = Hdr(d, req, Free) /\ h = Hdr(0, req, Used) OBVIOUS
    <3>3. g.kind = "header" /\ w = WriteHeader(s, c, g) BY <2>5, <2>10, <3>2
    <3>4. WriteHeader(m2, c, h) = WriteHeader(m1, c, h)
      BY <1>10, <2>3, <2>6, <2>11, <3>1, <3>3, HeaderTwice
    <3> QED BY <2>4, <2>6, <3>2, <3>4
  <2>13. heap_free' = IF p # 0 THEN heap_free ELSE w[c].next BY <2>4, <2>10
  <2>14. Good(mem', heap_ptr, heap_free', live \cup {r}, G \ {c}) /\ Sized(w, mem', G)
    <3>1. Good(w, heap_ptr, heap_free, live, G) /\ (p = 0 => heap_free = c) BY <1>11, <2>6, <2>7
    <3>2. size \in Nat /\ size >= 1 /\ Header + size <= w[c].size BY <1>2, <1>4, <2>6 DEF Header
    <3>3. Takes(w, heap_free, G, c, p, mem', heap_free')
      BY <2>8, <2>9, <2>12, <2>13, <3>1 DEF Takes
    <3> QED BY <1>2, <1>12, <2>8, <3>1, <3>2, <3>3, TakeGood
  <2>15. Apart(mem', G \ {c})
    <3>1. \A x \in G \ {c} : mem'[x].size = w[x].size BY <2>14 DEF Sized
    <3>2. ASSUME NEW x \in F \ {c} PROVE x + w[x].size \notin G
      <4>1. w[x].size = mem[x].size /\ x + mem[x].size \notin F BY <1>10, <2>6 DEF Sized
      <4>2. x + w[x].size # d
        <5>1. (x < c => x + mem[x].size <= c) /\ (c < x => c + mem[c].size <= x)
          BY <1>1, <1>9, BlocksApart
        <5>2. c < d /\ d < c + mem[c].size
          <6>1. req >= 48 /\ mem[c].size - req >= 48 BY <1>4, <1>16 DEF MinBlock
          <6> QED BY <1>4, <1>10, <2>1, <6>1
        <5>3. x \in Nat /\ mem[x].size \in Nat /\ x # c /\ d \in Nat BY <1>4, <1>10, <2>1
        <5> QED BY <1>10, <4>1, <5>1, <5>2, <5>3
      <4> QED BY <2>7, <4>1, <4>2
    <3>3. d + w[d].size \notin G
      <4>1. d + w[d].size = c + mem[c].size BY <1>4, <1>10, <2>1, <2>6
      <4>2. c + mem[c].size # d
        <5>1. mem[c].size - req >= 48 BY <1>16 DEF MinBlock
        <5> QED BY <1>4, <1>10, <2>1, <5>1
      <4> QED BY <1>9, <1>10, <2>7, <4>1, <4>2
    <3> QED BY <2>7, <3>1, <3>2, <3>3 DEF Apart
  <2>16. Good(mem', heap_ptr', heap_free', live', G \ {c}) BY <1>13, <1>15, <2>14
  <2>17. HeapTypeOK' /\ G \ {c} \in SUBSET Granules BY <2>16, GoodTyped DEF HeapTypeOK
  <2> QED BY <1>15, <2>15, <2>16, <2>17 DEF HeapInv
<1>17. CASE ~(mem[c].size - req >= MinBlock)
  <2>1. PICK m2 : m2 = IF p # 0 THEN SetNext(mem, p, mem[c].next) ELSE mem OBVIOUS
  <2>2. /\ mem' = WriteHeader(m2, c, Hdr(0, mem[c].size, Used))
        /\ heap_free' = IF p # 0 THEN heap_free ELSE mem[c].next
    BY <1>7, <1>8, <1>13, <1>17, <2>1 DEF TakeFree
  <2>3. size \in Nat /\ size >= 1 /\ Header + size <= mem[c].size BY <1>2, <1>4, <1>9, <1>10 DEF Header
  <2>4. Takes(mem, heap_free, F, c, p, mem', heap_free') BY <1>11, <2>1, <2>2 DEF Takes
  <2>5. Good(mem', heap_ptr, heap_free', live \cup {r}, F \ {c}) /\ Sized(mem, mem', F)
    BY <1>1, <1>9, <1>11, <1>12, <2>3, <2>4, TakeGood
  <2>6. Apart(mem', F \ {c}) BY <1>10, <2>5 DEF Apart, Sized
  <2>7. Good(mem', heap_ptr', heap_free', live', F \ {c}) BY <1>13, <1>15, <2>5
  <2>8. HeapTypeOK' /\ F \ {c} \in SUBSET Granules BY <2>7, GoodTyped DEF HeapTypeOK
  <2> QED BY <1>15, <2>6, <2>7, <2>8 DEF HeapInv
<1> QED BY <1>16, <1>17

LEMMA TopStep ==
    ASSUME HeapInv, NEW size \in Int, AllocFromTop(size)
    PROVE  HeapInv' /\ Grows(size)
<1>1. PICK F \in SUBSET Granules : Good(mem, heap_ptr, heap_free, live, F) /\ Apart(mem, F)
  BY DEF HeapInv
<1>2. size \in Nat /\ size >= 1 BY DEF AllocFromTop
<1>3. PICK req : req = RoundUp(size) OBVIOUS
<1>4. req \in Nat /\ req % 16 = 0 /\ req >= MinBlock /\ req >= Header + size
  BY <1>2, <1>3, RoundUpEnough
<1>5. PICK r : r = [ptr |-> heap_ptr + Header, size |-> size, written |-> FALSE] OBVIOUS
<1>6. /\ heap_ptr + req <= HeapLimit /\ heap_ptr' = heap_ptr + req /\ heap_free' = heap_free
      /\ mem' = WriteHeader(mem, heap_ptr, Hdr(0, req, Used)) /\ Hold(heap_ptr, size)
  BY <1>3 DEF AllocFromTop
<1>7. live' = live \cup {r} BY <1>5, <1>6 DEF Hold
<1>8. /\ Good(mem', heap_ptr', heap_free, live \cup {r}, F)
      /\ Sized(mem, mem', F) /\ heap_ptr \notin Starts(live)
  <2>1. Header + size <= req BY <1>2, <1>4 DEF Header
  <2>2. Extends(mem, heap_ptr, req, mem', heap_ptr') BY <1>6 DEF Extends
  <2>3. heap_ptr + req <= HeapLimit BY <1>6
  <2>4. Good(mem, heap_ptr, heap_free, live, F) BY <1>1
  <2>5. Good(mem', heap_ptr', heap_free, live \cup {r}, F) BY <1>2, <1>4, <1>5, <2>1, <2>2, <2>3, <2>4, TopGood
  <2>6. Sized(mem, mem', F) BY <1>2, <1>4, <1>5, <2>1, <2>2, <2>3, <2>4, TopGood
  <2>7. heap_ptr \notin Starts(live) BY <1>2, <1>4, <1>5, <2>1, <2>2, <2>3, <2>4, TopGood
  <2> QED BY <2>5, <2>6, <2>7
<1>9. Apart(mem', F) BY <1>1, <1>8 DEF Apart, Sized
<1>10. Good(mem', heap_ptr', heap_free', live', F) BY <1>6, <1>7, <1>8
<1>11. HeapTypeOK' BY <1>10, GoodTyped DEF HeapTypeOK
<1>12. Grows(size)
  <2>1. heap_ptr \in Granules BY <1>1 DEF Good
  <2> QED BY <1>6, <1>8, <2>1 DEF Grows
<1> QED BY <1>9, <1>10, <1>11, <1>12 DEF HeapInv

LEMMA WriteStep ==
    ASSUME HeapInv, NEW r \in live, ClientWrite(r)
    PROVE  HeapInv' /\ \E t : live' = (live \ {r}) \cup {t} /\ t.ptr = r.ptr /\ t.size = r.size
<1>1. PICK F \in SUBSET Granules : Good(mem, heap_ptr, heap_free, live, F) /\ Apart(mem, F)
  BY DEF HeapInv
<1>2. PICK t : t = [r EXCEPT !.written = TRUE] OBVIOUS
<1>3. /\ Fills(mem, r, mem', t)
      /\ live' = (live \ {r}) \cup {t} /\ heap_ptr' = heap_ptr /\ heap_free' = heap_free
  BY <1>2 DEF ClientWrite, Fills
<1>4. /\ Good(mem', heap_ptr, heap_free, (live \ {r}) \cup {t}, F)
      /\ Sized(mem, mem', F)
      /\ t.ptr = r.ptr /\ t.size = r.size
  <2>1. Good(mem, heap_ptr, heap_free, live, F) /\ Fills(mem, r, mem', t) BY <1>1, <1>3
  <2>2. Good(mem', heap_ptr, heap_free, (live \ {r}) \cup {t}, F) BY <2>1, WriteGood
  <2>3. Sized(mem, mem', F) BY <2>1, WriteGood
  <2>4. t.ptr = r.ptr /\ t.size = r.size
    <3>1. r \in Records BY <1>1 DEF Good
    <3>2. r = [ptr |-> r.ptr, size |-> r.size, written |-> r.written] BY <3>1 DEF Records
    <3>3. t = [ptr |-> r.ptr, size |-> r.size, written |-> TRUE] BY <1>2, <3>2
    <3> QED BY <3>3
  <2> QED BY <2>2, <2>3, <2>4
<1>5. Apart(mem', F) BY <1>1, <1>4 DEF Apart, Sized
<1>6. Good(mem', heap_ptr', heap_free', live', F) BY <1>3, <1>4
<1>7. HeapTypeOK' BY <1>6, GoodTyped DEF HeapTypeOK
<1> QED BY <1>1, <1>3, <1>4, <1>5, <1>6, <1>7 DEF HeapInv

LEMMA HeapInitInv == HeapInit => HeapInv
<1> SUFFICES ASSUME HeapInit PROVE HeapInv OBVIOUS
<1>1. mem \in [Granules -> Contents] /\ \A a \in Granules : mem[a].kind # "header"
  BY Plain DEF HeapInit
<1>2. heap_ptr = HeapStart /\ heap_ptr \in Granules /\ HeapStart \in Nat
      /\ heap_free = 0 /\ live = {} /\ Starts(live) = {}
  BY StartIsPositive, GranuleIs DEF HeapInit, Starts
<1>3. Cut(mem, heap_ptr, Starts(live), {})
  <2>1. ~(heap_ptr > HeapStart) BY <1>2
  <2> QED BY <1>1, <1>2, <2>1 DEF Cut
<1>4. Linked(mem, heap_free, {}) BY <1>2 DEF Linked, After
<1>5. Held(mem, live) BY <1>2 DEF Held
<1>6. Good(mem, heap_ptr, heap_free, live, {}) BY <1>1, <1>2, <1>3, <1>4, <1>5 DEF Good
<1>7. HeapTypeOK BY <1>6, GoodTyped DEF HeapTypeOK
<1>8. Apart(mem, {}) /\ {} \in SUBSET Granules BY DEF Apart
<1> QED BY <1>6, <1>7, <1>8 DEF HeapInv

LEMMA HeapStep == HeapInv /\ [HeapNext]_heapVars => HeapInv'
<1> SUFFICES ASSUME HeapInv, [HeapNext]_heapVars PROVE HeapInv' OBVIOUS
<1>1. ASSUME NEW size \in Sizes, AllocFromList(size) PROVE HeapInv'
  <2>1. size \in Int BY HeapAssumptions
  <2> QED BY <1>1, <2>1, ListStep
<1>2. ASSUME NEW size \in Sizes, AllocFromTop(size) PROVE HeapInv'
  <2>1. size \in Int BY HeapAssumptions
  <2> QED BY <1>2, <2>1, TopStep
<1>3. ASSUME NEW p \in 0..HeapLimit, kfree(p) PROVE HeapInv'
  <2>1. p \in Int BY StartIsPositive
  <2> QED BY <1>3, <2>1, FreeStep
<1>4. ASSUME NEW r \in live, ClientWrite(r) PROVE HeapInv' BY <1>4, WriteStep
<1>5. CASE UNCHANGED heapVars
  BY <1>5 DEF heapVars, HeapInv, HeapTypeOK
<1> QED BY <1>1, <1>2, <1>3, <1>4, <1>5 DEF HeapNext

LEMMA HeapInvHolds == HeapSpec => []HeapInv
BY HeapInitInv, HeapStep, PTL DEF HeapSpec

-----------------------------------------------------------------------------
(* What the invariant says of the code.                                       *)

(* The type invariant of the heap holds for every heap size and all sizes     *)
(* asked for.                                                                 *)
THEOREM HeapTyped == HeapSpec => []HeapTypeOK
<1>1. HeapInv => HeapTypeOK BY DEF HeapInv
<1> QED BY <1>1, HeapInvHolds, PTL

LEMMA UsedAreStarts == UsedBlocks = Starts(live)
BY DEF UsedBlocks, Starts

LEMMA CutFollows == HeapInv => HeapCutExactly
<1> SUFFICES ASSUME HeapInv PROVE HeapCutExactly OBVIOUS
<1>1. PICK F \in SUBSET Granules : Good(mem, heap_ptr, heap_free, live, F) /\ Apart(mem, F)
  BY DEF HeapInv
<1>2. FreeBlocks = F BY <1>1, ChainEnds
<1>3. Cut(mem, heap_ptr, UsedBlocks, FreeBlocks) BY <1>1, <1>2, UsedAreStarts DEF Good
<1>4. IsTiling(UsedBlocks \cup FreeBlocks) BY <1>3 DEF Cut, Sound, IsTiling
<1>5. \A b \in FreeBlocks : FreeNode(mem, heap_ptr, b) BY <1>1, <1>2, FreeSound
<1>6. ASSUME NEW n \in 1..MaxChain, Chain[n] # 0 PROVE Chain[n - 1] < Chain[n]
  <2>1. n \in 0..MaxChain /\ n - 1 \in 0..n - 1 BY GranulesFinite
  <2>2. Place(F, n) BY <1>1, <2>1, PlacesHold
  <2> QED BY <1>6, <2>1, <2>2 DEF Place
<1>7. \A b \in FreeBlocks : b + mem[b].size \notin FreeBlocks BY <1>1, <1>2 DEF Apart
<1>8. UsedBlocks \cap FreeBlocks = {} /\ \A b \in UsedBlocks : mem[b].state = Used BY <1>3 DEF Cut
<1> QED BY <1>4, <1>5, <1>6, <1>7, <1>8 DEF HeapCutExactly

(* At every moment the blocks callers hold and those on the free list cut the *)
(* heap up with nothing lost and nothing twice, the list is in address order  *)
(* and sound, and no two free blocks touch: the splits of kmalloc and the     *)
(* merges of kfree keep it so, in any order of calls.                         *)
THEOREM HeapIsCut == HeapSpec => []HeapCutExactly
BY CutFollows, HeapInvHolds, PTL

LEMMA AcceptFollows == HeapInv => FreeAcceptsExactlyLive
<1> SUFFICES ASSUME HeapInv, NEW q \in 0..HeapLimit
             PROVE  /\ PointerAccepted(q) <=> \E r \in live : r.ptr = q
                    /\ PointerAccepted(q) => FitsBetween(q - Header)
  BY DEF FreeAcceptsExactlyLive
<1>1. PICK F \in SUBSET Granules : Good(mem, heap_ptr, heap_free, live, F) /\ Apart(mem, F)
  BY DEF HeapInv
<1>2. q \in Nat /\ live \subseteq Records BY <1>1, StartIsPositive DEF Good
<1>3. PICK b \in Int : b = q - Header BY <1>2 DEF Header
<1>4. ASSUME NEW r \in live PROVE (r.ptr = q) <=> (r.ptr - Header = b)
  <2>1. r.ptr \in Nat BY <1>2, GranuleIs DEF Records
  <2> QED BY <1>2, <1>3, <2>1 DEF Header
<1>5. (\E r \in live : r.ptr = q) <=> b \in Starts(live) BY <1>4 DEF Starts
<1>6. PointerAccepted(q) => b \in Starts(live)
  BY <1>1, <1>3, HeldIsAccepted DEF PointerAccepted
<1>7. ASSUME b \in Starts(live) PROVE PointerAccepted(q) /\ FitsBetween(b)
  <2>1. /\ HeaderValid(mem, heap_ptr, b) /\ mem[b].state = Used
        /\ b \in Granules /\ b \in Nat /\ b # 0 /\ b \notin F /\ b + 32 <= heap_ptr
        /\ mem[b].size \in Nat /\ heap_ptr \in Nat
    BY <1>1, <1>7, BlockKnown, FreeSound, HeldIsAccepted DEF HeaderValid, Header
  <2>2. PointerAccepted(q)
    <3>1. b % 16 = 0 /\ HeapStart <= b /\ HeapStart \in Nat BY <2>1, GranuleIs, StartIsPositive
    <3>2. q = b + 32 BY <1>2, <1>3 DEF Header
    <3>3. q % 16 = 0 BY <2>1, <3>1, <3>2, Sums
    <3>4. q # 0 /\ q >= HeapStart + 32 /\ q <= heap_ptr BY <2>1, <3>1, <3>2
    <3> QED BY <1>3, <2>1, <3>3, <3>4 DEF PointerAccepted, Header
  <2>3. PICK p : p = PrevOf(b) OBVIOUS
  <2>4. PICK c : c = NextOf(b) OBVIOUS
  <2>5. Around(F, heap_free, b, p, c) BY <1>1, <2>1, <2>3, <2>4, InsertIs
  <2>6. p # 0 => p + mem[p].size <= b
    <3>1. p # 0 => p \in F /\ p < b /\ p # b BY <2>1, <2>5 DEF Around
    <3> QED BY <1>1, <1>7, <3>1, BlocksApart
  <2>7. c # 0 => b + mem[b].size <= c
    <3>1. c # 0 => c \in F /\ b < c /\ c # b BY <2>1, <2>5 DEF Around
    <3> QED BY <1>1, <1>7, <3>1, BlocksApart
  <2> QED BY <2>2, <2>3, <2>4, <2>6, <2>7 DEF FitsBetween
<1> QED BY <1>3, <1>5, <1>6, <1>7

(* kfree takes exactly the pointers its callers hold: a pointer freed twice,  *)
(* a wild or a misaligned one is refused, before anything is poisoned,        *)
(* although the headers of blocks that were merged away still lie in memory;  *)
(* and the overlap test that follows the poison refuses none it took.         *)
THEOREM OnlyLiveFreed == HeapSpec => []FreeAcceptsExactlyLive
BY AcceptFollows, HeapInvHolds, PTL

LEMMA KeptFollows == HeapInv => PayloadKept
<1> SUFFICES ASSUME HeapInv, NEW r \in live, r.written, NEW a \in Granules,
                    a >= r.ptr, a < r.ptr + r.size
             PROVE  mem[a] = Data
  BY DEF PayloadKept
<1>1. live \subseteq Records /\ Held(mem, live) BY DEF HeapInv, Good
<1>2. r.ptr \in Nat /\ a \in Nat BY <1>1, GranuleIs DEF Records
<1>3. r.ptr <= a BY <1>2
<1> QED BY <1>1, <1>3 DEF Held

(* What the holder of a block wrote stays until the block is freed: no        *)
(* header, link or poison of another call falls into it.                      *)
THEOREM PayloadStays == HeapSpec => []PayloadKept
BY KeptFollows, HeapInvHolds, PTL

-----------------------------------------------------------------------------
(* The heap implements the abstract allocator.                                *)
Blocks(L) == {[at |-> r.ptr, len |-> r.size] : r \in L}

LEMMA AllocMaps ==
    ASSUME HeapInv, HeapInv', NEW size \in Sizes, size > 0, Grows(size)
    PROVE  Abstract!Alloc
<1>1. size \in Nat /\ size >= 1 BY HeapAssumptions
<1>2. PICK c \in Granules : c \notin Starts(live) /\ Hold(c, size) BY DEF Grows
<1>3. PICK n : n = [ptr |-> c + Header, size |-> size, written |-> FALSE] OBVIOUS
<1>4. live' = live \cup {n} BY <1>2, <1>3 DEF Hold
<1>5. c \in Nat /\ c % 16 = 0 /\ HeapStart <= c /\ HeapStart \in Nat BY GranuleIs, StartIsPositive
<1>6. n.ptr = c + 32 /\ n.size = size /\ n.ptr - Header = c BY <1>3, <1>5 DEF Header
<1>7. PICK L, m, t, hd : L = live' /\ m = mem' /\ t = heap_ptr' /\ hd = heap_free' OBVIOUS
<1>8. PICK F : Good(m, t, hd, L, F) BY <1>7 DEF HeapInv
<1>9. ASSUME NEW r \in L
      PROVE  /\ r.ptr - Header \in Starts(L) /\ r.ptr \in Nat /\ r.size \in Nat
             /\ 32 + r.size <= m[r.ptr - Header].size
             /\ m[r.ptr - Header].size \in Nat
  <2>1. r.ptr - Header \in Starts(L) BY DEF Starts
  <2>2. r.ptr \in Nat /\ r.size \in Nat BY <1>8, GranuleIs DEF Good, Records
  <2>3. Header + r.size <= m[r.ptr - Header].size BY <1>8 DEF Good, Held
  <2> QED BY <1>8, <2>1, <2>2, <2>3, BlockKnown DEF Header
<1>10. n \in L /\ c \in Starts(L) /\ m[c].size \in Nat /\ 32 + size <= m[c].size
  BY <1>4, <1>6, <1>7, <1>9
<1>11. t \in Nat /\ t <= HeapLimit /\ c + m[c].size <= t BY <1>8, <1>10, BlockKnown, GranuleIs
<1>12. c + 32 + size <= HeapLimit BY <1>1, <1>5, <1>10, <1>11, StartIsPositive
<1>13. PICK new : new = [at |-> c + 32, len |-> size] OBVIOUS
<1>14. ASSUME NEW r \in live
       PROVE  ~(new.at < r.ptr + r.size /\ r.ptr < new.at + new.len)
  <2>1. r \in L BY <1>4, <1>7
  <2>2. PICK x : x = r.ptr - Header OBVIOUS
  <2>3. x \in Starts(live) /\ x # c BY <1>2, <2>2 DEF Starts
  <2>4. /\ x \in Starts(L) /\ r.ptr \in Nat /\ r.size \in Nat /\ 32 + r.size <= m[x].size
        /\ m[x].size \in Nat /\ r.ptr = x + 32 /\ x \in Int
    BY <1>9, <2>1, <2>2 DEF Header
  <2>5. (x < c => x + m[x].size <= c) /\ (c < x => c + m[c].size <= x)
    BY <1>8, <1>10, <2>3, <2>4, BlocksApart
  <2> QED BY <1>1, <1>5, <1>10, <1>13, <2>3, <2>4, <2>5
<1>15. Blocks(live)' = Blocks(live) \cup {new} BY <1>4, <1>6, <1>13 DEF Blocks
<1>16. c + 32 \in {a \in HeapStart + Header..HeapLimit : a % 16 = 0}
  <2>1. (c + 32) % 16 = 0 BY <1>5, Sums
  <2> QED BY <1>1, <1>5, <1>12, <2>1, StartIsPositive DEF Header
<1>17. size \in {s \in Sizes : s > 0} OBVIOUS
<1>18. \A b \in Blocks(live) : ~Abstract!Overlap(new, b)
  BY <1>14 DEF Blocks, Abstract!Overlap
<1> QED BY <1>12, <1>13, <1>15, <1>16, <1>17, <1>18 DEF Abstract!Alloc, Blocks

(* kmalloc and kfree implement the allocator that callers rely on: a block    *)
(* handed out lies in the arena, is aligned, as long as asked for, and shares *)
(* no byte with another until it is given back.                               *)
THEOREM HeapImplementsAllocator == HeapSpec => ImplementsAllocator
<1>1. HeapInit => Abstract!Init BY DEF HeapInit, Abstract!Init
<1>2. ASSUME HeapInv, HeapInv', [HeapNext]_heapVars
      PROVE  [Abstract!Next]_{[at |-> r.ptr, len |-> r.size] : r \in live}
  <2>1. ASSUME NEW size \in Sizes, AllocFromList(size) \/ AllocFromTop(size) PROVE Abstract!Next
    <3>1. size \in Int /\ size > 0 BY <2>1, HeapAssumptions DEF AllocFromList, AllocFromTop
    <3>2. Grows(size) BY <1>2, <2>1, <3>1, ListStep, TopStep
    <3> QED BY <1>2, <3>1, <3>2, AllocMaps DEF Abstract!Next
  <2>2. ASSUME NEW p \in 0..HeapLimit, kfree(p) PROVE Abstract!Next
    <3>1. p \in Int BY StartIsPositive
    <3>2. PICK r \in live : r.ptr = p /\ live' = live \ {r} BY <1>2, <2>2, <3>1, FreeStep
    <3>3. PICK b : b = [at |-> r.ptr, len |-> r.size] OBVIOUS
    <3>4. \A s \in live : s.ptr = r.ptr => s = r BY <1>2 DEF HeapInv, Good, Held
    <3>5. b \in Blocks(live) BY <3>3 DEF Blocks
    <3>6. ASSUME NEW s \in live, [at |-> s.ptr, len |-> s.size] = b PROVE s = r
      <4>1. [at |-> s.ptr, len |-> s.size].at = [at |-> r.ptr, len |-> r.size].at BY <3>3, <3>6
      <4> QED BY <3>4, <4>1
    <3>7. Blocks(live)' = Blocks(live) \ {b} BY <3>2, <3>3, <3>6 DEF Blocks
    <3> QED BY <3>5, <3>7 DEF Abstract!Next, Abstract!Free, Blocks
  <2>3. ASSUME NEW r \in live, ClientWrite(r) PROVE Blocks(live)' = Blocks(live)
    <3>1. PICK t : live' = (live \ {r}) \cup {t} /\ t.ptr = r.ptr /\ t.size = r.size
      BY <1>2, <2>3, WriteStep
    <3> QED BY <3>1 DEF Blocks
  <2>4. ASSUME UNCHANGED heapVars PROVE Blocks(live)' = Blocks(live)
    BY <2>4 DEF heapVars, Blocks
  <2> QED BY <1>2, <2>1, <2>2, <2>3, <2>4 DEF HeapNext, Blocks
<1> QED BY <1>1, <1>2, HeapInvHolds, PTL DEF HeapSpec, ImplementsAllocator, Abstract!Spec
=============================================================================
