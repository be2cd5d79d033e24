-------------------------------- MODULE Heap --------------------------------
(***************************************************************************)
(* The kernel heap of ppos: kmalloc and kfree (ppos/kernel_memory.pp).     *)
(*                                                                         *)
(* Blocks carry a 32-byte header and are multiples of 16 bytes.  Free      *)
(* blocks are linked through their headers; when none fits, a block is cut *)
(* from the untouched memory above heap_ptr.  The model keeps memory by    *)
(* 16-byte granule: a granule either starts a header that would pass the   *)
(* magic and canary test, or holds client data, or neither.  Headers that  *)
(* merging leaves behind inside a larger block stay in memory until        *)
(* something is written over them, as they do in the code.                 *)
(***************************************************************************)
EXTENDS Integers, FiniteSets

CONSTANTS
    HeapStart,   \* 0x1000000, where memory_map_init puts the heap
    HeapLimit,   \* end of the usable region
    Sizes        \* sizes callers ask for, refused ones included

ASSUME HeapAssumptions ==
    /\ HeapStart \in Nat /\ HeapStart > 0 /\ HeapStart % 16 = 0
    /\ HeapLimit \in Nat /\ HeapLimit > HeapStart
    /\ Sizes \subseteq Int

VARIABLES
    mem,         \* contents of each granule
    heap_ptr,    \* first byte never handed out
    heap_free,   \* first free block, 0 for none
    live         \* history: [ptr, size, written] of each block a caller holds

heapVars == <<mem, heap_ptr, heap_free, live>>

Header   == 32
MinBlock == 48
Granules == {a \in HeapStart .. HeapLimit : a % 16 = 0}
Used     == 1         \* the state word of a block header
Free     == 2

Garbage == [kind |-> "garbage"]
Data    == [kind |-> "data"]
Hdr(next, size, st) == [kind |-> "header", next |-> next, size |-> size, state |-> st]

Contents == {Garbage, Data} \cup
            [kind : {"header"}, next : Granules \cup {0}, size : 0 .. HeapLimit, state : {Used, Free}]

HeapTypeOK ==
    /\ mem \in [Granules -> Contents]
    /\ heap_ptr \in Granules
    /\ heap_free \in Granules \cup {0}
    /\ live \subseteq [ptr : Granules, size : Nat, written : BOOLEAN]

HeapInit ==
    /\ mem = [a \in Granules |-> Garbage]
    /\ heap_ptr = HeapStart
    /\ heap_free = 0
    /\ live = {}

-----------------------------------------------------------------------------
(* heap_write_header: the two granules of the header replace whatever was  *)
(* there, and spoil a header that began one granule earlier.               *)
WriteHeader(mm, b, h) ==
    [a \in Granules |->
        IF a = b THEN h
        ELSE IF a = b + 16 \/ (a = b - 16 /\ mm[a].kind = "header") THEN Garbage
        ELSE mm[a]]

(* Only the link of an existing header is stored (volatile_store64). *)
SetNext(mm, b, n) == [mm EXCEPT ![b].next = n]

HeaderValid(mm, top, b) ==
    /\ b \in Granules
    /\ b + Header <= top
    /\ mm[b].kind = "header"
    /\ mm[b].size >= MinBlock
    /\ mm[b].size % 16 = 0
    /\ b + mm[b].size <= top

FreeNode(mm, top, b) == HeaderValid(mm, top, b) /\ mm[b].state = Free

(* The free list as the loops of kmalloc and kfree meet it: element n of   *)
(* the chain from heap_free, 0 once it has ended (or a node was unsound,   *)
(* where the loops panic).                                                 *)
MaxChain == Cardinality(Granules)

Chain ==
    LET c[n \in 0 .. MaxChain] ==
            IF n = 0 THEN heap_free
            ELSE LET last == c[n - 1]
                 IN  IF FreeNode(mem, heap_ptr, last) THEN mem[last].next ELSE 0
    IN  c

(* Every node up to place n passes the test of the loops; otherwise they   *)
(* end in kernel_panic("allocator free-list corruption").                  *)
ListSound(n) == \A k \in 0 .. n : FreeNode(mem, heap_ptr, Chain[k])

-----------------------------------------------------------------------------
RoundUp_NoPad(size) == ((size + Header) \div 16) * 16

(* block size for a payload: header added, rounded up to a granule *)
RoundUp(size) == ((size + Header + 15) \div 16) * 16

(* the first fitting free block: its place in the chain, -1 for none *)
FirstFit(req) ==
    LET fits == {n \in 0 .. MaxChain : FreeNode(mem, heap_ptr, Chain[n]) /\ mem[Chain[n]].size >= req}
    IN  IF fits = {} THEN -1 ELSE CHOOSE n \in fits : \A k \in fits : n <= k

(* What kmalloc returns once `req` is known: the new memory and list head, *)
(* the block, and its size (a remainder too small for a block is kept).    *)
TakeFree_RestInPayload(n, req) ==
    LET cur    == Chain[n]
        prev   == IF n = 0 THEN 0 ELSE Chain[n - 1]
        h      == mem[cur]
        split  == h.size - req >= MinBlock
        rest   == cur + req - Header
        link   == IF split THEN rest ELSE h.next
        m1     == IF split THEN WriteHeader(mem, rest, Hdr(h.next, h.size - req, Free)) ELSE mem
        m2     == IF prev # 0 THEN SetNext(m1, prev, link) ELSE m1
    IN  [mem  |-> WriteHeader(m2, cur, Hdr(0, IF split THEN req ELSE h.size, Used)),
         head |-> IF prev # 0 THEN heap_free ELSE link,
         at   |-> cur]

TakeFree(n, req) ==
    LET cur    == Chain[n]
        prev   == IF n = 0 THEN 0 ELSE Chain[n - 1]
        h      == mem[cur]
        split  == h.size - req >= MinBlock
        rest   == cur + req
        link   == IF split THEN rest ELSE h.next
        m1     == IF split THEN WriteHeader(mem, rest, Hdr(h.next, h.size - req, Free)) ELSE mem
        m2     == IF prev # 0 THEN SetNext(m1, prev, link) ELSE m1
    IN  [mem  |-> WriteHeader(m2, cur, Hdr(0, IF split THEN req ELSE h.size, Used)),
         head |-> IF prev # 0 THEN heap_free ELSE link,
         at   |-> cur]

Hold(at, size) == live' = live \cup {[ptr |-> at + Header, size |-> size, written |-> FALSE]}

(* kmalloc from the free list *)
AllocFromList(size) ==
    /\ size > 0
    /\ LET n == FirstFit(RoundUp(size))
       IN  /\ n >= 0
           /\ ListSound(n)
           /\ LET t == TakeFree(n, RoundUp(size))
              IN  /\ mem' = t.mem
                  /\ heap_free' = t.head
                  /\ Hold(t.at, size)
    /\ UNCHANGED heap_ptr

(* kmalloc from the memory above heap_ptr, when the list has no fit.  Past *)
(* heap_limit it returns 0, as for size <= 0, and nothing changes.         *)
AllocFromTop_NoLimit(size) ==
    /\ size > 0
    /\ FirstFit(RoundUp(size)) = -1
    /\ heap_ptr + Header <= HeapLimit
    /\ heap_ptr' = heap_ptr + RoundUp(size)
    /\ mem' = WriteHeader(mem, heap_ptr, Hdr(0, RoundUp(size), Used))
    /\ Hold(heap_ptr, size)
    /\ UNCHANGED heap_free

AllocFromTop(size) ==
    /\ size > 0
    /\ FirstFit(RoundUp(size)) = -1
    /\ heap_ptr + RoundUp(size) <= HeapLimit
    /\ heap_ptr' = heap_ptr + RoundUp(size)
    /\ mem' = WriteHeader(mem, heap_ptr, Hdr(0, RoundUp(size), Used))
    /\ Hold(heap_ptr, size)
    /\ UNCHANGED heap_free

-----------------------------------------------------------------------------
(* The tests kfree makes before it touches the list. *)
PointerAccepted_AnyState(p) ==
    /\ p # 0 /\ p % 16 = 0 /\ p >= HeapStart + Header /\ p <= heap_ptr
    /\ HeaderValid(mem, heap_ptr, p - Header)

PointerAccepted(p) ==
    /\ p # 0 /\ p % 16 = 0 /\ p >= HeapStart + Header /\ p <= heap_ptr
    /\ HeaderValid(mem, heap_ptr, p - Header)
    /\ mem[p - Header].state = Used

(* the place in the chain of the first free block not below b *)
InsertAt(b) ==
    CHOOSE n \in 0 .. MaxChain :
        /\ Chain[n] = 0 \/ Chain[n] >= b
        /\ \A k \in 0 .. n - 1 : Chain[k] # 0 /\ Chain[k] < b

PrevOf(b) == LET n == InsertAt(b) IN IF n = 0 THEN 0 ELSE Chain[n - 1]
NextOf(b) == Chain[InsertAt(b)]

(* kfree's overlap test against the list neighbours *)
FitsBetween(b) ==
    /\ PrevOf(b) # 0 => PrevOf(b) + mem[PrevOf(b)].size <= b
    /\ NextOf(b) # 0 => b + mem[b].size <= NextOf(b)

(* heap_poison: 0xDD over the payload *)
Poison(mm, b) ==
    [a \in Granules |-> IF a >= b + Header /\ a < b + mm[b].size THEN Garbage ELSE mm[a]]

(* Merging with the next free block, then with the previous one. *)
MergeNext(mm, b, cur) ==
    IF cur # 0 /\ b + mm[b].size = cur
    THEN WriteHeader(mm, b, Hdr(mm[cur].next, mm[b].size + mm[cur].size, Free))
    ELSE mm

MergePrev_Never(mm, b, prev) == mm

MergePrev(mm, b, prev) ==
    IF prev # 0 /\ prev + mm[prev].size = b
    THEN WriteHeader(mm, prev, Hdr(mm[b].next, mm[prev].size + mm[b].size, Free))
    ELSE mm

(* kfree of an accepted block: poison, link in address order, merge.       *)
(* Refused pointers (wild, misaligned, freed before) change nothing.  The  *)
(* overlap test (FitsBetween) comes after the poison in the code: were it  *)
(* to refuse, the block would be poisoned and still held; it never does    *)
(* for an accepted pointer (FreeAcceptsExactlyLive).                       *)
kfree(p) ==
    LET b    == p - Header
        prev == PrevOf(b)
        cur  == NextOf(b)
        m1   == WriteHeader(Poison(mem, b), b, Hdr(cur, mem[b].size, Free))
        m2   == IF prev # 0 THEN SetNext(m1, prev, b) ELSE m1
    IN  /\ PointerAccepted(p)
        /\ ListSound(InsertAt(b) - 1)
        /\ FitsBetween(b)
        /\ mem' = MergePrev(MergeNext(m2, b, cur), b, prev)
        /\ heap_free' = IF prev = 0 THEN b ELSE heap_free
        /\ live' = {r \in live : r.ptr # p}
        /\ UNCHANGED heap_ptr

(* The holder of a block fills it. *)
ClientWrite(r) ==
    /\ ~r.written
    /\ mem' = [a \in Granules |-> IF a >= r.ptr /\ a < r.ptr + r.size THEN Data ELSE mem[a]]
    /\ live' = (live \ {r}) \cup {[r EXCEPT !.written = TRUE]}
    /\ UNCHANGED <<heap_ptr, heap_free>>

HeapNext ==
    \/ \E size \in Sizes : AllocFromList(size) \/ AllocFromTop(size)
    \/ \E p \in 0 .. HeapLimit : kfree(p)
    \/ \E r \in live : ClientWrite(r)

HeapSpec == HeapInit /\ [][HeapNext]_heapVars

-----------------------------------------------------------------------------
(* Properties *)

(* The addresses at which blocks begin, walking from one to the next by    *)
(* size: what the heap is cut into.                                        *)
IsTiling(bs) ==
    /\ \A b \in bs : mem[b].kind = "header" /\ b + mem[b].size \in bs \cup {heap_ptr}
    /\ heap_ptr > HeapStart => HeapStart \in bs
    /\ \A b \in bs : b = HeapStart \/ \E a \in bs : a + mem[a].size = b
    /\ \A a, b \in bs : a < b => a + mem[a].size <= b

FreeBlocks == {Chain[n] : n \in 0 .. MaxChain} \ {0}
UsedBlocks == {r.ptr - Header : r \in live}

(* The blocks callers hold and the blocks on the free list cut the heap up *)
(* exactly, with nothing lost and nothing twice; the list is in address    *)
(* order; and no two free blocks touch, so that freed memory is one piece. *)
(* The list nodes are sound, so neither loop reaches its kernel_panic      *)
(* ("allocator free-list corruption").                                     *)
HeapCutExactly ==
    /\ UsedBlocks \cap FreeBlocks = {}
    /\ IsTiling(UsedBlocks \cup FreeBlocks)
    /\ \A b \in UsedBlocks : mem[b].state = Used
    /\ \A b \in FreeBlocks : FreeNode(mem, heap_ptr, b)
    /\ \A n \in 1 .. MaxChain : Chain[n] # 0 => Chain[n - 1] < Chain[n]
    /\ \A b \in FreeBlocks : b + mem[b].size \notin FreeBlocks

(* kfree accepts exactly the pointers its callers hold: a second kfree, a  *)
(* wild or a misaligned pointer is refused, before anything is poisoned,   *)
(* although headers that merging left behind still lie in memory; and the  *)
(* overlap test after the poison refuses none that came so far.            *)
FreeAcceptsExactlyLive ==
    \A p \in 0 .. HeapLimit :
        /\ PointerAccepted(p) <=> \E r \in live : r.ptr = p
        /\ PointerAccepted(p) => FitsBetween(p - Header)

(* What the holder of a block wrote stays there until it frees the block:  *)
(* no header, link or poison of another call falls into it.                *)
PayloadKept ==
    \A r \in live : r.written =>
        \A a \in Granules : a >= r.ptr /\ a < r.ptr + r.size => mem[a] = Data

(* The heap implements the allocator its callers rely on. *)
Abstract == INSTANCE Allocator WITH
    ArenaStart <- HeapStart + Header, ArenaEnd <- HeapLimit, Align <- 16,
    Lengths <- {s \in Sizes : s > 0},
    blocks <- {[at |-> r.ptr, len |-> r.size] : r \in live}

ImplementsAllocator == Abstract!Spec
=============================================================================
