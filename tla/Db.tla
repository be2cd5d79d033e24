--------------------------------- MODULE Db ---------------------------------
(***************************************************************************)
(* The relational kernel of ppdb: slotted pages chained into heap tables,  *)
(* row identities, sorted single-column indexes and the statements of the  *)
(* SQL executor (ppdb/db_core.pp, db_sql_exec.pp, host_native.pp).         *)
(*                                                                         *)
(* One statement runs at a time and to completion, so a statement is one   *)
(* action.  Statements refused by the parser's checks (unknown table or    *)
(* column, wrong types, duplicate names) change nothing and are left out.  *)
(* Records of one table have one size and fill a page from its end, so a   *)
(* record's offset is kept as its place, counted from the end of the page; *)
(* a page's free pointer is the number of places taken.                    *)
(***************************************************************************)
EXTENDS Integers, Sequences, FiniteSets, SequencesExt, FiniteSetsExt

CONSTANTS
    Names, Schemas, Ints, Texts, Wheres,   \* as in Relations
    IndexNames,
    NPages,        \* DB_NPAGES, 128
    MaxTables,     \* 8
    MaxIndexes,    \* DB_INDEX_MAX, 8
    IndexRows,     \* DB_INDEX_ROWS, 5376
    RowLimit,      \* row identities are below this, 32768
    IntRange,      \* the number of INT values, 2^32
    PageSize, HeaderSize, SlotSize, IntSize, StrSize   \* 512, 40, 8, 4, 32

VARIABLES
    next_page,     \* pages 1 .. next_page have been handed out at least once
    free_list,     \* db_free_list, the stack of pages given back
    page,          \* [tid, slots, recs, next] of each page
    tabs,          \* the catalogue: [name, types, first, last], in tid order
    next_rowid,
    row_ptr,       \* <<page, place>> of the record of a row identity, NoRow if none
    idx            \* [name, tid, col, ents] of each index, ents being <<key, rowid>>

dbVars == <<next_page, free_list, page, tabs, next_rowid, row_ptr, idx>>

Pages    == 1 .. NPages
RowIds   == 1 .. RowLimit - 1
NoRow    == <<0, 0>>
Literals == [type : {0}, val : Ints] \cup [type : {1}, val : Texts]

(* Bytes a record of the given column types takes. *)
RecSize(types) == IntSize * Cardinality({c \in DOMAIN types : types[c] = 0})
                  + StrSize * Cardinality({c \in DOMAIN types : types[c] = 1})

(* A page holds at least one record of any schema, and an index has room   *)
(* for every row the pages can hold.                                       *)
ASSUME DbAssumptions ==
    /\ {NPages, MaxTables, MaxIndexes, RowLimit, IntSize, StrSize, SlotSize, IntRange} \subseteq Nat \ {0}
    /\ {PageSize, HeaderSize, IndexRows} \subseteq Nat
    /\ Schemas \subseteq Seq({0, 1})
    /\ IntRange % 2 = 0 /\ Ints \subseteq -(IntRange \div 2) .. (IntRange \div 2) - 1
    /\ \A s \in Schemas :
          /\ Len(s) \in 1 .. 4
          /\ HeaderSize + SlotSize + RecSize(s) <= PageSize
          /\ IndexRows >= NPages * ((PageSize - HeaderSize) \div (SlotSize + RecSize(s)))

EmptyPage(t) == [tid |-> t, slots |-> << >>, recs |-> << >>, next |-> 0]

DbInit ==
    /\ next_page = 0
    /\ free_list = << >>
    /\ page = [p \in Pages |-> EmptyPage(0)]
    /\ tabs = << >>
    /\ next_rowid = 1
    /\ row_ptr = [r \in RowIds |-> NoRow]
    /\ idx = << >>

-----------------------------------------------------------------------------
(* Step(... Step(Step(base, 1), 2) ..., n): a loop of n rounds. *)
Iterate(Step(_, _), base, n) ==
    LET after[i \in 0 .. n] == IF i = 0 THEN base ELSE Step(after[i - 1], i)
    IN  IF n <= 0 THEN base ELSE after[n]

(* Reading tables.                                                         *)

(* The pages of a chain in order, following next until it is 0. *)
Chain(pg, first) ==
    LET grow(c, i) == IF pg[Last(c)].next = 0 THEN c ELSE Append(c, pg[Last(c)].next)
    IN  Iterate(grow, <<first>>, NPages)

(* The rows a page's slots lead to: identity, address and values. *)
PageRows(pg, p) ==
    [i \in DOMAIN pg[p].slots |->
        LET s == pg[p].slots[i]
        IN  [id |-> s.row, at |-> <<p, s.off>>, val |-> pg[p].recs[s.off]]]

TableRows(pg, t) ==
    LET chain == Chain(pg, t.first)
    IN  Iterate(LAMBDA rows, i : rows \o PageRows(pg, chain[i]), << >>, Len(chain))

TableNamed(n) == {t \in DOMAIN tabs : tabs[t].name = n}

(* 32-bit subtraction. *)
Minus(a, b) == (((a - b) + IntRange \div 2) % IntRange) - IntRange \div 2

CmpMatches(cmp, op) ==
    CASE op = 0 -> cmp = 0
      [] op = 1 -> cmp # 0
      [] op = 2 -> cmp < 0
      [] op = 3 -> cmp > 0
      [] op = 4 -> cmp <= 0
      [] op = 5 -> cmp >= 0

(* db_match: the WHERE clause w on a record, comparing by subtraction. *)
Match(types, val, w) ==
    \/ w.col = 0
    \/ /\ w.col \in DOMAIN types
       /\ types[w.col] = w.type
       /\ CmpMatches(IF w.type = 0 THEN Minus(val[w.col], w.val) ELSE val[w.col] - w.val, w.op)

-----------------------------------------------------------------------------
(* Indexes.                                                                *)

Greater(a, b) == IF a[1] # b[1] THEN a[1] > b[1] ELSE a[2] > b[2]

Swap(s, i, j) == [s EXCEPT ![i] = s[j], ![j] = s[i]]

(* db_index_sift on the first count entries, counted from 0 as in the code. *)
Sift(s, from, count) ==
    LET step(st, i) ==
            LET left  == 2 * st.root + 1
                child == IF left + 1 < count /\ Greater(st.s[left + 2], st.s[left + 1])
                         THEN left + 1 ELSE left
            IN  IF left >= count \/ ~Greater(st.s[child + 1], st.s[st.root + 1]) THEN st
                ELSE [s |-> Swap(st.s, st.root + 1, child + 1), root |-> child]
    IN  Iterate(step, [s |-> s, root |-> from], count).s

(* db_index_sort: build the heap, then move its greatest entry to the end. *)
HeapSort(s) ==
    LET n == Len(s)
        heap == Iterate(LAMBDA h, i : Sift(h, n \div 2 - i, n), s, n \div 2)
    IN  Iterate(LAMBDA h, i : Sift(Swap(h, 1, n - i + 1), 0, n - i), heap, n - 1)

(* db_index_rebuild of one index over the given pages and catalogue. *)
Rebuild(pg, ts, ix) ==
    LET rows == IF ix.tid \in DOMAIN ts THEN TableRows(pg, ts[ix.tid]) ELSE << >>
        ents == [i \in DOMAIN rows |-> <<rows[i].val[ix.col], rows[i].id>>]
    IN  [ix EXCEPT !.ents = IF Len(ents) > IndexRows THEN SubSeq(ents, 1, IndexRows)
                            ELSE HeapSort(ents)]

(* db_index_rebuild_table and db_index_rebuild_all. *)
RebuildTable(pg, ts, ixs, t) ==
    [i \in DOMAIN ixs |-> IF ixs[i].tid = t THEN Rebuild(pg, ts, ixs[i]) ELSE ixs[i]]

RebuildAll(pg, ts, ixs) == [i \in DOMAIN ixs |-> Rebuild(pg, ts, ixs[i])]

(* db_index_on_drop: the last index takes the place of a removed one, and  *)
(* the indexes of the table about to take number t are renumbered.         *)
OnDrop(ixs, t, last) ==
    LET step(st, k) ==
            IF st.ixs[st.i].tid # t THEN [st EXCEPT !.i = @ + 1]
            ELSE [st EXCEPT !.ixs = Front([@ EXCEPT ![st.i] = Last(st.ixs)])]
        left == Iterate(step, [ixs |-> ixs, i |-> 1], Len(ixs)).ixs
    IN  [i \in DOMAIN left |-> IF left[i].tid = last THEN [left[i] EXCEPT !.tid = t] ELSE left[i]]

LowerBound_Past(ents, key, inclusive) ==
    Cardinality({i \in DOMAIN ents : ents[i][1] <= key})

(* db_index_lower_bound: the number of entries before the first that is at *)
(* least key (inclusive) or above it, by binary search; each round leaves  *)
(* a smaller range, or none.                                               *)
LowerBound(ents, key, inclusive) ==
    LET halve(r, i) ==
            LET mid == (r.lo + r.hi) \div 2
            IN  IF r.lo >= r.hi THEN r
                ELSE IF ents[mid + 1][1] < key \/ (~inclusive /\ ents[mid + 1][1] = key)
                     THEN [r EXCEPT !.lo = mid + 1]
                     ELSE [r EXCEPT !.hi = mid]
    IN  Iterate(halve, [lo |-> 0, hi |-> Len(ents)], Len(ents)).lo

(* The records db_index_scan_open and db_index_scan_next lead to: from the *)
(* start up to the first entry that stops the scan.                        *)
IndexScan(ix, key, op) ==
    LET start == IF op \in {0, 5} THEN LowerBound(ix.ents, key, TRUE)
                 ELSE IF op = 3 THEN LowerBound(ix.ents, key, FALSE)
                 ELSE 0
        stops(k) == \/ op \in {0, 4} /\ k > key
                    \/ op = 2 /\ k >= key
        read(i)  == /\ \A j \in start + 1 .. i : ~stops(ix.ents[j][1])
                    /\ start < i
                    /\ op = 0 => ix.ents[i][1] = key
                    /\ op = 1 => ix.ents[i][1] # key
                    /\ row_ptr[ix.ents[i][2]] # NoRow
    IN  FlattenSeq([i \in DOMAIN ix.ents |->
            IF read(i) THEN <<row_ptr[ix.ents[i][2]]>> ELSE << >>])

(* The records a SELECT ... WHERE w reads from table t: db_row_cursor_open *)
(* takes the index on the column of an INT comparison when there is one.   *)
SelectPlan(t, w) ==
    LET rows   == TableRows(page, tabs[t])
        on     == {i \in DOMAIN idx : idx[i].tid = t /\ idx[i].col = w.col}
        cursor == IF w.col # 0 /\ w.type = 0 /\ on # {}
                  THEN IndexScan(idx[Min(on)], w.val, w.op)
                  ELSE [i \in DOMAIN rows |-> rows[i].at]
    IN  FlattenSeq([i \in DOMAIN cursor |->
            IF Match(tabs[t].types, page[cursor[i][1]].recs[cursor[i][2]], w)
            THEN <<cursor[i]>> ELSE << >>])

-----------------------------------------------------------------------------
(* Statements.                                                             *)

(* db_page_alloc: the page it returns, 0 when there is none. *)
AllocPage ==
    IF free_list # << >> THEN Last(free_list)
    ELSE IF next_page < NPages THEN next_page + 1 ELSE 0

TakePage ==
    IF free_list # << >> THEN free_list' = Front(free_list) /\ UNCHANGED next_page
    ELSE next_page' = next_page + 1 /\ UNCHANGED free_list

CreateTable_NoLimit(n, types) ==
    LET p == AllocPage
        t == Len(tabs) + 1
    IN  /\ TableNamed(n) = {}
        /\ p # 0
        /\ TakePage
        /\ page' = [page EXCEPT ![p] = EmptyPage(t)]
        /\ tabs' = Append(tabs, [name |-> n, types |-> types, first |-> p, last |-> p])
        /\ UNCHANGED <<next_rowid, row_ptr, idx>>

(* CREATE TABLE; without a page for it the catalogue stays as it was. *)
CreateTable(n, types) ==
    LET p == AllocPage
        t == Len(tabs) + 1
    IN  /\ Len(tabs) < MaxTables /\ TableNamed(n) = {}
        /\ p # 0
        /\ TakePage
        /\ page' = [page EXCEPT ![p] = EmptyPage(t)]
        /\ tabs' = Append(tabs, [name |-> n, types |-> types, first |-> p, last |-> p])
        /\ UNCHANGED <<next_rowid, row_ptr, idx>>

(* db_page_space *)
PageSpace(p, rsize) ==
    (PageSize - Len(page[p].recs) * rsize) - (HeaderSize + Len(page[p].slots) * SlotSize)

(* INSERT of vals at the tail page of table t, or at a new page linked     *)
(* behind it.  The new page is linked before the row identities are found  *)
(* to be used up, in which case it stays, empty, at the end of the chain.  *)
Insert(t, vals) ==
    LET old  == tabs[t].last
        full == PageSpace(old, RecSize(tabs[t].types)) < RecSize(tabs[t].types) + SlotSize
        p    == IF full THEN AllocPage ELSE old
        base == IF full THEN [page EXCEPT ![p] = EmptyPage(t), ![old].next = p] ELSE page
        off  == Len(base[p].recs) + 1
    IN  /\ p # 0
        /\ IF full THEN TakePage ELSE UNCHANGED <<next_page, free_list>>
        /\ tabs' = [tabs EXCEPT ![t].last = p]
        /\ IF next_rowid >= RowLimit
           THEN page' = base /\ UNCHANGED <<next_rowid, row_ptr, idx>>
           ELSE /\ page' = [base EXCEPT
                      ![p].slots = Append(@, [off |-> off, row |-> next_rowid]),
                      ![p].recs  = Append(@, vals)]
                /\ row_ptr' = [row_ptr EXCEPT ![next_rowid] = <<p, off>>]
                /\ next_rowid' = next_rowid + 1
                /\ idx' = RebuildTable(page', tabs', idx, t)

(* UPDATE ... SET column c = v WHERE w, in place and by sequential scan. *)
Update(t, c, v, w) ==
    LET types == tabs[t].types
        chain == ToSet(Chain(page, tabs[t].first))
    IN  /\ c \in DOMAIN types /\ types[c] = v.type
        /\ page' = [p \in Pages |->
              IF p \notin chain THEN page[p]
              ELSE [page[p] EXCEPT !.recs = [k \in DOMAIN @ |->
                      IF Match(types, @[k], w) THEN [@[k] EXCEPT ![c] = v.val] ELSE @[k]]]]
        /\ idx' = RebuildTable(page', tabs, idx, t)
        /\ UNCHANGED <<next_page, free_list, tabs, next_rowid, row_ptr>>

Compact_KeepPtrs(st, p) ==
    LET move(s, i) ==
            LET slot == s.pg[p].slots[i]
            IN  [s EXCEPT !.pg[p].recs[i] = s.pg[p].recs[slot.off],
                          !.pg[p].slots[i].off = i]
        moved == Iterate(move, st, Len(st.pg[p].slots))
    IN  [moved EXCEPT !.pg[p].recs = SubSeq(@, 1, Len(st.pg[p].slots))]

(* db_page_compact: slot by slot, each record moves to the next place from *)
(* the end of the page, and its row identity follows it.                   *)
Compact(st, p) ==
    LET move(s, i) ==
            LET slot == s.pg[p].slots[i]
            IN  [s EXCEPT !.pg[p].recs[i] = s.pg[p].recs[slot.off],
                          !.pg[p].slots[i].off = i,
                          !.ptr[slot.row] = <<p, i>>]
        moved == Iterate(move, st, Len(st.pg[p].slots))
    IN  [moved EXCEPT !.pg[p].recs = SubSeq(@, 1, Len(st.pg[p].slots))]

(* db_scan_next: from slot number scan.slot of scan.page to the next slot, *)
(* page 0 when the table is exhausted.                                     *)
ScanNext(pg, scan) ==
    LET rest  == Chain(pg, scan.page)
        later == {i \in 2 .. Len(rest) : pg[rest[i]].slots # << >>}
    IN  IF scan.slot < Len(pg[scan.page].slots) THEN [scan EXCEPT !.slot = @ + 1]
        ELSE IF later = {} THEN [page |-> 0, slot |-> 0]
        ELSE [page |-> rest[Min(later)], slot |-> 1]

ScanDelete_CursorStays(st) ==
    LET p == st.scan.page
        r == st.pg[p].slots[st.scan.slot].row
    IN  Compact([st EXCEPT !.ptr[r] = NoRow,
                           !.pg[p].slots = RemoveAt(@, st.scan.slot)], p)

(* db_scan_delete: remove the slot the scan stands on, step the scan back  *)
(* over it and compact the page.                                           *)
ScanDelete(st) ==
    LET p == st.scan.page
        r == st.pg[p].slots[st.scan.slot].row
    IN  Compact([st EXCEPT !.ptr[r] = NoRow,
                           !.pg[p].slots = RemoveAt(@, st.scan.slot),
                           !.scan.slot = @ - 1], p)

Delete_NoRebuild(t, w) ==
    LET types == tabs[t].types
        visit(st, k) ==
            LET at   == st.pg[st.scan.page].slots[st.scan.slot].off
                here == IF Match(types, st.pg[st.scan.page].recs[at], w) THEN ScanDelete(st) ELSE st
            IN  IF st.scan.page = 0 THEN st
                ELSE [here EXCEPT !.scan = ScanNext(here.pg, here.scan)]
        open == [pg |-> page, ptr |-> row_ptr,
                 scan |-> ScanNext(page, [page |-> tabs[t].first, slot |-> 0])]
        done == Iterate(visit, open, Len(TableRows(page, tabs[t])))
    IN  /\ page' = done.pg
        /\ row_ptr' = done.ptr
        /\ UNCHANGED <<next_page, free_list, tabs, next_rowid, idx>>

(* DELETE ... WHERE w: every row is visited once; every deletion rebuilds  *)
(* the indexes of the table.                                               *)
Delete(t, w) ==
    LET types == tabs[t].types
        visit(st, k) ==
            LET at   == st.pg[st.scan.page].slots[st.scan.slot].off
                here == IF Match(types, st.pg[st.scan.page].recs[at], w) THEN ScanDelete(st) ELSE st
            IN  IF st.scan.page = 0 THEN st
                ELSE [here EXCEPT !.scan = ScanNext(here.pg, here.scan)]
        open == [pg |-> page, ptr |-> row_ptr,
                 scan |-> ScanNext(page, [page |-> tabs[t].first, slot |-> 0])]
        done == Iterate(visit, open, Len(TableRows(page, tabs[t])))
    IN  /\ page' = done.pg
        /\ row_ptr' = done.ptr
        /\ idx' = IF done.pg = page THEN idx ELSE RebuildTable(page', tabs, idx, t)
        /\ UNCHANGED <<next_page, free_list, tabs, next_rowid>>

DropTable_NoRetag(t) ==
    LET chain == Chain(page, tabs[t].first)
        last  == Len(tabs)
        gone  == {r.id : r \in ToSet(TableRows(page, tabs[t]))}
    IN  /\ free_list' = free_list \o chain
        /\ row_ptr' = [r \in RowIds |-> IF r \in gone THEN NoRow ELSE row_ptr[r]]
        /\ idx' = OnDrop(idx, t, last)
        /\ tabs' = Front([tabs EXCEPT ![t] = tabs[last]])
        /\ page' = [p \in Pages |-> IF p \in ToSet(chain) THEN EmptyPage(0) ELSE page[p]]
        /\ UNCHANGED <<next_page, next_rowid>>

(* DROP TABLE: give the chain back page by page, forget its rows and its   *)
(* indexes, and move the last table into the hole, retagging its pages.    *)
(* A page given back keeps its bytes, but nothing reads them before        *)
(* db_page_init writes the header anew: here it is blank at once.          *)
DropTable(t) ==
    LET chain == Chain(page, tabs[t].first)
        last  == Len(tabs)
        gone  == {r.id : r \in ToSet(TableRows(page, tabs[t]))}
        moved == IF last = t THEN {} ELSE ToSet(Chain(page, tabs[last].first))
    IN  /\ free_list' = free_list \o chain
        /\ row_ptr' = [r \in RowIds |-> IF r \in gone THEN NoRow ELSE row_ptr[r]]
        /\ idx' = OnDrop(idx, t, last)
        /\ tabs' = Front([tabs EXCEPT ![t] = tabs[last]])
        /\ page' = [p \in Pages |->
              CASE p \in ToSet(chain) -> EmptyPage(0)
                [] p \in moved        -> [page[p] EXCEPT !.tid = t]
                [] OTHER              -> page[p]]
        /\ UNCHANGED <<next_page, next_rowid>>

(* CREATE INDEX name ON table t (column c). *)
CreateIndex(n, t, c) ==
    /\ Len(idx) < MaxIndexes
    /\ c \in DOMAIN tabs[t].types /\ tabs[t].types[c] = 0
    /\ \A i \in DOMAIN idx : idx[i].name # n /\ <<idx[i].tid, idx[i].col>> # <<t, c>>
    /\ idx' = Append(idx, Rebuild(page, tabs, [name |-> n, tid |-> t, col |-> c, ents |-> << >>]))
    /\ UNCHANGED <<next_page, free_list, page, tabs, next_rowid, row_ptr>>

-----------------------------------------------------------------------------

(* The values of an INSERT.  db_exec_insert counts the columns named but   *)
(* does not ask whether one is named twice: the one left out then gets 0,  *)
(* which for an INT is one of Ints, and for a TEXT is a text at address 0, *)
(* which is not modelled.                                                  *)
RowVals(types) ==
    {val \in [DOMAIN types -> Ints \cup Texts] :
        \A c \in DOMAIN types : val[c] \in (IF types[c] = 0 THEN Ints ELSE Texts)}

DbNext ==
    \/ \E n \in Names, s \in Schemas : CreateTable(n, s)
    \/ \E t \in DOMAIN tabs :
          \/ DropTable(t)
          \/ \E v \in RowVals(tabs[t].types) : Insert(t, v)
          \/ \E c \in DOMAIN tabs[t].types, v \in Literals, w \in Wheres : Update(t, c, v, w)
          \/ \E w \in Wheres : Delete(t, w)
          \/ \E n \in IndexNames, c \in DOMAIN tabs[t].types : CreateIndex(n, t, c)

DbSpec == DbInit /\ [][DbNext]_dbVars

-----------------------------------------------------------------------------
(* Properties.                                                             *)

AllRows(pg, ts) == Iterate(LAMBDA rows, t : rows \o TableRows(pg, ts[t]), << >>, Len(ts))

Addresses == (Pages \X (1 .. PageSize)) \cup {NoRow}

(* Pages, catalogue, row addresses and indexes hold what their declarations *)
(* in db_core.pp allow: page and row numbers in range, no more tables and   *)
(* indexes than the arrays have room for.                                   *)
DbTypeOK ==
    /\ next_page \in 0 .. NPages
    /\ free_list \in Seq(Pages)
    /\ \A p \in Pages :
          /\ page[p].tid \in 0 .. MaxTables /\ page[p].next \in 0 .. NPages
          /\ \A i \in DOMAIN page[p].slots :
                page[p].slots[i] \in [off : DOMAIN page[p].recs, row : RowIds]
    /\ Len(tabs) <= MaxTables /\ Len(idx) <= MaxIndexes
    /\ next_rowid \in 1 .. RowLimit
    /\ row_ptr \in [RowIds -> Addresses]

(* Every page ever handed out is in the chain of exactly one table or once *)
(* on the free list: none is lost and none is used twice, whatever drops,  *)
(* failed inserts and moves happen.  Each page is tagged with its      *)
(* table, and the tail INSERT writes to is the end of the chain.           *)
PagesConserved ==
    LET chains == [t \in DOMAIN tabs |-> Chain(page, tabs[t].first)]
        all    == FlattenSeq(chains) \o free_list
    IN  /\ Len(all) = next_page
        /\ ToSet(all) = 1 .. next_page
        /\ \A t \in DOMAIN tabs :
              /\ Last(chains[t]) = tabs[t].last
              /\ \A i \in DOMAIN chains[t] : page[chains[t][i]].tid = t

(* No two live rows share an identity, db_row_ptr leads from an identity   *)
(* to the record of its row and to nothing for every other identity, and   *)
(* the next identity is not in use: compaction and drops leave no stale    *)
(* address.                                                                *)
RowsLocated ==
    LET rows == AllRows(page, tabs)
    IN  /\ \A i, j \in DOMAIN rows : rows[i].id = rows[j].id => i = j
        /\ \A r \in RowIds :
              row_ptr[r] = IF \E i \in DOMAIN rows : rows[i].id = r
                           THEN (CHOOSE x \in ToSet(rows) : x.id = r).at ELSE NoRow
        /\ \A i \in DOMAIN rows : rows[i].id < next_rowid

(* The entries of every index are the keys and identities of the rows of   *)
(* its table, each once, in strictly increasing order; an index belongs to *)
(* an INT column of an existing table.                                     *)
IndexesExact ==
    \A i \in DOMAIN idx :
        /\ idx[i].tid \in DOMAIN tabs
        /\ idx[i].col \in DOMAIN tabs[idx[i].tid].types
        /\ tabs[idx[i].tid].types[idx[i].col] = 0
        /\ LET rows == TableRows(page, tabs[idx[i].tid])
               ents == idx[i].ents
           IN  /\ ToSet(ents) = {<<rows[k].val[idx[i].col], rows[k].id>> : k \in DOMAIN rows}
               /\ \A k \in 1 .. Len(ents) - 1 : Greater(ents[k + 1], ents[k])

(* Every WHERE clause reads through an index exactly the rows the          *)
(* comparison is true of, as it does without one.                          *)
PlansAgree ==
    \A i \in DOMAIN idx :
        LET t    == idx[i].tid
            rows == TableRows(page, tabs[t])
        IN  \A op \in 0 .. 5, v \in Ints :
                LET w    == [col |-> idx[i].col, op |-> op, type |-> 0, val |-> v]
                    read == SelectPlan(t, w)
                    hits == {k \in DOMAIN rows : Match(tabs[t].types, rows[k].val, w)}
                IN  Len(read) = Cardinality(hits) /\ ToSet(read) = {rows[k].at : k \in hits}

(* The tables as SQL shows them. *)
RelOf(pg, ts) ==
    [n \in {ts[t].name : t \in DOMAIN ts} |->
        LET t == CHOOSE k \in DOMAIN ts : ts[k].name = n
            rows == TableRows(pg, ts[t])
        IN  [schema |-> ts[t].types,
             rows   |-> [i \in DOMAIN rows |-> [id |-> rows[i].id, val |-> rows[i].val]]]]
=============================================================================
