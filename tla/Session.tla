------------------------------ MODULE Session ------------------------------
(***************************************************************************)
(* A session of ppdb: the statements of Db, the key-value and document     *)
(* stores (db_kv.pp, db_doc.pp), BEGIN, COMMIT and ROLLBACK over all three *)
(* (db_tx.pp), and save and load of the whole database in one file         *)
(* (db_persist.pp on host_file_native.pp), across restarts of the process. *)
(***************************************************************************)
EXTENDS Db

CONSTANTS
    Keys, Vals, KvMax,            \* key-value pairs: 64; Keys are numbers in byte order
    DocNames, Contents, DocMax,   \* documents: 16
    Nothing                       \* no transaction, no file

VARIABLES
    kv,     \* kv_keys and kv_vals: <<key, value>>, sorted by key
    docs,   \* doc_names and doc_cont: <<name, content>>, in order of arrival
    undo,   \* the before-image, Nothing while db_tx_active is false
    file    \* the image file, Nothing if there is none

sessionVars == <<dbVars, kv, docs, undo, file>>

ASSUME SessionAssumptions ==
    Keys \subseteq Int /\ {KvMax, DocMax} \subseteq Nat

-----------------------------------------------------------------------------
(* Key-value pairs and documents.                                          *)

(* kv_find: the number of pairs before key k, by binary search, counted    *)
(* from 0 as in the code; each round leaves a smaller range, or none.      *)
KvFind(s, k) ==
    LET halve(r, i) ==
            LET mid == (r.lo + r.hi) \div 2
            IN  IF r.lo > r.hi THEN r
                ELSE IF s[mid + 1][1] = k THEN [lo |-> mid, hi |-> mid - 1]
                ELSE IF k > s[mid + 1][1] THEN [r EXCEPT !.lo = mid + 1]
                ELSE [r EXCEPT !.hi = mid - 1]
    IN  Iterate(halve, [lo |-> 0, hi |-> Len(s) - 1], Len(s)).lo

KvHas(s, k) == KvFind(s, k) < Len(s) /\ s[KvFind(s, k) + 1][1] = k

KvWith_AtEnd(s, k, v) ==
    IF KvHas(s, k) THEN [s EXCEPT ![KvFind(s, k) + 1] = <<k, v>>]
    ELSE IF Len(s) >= KvMax THEN s
    ELSE Append(s, <<k, v>>)

(* kv_put on the sequence s, which stays as it is when it is full.         *)
KvWith(s, k, v) ==
    IF KvHas(s, k) THEN [s EXCEPT ![KvFind(s, k) + 1] = <<k, v>>]
    ELSE IF Len(s) >= KvMax THEN s
    ELSE InsertAt(s, KvFind(s, k) + 1, <<k, v>>)

KvPut(k, v) ==
    /\ kv' = KvWith(kv, k, v)
    /\ UNCHANGED <<dbVars, docs, undo, file>>

KvDel(k) ==
    /\ KvHas(kv, k)
    /\ kv' = RemoveAt(kv, KvFind(kv, k) + 1)
    /\ UNCHANGED <<dbVars, docs, undo, file>>

DocPut(n, c) ==
    LET known == {i \in DOMAIN docs : docs[i][1] = n}
    IN  /\ docs' = IF known # {} THEN [docs EXCEPT ![Min(known)] = <<n, c>>]
                   ELSE IF Len(docs) >= DocMax THEN docs
                   ELSE Append(docs, <<n, c>>)
        /\ UNCHANGED <<dbVars, kv, undo, file>>

Statement == DbNext /\ UNCHANGED <<kv, docs, undo, file>>

-----------------------------------------------------------------------------
(* What BEGIN and save copy: the facts, and of an index its definition.    *)

Definitions == [i \in DOMAIN idx |-> [name |-> idx[i].name, tid |-> idx[i].tid, col |-> idx[i].col]]

Facts == [tabs |-> tabs, free_list |-> free_list, kv |-> kv, docs |-> docs,
          defs |-> Definitions, next_page |-> next_page, page |-> page]

(* The slots db_rebuild_rowids visits: table by table, along each chain.   *)
Places(pg, ts) ==
    FlattenSeq([t \in DOMAIN ts |->
        LET chain == Chain(pg, ts[t].first)
        IN  FlattenSeq([i \in DOMAIN chain |->
                [j \in DOMAIN pg[chain[i]].slots |-> <<chain[i], j>>]])])

(* db_rebuild_rowids over a catalogue and its pages: the addresses of the  *)
(* rows, an identity for each row of an old image that has none (0), and   *)
(* the next identity to give.                                              *)
RebuildRowids(pg, ts) ==
    LET places == Places(pg, ts)
        visit(st, i) ==
            LET p    == places[i][1]
                j    == places[i][2]
                slot == st.page[p].slots[j]
                row  == IF slot.row = 0 THEN st.next ELSE slot.row
            IN  [page |-> [st.page EXCEPT ![p].slots[j].row = row],
                 ptr  |-> [st.ptr EXCEPT ![row] = <<p, slot.off>>],
                 next |-> IF row >= st.next THEN row + 1 ELSE st.next]
    IN  Iterate(visit, [page |-> pg, ptr |-> [r \in RowIds |-> NoRow], next |-> 1], Len(places))

Restore_NoRebuild(f) ==
    LET rows == RebuildRowids(f.page, f.tabs)
    IN  /\ tabs' = f.tabs /\ free_list' = f.free_list /\ next_page' = f.next_page
        /\ kv' = f.kv /\ docs' = f.docs
        /\ page' = rows.page /\ row_ptr' = rows.ptr /\ next_rowid' = rows.next
        /\ idx' = [i \in DOMAIN f.defs |->
                     [name |-> f.defs[i].name, tid |-> f.defs[i].tid,
                      col |-> f.defs[i].col, ents |-> << >>]]

(* The live state becomes the facts f, and what is derived is rebuilt.     *)
Restore(f) ==
    LET rows == RebuildRowids(f.page, f.tabs)
    IN  /\ tabs' = f.tabs /\ free_list' = f.free_list /\ next_page' = f.next_page
        /\ kv' = f.kv /\ docs' = f.docs
        /\ page' = rows.page /\ row_ptr' = rows.ptr /\ next_rowid' = rows.next
        /\ idx' = RebuildAll(rows.page, f.tabs,
                    [i \in DOMAIN f.defs |->
                       [name |-> f.defs[i].name, tid |-> f.defs[i].tid,
                        col |-> f.defs[i].col, ents |-> << >>]])

-----------------------------------------------------------------------------
(* Transactions.                                                           *)

Begin == /\ undo = Nothing
         /\ undo' = Facts
         /\ UNCHANGED <<dbVars, kv, docs, file>>

(* The before-image stays in memory, but nothing reads it any more.        *)
Commit == /\ undo # Nothing
          /\ undo' = Nothing
          /\ UNCHANGED <<dbVars, kv, docs, file>>

Rollback_KeepsDocs == /\ undo # Nothing
                      /\ Restore([undo EXCEPT !.docs = docs])
                      /\ undo' = Nothing
                      /\ UNCHANGED file

Rollback == /\ undo # Nothing
            /\ Restore(undo)
            /\ undo' = Nothing
            /\ UNCHANGED file

-----------------------------------------------------------------------------
(* The file.  An image is its header (catalogue, free list, pairs,         *)
(* documents, index definitions), the number of pages and the pages.       *)

Header(f) == [tabs |-> f.tabs, free_list |-> f.free_list, kv |-> f.kv,
              docs |-> f.docs, defs |-> f.defs]
Image(f) == [head |-> Header(f), npages |-> f.next_page,
             pages |-> SubSeq(f.page, 1, f.next_page)]

Save == /\ undo = Nothing
        /\ file' = Image(Facts)
        /\ UNCHANGED <<dbVars, kv, docs, undo>>

(* db_validate_image: counts, page numbers of the catalogue and the free   *)
(* list, index columns, and that the file is long enough.  It looks at no  *)
(* page.                                                                   *)
Valid(img) ==
    LET h == img.head
    IN  /\ Len(h.tabs) <= MaxTables /\ Len(h.defs) <= MaxIndexes
        /\ Len(h.kv) <= KvMax /\ Len(h.docs) <= DocMax /\ img.npages <= NPages
        /\ ToSet(h.free_list) \subseteq 1 .. img.npages
        /\ \A t \in DOMAIN h.tabs : {h.tabs[t].first, h.tabs[t].last} \subseteq 1 .. img.npages
        /\ \A i \in DOMAIN h.defs :
              /\ h.defs[i].tid \in DOMAIN h.tabs
              /\ h.defs[i].col \in DOMAIN h.tabs[h.defs[i].tid].types
              /\ h.tabs[h.defs[i].tid].types[h.defs[i].col] = 0
        /\ Len(img.pages) >= img.npages

(* Pages above npages keep their old bytes, which nothing reads before     *)
(* db_page_init: they are blank at once, as in DropTable.                  *)
Loaded(img) ==
    [tabs |-> img.head.tabs, free_list |-> img.head.free_list, kv |-> img.head.kv,
     docs |-> img.head.docs, defs |-> img.head.defs, next_page |-> img.npages,
     page |-> [p \in Pages |-> IF p <= img.npages THEN img.pages[p] ELSE EmptyPage(0)]]

Load == /\ undo = Nothing /\ file # Nothing
        /\ Valid(file)
        /\ Restore(Loaded(file))
        /\ UNCHANGED <<undo, file>>

Blank == [tabs |-> << >>, free_list |-> << >>, kv |-> << >>, docs |-> << >>, defs |-> << >>,
          next_page |-> 0, page |-> [p \in Pages |-> EmptyPage(0)]]

(* The process ends, in a transaction or not, and starts anew.             *)
Restart == /\ Restore(Blank)
           /\ undo' = Nothing
           /\ UNCHANGED file

-----------------------------------------------------------------------------

(* A file to start with: none, or one of the images given.                 *)
SessionInit(images) == /\ DbInit /\ kv = << >> /\ docs = << >> /\ undo = Nothing
                       /\ file \in {Nothing} \cup images

SessionNext == \/ Statement
               \/ \E k \in Keys, v \in Vals : KvPut(k, v)
               \/ \E k \in Keys : KvDel(k)
               \/ \E n \in DocNames, c \in Contents : DocPut(n, c)
               \/ Begin \/ Commit \/ Rollback \/ Save \/ Load \/ Restart

SessionSpec(images) == SessionInit(images) /\ [][SessionNext]_sessionVars

-----------------------------------------------------------------------------
(* Properties.                                                             *)

(* The stores keep to their sizes and the pairs stay sorted, so the binary *)
(* search finds them, after puts, deletions, rollbacks and loads.          *)
StoresOK ==
    /\ Len(kv) <= KvMax /\ Len(docs) <= DocMax
    /\ \A i \in 1 .. Len(kv) - 1 : kv[i][1] < kv[i + 1][1]
    /\ \A i, j \in DOMAIN docs : docs[i][1] = docs[j][1] => i = j

(* Neither the before-image nor the file holds row addresses or index      *)
(* entries: after ROLLBACK and load they are built again and agree with    *)
(* the pages, and no page is lost or used twice.                           *)
DerivedRebuilt == PagesConserved /\ RowsLocated /\ IndexesExact
=============================================================================
