----------------------------- MODULE MCSession -----------------------------
(* One table of one INT column in one page of two rows.  As in MCDb the    *)
(* user's view of the tables is a variable, rel; so are the views of the   *)
(* before-image and of the file.                                           *)
EXTENDS Session, TLC

VARIABLES rel, before, saved

MCSchemas == {<<0>>}
MCWheres == {[col |-> 0, op |-> 0, type |-> 0, val |-> 0]}

(* An image of an older version: a table with two rows without identities. *)
OldPage == [tid |-> 1, slots |-> <<[off |-> 1, row |-> 0], [off |-> 2, row |-> 0]>>,
            recs |-> <<<<0>>, <<0>>>>, next |-> 0]
OldImage == [head |-> [tabs |-> <<[name |-> CHOOSE n \in Names : TRUE, types |-> <<0>>,
                                  first |-> 1, last |-> 1]>>,
                      free_list |-> << >>, kv |-> << >>, docs |-> << >>, defs |-> << >>],
             npages |-> 1, pages |-> <<OldPage>>]

(* In any sorted store kv_find leads to the key, or to its place.          *)
SortedStores == {s \in UNION {[1 .. n -> (1 .. 5) \X {1}] : n \in 0 .. 4} :
                    \A i \in 1 .. Len(s) - 1 : s[i][1] < s[i + 1][1]}
ASSUME KvSearches ==
    \A s \in SortedStores, k \in 1 .. 5 :
        /\ KvHas(s, k) <=> \E i \in DOMAIN s : s[i][1] = k
        /\ KvFind(s, k) = Cardinality({i \in DOMAIN s : s[i][1] < k})

AsFunction(s) == [k \in {s[i][1] : i \in DOMAIN s} |->
                     (CHOOSE e \in ToSet(s) : e[1] = k)[2]]
ViewOf(f) == LET rows == RebuildRowids(f.page, f.tabs)
             IN  [rel |-> RelOf(rows.page, f.tabs), kv |-> AsFunction(f.kv),
                  docs |-> AsFunction(f.docs)]
Views == /\ rel' = RelOf(page', tabs')
         /\ before' = IF undo' = undo THEN before
                      ELSE IF undo' = Nothing THEN Nothing ELSE ViewOf(undo')
         /\ saved' = IF file' = file THEN saved ELSE ViewOf(Loaded(file'))

(* The bound of the runs: rows, pairs, documents and indexes at once.      *)
MaxFacts == 3
Bounded == Len(AllRows(page, tabs)) + Len(kv) + Len(docs) + Len(idx) <= MaxFacts

MCInit ==
    /\ SessionInit({OldImage})
    /\ rel = << >> /\ before = Nothing
    /\ saved = IF file = Nothing THEN Nothing ELSE ViewOf(Loaded(file))
MCNext == SessionNext /\ Views /\ Bounded'
MCSpec == MCInit /\ [][MCNext]_<<sessionVars, rel, before, saved>>

Promise == INSTANCE Database WITH
    Ids <- RowIds, kv <- AsFunction(kv), docs <- AsFunction(docs),
    Images <- {ViewOf(Loaded(OldImage))}, undo <- before, file <- saved

(* ROLLBACK brings back tables, pairs and documents together as they were  *)
(* at BEGIN, after any statements in between; a file gives back, in this   *)
(* or a later process, the state at the last save and no other; a refused  *)
(* put changes nothing.                                                    *)
ImplementsDatabase == Promise!DatabaseSpec
=============================================================================
