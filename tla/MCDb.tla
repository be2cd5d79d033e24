-------------------------------- MODULE MCDb --------------------------------
(* Sizes make a page hold two records (INT) or one (INT, STR).  The tables *)
(* as SQL shows them are kept in a variable of their own, rel, so that TLC *)
(* computes them once in a state.                                          *)
EXTENDS Db, TLC

VARIABLE rel

MCSchemas == {<<0>>, <<0, 1>>}
MCWheres ==
    {[col |-> 0, op |-> 0, type |-> 0, val |-> 0],
     [col |-> 1, op |-> 0, type |-> 0, val |-> 0],
     [col |-> 1, op |-> 3, type |-> 0, val |-> 0]}
WideInts == {-(IntRange \div 2), (IntRange \div 2) - 1}
NameSymmetry == Permutations(Names) \cup Permutations(IndexNames)

(* The heap sort orders five entries, equal keys by row identity, from any *)
(* arrangement of them.                                                    *)
ASSUME HeapSortSorts ==
    \A keys \in [1 .. 5 -> 0 .. 2], ids \in Permutations(1 .. 5) :
        LET ents == [k \in 1 .. 5 |-> <<keys[k], ids[k]>>]
        IN  /\ ToSet(HeapSort(ents)) = ToSet(ents)
            /\ \A k \in 1 .. 4 : Greater(HeapSort(ents)[k + 1], HeapSort(ents)[k])

MCInit == DbInit /\ rel = RelOf(page, tabs)
MCNext == DbNext /\ rel' = RelOf(page', tabs')
MCSpec == MCInit /\ [][MCNext]_<<dbVars, rel>>

View == INSTANCE Relations WITH Ids <- RowIds

(* Every statement does to the tables what SQL says: INSERT appends a row  *)
(* with a fresh identity, DELETE removes the rows its clause selects and   *)
(* no other, in one scan over pages it is compacting; UPDATE changes one   *)
(* column of the rows selected; DROP leaves the other tables alone although *)
(* it renumbers one.                                                       *)
ImplementsRelations == View!Spec
=============================================================================
