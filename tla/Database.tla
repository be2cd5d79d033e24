------------------------------ MODULE Database ------------------------------
(***************************************************************************)
(* What one session of ppdb promises about its three models together: SQL  *)
(* tables, key-value pairs and documents live, are undone and are saved as *)
(* one database.  A transaction keeps the state at BEGIN and ROLLBACK goes *)
(* back to it; the file holds the state at the last save, all of it.       *)
(***************************************************************************)
EXTENDS Relations

CONSTANTS Keys, Vals,            \* key-value pairs
          DocNames, Contents,    \* documents
          Images,                \* what a file may hold before the first session
          Nothing                \* no transaction, no file

VARIABLES kv, docs,    \* functions from the keys, the names, present
          undo, file   \* a state of the database, or Nothing

databaseVars == <<rel, kv, docs, undo, file>>
State == [rel |-> rel, kv |-> kv, docs |-> docs]
Empty == [rel |-> << >>, kv |-> << >>, docs |-> << >>]
Become(s) == rel' = s.rel /\ kv' = s.kv /\ docs' = s.docs

With(f, k, v) == [x \in DOMAIN f \cup {k} |-> IF x = k THEN v ELSE f[x]]
Without(f, k) == [x \in DOMAIN f \ {k} |-> f[x]]

DatabaseInit == /\ rel = << >> /\ kv = << >> /\ docs = << >> /\ undo = Nothing
                /\ file \in {Nothing} \cup Images

Statement == Next /\ UNCHANGED <<kv, docs, undo, file>>
KvPut == /\ \E k \in Keys, v \in Vals : kv' = With(kv, k, v)
         /\ UNCHANGED <<rel, docs, undo, file>>
KvDel == /\ \E k \in DOMAIN kv : kv' = Without(kv, k)
         /\ UNCHANGED <<rel, docs, undo, file>>
DocPut == /\ \E n \in DocNames, c \in Contents : docs' = With(docs, n, c)
          /\ UNCHANGED <<rel, kv, undo, file>>

Begin    == undo = Nothing /\ undo' = State /\ UNCHANGED <<rel, kv, docs, file>>
Commit   == undo # Nothing /\ undo' = Nothing /\ UNCHANGED <<rel, kv, docs, file>>
Rollback == undo # Nothing /\ Become(undo) /\ undo' = Nothing /\ UNCHANGED file

Save    == undo = Nothing /\ file' = State /\ UNCHANGED <<rel, kv, docs, undo>>
Load    == undo = Nothing /\ file # Nothing /\ Become(file) /\ UNCHANGED <<undo, file>>
Restart == Become(Empty) /\ undo' = Nothing /\ UNCHANGED file

DatabaseNext == \/ Statement \/ KvPut \/ KvDel \/ DocPut
                \/ Begin \/ Commit \/ Rollback \/ Save \/ Load \/ Restart
DatabaseSpec == DatabaseInit /\ [][DatabaseNext]_databaseVars
=============================================================================
