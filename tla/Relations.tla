----------------------------- MODULE Relations -----------------------------
(***************************************************************************)
(* What a user of ppdb's SQL sees: named tables, each a sequence of rows   *)
(* in insertion order; a row has an identity, never shared by two rows of  *)
(* the database, and one value per column.  INSERT and CREATE may be       *)
(* refused for want of space.                                              *)
(***************************************************************************)
EXTENDS Integers, Sequences, SequencesExt

CONSTANTS
    Names,     \* table names
    Schemas,   \* column types of a table: sequences over {0, 1}, 0 an INT, 1 a STR
    Ints,      \* the values of INT columns and literals
    Texts,     \* the values of STR columns and literals, numbered in byte order
    Wheres,    \* WHERE clauses of the statements
    Ids        \* row identities

VARIABLE rel   \* [schema, rows] of each table, by name

Values(type) == IF type = 0 THEN Ints ELSE Texts

(* Comparison operators, as db_cmp_matches numbers them. *)
Compare(a, op, b) ==
    CASE op = 0 -> a = b
      [] op = 1 -> a # b
      [] op = 2 -> a < b
      [] op = 3 -> a > b
      [] op = 4 -> a <= b
      [] op = 5 -> a >= b

(* No WHERE clause selects every row; a clause on a column the table does  *)
(* not have, or of the other type, selects none.                           *)
Selects(schema, val, w) ==
    \/ w.col = 0
    \/ /\ w.col \in DOMAIN schema
       /\ schema[w.col] = w.type
       /\ Compare(val[w.col], w.op, w.val)

LiveIds == UNION {{r.id : r \in ToSet(rel[n].rows)} : n \in DOMAIN rel}

Init == rel = << >>

Create(n, s) ==
    /\ n \notin DOMAIN rel
    /\ rel' = [k \in DOMAIN rel \cup {n} |->
                  IF k = n THEN [schema |-> s, rows |-> << >>] ELSE rel[k]]

Drop(n) ==
    rel' = [k \in DOMAIN rel \ {n} |-> rel[k]]

Insert(n) ==
    \E id \in Ids \ LiveIds, val \in [DOMAIN rel[n].schema -> Ints \cup Texts] :
        /\ \A c \in DOMAIN val : val[c] \in Values(rel[n].schema[c])
        /\ rel' = [rel EXCEPT ![n].rows = Append(@, [id |-> id, val |-> val])]

Update(n, c, v, w) ==
    /\ c \in DOMAIN rel[n].schema /\ v \in Values(rel[n].schema[c])
    /\ rel' = [rel EXCEPT ![n].rows =
                  [i \in DOMAIN @ |->
                     IF Selects(rel[n].schema, @[i].val, w)
                     THEN [@[i] EXCEPT !.val[c] = v] ELSE @[i]]]

Delete(n, w) ==
    rel' = [rel EXCEPT ![n].rows =
               SelectSeq(@, LAMBDA r : ~Selects(rel[n].schema, r.val, w))]

Next ==
    \/ \E n \in Names, s \in Schemas : Create(n, s)
    \/ \E n \in DOMAIN rel :
          \/ Drop(n)
          \/ Insert(n)
          \/ \E w \in Wheres : Delete(n, w)
          \/ \E w \in Wheres, c \in DOMAIN rel[n].schema, v \in Ints \cup Texts : Update(n, c, v, w)

Spec == Init /\ [][Next]_rel
=============================================================================
