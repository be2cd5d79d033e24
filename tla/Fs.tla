--------------------------------- MODULE Fs ---------------------------------
(***************************************************************************)
(* The memory file system of ppos (ppos/fs.pp): sixteen slots over one     *)
(* pool of bytes.  A file begins where the pool was used up to when it was *)
(* created, and keeps that place whatever is written to it later.          *)
(*                                                                         *)
(* No operation yields and no interrupt handler uses files, so a command   *)
(* (`write`, `wasm install`, `rm` of the shell, `db save` of ppdb) is one  *)
(* action.                                                                 *)
(***************************************************************************)
EXTENDS Integers, Sequences, FiniteSets, FiniteSetsExt

CONSTANTS
    Slots,      \* 0 .. 15
    PoolSize,   \* 131072
    TextMax,    \* bytes fs_write stores at most, 256
    Names,
    Factory,    \* the files fs_init writes, <<name, text>> in order
    Texts,      \* what users write: sequences of bytes without NUL
    Heads,      \* of an image of a database: the header before the page count
    NUL

VARIABLES
    fs,      \* [used, name, off, size] of each slot, the pool and fs_bump
    stored   \* history: what the last write to each slot was to store

fsVars == <<fs, stored>>
Place == 0 .. PoolSize - 1
Free == [used |-> FALSE, name |-> NUL, off |-> 0, size |-> 0]
Empty == [slot |-> [i \in Slots |-> Free], pool |-> [p \in Place |-> NUL], bump |-> 0]

(* Bytes d into the pool from place p on, as far as it goes. *)
Stored(pool, d, p) == [q \in Place |-> IF q \in p .. p + Len(d) - 1 THEN d[q - p + 1] ELSE pool[q]]
Fit(s, i, off, n) == Max({0, Min({n, PoolSize - s.slot[i].off - off})})
MaxOf(a, b) == Max({a, b})

Find(s, n) == {i \in Slots : s.slot[i].used /\ s.slot[i].name = n}

(* fs_create in the file system s: the slot taken, or none. *)
FreeSlots(s) == {i \in Slots : ~s.slot[i].used}
CanCreate(s, n) == Find(s, n) = {} /\ FreeSlots(s) # {} /\ s.bump < PoolSize
fs_create(s, n) ==
    [s EXCEPT !.slot[Min(FreeSlots(s))] = [used |-> TRUE, name |-> n, off |-> s.bump, size |-> 0]]

(* fs_write: a text with its NUL, which the size does not count. *)
fs_write(s, i, d) ==
    LET text == SubSeq(d, 1, Min({Len(d), TextMax}))
        n    == Fit(s, i, 0, Len(text))
        all  == IF Len(d) < TextMax THEN Append(text, NUL) ELSE text
    IN  [s EXCEPT !.pool = Stored(@, all, s.slot[i].off),
                  !.slot[i].size = n,
                  !.bump = IF s.slot[i].off + Len(all) > PoolSize THEN @
                           ELSE MaxOf(@, s.slot[i].off + n)]

(* fs_write_bin *)
fs_write_bin(s, i, d) ==
    LET n == Fit(s, i, 0, Len(d))
    IN  [s EXCEPT !.pool = Stored(@, d, s.slot[i].off),
                  !.slot[i].size = n,
                  !.bump = MaxOf(@, s.slot[i].off + n)]

(* fs_write_bin_at *)
fs_write_bin_at(s, i, d, off) ==
    LET n == Fit(s, i, off, Len(d))
    IN  [s EXCEPT !.pool = Stored(@, d, s.slot[i].off + off),
                  !.slot[i].size = MaxOf(@, off + n),
                  !.bump = MaxOf(@, s.slot[i].off + off + n)]

fs_remove(s, n) == [s EXCEPT !.slot[Min(Find(s, n))].used = FALSE]

fs_read(s, i) == [j \in 1 .. s.slot[i].size |-> s.pool[s.slot[i].off + j - 1]]

-----------------------------------------------------------------------------

(* file_open_or_create: the file system with file n, if there can be one. *)
OpenOrCreate(n) == IF Find(fs, n) # {} THEN {fs}
                   ELSE IF CanCreate(fs, n) THEN {fs_create(fs, n)} ELSE {}

Wrote(s, i) == stored' = [stored EXCEPT ![i] = fs_read(s, i)]

WriteText(n, d) ==
    \E s \in OpenOrCreate(n) :
        LET i == Min(Find(s, n))
        IN  fs' = fs_write(s, i, d) /\ Wrote(fs', i)

WriteBytes(n, d) ==
    \E s \in OpenOrCreate(n) :
        LET i == Min(Find(s, n))
        IN  fs' = fs_write_bin(s, i, d) /\ Wrote(fs', i)

(* db_save through host_file_ppos: the header, the page count, the pages. *)
SaveImage(n, head, count, pages) ==
    \E s \in OpenOrCreate(n) :
        LET i  == Min(Find(s, n))
            s1 == fs_write_bin(s, i, head)
            s2 == fs_write_bin_at(s1, i, count, Len(head))
        IN  /\ fs' = fs_write_bin_at(s2, i, pages, Len(head) + Len(count))
            /\ Wrote(fs', i)

Remove(n) == Find(fs, n) # {} /\ fs' = fs_remove(fs, n) /\ UNCHANGED stored

(* fs_init *)
Boot == LET put[k \in 0 .. Len(Factory)] ==
                IF k = 0 THEN Empty
                ELSE LET s == fs_create(put[k - 1], Factory[k][1])
                     IN  fs_write(s, Min(Find(s, Factory[k][1])), Factory[k][2])
        IN  put[Len(Factory)]

Init == fs = Boot /\ stored = [i \in Slots |-> IF Boot.slot[i].used THEN fs_read(Boot, i) ELSE << >>]

Next == \E n \in Names :
            \/ \E d \in Texts : WriteText(n, d) \/ WriteBytes(n, d)
            \/ \E h \in Heads, d \in Texts : SaveImage(n, h, h, d)
            \/ Remove(n)

Spec == Init /\ [][Next]_fsVars

-----------------------------------------------------------------------------

(* Writing a file, the factory's key for one, leaves what the other files  *)
(* hold alone: each reads as it was last written.                          *)
FilesKept == \A i \in Slots : fs.slot[i].used => fs_read(fs, i) = stored[i]
=============================================================================
