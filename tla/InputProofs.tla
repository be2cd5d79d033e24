----------------------------- MODULE InputProofs -----------------------------
(* The keyboard ring loses keys only a whole ring at a time, and the line in  *)
(* the buffer is the line on the screen: for rings of any size and any number *)
(* of keys.                                                                   *)
EXTENDS Input, Modulo

-----------------------------------------------------------------------------
(* The ring.  Key number n is stored in slot (n - 1) % RingSize, so a slot    *)
(* holds the last of the keys stored there.                                   *)

Indexes == 0..RingSize - 1
KeySlot == [key : Keys \cup {NUL}, at : Nat]

RingTypes ==
    /\ ring \in [Indexes -> KeySlot] /\ kb_w \in Indexes /\ kb_r \in Indexes
    /\ pressed \in 0..MaxKeys
    /\ pc \in {"poll", "load", "advance", "edit"}
    /\ c \in KeySlot

(* Slot i holds the last key stored there; one never written, nothing.        *)
SlotIsLatest(i) ==
    LET n == ring[i].at
    IN  IF n = 0 THEN pressed <= i
        ELSE n <= pressed /\ pressed - n < RingSize /\ (n - 1) % RingSize = i

(* kb_w follows the keys pressed, kb_r the keys read.                         *)
Positions ==
    /\ kb_w = pressed % RingSize
    /\ pc = "advance" => kb_r = (c.at - 1) % RingSize
    /\ pc # "advance" => kb_r = c.at % RingSize
    /\ pc \in {"advance", "edit"} => c.at >= 1
    /\ c.at <= pressed
    /\ pc = "load" => c.at < pressed

RingInv == RingTypes /\ Positions /\ \A i \in Indexes : SlotIsLatest(i)

(* A line is never longer than the keys read.                                 *)
LineTypes ==
    /\ line \in [0..MaxKeys -> Chars \cup {NUL}] /\ line_len \in Nat /\ shown \in Seq(Chars)
    /\ line_len <= c.at
    /\ pc \in {"advance", "edit"} => line_len < c.at

InputInv == RingInv /\ LineTypes /\ LineIsShown

-----------------------------------------------------------------------------
LEMMA InitInput == Init => InputInv
<1> SUFFICES ASSUME Init PROVE InputInv OBVIOUS
<1> USE InputAssumption
<1>1. RingTypes BY DEF Init, RingTypes, KeySlot, Indexes
<1>2. 0 % RingSize = 0 OBVIOUS
<1>3. Positions BY <1>2 DEF Init, Positions
<1>4. ASSUME NEW i \in Indexes PROVE SlotIsLatest(i)
  BY DEF Init, SlotIsLatest, Indexes
<1>5. LineTypes /\ LineIsShown BY DEF Init, LineTypes, LineIsShown
<1> QED BY <1>1, <1>3, <1>4, <1>5 DEF InputInv, RingInv

(* A key stored: the slot written was the only one whose key would become a   *)
(* whole ring old.                                                            *)
LEMMA HandlerStep ==
    ASSUME InputInv, keyboard_handler
    PROVE  InputInv'
<1> USE InputAssumption
<1>1. RingTypes /\ Positions /\ LineTypes /\ LineIsShown BY DEF InputInv, RingInv
<1>a. pressed \in Nat BY <1>1 DEF RingTypes
<1>b. pressed % RingSize \in 0..RingSize - 1 BY <1>a, RestRange
<1>2. PICK w \in 0..RingSize - 1 : w = pressed % RingSize BY <1>b
<1>c. kb_w = w /\ w \in Indexes BY <1>1, <1>2 DEF Positions, Indexes
<1>3. PICK k \in Keys : ring' = [ring EXCEPT ![kb_w] = [key |-> k, at |-> pressed + 1]]
  BY DEF keyboard_handler
<1>d. [key |-> k, at |-> pressed + 1] \in KeySlot BY <1>a DEF KeySlot
<1>4. PICK new \in KeySlot : new = [key |-> k, at |-> pressed + 1] BY <1>d
<1>5. ring' = [ring EXCEPT ![w] = new] BY <1>3, <1>4, <1>c
<1>6. pressed' = pressed + 1 /\ pressed < MaxKeys /\ kb_w' = (w + 1) % RingSize
  BY <1>c DEF keyboard_handler
<1>7. UNCHANGED <<kb_r, pc, c, lineVars>> BY DEF keyboard_handler
<1>8. kb_w' = pressed' % RingSize BY <1>a, <1>2, <1>6, NextRemainder
<1>9. RingTypes'
  <2>1. ring' \in [Indexes -> KeySlot] BY <1>1, <1>c, <1>5 DEF RingTypes
  <2>2. pressed' \in 0..MaxKeys /\ pressed' \in Nat BY <1>a, <1>6
  <2>3. pressed' % RingSize \in 0..RingSize - 1 BY <2>2, RestRange
  <2>4. kb_w' \in Indexes BY <1>8, <2>3 DEF Indexes
  <2> QED BY <1>1, <1>7, <2>1, <2>2, <2>4 DEF RingTypes
<1>10. Positions'
  BY <1>1, <1>6, <1>7, <1>8 DEF Positions, RingTypes, KeySlot
<1>11. ASSUME NEW i \in Indexes PROVE SlotIsLatest(i)'
  <2>1. SlotIsLatest(i) BY DEF InputInv, RingInv
  <2>2. CASE i = w
    <3>1. ring'[i].at = pressed + 1 BY <1>1, <1>4, <1>5, <2>2 DEF RingTypes
    <3> QED BY <1>a, <1>2, <1>6, <2>2, <3>1 DEF SlotIsLatest
  <2>3. CASE i # w
    <3>1. PICK n \in Nat : n = ring[i].at BY <1>1 DEF RingTypes, KeySlot
    <3>2. ring'[i].at = n BY <1>1, <1>5, <2>3, <3>1 DEF RingTypes
    <3>3. CASE n = 0
      <4>1. pressed <= i BY <2>1, <3>1, <3>3 DEF SlotIsLatest
      <4>2. pressed \in 0..RingSize - 1 BY <1>1, <4>1 DEF RingTypes, Indexes
      <4>3. w = pressed BY <1>2, <4>2
      <4>4. pressed + 1 <= i BY <1>1, <2>3, <4>1, <4>3 DEF RingTypes, Indexes
      <4> QED BY <1>6, <3>2, <3>3, <4>4 DEF SlotIsLatest
    <3>4. CASE n # 0
      <4>1. n <= pressed /\ pressed - n < RingSize /\ (n - 1) % RingSize = i
        BY <2>1, <3>1, <3>4 DEF SlotIsLatest
      <4>2. pressed - n # RingSize - 1
        <5> SUFFICES ASSUME pressed - n = RingSize - 1 PROVE FALSE OBVIOUS
        <5>1. PICK m \in Nat : m = n - 1 BY <3>4
        <5>2. pressed = m + RingSize BY <1>1, <5>1 DEF RingTypes
        <5>3. pressed % RingSize = m % RingSize BY <5>2, NextRemainder
        <5> QED BY <1>2, <2>3, <4>1, <5>1, <5>3
      <4>3. n <= pressed + 1 /\ (pressed + 1) - n < RingSize
        BY <1>1, <4>1, <4>2 DEF RingTypes
      <4> QED BY <1>6, <3>2, <3>4, <4>1, <4>3 DEF SlotIsLatest
    <3> QED BY <3>3, <3>4
  <2> QED BY <2>2, <2>3
<1>12. LineTypes' /\ LineIsShown'
  BY <1>1, <1>7 DEF lineVars, LineTypes, LineIsShown, RingTypes, KeySlot
<1> QED BY <1>9, <1>10, <1>11, <1>12 DEF InputInv, RingInv

(* The key loaded is the next one or one a multiple of the ring further on.   *)
LEMMA LoadedKey ==
    ASSUME InputInv, Load
    PROVE  /\ c' \in KeySlot /\ c'.at > c.at /\ c'.at <= pressed
           /\ (c'.at - c.at - 1) % RingSize = 0
           /\ kb_r = (c'.at - 1) % RingSize
<1> USE InputAssumption
<1>1. RingTypes /\ Positions BY DEF InputInv, RingInv
<1>2. PICK k \in Nat : k = c.at /\ k < pressed /\ kb_r = k % RingSize
  BY <1>1 DEF RingTypes, Positions, KeySlot, Load
<1>3. kb_r \in Indexes /\ kb_r <= k BY <1>2, RestRange DEF Indexes
<1>4. c' = ring[kb_r] /\ c' \in KeySlot BY <1>1, <1>3 DEF RingTypes, Load
<1>5. PICK n \in Nat : n = c'.at BY <1>4 DEF KeySlot
<1>6. SlotIsLatest(kb_r) BY <1>3 DEF InputInv, RingInv
<1>7. n # 0
  BY <1>1, <1>2, <1>3, <1>4, <1>5, <1>6 DEF SlotIsLatest, RingTypes, Indexes
<1>8. n <= pressed /\ pressed - n < RingSize /\ (n - 1) % RingSize = kb_r
  BY <1>4, <1>5, <1>6, <1>7 DEF SlotIsLatest
<1>9. PICK m \in Nat : m = n - 1 BY <1>7
<1>10. m % RingSize = k % RingSize BY <1>2, <1>8, <1>9
<1>11. k <= m
  <2> SUFFICES ASSUME m < k PROVE FALSE OBVIOUS
  <2>1. m <= k /\ k % RingSize = m % RingSize BY <1>10
  <2>2. k - m >= RingSize BY <2>1, SameRemainder
  <2> QED BY <1>1, <1>2, <1>8, <1>9, <2>2 DEF RingTypes
<1>12. (m - k) % RingSize = 0 BY <1>10, <1>11, SameRemainder
<1>13. n > k /\ n - k - 1 = m - k BY <1>9, <1>11
<1> QED BY <1>2, <1>4, <1>5, <1>8, <1>12, <1>13

-----------------------------------------------------------------------------
(* The shell's steps.                                                         *)

(* The slots do not change when the shell moves.                              *)
LEMMA SlotsStay ==
    ASSUME RingInv, UNCHANGED ringVars
    PROVE  \A i \in Indexes : SlotIsLatest(i)'
BY DEF RingInv, SlotIsLatest, ringVars

LEMMA PollStep == ASSUME InputInv, Poll PROVE InputInv'
<1> USE InputAssumption
<1>1. RingTypes /\ Positions /\ LineTypes /\ LineIsShown BY DEF InputInv, RingInv
<1>2. pc = "poll" /\ pc' = "load" /\ kb_r # kb_w /\ UNCHANGED <<ringVars, lineVars, c>>
  BY DEF Poll
<1>3. RingTypes' BY <1>1, <1>2 DEF RingTypes, ringVars
<1>4. Positions'
  BY <1>1, <1>2 DEF Positions, RingTypes, KeySlot, ringVars
<1>5. LineTypes' /\ LineIsShown' BY <1>1, <1>2 DEF LineTypes, LineIsShown, lineVars
<1> QED BY <1>2, <1>3, <1>4, <1>5, SlotsStay DEF InputInv, RingInv

LEMMA LoadStep == ASSUME InputInv, Load PROVE InputInv'
<1> USE InputAssumption
<1>1. RingTypes /\ Positions /\ LineTypes /\ LineIsShown BY DEF InputInv, RingInv
<1>2. pc = "load" /\ pc' = "advance" /\ UNCHANGED <<ringVars, lineVars>> BY DEF Load
<1>3. /\ c' \in KeySlot /\ c'.at > c.at /\ c'.at <= pressed
      /\ kb_r = (c'.at - 1) % RingSize
  BY LoadedKey
<1>4. RingTypes' BY <1>1, <1>2, <1>3 DEF RingTypes, ringVars
<1>5. c.at \in Nat /\ c'.at \in Nat BY <1>1, <1>3 DEF RingTypes, KeySlot
<1>6. Positions' BY <1>1, <1>2, <1>3, <1>5 DEF Positions, ringVars
<1>7. line_len' <= c'.at /\ line_len' < c'.at
  BY <1>1, <1>2, <1>3, <1>5 DEF LineTypes, lineVars
<1>8. LineTypes' /\ LineIsShown'
  BY <1>1, <1>2, <1>7 DEF LineTypes, LineIsShown, lineVars
<1> QED BY <1>2, <1>4, <1>6, <1>8, SlotsStay DEF InputInv, RingInv

LEMMA AdvanceStep == ASSUME InputInv, Advance PROVE InputInv'
<1> USE InputAssumption
<1>1. RingTypes /\ Positions /\ LineTypes /\ LineIsShown BY DEF InputInv, RingInv
<1>2. /\ pc = "advance" /\ pc' = "edit" /\ kb_r' = (kb_r + 1) % RingSize
      /\ UNCHANGED <<ring, kb_w, pressed, c, lineVars>>
  BY DEF Advance
<1>3. c.at \in Nat /\ c.at >= 1 BY <1>1, <1>2 DEF RingTypes, KeySlot, Positions
<1>4. PICK m \in Nat : m = c.at - 1 BY <1>3
<1>5. kb_r = m % RingSize BY <1>1, <1>2, <1>4 DEF Positions
<1>6. kb_r' = (m + 1) % RingSize BY <1>2, <1>5, NextRemainder
<1>7. kb_r' = c'.at % RingSize BY <1>2, <1>3, <1>4, <1>6
<1>8. (m + 1) % RingSize \in 0..RingSize - 1 BY RestRange
<1>9. RingTypes' BY <1>1, <1>2, <1>6, <1>8 DEF RingTypes, Indexes
<1>10. Positions' BY <1>1, <1>2, <1>7 DEF Positions
<1>11. \A i \in Indexes : SlotIsLatest(i)'
  BY <1>2 DEF InputInv, RingInv, SlotIsLatest
<1>12. LineTypes' /\ LineIsShown' BY <1>1, <1>2 DEF LineTypes, LineIsShown, lineVars
<1> QED BY <1>9, <1>10, <1>11, <1>12 DEF InputInv, RingInv

(* An edit leaves the ring alone; of the line it is enough to look at the     *)
(* buffer, its length and the screen.                                         *)
LEMMA EditStep ==
    ASSUME InputInv, pc = "edit", pc' = "poll", UNCHANGED <<ringVars, c>>,
           LineTypes', LineIsShown'
    PROVE  InputInv'
<1>1. RingTypes /\ Positions BY DEF InputInv, RingInv
<1>2. RingTypes' BY <1>1 DEF RingTypes, ringVars
<1>3. Positions' BY <1>1 DEF Positions, ringVars
<1>4. \A i \in Indexes : SlotIsLatest(i)' BY SlotsStay DEF InputInv
<1> QED BY <1>2, <1>3, <1>4 DEF InputInv, RingInv

LEMMA LineStep == ASSUME InputInv, process_line PROVE InputInv'
<1>1. RingTypes /\ LineTypes BY DEF InputInv, RingInv
<1>2. /\ pc = "edit" /\ pc' = "poll" /\ UNCHANGED <<ringVars, c>>
      /\ line_len' = 0 /\ shown' = << >> /\ line' = line
  BY DEF process_line
<1>3. LineTypes' BY <1>1, <1>2 DEF LineTypes, RingTypes, KeySlot
<1>4. LineIsShown' BY <1>2 DEF LineIsShown
<1> QED BY <1>2, <1>3, <1>4, EditStep

LEMMA EraseStep == ASSUME InputInv, Erase PROVE InputInv'
<1>1. RingTypes /\ LineTypes /\ LineIsShown BY DEF InputInv, RingInv
<1>2. /\ pc = "edit" /\ pc' = "poll" /\ UNCHANGED <<ringVars, c>> /\ line' = line
  BY DEF Erase
<1>3. c.at \in Nat BY <1>1 DEF RingTypes, KeySlot
<1>4. CASE line_len > 0
  <2>1. line_len' = line_len - 1 /\ shown' = SubSeq(shown, 1, Len(shown) - 1)
    BY <1>4 DEF Erase
  <2>2. PICK n \in Nat : n = line_len - 1 /\ Len(shown) = n + 1
    BY <1>1, <1>4 DEF LineTypes, LineIsShown
  <2>3. shown \in Seq(Chars) BY <1>1 DEF LineTypes
  <2>4. shown' = SubSeq(shown, 1, n) BY <2>1, <2>2
  <2>5. /\ shown' \in Seq(Chars) /\ Len(shown') = n
        /\ \A i \in 1..n : shown'[i] = shown[i]
    BY <2>2, <2>3, <2>4
  <2>6. line_len' = n BY <2>1, <2>2
  <2>7. LineIsShown' BY <1>1, <1>2, <2>2, <2>5, <2>6 DEF LineIsShown
  <2>8. LineTypes' BY <1>1, <1>2, <1>3, <2>2, <2>5, <2>6 DEF LineTypes
  <2> QED BY <1>2, <2>7, <2>8, EditStep
<1>5. CASE ~(line_len > 0)
  <2>1. line_len' = line_len /\ shown' = shown BY <1>5 DEF Erase
  <2>2. LineTypes' /\ LineIsShown' BY <1>1, <1>2, <2>1 DEF LineTypes, LineIsShown
  <2> QED BY <1>2, <2>2, EditStep
<1> QED BY <1>4, <1>5

LEMMA TypeStep == ASSUME InputInv, Type PROVE InputInv'
<1> USE InputAssumption
<1>1. RingTypes /\ Positions /\ LineTypes /\ LineIsShown BY DEF InputInv, RingInv
<1>2. /\ pc = "edit" /\ pc' = "poll" /\ UNCHANGED <<ringVars, c>> /\ c.key \in Chars
      /\ line' = [line EXCEPT ![line_len] = c.key, ![line_len + 1] = NUL]
      /\ line_len' = line_len + 1 /\ shown' = Append(shown, c.key)
  BY DEF Type
<1>3. c.at \in Nat /\ c.at <= MaxKeys BY <1>1 DEF RingTypes, Positions, KeySlot
<1>4. PICK n \in Nat : n = line_len /\ n = Len(shown)
  BY <1>1 DEF LineTypes, LineIsShown
<1>5. n < c.at BY <1>1, <1>2, <1>4 DEF LineTypes
<1>6. n \in 0..MaxKeys /\ n + 1 \in 0..MaxKeys BY <1>3, <1>5
<1>7. PICK k \in Chars : k = c.key BY <1>2
<1>8. line \in [0..MaxKeys -> Chars \cup {NUL}] BY <1>1 DEF LineTypes
<1>9. line' = [line EXCEPT ![n] = k, ![n + 1] = NUL] BY <1>2, <1>4, <1>7
<1>10. line' \in [0..MaxKeys -> Chars \cup {NUL}] BY <1>6, <1>8, <1>9
<1>11. line'[n] = k /\ \A i \in 0..n - 1 : line'[i] = line[i] BY <1>6, <1>8, <1>9
<1>12. shown \in Seq(Chars) /\ shown' = Append(shown, k) BY <1>1, <1>2, <1>7 DEF LineTypes
<1>13. /\ shown' \in Seq(Chars) /\ Len(shown') = n + 1 /\ shown'[n + 1] = k
       /\ \A i \in 1..n : shown'[i] = shown[i]
  BY <1>4, <1>12
<1>14. line_len' = n + 1 BY <1>2, <1>4
<1>15. LineTypes' BY <1>2, <1>3, <1>5, <1>10, <1>13, <1>14 DEF LineTypes
<1>16. LineIsShown'
  <2> SUFFICES ASSUME NEW i \in 1..n + 1 PROVE line'[i - 1] = shown'[i]
    BY <1>13, <1>14 DEF LineIsShown
  <2>1. CASE i = n + 1 BY <1>11, <1>13, <2>1
  <2>2. CASE i # n + 1
    <3>1. i \in 1..n /\ i - 1 \in 0..n - 1 BY <2>2
    <3>2. line[i - 1] = shown[i] BY <1>1, <1>4, <3>1 DEF LineIsShown
    <3> QED BY <1>11, <1>13, <3>1, <3>2
  <2> QED BY <2>1, <2>2
<1> QED BY <1>2, <1>15, <1>16, EditStep

LEMMA StepInput == InputInv /\ [Next]_vars => InputInv'
<1> SUFFICES ASSUME InputInv, [Next]_vars PROVE InputInv' OBVIOUS
<1>1. CASE keyboard_handler BY <1>1, HandlerStep
<1>2. CASE Poll BY <1>2, PollStep
<1>3. CASE Load BY <1>3, LoadStep
<1>4. CASE Advance BY <1>4, AdvanceStep
<1>5. CASE process_line BY <1>5, LineStep
<1>6. CASE Erase BY <1>6, EraseStep
<1>7. CASE Type BY <1>7, TypeStep
<1>8. CASE UNCHANGED vars
  BY <1>8 DEF InputInv, RingInv, RingTypes, Positions, SlotIsLatest, LineTypes,
              LineIsShown, vars, ringVars, lineVars
<1> QED BY <1>1, <1>2, <1>3, <1>4, <1>5, <1>6, <1>7, <1>8 DEF Next

(* What is in the buffer up to line_len is what the user sees, whatever is    *)
(* typed and however often the ring runs over.                                *)
THEOREM InputSafe == Spec => []LineIsShown
<1>1. InputInv => LineIsShown BY DEF InputInv
<1> QED BY <1>1, InitInput, StepInput, PTL DEF Spec

(* Every load gives the editor a key pressed after the last one it got, so    *)
(* none twice, and keys are lost only a whole ring at a time.                 *)
THEOREM KeysOrdered == Spec => KeysInOrder
<1> DEFINE Ordered == Load => c'.at > c.at /\ (c'.at - c.at - 1) % RingSize = 0
<1>1. InputInv => Ordered BY LoadedKey
<1> QED BY <1>1, InitInput, StepInput, PTL DEF Spec, KeysInOrder
=============================================================================
