------------------------------- MODULE Modulo --------------------------------
(* The remainder by the size of a ring: what the provers do not know of %,    *)
(* for the modules whose rings are indexed by a count modulo their size.      *)
EXTENDS Integers, WellFoundedInduction, TLAPS

LEMMA Remainder ==
    ASSUME NEW R \in Nat \ {0}, NEW q \in Nat, NEW r \in 0..R - 1
    PROVE  (R * q + r) % R = r
OBVIOUS

(* The remainder is the least number a multiple of R away.                    *)
LEMMA Division ==
    ASSUME NEW R \in Nat \ {0}, NEW m \in Nat
    PROVE  \E q \in Nat, r \in 0..R - 1 : m = R * q + r /\ m % R = r
<1> DEFINE Rests == {r \in Nat : \E q \in Nat : m = R * q + r}
           Less == OpToRel(<, Nat)
<1>1. m \in Rests
  <2>1. m = R * 0 + m OBVIOUS
  <2> QED BY <2>1
<1>2. PICK r \in Rests : \A s \in Rests : ~(<<s, r>> \in Less)
  <2>1. IsWellFoundedOn(Less, Nat) BY NatLessThanWellFounded
  <2> HIDE DEF Less
  <2>2. Rests \subseteq Nat OBVIOUS
  <2> HIDE DEF Rests
  <2> QED BY <1>1, <2>1, <2>2, WFMin
<1>3. PICK q \in Nat : m = R * q + r OBVIOUS
<1>4. r < R
  <2> SUFFICES ASSUME r >= R PROVE FALSE OBVIOUS
  <2>1. r - R \in Nat /\ m = R * (q + 1) + (r - R) BY <1>3
  <2>2. r - R \in Rests BY <2>1
  <2>3. <<r - R, r>> \in Less BY <2>1 DEF OpToRel
  <2> QED BY <1>2, <2>2, <2>3
<1>5. r \in 0..R - 1 BY <1>4
<1>6. m % R = r BY <1>3, <1>5, Remainder
<1> QED BY <1>3, <1>5, <1>6

LEMMA Multiple == ASSUME NEW R \in Nat \ {0}, NEW k \in Int, k >= 1 PROVE R * k >= R
OBVIOUS

(* Two numbers with the same remainder are a multiple of R apart.             *)
LEMMA SameRemainder ==
    ASSUME NEW R \in Nat \ {0}, NEW m \in Nat, NEW k \in Nat, m % R = k % R, k <= m
    PROVE  (m - k) % R = 0 /\ (k < m => m - k >= R)
<1>1. PICK q \in Nat, r \in 0..R - 1 : m = R * q + r /\ m % R = r BY Division
<1>2. PICK p \in Nat, s \in 0..R - 1 : k = R * p + s /\ k % R = s BY Division
<1>3. m - k = R * (q - p) BY <1>1, <1>2
<1>4. CASE q >= p
  <2>1. q - p \in Nat /\ m - k = R * (q - p) + 0 BY <1>3, <1>4
  <2>2. (m - k) % R = 0 BY <2>1, Remainder
  <2>3. k < m => m - k >= R
    <3>1. q = p \/ q - p >= 1 BY <1>4
    <3>2. q = p => m - k = 0 BY <1>1, <1>2
    <3> QED BY <1>3, <3>1, <3>2, Multiple
  <2> QED BY <2>2, <2>3
<1>5. CASE q < p
  <2>1. R * (p - q) >= R BY <1>5, Multiple
  <2>2. k - m = R * (p - q) BY <1>1, <1>2
  <2> QED BY <2>1, <2>2
<1> QED BY <1>4, <1>5

LEMMA NextRemainder ==
    ASSUME NEW R \in Nat \ {0}, NEW m \in Nat
    PROVE  (m + 1) % R = ((m % R) + 1) % R /\ (m + R) % R = m % R
<1>1. PICK q \in Nat, r \in 0..R - 1 : m = R * q + r /\ m % R = r BY Division
<1>2. PICK p \in Nat : p = q + 1 OBVIOUS
<1>3. (m + R) % R = r
  <2>1. m + R = R * p + r BY <1>1, <1>2
  <2> QED BY <2>1, Remainder
<1>4. CASE r + 1 < R
  <2>1. PICK s \in 0..R - 1 : s = r + 1 BY <1>4
  <2>2. m + 1 = R * q + s BY <1>1, <2>1
  <2>3. (m + 1) % R = s BY <2>2, Remainder
  <2>4. s % R = s BY <2>1
  <2> QED BY <1>1, <1>3, <2>1, <2>3, <2>4
<1>5. CASE r + 1 = R
  <2>1. m + 1 = R * p + 0 BY <1>1, <1>2, <1>5
  <2>2. 0 \in 0..R - 1 OBVIOUS
  <2>3. (m + 1) % R = 0 BY <2>1, <2>2, Remainder
  <2>4. R % R = 0 OBVIOUS
  <2> QED BY <1>1, <1>3, <1>5, <2>3, <2>4
<1> QED BY <1>4, <1>5

LEMMA RestRange ==
    ASSUME NEW R \in Nat \ {0}, NEW m \in Nat
    PROVE  m % R \in 0..R - 1 /\ m % R <= m
<1>1. PICK q \in Nat, r \in 0..R - 1 : m = R * q + r /\ m % R = r BY Division
<1>2. q = 0 \/ q >= 1 OBVIOUS
<1>3. q >= 1 => R * q >= R BY Multiple
<1>4. q = 0 => m = r BY <1>1
<1>5. q >= 1 => m >= r BY <1>1, <1>3
<1> QED BY <1>1, <1>2, <1>4, <1>5
=============================================================================
