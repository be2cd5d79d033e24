------------------------------ MODULE UipMath ------------------------------
(* The arithmetic uip.c does on bytes because it has no wide integers: adding *)
(* to a 32-bit sequence number kept as four bytes, the Internet checksum, and *)
(* the shortcut with which the answer to a ping gets its checksum.            *)
EXTENDS Integers, Sequences, Folds

CONSTANT Base       \* 256: values of a byte

ASSUME BaseAssumption == Base \in Nat /\ Base > 8   \* an ICMP echo has type 8

Octet == 0..Base - 1
Word == 0..Base * Base - 1
Hi(w) == w \div Base
Lo(w) == w % Base

(* uip_add32: op32 is a sequence number, most significant byte first, and     *)
(* op16 is added to its low half; a byte less than what was added to it has   *)
(* wrapped, and carries.                                                      *)
Inc(b) == (b + 1) % Base
Carry(acc, hit) ==      \* ++acc[1], then ++acc[0] if that is 0
    IF ~hit THEN acc
    ELSE IF Inc(acc[2]) = 0 THEN [acc EXCEPT ![2] = 0, ![1] = Inc(acc[1])]
    ELSE [acc EXCEPT ![2] = Inc(acc[2])]

uip_add32(op32, op16) ==
    LET lo == (op32[4] + Lo(op16)) % Base
        hi == (op32[3] + Hi(op16)) % Base
        acc == Carry(<<op32[1], op32[2], hi, lo>>, hi < Hi(op16))
        acc3 == [acc EXCEPT ![3] = Inc(hi)]
    IN  IF lo < Lo(op16) THEN Carry(acc3, acc3[3] = 0) ELSE acc

Value(b) == ((b[1] * Base + b[2]) * Base + b[3]) * Base + b[4]

(* chksum: 16-bit additions whose carry comes back in at the bottom; an odd   *)
(* last byte is the high one of a pair.                                       *)
AddCarry(sum, t) == LET s == (sum + t) % (Base * Base)
                    IN  IF s < t THEN s + 1 ELSE s

Pair(data, i) == data[i] * Base + (IF i < Len(data) THEN data[i + 1] ELSE 0)

chksum(sum, data) ==
    LET At(p) == Pair(data, 2 * p - 1)
    IN  MapThenFoldSet(LAMBDA t, s : AddCarry(s, t), sum, At,
                       LAMBDA S : CHOOSE p \in S : \A q \in S : p >= q,
                       1..(Len(data) + 1) \div 2)

(* The checksum field of an echo request, as the little-endian machine reads  *)
(* it, made that of the reply: the type goes from 8 to 0, so 8 is added.      *)
Swapped(w) == Lo(w) * Base + Hi(w)
IcmpReply(field) ==
    LET echo == Swapped(8 * Base)
    IN  IF field >= Swapped(Base * Base - 1 - 8 * Base)
        THEN (field + echo + 1) % (Base * Base) ELSE (field + echo) % (Base * Base)

-----------------------------------------------------------------------------
(* What they are to compute, for TLC to compare on every input of a small     *)
(* base.                                                                      *)

Numbers == [1..4 -> Octet]

(* A sequence number grows by op16 modulo 2^32, whatever bytes wrap.          *)
Add32IsAddition ==
    \A b \in Numbers, n \in Word :
        /\ uip_add32(b, n) \in Numbers
        /\ Value(uip_add32(b, n)) = (Value(b) + n) % (Base * Base * Base * Base)

(* The checksum is the sum of the words modulo 2^16 - 1, and is zero only for *)
(* data of zeros: nothing is lost by the additions that carry.                *)
Zero(data) == \A i \in DOMAIN data : data[i] = 0
WordSum(data) == MapThenFoldSet(+, 0, LAMBDA p : Pair(data, 2 * p - 1),
                                LAMBDA S : CHOOSE p \in S : TRUE,
                                1..(Len(data) + 1) \div 2)
ChksumIsSum(Inputs) ==
    \A data \in Inputs :
        /\ chksum(0, data) % (Base * Base - 1) = WordSum(data) % (Base * Base - 1)
        /\ chksum(0, data) = 0 <=> Zero(data)

(* A host that checks the sum of an answered ping finds it as right as that   *)
(* of the request.                                                            *)
IcmpReplyKeepsSum ==
    \A field \in Word : (IcmpReply(field) - field - 8) % (Base * Base - 1) = 0
=============================================================================
