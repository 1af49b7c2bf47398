---------------------------- MODULE CasQueueSize ----------------------------
(***************************************************************************)
(* The constructor of cas_queue_t: from the size asked for to _size, which *)
(* CasQueue has as the constant Size.                                      *)
(***************************************************************************)
EXTENDS CasQueue, Bitwise

VARIABLE asked  \* the argument size of the constructor

svars == <<vars, asked>>

power_of_two(num) == num # 0 /\ (num & (num - 1)) = 0

(* Variant with a fault: a shift is left out.                              *)
smear_short(num) ==
  LET a == num | shiftR(num, 1)
      b == a | shiftR(a, 2)
  IN  b | shiftR(b, 8)

(* All bits below the highest one that is set.  The shift by 16 has no bit *)
(* to move when IdxMod is at most 2^16.                                    *)
smear(num) ==
  LET a == num | shiftR(num, 1)
      b == a | shiftR(a, 2)
      c == b | shiftR(b, 4)
      d == c | shiftR(c, 8)
  IN  d | shiftR(d, 16)

ceil_power_of_two(num) == smear(num) - shiftR(smear(num), 1)

(* The subtraction and the shift are those of a uint32_t.                  *)
roundup_power_of_two(num) == ceil_power_of_two((((num - 1) % IdxMod) * 2) % IdxMod)

cas_queue_t(num) ==
  IF num = 1 THEN 2 ELSE IF power_of_two(num) THEN num ELSE roundup_power_of_two(num)

(* Any size is asked for; a queue is used when it comes to Size slots.     *)
SInit == asked \in 1..(IdxMod \div 2) /\ Init

SNext ==
  /\ IF cas_queue_t(asked) = Size THEN Next ELSE UNCHANGED vars
  /\ UNCHANGED asked

SSpec == SInit /\ [][SNext]_svars

(***************************************************************************)
(* For every size from 1 to half the range of a uint32_t, _size is the     *)
(* least power of two that is neither smaller nor below 2; it divides the  *)
(* range of the indices (CasQueueAssumption), and the mask of              *)
(* index_of_queue takes an index to its remainder.                         *)
(***************************************************************************)
RoundsUp ==
  LET s == cas_queue_t(asked)
  IN  /\ s >= 2 /\ s >= asked /\ IdxMod % s = 0
      /\ s = 2 \/ s < 2 * asked
      /\ (issued = 0 /\ s = asked) => \A i \in 0..(IdxMod - 1) : (i & (s - 1)) = i % s

=============================================================================
