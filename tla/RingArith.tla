----------------------------- MODULE RingArith -----------------------------
(***************************************************************************)
(* Facts about the arithmetic of ring indices that both queues rest on.    *)
(***************************************************************************)
EXTENDS Integers, TLAPS

(* A positive multiple of n is at least n.                                 *)
LEMMA MultipleAtLeast ==
  ASSUME NEW n \in Nat, NEW k \in Int, k >= 1
  PROVE  k * n >= n
  OBVIOUS

(* A remainder is determined by the number it is a remainder of.           *)
LEMMA RemainderUnique ==
  ASSUME NEW c \in Nat, c >= 1, NEW p \in Int, NEW q \in Int,
         NEW r \in 0..(c - 1), NEW s \in 0..(c - 1), p * c + r = q * c + s
  PROVE  r = s
<1> DEFINE k == p - q
<1>1. k \in Int /\ k * c = s - r
  OBVIOUS
<1> HIDE DEF k
<1>2. CASE k >= 1
  <2>1. k * c >= c
    BY <1>1, <1>2, MultipleAtLeast
  <2> QED
    BY <2>1, <1>1
<1>3. CASE k <= -1
  <2>1. (-k) * c >= c
    BY <1>1, <1>3, MultipleAtLeast
  <2> QED
    BY <2>1, <1>1
<1>4. CASE k = 0
  BY <1>1, <1>4
<1> QED
  BY <1>1, <1>2, <1>3, <1>4

(* The quotient counts the whole turns.                                    *)
LEMMA QuotientIs ==
  ASSUME NEW c \in Nat, c >= 1, NEW q \in Nat, NEW x \in 0..(c - 1)
  PROVE  (q * c + x) \div c = q
<1> DEFINE y == q * c + x
<1>1. y \in Nat /\ y = q * c + x
  OBVIOUS
<1> HIDE DEF y
<1> DEFINE a == y \div c
           r == y % c
<1>2. a \in Nat /\ y = a * c + r /\ r \in 0..(c - 1)
  BY <1>1
<1> HIDE DEF a, r
<1>3. r = x
  <2>1. a * c + r = q * c + x /\ a \in Int /\ q \in Int
    BY <1>1, <1>2
  <2> QED
    BY <1>2, <2>1, RemainderUnique
<1>4. (q - a) * c = 0
  BY <1>1, <1>2, <1>3
<1> DEFINE k == q - a
<1>5. k \in Int /\ k * c = 0
  BY <1>2, <1>4
<1> HIDE DEF k
<1>6. ~(k >= 1) /\ ~(k <= -1)
  <2>1. k >= 1 => k * c >= c
    BY <1>5, MultipleAtLeast
  <2>2. k <= -1 => (-k) * c >= c
    BY <1>5, MultipleAtLeast
  <2> QED
    BY <1>5, <2>1, <2>2
<1> QED
  BY <1>2, <1>5, <1>6 DEF k, a, y

(* Whole turns of the ring do not change the slot.                         *)
LEMMA WholeTurns ==
  ASSUME NEW c \in Nat, c >= 1, NEW q \in Nat, NEW x \in Nat
  PROVE  (q * c + x) % c = x % c
<1> DEFINE y == q * c + x
           a == x \div c
           r == x % c
<1>1. y \in Nat
  OBVIOUS
<1>2. a \in Nat /\ x = a * c + r /\ r \in 0..(c - 1)
  OBVIOUS
<1> HIDE DEF y, a, r
<1> DEFINE b == y \div c
           s == y % c
<1>3. b \in Nat /\ y = b * c + s /\ s \in 0..(c - 1)
  BY <1>1
<1> HIDE DEF b, s
<1>4. (q + a) * c + r = b * c + s
  <2>1. (q + a) * c = q * c + a * c
    BY <1>2
  <2>2. y = q * c + x
    BY DEF y
  <2> QED
    BY <1>2, <1>3, <2>1, <2>2
<1>5. r = s
  <2>1. q + a \in Int /\ b \in Int
    BY <1>2, <1>3
  <2> QED
    BY <1>2, <1>3, <1>4, <2>1, RemainderUnique
<1> QED
  BY <1>5 DEF y, r, s

(* An index may be reduced before or after it is added or subtracted.      *)
LEMMA ReduceFirst ==
  ASSUME NEW c \in Nat, c >= 1, NEW x \in Int, NEW y \in Int
  PROVE  /\ ((x % c) + y) % c = (x + y) % c
         /\ (y - (x % c)) % c = (y - x) % c
<1> DEFINE q == x \div c
           m == x % c
<1>1. q \in Int /\ m \in Int /\ x = q * c + m
  OBVIOUS
<1> HIDE DEF q, m
<1>2. ASSUME NEW u \in Int, NEW v \in Int, NEW k \in Int, v = k * c + u
      PROVE  u % c = v % c
  <2> DEFINE a == u \div c
             b == v \div c
             r == u % c
             s == v % c
  <2>1. /\ a \in Int /\ b \in Int /\ r \in 0..(c - 1) /\ s \in 0..(c - 1)
        /\ u = a * c + r /\ v = b * c + s
    OBVIOUS
  <2> HIDE DEF a, b, r, s
  <2> DEFINE h == k + a
  <2>2. h \in Int /\ h * c + r = b * c + s
    BY <2>1, <1>2
  <2> HIDE DEF h
  <2>3. r = s
    BY <2>1, <2>2, RemainderUnique
  <2> QED
    BY <2>3 DEF r, s
<1>3. (m + y) % c = (x + y) % c
  <2>1. m + y \in Int /\ x + y \in Int /\ x + y = q * c + (m + y)
    BY <1>1
  <2> QED
    BY <1>1, <1>2, <2>1
<1>4. (y - m) % c = (y - x) % c
  <2>1. y - m \in Int /\ y - x \in Int /\ -q \in Int /\ y - x = (-q) * c + (y - m)
    BY <1>1
  <2> QED
    BY <1>2, <2>1
<1> QED
  BY <1>3, <1>4 DEF m

(* The same for the slot that lies y behind that of index x.               *)
LEMMA ReduceSum ==
  ASSUME NEW c \in Nat, c >= 1, NEW x \in Nat, NEW y \in Nat
  PROVE  ((x % c) + y) % c = (x + y) % c
<1>1. x \in Int /\ y \in Int
  OBVIOUS
<1> QED
  BY <1>1, ReduceFirst, Zenon

(* Indices less than one turn apart have different slots.                  *)
LEMMA RingDistinct ==
  ASSUME NEW c \in Nat, c >= 1, NEW x \in Nat, NEW y \in Nat, x < y, y < x + c
  PROVE  x % c # y % c
<1> SUFFICES ASSUME x % c = y % c PROVE FALSE
  OBVIOUS
<1> DEFINE a == x \div c
           b == y \div c
           k == b - a
<1>1. a \in Nat /\ x = a * c + (x % c)
  OBVIOUS
<1>2. b \in Nat /\ y = b * c + (y % c)
  OBVIOUS
<1>3. k \in Int /\ y - x = k * c
  BY <1>1, <1>2
<1> HIDE DEF k
<1>4. CASE k >= 1
  <2>1. k * c >= c
    BY <1>3, <1>4, MultipleAtLeast
  <2> QED
    BY <2>1, <1>3
<1>5. CASE k <= -1
  <2>1. (-k) * c >= c
    BY <1>3, <1>5, MultipleAtLeast
  <2> QED
    BY <2>1, <1>3
<1>6. CASE k = 0
  BY <1>3, <1>6
<1> QED
  BY <1>3, <1>4, <1>5, <1>6

(* The slots repeat with the size of the ring.                             *)
LEMMA RingPeriod ==
  ASSUME NEW c \in Nat, c >= 1, NEW x \in Nat
  PROVE  (x + c) % c = x % c
<1>1. (1 * c + x) % c = x % c
  BY WholeTurns
<1> QED
  BY <1>1

=============================================================================
