----------------------------- MODULE FifoLemmas -----------------------------
(***************************************************************************)
(* What the counters and slots of FifoOps satisfy for every Size and every *)
(* proper multiple PosMod of it: the facts the proofs about Fifo and Uart  *)
(* rest on.  The first part is arithmetic of the remainder, the second     *)
(* restates it for Distance, Next1 and Slot.                               *)
(***************************************************************************)
EXTENDS FifoOps, TLAPS

\* A number is quotient times divisor plus remainder.
LEMMA Quotient ==
  ASSUME NEW n \in Nat \ {0}, NEW a \in Int
  PROVE  /\ a % n \in 0 .. n - 1 /\ a \div n \in Int
         /\ a = n * (a \div n) + (a % n)
OBVIOUS

\* Quotient and remainder are determined by the number.
LEMMA RemainderUnique ==
  ASSUME NEW n \in Nat \ {0}, NEW q \in Int, NEW r \in 0 .. n - 1,
         NEW s \in Int, NEW t \in 0 .. n - 1, n * q + r = n * s + t
  PROVE  r = t
<1>1. ASSUME NEW x \in Int, NEW y \in Int, x < y
      PROVE  n * y >= n * x + n
  <2>1. y - x - 1 \in Nat  BY <1>1
  <2>2. n * (y - x - 1) >= 0 BY <2>1
  <2> QED BY <2>2
<1>2. ~(q < s) BY <1>1
<1>3. ~(s < q) BY <1>1
<1> QED BY <1>2, <1>3

\* Multiples of the divisor do not change the remainder.
LEMMA ModPlus ==
  ASSUME NEW n \in Nat \ {0}, NEW a \in Int, NEW k \in Int
  PROVE  (a + k * n) % n = a % n
<1> DEFINE b == a + k * n
<1>1. b \in Int /\ b = n * (b \div n) + (b % n) /\ b % n \in 0 .. n - 1 /\ b \div n \in Int
  <2>1. b \in Int OBVIOUS
  <2> HIDE DEF b
  <2> QED BY <2>1, Quotient
<1>2. b = n * (a \div n + k) + (a % n) /\ a % n \in 0 .. n - 1 /\ a \div n + k \in Int
  BY Quotient
<1>3. b % n = a % n
  <2> HIDE DEF b
  <2>1. n * (b \div n) + (b % n) = n * (a \div n + k) + (a % n) BY <1>1, <1>2
  <2> QED BY <1>1, <1>2, <2>1, RemainderUnique
<1> QED BY <1>3

\* Numbers less than the divisor apart have different remainders.
LEMMA ModDistinct ==
  ASSUME NEW n \in Nat \ {0}, NEW a \in Int, NEW b \in Int, a < b, b < a + n
  PROVE  a % n # b % n
<1> DEFINE r == a % n
<1>1. SUFFICES ASSUME b % n = r PROVE FALSE OBVIOUS
<1>2. /\ a = n * (a \div n) + r /\ b = n * (b \div n) + r
      /\ a \div n \in Int /\ b \div n \in Int /\ r \in Int
  BY Quotient, <1>1
<1> DEFINE d == b \div n - a \div n
<1>3. b - a = n * d /\ d \in Int BY <1>2
<1>4. 0 < n * d /\ n * d < n BY <1>3
<1>5. d >= 1 BY <1>3, <1>4
<1>6. n * (d - 1) >= 0 BY <1>5, <1>3
<1> QED BY <1>3, <1>4, <1>6

-----------------------------------------------------------------------------

\* Two memories' worth of bytes fit the counters.
LEMMA Sizes == Size \in Nat \ {0} /\ PosMod \in Nat \ {0} /\ 2 * Size <= PosMod
<1>1. Size \in Nat \ {0} /\ PosMod \in Nat \ {0} BY SizeAssumption
<1>2. PICK k \in 2 .. PosMod : PosMod = k * Size BY PosModAssumption
<1>3. (k - 2) * Size >= 0 BY <1>1, <1>2
<1> QED BY <1>1, <1>2, <1>3

LEMMA NextCases ==
  ASSUME NEW p \in Positions
  PROVE  Next1(p) = (IF p = PosMod - 1 THEN 0 ELSE p + 1) /\ Next1(p) \in Positions
BY Sizes DEF Next1, Positions

LEMMA DistanceCases ==
  ASSUME NEW a \in Positions, NEW b \in Positions
  PROVE  /\ Distance(a, b) = IF b >= a THEN b - a ELSE b - a + PosMod
         /\ Distance(a, b) \in Positions
BY Sizes DEF Distance, Positions

LEMMA SlotInSlots ==
  ASSUME NEW p \in Int
  PROVE  Slot(p) \in Slots
BY Sizes, Quotient DEF Slot, Slots

\* A counter that wraps stays on its slot.
LEMMA SlotWraps ==
  ASSUME NEW p \in Int
  PROVE  Slot(p + PosMod) = Slot(p)
<1>1. PICK k \in 2 .. PosMod : PosMod = k * Size BY PosModAssumption
<1>2. Size \in Nat \ {0} /\ k \in Int BY Sizes
<1>3. (p + k * Size) % Size = p % Size BY <1>2, ModPlus
<1> QED BY <1>1, <1>3 DEF Slot

LEMMA SlotNext ==
  ASSUME NEW p \in Positions, NEW k \in Nat
  PROVE  Slot(Next1(p) + k) = Slot(p + 1 + k)
<1>1. p \in Int /\ PosMod \in Int BY Sizes DEF Positions
<1>2. CASE p = PosMod - 1
  <2>1. Slot(k + PosMod) = Slot(k) BY SlotWraps
  <2>2. Next1(p) + k = k /\ p + 1 + k = k + PosMod BY <1>1, <1>2, NextCases
  <2> QED BY <2>1, <2>2
<1>3. CASE p # PosMod - 1 BY <1>1, <1>3, NextCases
<1> QED BY <1>2, <1>3

\* write_pos is on the slot behind the last waiting byte.
LEMMA SlotOfEnd ==
  ASSUME NEW a \in Positions, NEW b \in Positions
  PROVE  Slot(b) = Slot(a + Distance(a, b))
<1>1. a \in Int /\ b \in Int /\ PosMod \in Int BY Sizes DEF Positions
<1>2. a + Distance(a, b) \in {b, b + PosMod} BY <1>1, DistanceCases
<1> QED BY <1>1, <1>2, SlotWraps

\* Different positions within one memory's length are different slots.
LEMMA SlotsDiffer ==
  ASSUME NEW p \in Int, NEW i \in Int, NEW j \in Int, i < j, j < i + Size
  PROVE  Slot(p + i) # Slot(p + j)
<1>1. p + i \in Int /\ p + j \in Int /\ p + i < p + j /\ p + j < p + i + Size BY Sizes
<1> QED BY <1>1, ModDistinct, Sizes DEF Slot

LEMMA DistanceToSelf ==
  ASSUME NEW a \in Positions
  PROVE  Distance(a, a) = 0
BY DistanceCases, Sizes DEF Positions

\* Publishing a byte makes the FIFO one longer, unless the counters are at
\* their limit, which 2 * Size <= PosMod keeps out of reach.
LEMMA LengthAfterPublish ==
  ASSUME NEW a \in Positions, NEW b \in Positions, Distance(a, b) < Size
  PROVE  Distance(a, Next1(b)) = Distance(a, b) + 1
<1>1. Next1(b) \in Positions /\ Next1(b) = IF b = PosMod - 1 THEN 0 ELSE b + 1
  BY NextCases
<1>2. Distance(a, b) = IF b >= a THEN b - a ELSE b - a + PosMod
  BY DistanceCases
<1>3. Distance(a, Next1(b)) =
        IF Next1(b) >= a THEN Next1(b) - a ELSE Next1(b) - a + PosMod
  BY <1>1, DistanceCases
<1> QED BY <1>1, <1>2, <1>3, Sizes DEF Positions

LEMMA LengthAfterAdvance ==
  ASSUME NEW a \in Positions, NEW b \in Positions, Distance(a, b) > 0
  PROVE  Distance(Next1(a), b) = Distance(a, b) - 1
<1>1. Next1(a) \in Positions /\ Next1(a) = IF a = PosMod - 1 THEN 0 ELSE a + 1
  BY NextCases
<1>2. Distance(a, b) = IF b >= a THEN b - a ELSE b - a + PosMod
  BY DistanceCases
<1>3. Distance(Next1(a), b) =
        IF b >= Next1(a) THEN b - Next1(a) ELSE b - Next1(a) + PosMod
  BY <1>1, DistanceCases
<1> QED BY <1>1, <1>2, <1>3, Sizes DEF Positions

\* A mark between the counters splits the length.
LEMMA LengthAfterFlush ==
  ASSUME NEW a \in Positions, NEW m \in Positions, NEW b \in Positions,
         Distance(a, m) <= Distance(a, b)
  PROVE  Distance(m, b) = Distance(a, b) - Distance(a, m)
<1>1. Distance(a, b) = IF b >= a THEN b - a ELSE b - a + PosMod
  BY DistanceCases
<1>2. Distance(a, m) = IF m >= a THEN m - a ELSE m - a + PosMod
  BY DistanceCases
<1>3. Distance(m, b) = IF b >= m THEN b - m ELSE b - m + PosMod
  BY DistanceCases
<1> QED BY <1>1, <1>2, <1>3, Sizes DEF Positions
=============================================================================
