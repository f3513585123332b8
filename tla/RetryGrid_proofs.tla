-------------------------- MODULE RetryGrid_proofs --------------------------
(***************************************************************************)
(* What NewRetryGrid and bucket promise for every grid NewRetryGrid        *)
(* accepts and every delay within it.                                      *)
(***************************************************************************)
EXTENDS RetryGrid, FiniteSets, FiniteSetTheorems, WellFoundedInduction, TLAPS

-----------------------------------------------------------------------------
(* Natural numbers.                                                        *)

\* Every non-empty set of naturals has a least element: the intervals that
\* end in its elements are finite sets, and inclusion among them is well
\* founded.
LEMMA LeastElement ==
    ASSUME NEW A \in SUBSET Nat, A # {}
    PROVE  \E m \in A : \A k \in A : m <= k
<1> DEFINE Segments == {0..k : k \in A}
<1>1. Segments # {} /\ Segments \subseteq FiniteSubsetsOf(Nat)
  <2>1. \A k \in A : 0..k \subseteq Nat /\ IsFiniteSet(0..k)
    BY FS_Interval
  <2> QED
    BY <2>1 DEF FiniteSubsetsOf
<1>2. \E s \in Segments :
        \A t \in Segments : <<t, s>> \notin StrictSubsetOrdering(Nat)
  <2>1. IsWellFoundedOn(StrictSubsetOrdering(Nat), FiniteSubsetsOf(Nat))
    BY FS_StrictSubsetOrderingWellFounded
  <2> HIDE DEF Segments
  <2> QED
    BY <1>1, <2>1, WFMin
<1>3. PICK m \in A :
        \A k \in A : <<0..k, 0..m>> \notin StrictSubsetOrdering(Nat)
  BY <1>2
<1>4. ASSUME NEW k \in A, k < m
      PROVE  FALSE
  <2>1. 0..k \subseteq 0..m /\ 0..k # 0..m
    <3>1. m \in 0..m /\ m \notin 0..k
      BY <1>4
    <3> QED
      BY <1>4, <3>1
  <2>2. <<0..k, 0..m>> \in StrictSubsetOrdering(Nat)
    BY <2>1 DEF StrictSubsetOrdering
  <2> QED
    BY <1>3, <2>2
<1> QED
  BY <1>4

\* Go's division, for a non-negative dividend and a positive divisor.
LEMMA DivisionBounds ==
    ASSUME NEW a \in Nat, NEW b \in Nat, b > 0
    PROVE  /\ a \div b \in Nat
           /\ b * (a \div b) <= a
           /\ a < b * (a \div b) + b
  BY SMT

LEMMA DivisionBelow ==
    ASSUME NEW a \in Nat, NEW b \in Nat, NEW n \in Nat, b > 0, a < b * n
    PROVE  a \div b < n
<1>1. a \div b \in Nat /\ b * (a \div b) <= a
  BY DivisionBounds
<1>2. SUFFICES ASSUME n <= a \div b
               PROVE  FALSE
  BY <1>1
<1>3. b * n <= b * (a \div b)
  BY <1>1, <1>2
<1> QED
  BY <1>1, <1>3

LEMMA DivisionExact ==
    ASSUME NEW a \in Nat, NEW b \in Nat, b > 0, a % b = 0
    PROVE  a = b * (a \div b)
  BY SMT

-----------------------------------------------------------------------------
(* The boundaries of a grid.                                               *)

\* The code checks that neighbouring boundaries increase; all of them do.
LEMMA BoundariesIncrease ==
    ASSUME NEW b \in Seq(Int), NEW p \in Int, ValidGrid(b, p),
           NEW i \in 1..Len(b), NEW j \in 1..Len(b), i < j
    PROVE  b[i] < b[j]
<1> DEFINE Bad == {k \in 1..Len(b) : i < k /\ ~(b[i] < b[k])}
<1>1. SUFFICES ASSUME Bad # {}
               PROVE  FALSE
  OBVIOUS
<1>2. PICK k \in Bad : \A other \in Bad : k <= other
  <2>1. Bad \in SUBSET Nat
    OBVIOUS
  <2> HIDE DEF Bad
  <2> QED
    BY <1>1, <2>1, LeastElement
<1>3. k - 1 \in 1..(Len(b) - 1) /\ k - 1 \notin Bad
  BY <1>2
<1>4. b[k - 1] < b[k]
  <2>1. ValidBand(b, p, k - 1)
    BY <1>3 DEF ValidGrid
  <2> QED
    BY <1>3, <2>1 DEF ValidBand
<1>5. b[i] \in Int /\ b[k - 1] \in Int /\ b[k] \in Int
  BY <1>3
<1>6. CASE k - 1 = i
  BY <1>2, <1>4, <1>6
<1>7. CASE k - 1 # i
  <2>1. b[i] < b[k - 1]
    BY <1>2, <1>3, <1>7
  <2> QED
    BY <1>2, <1>4, <1>5, <2>1
<1> QED
  BY <1>6, <1>7

LEMMA BoundariesAreNat ==
    ASSUME NEW b \in Seq(Int), NEW p \in Int, ValidGrid(b, p)
    PROVE  \A i \in 1..Len(b) : b[i] \in Nat
<1>1. b[1] = 0 /\ Len(b) \in Nat /\ Len(b) >= 2
  BY DEF ValidGrid
<1>2. TAKE i \in 1..Len(b)
<1>3. CASE i = 1
  BY <1>1, <1>3
<1>4. CASE i # 1
  <2>1. b[1] < b[i]
    BY <1>1, <1>4, BoundariesIncrease
  <2> QED
    BY <1>1, <2>1
<1> QED
  BY <1>3, <1>4

\* The partitions of a band cover it: its width is what NewRetryGrid checked,
\* and partitions times the width is the whole band.
LEMMA BandIsCut ==
    ASSUME NEW b \in Seq(Int), NEW p \in Int, ValidGrid(b, p),
           NEW band \in Bands(b)
    PROVE  /\ p \in Nat /\ p > 0
           /\ BandWidth(b, p, band) \in Nat
           /\ BandWidth(b, p, band) >= Second
           /\ b[band + 1] = b[band] + p * BandWidth(b, p, band)
<1>1. band \in 1..Len(b) /\ band + 1 \in 1..Len(b)
  BY DEF Bands
<1>2. b[band] \in Nat /\ b[band + 1] \in Nat /\ p \in Nat /\ p > 0
  BY <1>1, BoundariesAreNat DEF ValidGrid
<1>3. ValidBand(b, p, band)
  BY DEF ValidGrid, Bands
<1> DEFINE span == b[band + 1] - b[band]
<1>4. span \in Nat /\ span % p = 0 /\ BandWidth(b, p, band) = span \div p
  BY <1>2, <1>3 DEF ValidBand, BandWidth
<1>5. BandWidth(b, p, band) \in Nat /\ span = p * BandWidth(b, p, band)
  <2> HIDE DEF span
  <2> QED
    BY <1>2, <1>4, DivisionExact, DivisionBounds
<1> QED
  BY <1>2, <1>3, <1>5 DEF ValidBand

-----------------------------------------------------------------------------
(* The bucket of a delay.                                                  *)

\* The binary search finds a band, and the delay lies in it.
LEMMA BandHoldsDelay ==
    ASSUME NEW b \in Seq(Int), NEW p \in Int, ValidGrid(b, p),
           NEW delay \in Int, InRange(b, delay)
    PROVE  LET band == BandOf(b, delay)
           IN  /\ band \in Bands(b)
               /\ delay <= b[band + 1]
               /\ IF band = 1 THEN delay >= b[band] ELSE delay > b[band]
<1> DEFINE Upper == {band \in Bands(b) : delay <= b[band + 1]}
<1>1. Len(b) \in Nat /\ Len(b) >= 2
  BY DEF ValidGrid
<1>2. \A band \in Bands(b) : band \in Nat /\ b[band] \in Int /\ b[band + 1] \in Int
  BY <1>1 DEF Bands
<1>3. Len(b) - 1 \in Upper
  BY <1>1 DEF Bands, InRange
<1>4. PICK least \in Upper : \A other \in Upper : least <= other
  <2>1. Upper \in SUBSET Nat /\ Upper # {}
    BY <1>2, <1>3
  <2> HIDE DEF Upper
  <2> QED
    BY <2>1, LeastElement
<1>5. /\ least \in Bands(b) /\ delay <= b[least + 1]
      /\ \A lower \in 1..(least - 1) : b[lower + 1] < delay
  <2>1. ASSUME NEW lower \in 1..(least - 1)
        PROVE  b[lower + 1] < delay
    <3>1. lower \in Bands(b) /\ lower \notin Upper
      BY <1>1, <1>4, <2>1 DEF Bands
    <3> QED
      BY <1>2, <3>1
  <2> QED
    BY <1>4, <2>1
<1> DEFINE found == BandOf(b, delay)
<1>6. /\ found \in Bands(b)
      /\ delay <= b[found + 1]
      /\ \A lower \in 1..(found - 1) : b[lower + 1] < delay
  BY <1>5 DEF BandOf
<1>7. IF found = 1 THEN delay >= b[found] ELSE delay > b[found]
  <2> HIDE DEF found
  <2>1. CASE found = 1
    BY <1>2, <1>6, <2>1 DEF InRange
  <2>2. CASE found # 1
    <3>1. found \in Nat /\ found - 1 \in 1..(found - 1) /\ found - 1 + 1 = found
      BY <1>1, <1>6, <2>2 DEF Bands
    <3>2. b[found - 1 + 1] < delay
      BY <1>6, <3>1
    <3> QED
      BY <1>2, <1>6, <2>2, <3>1, <3>2
  <2> QED
    BY <2>1, <2>2
<1> QED
  BY <1>6, <1>7

\* Every delay of the grid has a bucket, it is one of the partitions the
\* topics were created with, and it holds the delay: the delay lies above the
\* bucket's lower bound (or is zero) and not above its upper bound.  The upper
\* bound is what retry_mover's ordering relies on; a Produce to a partition
\* that does not exist would make the worker fail.
THEOREM BucketHoldsDelay ==
    ASSUME NEW b \in Seq(Int), NEW p \in Int, ValidGrid(b, p),
           NEW delay \in Int, InRange(b, delay)
    PROVE  /\ Bucket(b, p, delay) \in Buckets(b, p)
           /\ delay <= UpperBound(b, p, Bucket(b, p, delay))
           /\ delay = 0 \/ LowerBound(b, p, Bucket(b, p, delay)) < delay
<1> DEFINE band == BandOf(b, delay)
           width == BandWidth(b, p, band)
           relative == delay - b[band]
           part == PartitionOf(b, p, delay)
<1>1. /\ band \in Bands(b)
      /\ delay <= b[band + 1]
      /\ IF band = 1 THEN delay >= b[band] ELSE delay > b[band]
  BY BandHoldsDelay
<1>2. /\ p \in Nat /\ p > 0 /\ width \in Nat /\ width > 0
      /\ b[band + 1] = b[band] + p * width
  BY <1>1, BandIsCut, SecondAssumption
<1>3. b[band] \in Nat
  BY <1>1, BoundariesAreNat DEF Bands
<1>4. b[1] = 0
  BY DEF ValidGrid
<1> HIDE DEF band, width
<1>5. relative \in Nat /\ relative <= p * width
  BY <1>1, <1>2, <1>3
<1>6. part = IF relative > 0 THEN (relative - 1) \div width ELSE 0
  BY DEF PartitionOf, band, width
<1> HIDE DEF relative, part
<1>7. CASE relative > 0
  <2>1. relative - 1 \in Nat /\ relative - 1 < width * p
    BY <1>2, <1>5, <1>7
  <2>2. /\ part \in Nat /\ width * part <= relative - 1
        /\ relative - 1 < width * part + width
    BY <1>2, <1>6, <1>7, <2>1, DivisionBounds
  <2>3. part < p
    BY <1>2, <1>6, <1>7, <2>1, DivisionBelow
  <2>4. (part + 1) * width = width * part + width /\ part * width = width * part
    BY <1>2, <2>2
  <2>5. delay <= b[band] + (part + 1) * width /\ b[band] + part * width < delay
    <3>1. relative = delay - b[band] /\ width * part \in Nat
      BY <1>2, <2>2 DEF relative
    <3> QED
      BY <1>2, <1>3, <2>2, <2>4, <3>1
  <2> QED
    BY <1>1, <1>2, <2>2, <2>3, <2>5
      DEF Bucket, Buckets, UpperBound, LowerBound, band, width, part
<1>8. CASE ~(relative > 0)
  <2>1. relative = 0 /\ part = 0 /\ delay = b[band]
    BY <1>3, <1>5, <1>6, <1>8 DEF relative
  <2>2. delay = 0
    BY <1>1, <1>3, <1>4, <2>1
  <2>3. delay <= b[band] + (part + 1) * width
    BY <1>2, <1>3, <2>1
  <2> QED
    BY <1>1, <1>2, <2>1, <2>2, <2>3
      DEF Bucket, Buckets, UpperBound, LowerBound, band, width, part
<1> QED
  BY <1>7, <1>8

=============================================================================
