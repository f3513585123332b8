------------------------- MODULE MCRetryGrid_proofs -------------------------
(***************************************************************************)
(* What the grid, its lookups and its topic names promise, for every list  *)
(* of boundaries, every number of partitions and every delay: bucket       *)
(* answers with the one cell of the grid that holds the delay, and the     *)
(* topics have names of their own, which are those the harness creates.    *)
(***************************************************************************)
EXTENDS MCRetryGrid, RetryGrid_proofs

-----------------------------------------------------------------------------
(* Division.                                                               *)

LEMMA DivisionRemainder ==
    ASSUME NEW a \in Nat, NEW b \in Nat, b > 0
    PROVE  /\ a \div b \in Nat /\ a % b \in Nat /\ a % b < b
           /\ a = b * (a \div b) + (a % b)
<1>1. a \div b \in Nat
  BY SMT
<1>2. a % b \in Nat
  BY SMT
<1>3. a % b < b
  BY SMT
<1>4. a = b * (a \div b) + (a % b)
  BY SMT
<1> QED
  BY <1>1, <1>2, <1>3, <1>4

LEMMA DivisionIsUnique ==
    ASSUME NEW a \in Nat, NEW b \in Nat, b > 0, NEW q \in Nat, NEW r \in Nat,
           r < b, a = b * q + r
    PROVE  a \div b = q /\ a % b = r
<1>1. /\ a \div b \in Nat /\ a % b \in Nat /\ a % b < b
      /\ a = b * (a \div b) + (a % b)
  BY DivisionRemainder
<1> DEFINE d == a \div b
           m == a % b
<1> HIDE DEF d, m
<1>2. d \in Nat /\ m \in Nat /\ m < b /\ b * d + m = b * q + r
  BY <1>1 DEF d, m
<1>3. CASE d < q
  <2>1. b * (d + 1) <= b * q /\ b * (d + 1) = b * d + b
    BY <1>2, <1>3
  <2> QED
    BY <1>2, <2>1
<1>4. CASE q < d
  <2>1. b * (q + 1) <= b * d /\ b * (q + 1) = b * q + b
    BY <1>2, <1>4
  <2> QED
    BY <1>2, <2>1
<1>5. CASE d = q
  BY <1>2, <1>5
<1> QED
  BY <1>2, <1>3, <1>4, <1>5 DEF d, m

LEMMA MultiplesDivide ==
    ASSUME NEW b \in Nat, b > 0, NEW q \in Nat
    PROVE  (b * q) % b = 0 /\ (b * q) \div b = q
<1>1. b * q \in Nat /\ b * q = b * q + 0
  OBVIOUS
<1> QED
  BY <1>1, DivisionIsUnique

\* Dividing both by a common factor changes the remainder's factor only.
LEMMA CommonFactor ==
    ASSUME NEW s \in Nat, s > 0, NEW e \in Nat, NEW f \in Nat, f > 0
    PROVE  /\ (s * e) \div (s * f) = e \div f
           /\ (s * e) % (s * f) = 0 <=> e % f = 0
<1> DEFINE q == e \div f
           r == e % f
<1>1. q \in Nat /\ r \in Nat /\ r < f /\ e = f * q + r
  BY SMT
<1> HIDE DEF q, r
<1>2. s * e = (s * f) * q + s * r
  <2>1. s * e = s * (f * q + r)
    BY <1>1
  <2>2. s * (f * q + r) = (s * f) * q + s * r
    BY <1>1
  <2> QED
    BY <2>1, <2>2
<1>3. s * r < s * f
  <2>1. s * (r + 1) <= s * f /\ s * (r + 1) = s * r + s
    BY <1>1
  <2> QED
    BY <1>1, <2>1
<1>4. s * e \in Nat /\ s * f \in Nat /\ s * f > 0 /\ s * r \in Nat
  BY <1>1, <1>3
<1>5. (s * e) \div (s * f) = q /\ (s * e) % (s * f) = s * r
  <2> DEFINE a == s * e
             b == s * f
             t == s * r
  <2>1. a \in Nat /\ b \in Nat /\ b > 0 /\ t \in Nat /\ t < b /\ a = b * q + t
    BY <1>2, <1>3, <1>4
  <2> HIDE DEF a, b, t
  <2>2. a \div b = q /\ a % b = t
    BY <1>1, <2>1, DivisionIsUnique
  <2> QED
    BY <2>2 DEF a, b, t
<1>6. s * r = 0 <=> r = 0
  BY <1>1
<1> QED
  BY <1>5, <1>6 DEF q, r

-----------------------------------------------------------------------------
(* The names of the topics.                                                *)

LEMMA LargestUnitDivides ==
    ASSUME NEW d \in Nat, d % Second = 0
    PROVE  /\ LargestUnit(d) \in Nat /\ LargestUnit(d) > 0
           /\ d % LargestUnit(d) = 0
<1>1. /\ Second \in Nat /\ Minute \in Nat /\ Hour \in Nat /\ Day \in Nat
      /\ 0 < Second /\ Second < Minute /\ Minute < Hour /\ Hour < Day
  BY SecondAssumption, UnitsAssumption
<1>2. \E unit \in UnitsOf(d) : \A other \in UnitsOf(d) : other <= unit
  <2>1. CASE d % Day = 0
    BY <1>1, <2>1 DEF UnitsOf
  <2>2. CASE d % Day # 0 /\ d % Hour = 0
    BY <1>1, <2>2 DEF UnitsOf
  <2>3. CASE d % Day # 0 /\ d % Hour # 0 /\ d % Minute = 0
    BY <1>1, <2>3 DEF UnitsOf
  <2>4. CASE d % Day # 0 /\ d % Hour # 0 /\ d % Minute # 0
    BY <1>1, <2>4 DEF UnitsOf
  <2> QED
    BY <2>1, <2>2, <2>3, <2>4
<1>3. LargestUnit(d) \in UnitsOf(d)
  BY <1>2 DEF LargestUnit
<1> QED
  BY <1>1, <1>3 DEF UnitsOf

\* The bands of a grid have topics of their own: formatRetryDelay gives
\* different whole-second boundaries different names, and the boundaries of a
\* grid are different whole seconds.
THEOREM BandsHaveOwnTopicNames ==
    ASSUME NEW b \in Seq(Int), NEW p \in Int, ValidGrid(b, p),
           NEW i \in Bands(b), NEW j \in Bands(b), i # j
    PROVE  RetryTopic(b, i) # RetryTopic(b, j)
<1>1. i \in 1..Len(b) /\ j \in 1..Len(b)
  BY DEF Bands, ValidGrid
<1>2. b[i] \in Nat /\ b[j] \in Nat /\ b[i] % Second = 0 /\ b[j] % Second = 0
  BY <1>1, BoundariesAreNat DEF ValidGrid
<1>3. b[i] # b[j]
  <2>1. CASE i < j
    BY <1>1, <1>2, <2>1, BoundariesIncrease
  <2>2. CASE j < i
    BY <1>1, <1>2, <2>2, BoundariesIncrease
  <2> QED
    BY <1>1, <2>1, <2>2
<1>4. ASSUME NEW d \in Nat, d % Second = 0
      PROVE  d = FormatRetryDelay(d)[1] * FormatRetryDelay(d)[2]
  <2>1. CASE d = 0
    BY <2>1, SecondAssumption DEF FormatRetryDelay
  <2>2. CASE d # 0
    <3>1. FormatRetryDelay(d)
            = <<d \div LargestUnit(d), LargestUnit(d)>>
      BY <2>2 DEF FormatRetryDelay
    <3>2. d = LargestUnit(d) * (d \div LargestUnit(d))
      BY <1>4, LargestUnitDivides, DivisionExact
    <3>3. d \div LargestUnit(d) \in Nat /\ LargestUnit(d) \in Nat
      BY <1>4, LargestUnitDivides, DivisionBounds
    <3> QED
      BY <3>1, <3>2, <3>3
  <2> QED
    BY <2>1, <2>2
<1> QED
  BY <1>2, <1>3, <1>4 DEF RetryTopic

LEMMA UnitsAreSeconds ==
    /\ Second \in Nat /\ Second > 0
    /\ \A unit \in {Minute, Hour, Day} :
          unit \in Nat /\ unit > 0 /\ unit % Second = 0
<1>1. /\ Second \in Nat /\ Minute \in Nat /\ Hour \in Nat /\ Day \in Nat
      /\ 0 < Second /\ Second < Minute /\ Minute < Hour /\ Hour < Day
  BY SecondAssumption, UnitsAssumption
<1>2. ASSUME NEW a \in Nat, NEW b \in Nat, NEW c \in Nat, a > 0, b > 0,
             b % a = 0, c % b = 0
      PROVE  c % a = 0
  <2>1. b = a * (b \div a) /\ b \div a \in Nat
    BY <1>2, DivisionExact, DivisionBounds
  <2>2. c = b * (c \div b) /\ c \div b \in Nat
    BY <1>2, DivisionExact, DivisionBounds
  <2> DEFINE q == b \div a
             r == c \div b
  <2> HIDE DEF q, r
  <2>3. b = a * q /\ c = b * r /\ q \in Nat /\ r \in Nat
    BY <2>1, <2>2 DEF q, r
  <2>4. c = a * (q * r) /\ q * r \in Nat
    <3>1. c = (a * q) * r
      BY <2>3
    <3>2. (a * q) * r = a * (q * r)
      BY <1>2, <2>3
    <3> QED
      BY <2>3, <3>1, <3>2
  <2> DEFINE t == q * r
  <2> HIDE DEF t
  <2>5. c = a * t /\ t \in Nat
    BY <2>4 DEF t
  <2>6. (a * t) % a = 0
    BY <1>2, <2>5, MultiplesDivide
  <2> QED
    BY <2>5, <2>6
<1>3. Minute % Second = 0 /\ Hour % Minute = 0 /\ Day % Hour = 0
  BY UnitsAssumption
<1>4. Second > 0 /\ Minute > 0 /\ Hour > 0 /\ Day > 0
  BY <1>1
<1>5. Hour % Second = 0
  BY <1>1, <1>2, <1>3, <1>4, Zenon
<1>6. Day % Second = 0
  BY <1>1, <1>2, <1>3, <1>4, <1>5, Zenon
<1> QED
  BY <1>1, <1>3, <1>4, <1>5, <1>6

\* kafka.py counts milliseconds where config.go divides durations: for a delay
\* of whole seconds both come to the same count of the same unit.
LEMMA HarnessNamesAgree ==
    ASSUME NEW d \in Nat, d % Second = 0
    PROVE  FormatDelayMs(d) = FormatRetryDelay(d)
<1> DEFINE e == d \div Second
<1>1. /\ Second \in Nat /\ Minute \in Nat /\ Hour \in Nat /\ Day \in Nat
      /\ 0 < Second /\ Second < Minute /\ Minute < Hour /\ Hour < Day
  BY SecondAssumption, UnitsAssumption
<1>2. d = Second * e /\ e \in Nat
  BY <1>1, DivisionExact, DivisionBounds
<1>3. ASSUME NEW unit \in {Minute, Hour, Day}
      PROVE  /\ e % (unit \div Second) = 0 <=> d % unit = 0
             /\ e \div (unit \div Second) = d \div unit
  <2> DEFINE f == unit \div Second
  <2>1. unit \in Nat /\ unit > 0 /\ unit % Second = 0
    BY UnitsAreSeconds
  <2>2. unit = Second * f /\ f \in Nat
    BY <1>1, <2>1, DivisionExact, DivisionBounds
  <2> HIDE DEF e, f
  <2>3. f > 0
    BY <1>1, <2>1, <2>2
  <2>4. /\ (Second * e) \div (Second * f) = e \div f
        /\ (Second * e) % (Second * f) = 0 <=> e % f = 0
    BY <1>1, <1>2, <2>2, <2>3, CommonFactor
  <2>5. e % f = 0 <=> d % unit = 0
    BY <1>2, <2>2, <2>4
  <2>6. e \div f = d \div unit
    BY <1>2, <2>2, <2>4
  <2> QED
    BY <2>5, <2>6 DEF f
<1>4. LargestUnit(d) = IF d % Day = 0 THEN Day
                       ELSE IF d % Hour = 0 THEN Hour
                       ELSE IF d % Minute = 0 THEN Minute ELSE Second
  <2>1. ASSUME NEW unit \in UnitsOf(d), \A other \in UnitsOf(d) : other <= unit
        PROVE  LargestUnit(d) = unit
    <3>1. UnitsOf(d) \subseteq Nat
      BY <1>1 DEF UnitsOf
    <3>2. \A u \in UnitsOf(d) : (\A other \in UnitsOf(d) : other <= u) => u = unit
      BY <2>1, <3>1
    <3> QED
      BY <2>1, <3>2 DEF LargestUnit
  <2>2. CASE d % Day = 0
    <3>1. Day \in UnitsOf(d) /\ \A other \in UnitsOf(d) : other <= Day
      BY <1>1, <2>2 DEF UnitsOf
    <3> QED
      BY <2>1, <2>2, <3>1
  <2>3. CASE d % Day # 0 /\ d % Hour = 0
    <3>1. Hour \in UnitsOf(d) /\ \A other \in UnitsOf(d) : other <= Hour
      BY <1>1, <2>3 DEF UnitsOf
    <3> QED
      BY <2>1, <2>3, <3>1
  <2>4. CASE d % Day # 0 /\ d % Hour # 0 /\ d % Minute = 0
    <3>1. Minute \in UnitsOf(d) /\ \A other \in UnitsOf(d) : other <= Minute
      BY <1>1, <2>4 DEF UnitsOf
    <3> QED
      BY <2>1, <2>4, <3>1
  <2>5. CASE d % Day # 0 /\ d % Hour # 0 /\ d % Minute # 0
    <3>1. Second \in UnitsOf(d) /\ \A other \in UnitsOf(d) : other <= Second
      BY <1>1, <2>5 DEF UnitsOf
    <3> QED
      BY <2>1, <2>5, <3>1
  <2> QED
    BY <2>2, <2>3, <2>4, <2>5
<1> HIDE DEF e
<1>5. FormatDelayMs(d) =
        IF d = 0 THEN <<0, Second>>
        ELSE IF d % Day = 0 THEN <<d \div Day, Day>>
        ELSE IF d % Hour = 0 THEN <<d \div Hour, Hour>>
        ELSE IF d % Minute = 0 THEN <<d \div Minute, Minute>>
        ELSE <<d \div Second, Second>>
  <2>1. FormatDelayMs(d) =
          IF d = 0 THEN <<0, Second>>
          ELSE IF e % (Day \div Second) = 0 THEN <<e \div (Day \div Second), Day>>
          ELSE IF e % (Hour \div Second) = 0 THEN <<e \div (Hour \div Second), Hour>>
          ELSE IF e % (Minute \div Second) = 0
               THEN <<e \div (Minute \div Second), Minute>>
          ELSE <<e \div (Second \div Second), Second>>
    BY Zenon DEF FormatDelayMs, e
  <2>2. e \div (Second \div Second) = d \div Second
    <3>1. Second \div Second = 1
      <4>1. (Second * 1) \div Second = 1
        BY <1>1, MultiplesDivide
      <4> QED
        BY <1>1, <4>1
    <3>2. e \div 1 = e
      <4>1. (1 * e) \div 1 = e
        BY <1>2, MultiplesDivide
      <4> QED
        BY <1>2, <4>1
    <3> QED
      BY <3>1, <3>2 DEF e
  <2>3. /\ e % (Day \div Second) = 0 <=> d % Day = 0
        /\ e \div (Day \div Second) = d \div Day
    BY <1>3
  <2>4. /\ e % (Hour \div Second) = 0 <=> d % Hour = 0
        /\ e \div (Hour \div Second) = d \div Hour
    BY <1>3
  <2>5. /\ e % (Minute \div Second) = 0 <=> d % Minute = 0
        /\ e \div (Minute \div Second) = d \div Minute
    BY <1>3
  <2> QED
    BY <2>1, <2>2, <2>3, <2>4, <2>5, Zenon
<1> QED
  <2>1. CASE d = 0
    BY <1>5, <2>1 DEF FormatRetryDelay
  <2>2. CASE d # 0
    <3>1. FormatRetryDelay(d) = <<d \div LargestUnit(d), LargestUnit(d)>>
      BY <2>2 DEF FormatRetryDelay
    <3> QED
      BY <1>4, <1>5, <2>2, <3>1, Zenon
  <2> QED
    BY <2>1, <2>2

-----------------------------------------------------------------------------
(* The cells of a grid.                                                    *)

\* A cell's bounds are one width apart, and a multiple of it above its band.
LEMMA CellBounds ==
    ASSUME NEW b \in Seq(Int), NEW p \in Int, ValidGrid(b, p),
           NEW cell \in Buckets(b, p)
    PROVE  /\ cell[1] \in Bands(b) /\ cell[2] \in 0..(p - 1) /\ cell = <<cell[1], cell[2]>>
           /\ b[cell[1]] \in Nat /\ LowerBound(b, p, cell) \in Nat
           /\ UpperBound(b, p, cell) \in Nat
           /\ b[cell[1]] <= LowerBound(b, p, cell)
           /\ LowerBound(b, p, cell) < UpperBound(b, p, cell)
           /\ UpperBound(b, p, cell) <= b[cell[1] + 1]
           /\ LowerBound(b, p, cell) % Second = 0
           /\ UpperBound(b, p, cell) % Second = 0
<1> DEFINE band == cell[1]
           part == cell[2]
           w == BandWidth(b, p, band)
<1>1. band \in Bands(b) /\ part \in 0..(p - 1) /\ cell = <<band, part>>
  BY DEF Buckets
<1>2. /\ p \in Nat /\ p > 0 /\ w \in Nat /\ w >= Second
      /\ b[band + 1] = b[band] + p * w
  BY <1>1, BandIsCut
<1>3. band \in 1..Len(b) /\ b[band] \in Nat
  BY <1>1, BoundariesAreNat DEF Bands, ValidGrid
<1>4. b[band] % Second = 0 /\ w % Second = 0
  BY <1>1, <1>3 DEF ValidGrid, ValidBand, Bands
<1>5. Second \in Nat /\ Second > 0
  BY SecondAssumption
<1>6. /\ LowerBound(b, p, cell) = b[band] + part * w
      /\ UpperBound(b, p, cell) = b[band] + (part + 1) * w
  BY DEF LowerBound, UpperBound
<1> HIDE DEF band, part, w
<1>7. part \in Nat /\ part + 1 \in Nat /\ part + 1 <= p
  BY <1>1, <1>2
<1>8. ASSUME NEW k \in Nat
      PROVE  b[band] + k * w \in Nat /\ (b[band] + k * w) % Second = 0
  <2>1. /\ b[band] = Second * (b[band] \div Second) /\ b[band] \div Second \in Nat
        /\ w = Second * (w \div Second) /\ w \div Second \in Nat
    BY <1>2, <1>3, <1>4, <1>5, DivisionExact, DivisionBounds
  <2> DEFINE q == b[band] \div Second
             r == w \div Second
  <2> HIDE DEF q, r
  <2>2. b[band] = Second * q /\ w = Second * r /\ q \in Nat /\ r \in Nat
    BY <2>1 DEF q, r
  <2>3. b[band] + k * w = Second * (q + k * r) /\ q + k * r \in Nat
    <3>1. k * w = Second * (k * r)
      <4>1. k * (Second * r) = Second * (k * r)
        BY <1>5, <2>2
      <4> QED
        BY <2>2, <4>1
    <3>2. k * r \in Nat
      BY <2>2
    <3>3. Second * (q + k * r) = Second * q + Second * (k * r)
      BY <1>5, <2>2, <3>2
    <3>4. b[band] + k * w = Second * q + Second * (k * r)
      BY <2>2, <3>1, Zenon
    <3>5. q + k * r \in Nat
      BY <2>2, <3>2
    <3> QED
      BY <3>3, <3>4, <3>5, Zenon
  <2> DEFINE t == q + k * r
  <2> HIDE DEF t
  <2>4. b[band] + k * w = Second * t /\ t \in Nat
    BY <2>3 DEF t
  <2>5. (Second * t) % Second = 0
    BY <1>5, <2>4, MultiplesDivide
  <2>6. Second * t \in Nat
    BY <1>5, <2>4
  <2> QED
    BY <2>4, <2>5, <2>6
<1>9. /\ 0 <= part * w /\ part * w < (part + 1) * w /\ (part + 1) * w <= p * w
  <2>1. (part + 1) * w = part * w + w /\ part * w \in Nat
    BY <1>2, <1>7
  <2>2. (part + 1) * w <= p * w
    BY <1>2, <1>7
  <2> QED
    BY <1>2, <1>5, <2>1, <2>2
<1>10. b[band] + part * w \in Nat /\ b[band] + (part + 1) * w \in Nat
  BY <1>7, <1>8
<1>11. part * w \in Int /\ (part + 1) * w \in Int /\ p * w \in Int
  BY <1>2, <1>7
<1>12. /\ LowerBound(b, p, cell) % Second = 0 /\ UpperBound(b, p, cell) % Second = 0
  BY <1>6, <1>7, <1>8
<1>13. /\ b[band] <= LowerBound(b, p, cell)
       /\ LowerBound(b, p, cell) < UpperBound(b, p, cell)
       /\ UpperBound(b, p, cell) <= b[band + 1]
  BY <1>2, <1>3, <1>6, <1>9, <1>11
<1> QED
  BY <1>1, <1>3, <1>6, <1>10, <1>12, <1>13 DEF band, part

\* No delay lies in two cells.
LEMMA OneCellHolds ==
    ASSUME NEW b \in Seq(Int), NEW p \in Int, ValidGrid(b, p),
           grid = [boundaries |-> b, partitions |-> p], NEW d \in Int,
           NEW c \in Buckets(b, p), NEW e \in Buckets(b, p),
           Holds(c, d), Holds(e, d)
    PROVE  c = e
<1>1. grid.boundaries = b /\ grid.partitions = p
  OBVIOUS
<1>2. ASSUME NEW x \in Buckets(b, p), NEW y \in Buckets(b, p),
             Holds(x, d), Holds(y, d),
             x[1] < y[1] \/ (x[1] = y[1] /\ x[2] < y[2])
      PROVE  FALSE
  <2>1. /\ x[1] \in Bands(b) /\ x[2] \in 0..(p - 1)
        /\ y[1] \in Bands(b) /\ y[2] \in 0..(p - 1)
    BY CellBounds
  <2>2. /\ d <= UpperBound(b, p, x)
        /\ LowerBound(b, p, y) < d \/ (d = 0 /\ y = <<1, 0>>)
    BY <1>1, <1>2 DEF Holds
  <2>3. y # <<1, 0>>
    BY <1>2, <2>1 DEF Bands
  <2>4. LowerBound(b, p, y) < d
    BY <2>2, <2>3
  <2>5. UpperBound(b, p, x) <= LowerBound(b, p, y)
    <3>1. CASE x[1] < y[1]
      <4>1. UpperBound(b, p, x) <= b[x[1] + 1] /\ b[y[1]] <= LowerBound(b, p, y)
            /\ UpperBound(b, p, x) \in Nat /\ LowerBound(b, p, y) \in Nat
            /\ b[y[1]] \in Nat
        BY CellBounds
      <4>2. /\ x[1] + 1 \in 1..Len(b) /\ y[1] \in 1..Len(b)
            /\ x[1] + 1 = y[1] \/ x[1] + 1 < y[1]
        <5>1. Len(b) \in Nat
          OBVIOUS
        <5>2. /\ x[1] \in 1..(Len(b) - 1) /\ y[1] \in 1..(Len(b) - 1)
          BY <2>1 DEF Bands
        <5> DEFINE i == x[1]
                   j == y[1]
                   n == Len(b)
        <5> HIDE DEF i, j, n
        <5>3. i \in 1..(n - 1) /\ j \in 1..(n - 1) /\ i < j /\ n \in Nat
          BY <3>1, <5>1, <5>2 DEF i, j, n
        <5>4. i + 1 \in 1..n /\ j \in 1..n /\ (i + 1 = j \/ i + 1 < j)
          BY <5>3
        <5> QED
          BY <5>4 DEF i, j, n
      <4>3. b[x[1] + 1] <= b[y[1]]
        <5>1. b[x[1] + 1] \in Nat
          BY <4>2, BoundariesAreNat
        <5>2. CASE x[1] + 1 = y[1]
          BY <4>1, <5>2
        <5>3. CASE x[1] + 1 < y[1]
          <6>1. b[x[1] + 1] < b[y[1]]
            BY <4>2, <5>3, BoundariesIncrease
          <6> QED
            BY <4>1, <5>1, <6>1
        <5> QED
          BY <4>2, <5>2, <5>3
      <4>4. b[x[1] + 1] \in Nat
        BY <4>2, BoundariesAreNat
      <4> QED
        BY <4>1, <4>3, <4>4
    <3>2. CASE x[1] = y[1] /\ x[2] < y[2]
      <4> DEFINE w == BandWidth(b, p, y[1])
      <4>1. w \in Nat
        BY <2>1, BandIsCut
      <4>2. /\ UpperBound(b, p, x) = b[y[1]] + (x[2] + 1) * w
            /\ LowerBound(b, p, y) = b[y[1]] + y[2] * w
        BY <3>2 DEF UpperBound, LowerBound
      <4> HIDE DEF w
      <4>3. b[y[1]] \in Nat
        BY CellBounds
      <4>4. x[2] + 1 \in Nat /\ y[2] \in Nat /\ x[2] + 1 <= y[2]
        BY <2>1, <3>2
      <4>5. (x[2] + 1) * w <= y[2] * w /\ (x[2] + 1) * w \in Nat /\ y[2] * w \in Nat
        BY <4>1, <4>4
      <4> QED
        BY <4>2, <4>3, <4>5
    <3> QED
      BY <1>2, <3>1, <3>2
  <2>6. UpperBound(b, p, x) \in Nat /\ LowerBound(b, p, y) \in Nat
    BY CellBounds
  <2> QED
    BY <2>2, <2>4, <2>5, <2>6
<1>3. ~(c[1] < e[1]) /\ ~(e[1] < c[1])
  BY <1>2
<1>4. /\ c[1] \in Int /\ e[1] \in Int /\ c[2] \in Int /\ e[2] \in Int
      /\ c = <<c[1], c[2]>> /\ e = <<e[1], e[2]>>
  BY CellBounds DEF Bands
<1>5. c[1] = e[1]
  BY <1>3, <1>4
<1>6. ~(c[2] < e[2]) /\ ~(e[2] < c[2])
  BY <1>2, <1>5
<1> QED
  BY <1>4, <1>5, <1>6

\* A delay of zero is in the first partition of the first band.
LEMMA ZeroIsInTheFirstCell ==
    ASSUME NEW b \in Seq(Int), NEW p \in Int, ValidGrid(b, p), InRange(b, 0)
    PROVE  Bucket(b, p, 0) = <<1, 0>>
<1>1. /\ BandOf(b, 0) \in Bands(b)
      /\ BandOf(b, 0) # 1 => 0 > b[BandOf(b, 0)]
  BY BandHoldsDelay
<1>2. b[BandOf(b, 0)] \in Nat
  <2>1. Bands(b) \subseteq 1..Len(b)
    BY DEF Bands
  <2> QED
    BY <1>1, <2>1, BoundariesAreNat
<1>3. BandOf(b, 0) = 1 /\ b[1] = 0
  BY <1>1, <1>2 DEF ValidGrid
<1>4. PartitionOf(b, p, 0) = 0
  BY <1>3 DEF PartitionOf
<1> QED
  BY <1>3, <1>4 DEF Bucket

LEMMA BucketIsTheOnlyCell ==
    ASSUME NEW b \in Seq(Int), NEW p \in Int, ValidGrid(b, p),
           grid = [boundaries |-> b, partitions |-> p],
           NEW d \in Int, InRange(b, d)
    PROVE  {Bucket(b, p, d)} = {cell \in Cells : Holds(cell, d)}
<1>1. grid.boundaries = b /\ grid.partitions = p /\ Cells = Buckets(b, p)
  BY DEF Cells
<1> DEFINE bucket == Bucket(b, p, d)
<1>2. bucket \in Buckets(b, p)
  BY BucketHoldsDelay
<1>3. Holds(bucket, d)
  <2>1. /\ d <= UpperBound(b, p, bucket)
        /\ d = 0 \/ LowerBound(b, p, bucket) < d
    BY BucketHoldsDelay
  <2>2. d = 0 => bucket = <<1, 0>>
    BY ZeroIsInTheFirstCell
  <2> QED
    BY <1>1, <2>1, <2>2 DEF Holds
<1> HIDE DEF bucket
<1>4. \A e \in Buckets(b, p) : Holds(e, d) => e = bucket
  BY <1>2, <1>3, OneCellHolds
<1> QED
  BY <1>1, <1>2, <1>3, <1>4 DEF bucket

-----------------------------------------------------------------------------
(* The inductive invariant: the grid in use is one NewRetryGrid accepts,   *)
(* and the answer is bucket's to the last delay.                           *)

GridIsValid ==
    /\ grid = [boundaries |-> grid.boundaries, partitions |-> grid.partitions]
    /\ grid.boundaries \in Seq(Int) /\ grid.partitions \in Int
    /\ ValidGrid(grid.boundaries, grid.partitions)

AnswerIsBucket ==
    /\ delay \in Int
    /\ answer = IF InRange(grid.boundaries, delay)
                THEN {Bucket(grid.boundaries, grid.partitions, delay)}
                ELSE {}

IInv ==
    /\ Built => GridIsValid /\ AnswerIsBucket
    /\ ~Built => delay = -1 /\ answer = {}

LEMMA InitEstablishesIInv == Init => IInv
BY DEF Init, IInv, Built

LEMMA NextKeepsIInv == IInv /\ [Next]_vars => IInv'
<1> SUFFICES ASSUME IInv, [Next]_vars PROVE IInv'
  OBVIOUS
<1>1. ASSUME ~Built, NEW boundaries \in BoundaryLists,
             NEW partitions \in 0..MaxPartitions, NewRetryGrid(boundaries, partitions)
      PROVE  IInv'
  <2>1. grid' = [boundaries |-> boundaries, partitions |-> partitions]
        /\ grid'.boundaries = boundaries /\ grid'.partitions = partitions
        /\ delay' = -1 /\ answer' = {}
    BY <1>1 DEF NewRetryGrid, IInv
  <2>2. boundaries \in Seq(Int) /\ partitions \in Int
    <3>1. PICK n \in 1..MaxBoundaries : boundaries \in [1..n -> 0..MaxBoundary]
      BY DEF BoundaryLists
    <3>2. n \in Nat
      BY BoundsAssumption
    <3> QED
      BY <3>1, <3>2, BoundsAssumption
  <2>3. ValidGrid(boundaries, partitions)
    BY <1>1 DEF NewRetryGrid
  <2>4. GridIsValid'
    BY <2>1, <2>2, <2>3 DEF GridIsValid
  <2>5. AnswerIsBucket'
    <3>1. ~InRange(boundaries, -1)
      BY <2>3 DEF ValidGrid, InRange
    <3> QED
      BY <2>1, <3>1 DEF AnswerIsBucket
  <2>6. Built'
    <3>1. Len(boundaries) # Len(<<>>)
      BY <2>3 DEF ValidGrid
    <3> QED
      BY <2>1, <3>1 DEF Built, NoGrid
  <2> QED
    BY <2>4, <2>5, <2>6 DEF IInv
<1>2. ASSUME NEW r, NEW hash, PutRetry(r, hash) PROVE IInv'
  BY <1>2 DEF PutRetry, IInv, Built, GridIsValid, AnswerIsBucket
<1>3. ASSUME NEW d \in -1..(MaxBoundary + 1), Lookup(d) PROVE IInv'
  BY <1>3, BoundsAssumption DEF Lookup, IInv, Built, GridIsValid, AnswerIsBucket
<1>4. CASE UNCHANGED vars
  BY <1>4 DEF vars, IInv, Built, GridIsValid, AnswerIsBucket
<1> QED
  BY <1>1, <1>2, <1>3, <1>4 DEF Next

LEMMA IInvIsInvariant == Spec => []IInv
BY InitEstablishesIInv, NextKeepsIInv, PTL DEF Spec

-----------------------------------------------------------------------------
(* The theorems.                                                           *)

\* bucket's binary search and its division find, for every delay of the grid,
\* the one cell that holds it, and no cell for any other delay: a retry is
\* written to a partition that exists and whose upper bound is not below it.
THEOREM BucketIsAlwaysTheCell == Spec => []BucketIsTheCell
<1>1. IInv => BucketIsTheCell
  <2> SUFFICES ASSUME IInv, Built
               PROVE  IF 0 <= delay /\ delay <= grid.boundaries[Len(grid.boundaries)]
                      THEN answer = {cell \in Cells : Holds(cell, delay)}
                      ELSE answer = {}
    BY DEF BucketIsTheCell
  <2> DEFINE b == grid.boundaries
             p == grid.partitions
  <2>1. /\ b \in Seq(Int) /\ p \in Int /\ ValidGrid(b, p) /\ delay \in Int
        /\ grid = [boundaries |-> b, partitions |-> p]
        /\ answer = IF InRange(b, delay) THEN {Bucket(b, p, delay)} ELSE {}
    BY DEF IInv, GridIsValid, AnswerIsBucket
  <2>2. InRange(b, delay) <=> 0 <= delay /\ delay <= b[Len(b)]
    BY <2>1 DEF InRange, ValidGrid
  <2>3. InRange(b, delay) =>
          {Bucket(b, p, delay)} = {cell \in Cells : Holds(cell, delay)}
    BY <2>1, BucketIsTheOnlyCell
  <2> QED
    BY <2>1, <2>2, <2>3, Zenon
<1> QED
  BY <1>1, IInvIsInvariant, PTL

\* The delays of a partition lie within one partition width, and the widths
\* NewRetryGrid accepts are whole seconds, so every cell holds some delay.
THEOREM CellsAreAlwaysWholeSeconds == Spec => []CellsAreWholeSeconds
<1>1. IInv => CellsAreWholeSeconds
  BY CellBounds DEF IInv, GridIsValid, CellsAreWholeSeconds, Cells
<1> QED
  BY <1>1, IInvIsInvariant, PTL

\* NewRetryGrid's whole seconds give every band a topic of its own.
THEOREM BandsAlwaysHaveOwnTopics == Spec => []BandsHaveOwnTopics
<1>1. IInv => BandsHaveOwnTopics
  <2> SUFFICES ASSUME IInv, Built
               PROVE  Cardinality(RetryTopicsOf(grid.boundaries))
                          = Cardinality(Bands(grid.boundaries))
    BY DEF BandsHaveOwnTopics
  <2> DEFINE b == grid.boundaries
             p == grid.partitions
             name == [band \in Bands(b) |-> RetryTopic(b, band)]
  <2>1. b \in Seq(Int) /\ p \in Int /\ ValidGrid(b, p)
    BY DEF IInv, GridIsValid
  <2>2. IsFiniteSet(Bands(b))
    <3>1. 1 \in Int /\ Len(b) - 1 \in Int
      BY <2>1
    <3> QED
      BY <3>1, FS_Interval DEF Bands
  <2> HIDE DEF b, p
  <2>3. name \in Surjection(Bands(b), RetryTopicsOf(b))
    BY DEF Surjection, RetryTopicsOf
  <2>4. name \in Injection(Bands(b), RetryTopicsOf(b))
    <3>1. \A i, j \in Bands(b) : name[i] = name[j] => i = j
      BY <2>1, BandsHaveOwnTopicNames
    <3>2. name \in [Bands(b) -> RetryTopicsOf(b)]
      BY DEF RetryTopicsOf
    <3> HIDE DEF name
    <3> QED
      BY <3>1, <3>2 DEF Injection, IsInjective
  <2> HIDE DEF name
  <2>5. Cardinality(RetryTopicsOf(b)) = Cardinality(Bands(b))
    BY <2>2, <2>3, <2>4, FS_Surjection
  <2> QED
    BY <2>5 DEF b
<1> QED
  BY <1>1, IInvIsInvariant, PTL

\* The harness and the program name the topics of a grid alike.
THEOREM ProvisionedTopicsAreAlwaysUsed == Spec => []ProvisionedTopicsAreUsed
<1>1. IInv => ProvisionedTopicsAreUsed
  <2> SUFFICES ASSUME IInv, Built
               PROVE  Provisioned(grid.boundaries) = RetryTopicsOf(grid.boundaries)
    BY DEF ProvisionedTopicsAreUsed
  <2> DEFINE b == grid.boundaries
             p == grid.partitions
  <2>1. b \in Seq(Int) /\ p \in Int /\ ValidGrid(b, p)
    BY DEF IInv, GridIsValid
  <2> HIDE DEF b, p
  <2>2. ASSUME NEW band \in Bands(b)
        PROVE  FormatDelayMs(b[band]) = RetryTopic(b, band)
    <3>1. band \in 1..Len(b)
      BY DEF Bands
    <3>2. b[band] \in Nat /\ b[band] % Second = 0
      BY <2>1, <3>1, BoundariesAreNat DEF ValidGrid
    <3> QED
      BY <3>2, HarnessNamesAgree DEF RetryTopic
  <2>3. Provisioned(b) = RetryTopicsOf(b)
    BY <2>2 DEF Provisioned, RetryTopicsOf
  <2> QED
    BY <2>3 DEF b
<1> QED
  BY <1>1, IInvIsInvariant, PTL

-----------------------------------------------------------------------------
(* The backoff.                                                            *)

LEMMA WrapKeeps ==
    ASSUME NEW i \in Nat, i < Modulus \div 2
    PROVE  Wrap(i) = i
<1>1. Modulus \in Nat /\ Modulus > 0 /\ 2 * (Modulus \div 2) <= Modulus
  BY ModulusAssumption, DivisionBounds
<1>2. i < Modulus /\ 0 \in Nat /\ i = Modulus * 0 + i
  BY <1>1
<1>3. i % Modulus = i
  BY <1>1, <1>2, DivisionIsUnique
<1> QED
  BY <1>3 DEF Wrap

LEMMA ProductGrows ==
    ASSUME NEW a \in Nat, NEW b \in Nat, b > 0
    PROVE  a * b \in Nat /\ a <= a * b
<1>1. b - 1 \in Nat /\ a * b = a * (b - 1) + a /\ a * (b - 1) \in Nat
  OBVIOUS
<1> QED
  BY <1>1

\* The product, the sum and the conversion to nanoseconds are exact when the
\* longest wait fits.
LEMMA BackoffIsExact ==
    ASSUME NEW r \in Nat, r > 0, NEW hash \in Nat,
           NEW n, n = r - 1,
           (n * n * n * n + 15) * Second + JitterMax(n) * Second < Modulus \div 2
    PROVE  LET d == JitteredQuarticBackoff(r, hash)
           IN  /\ d \in Nat
               /\ (n * n * n * n + 15) * Second <= d
               /\ d <= (n * n * n * n + 15) * Second + JitterMax(n) * Second
               /\ d % Second = 0
<1> DEFINE square == n * n
           cube   == square * n
           fourth == cube * n
           most   == JitterMax(n)
           jitter == hash % (most + 1)
           total  == fourth + 15 + jitter
           half   == Modulus \div 2
<1>1. n \in Nat /\ Second \in Nat /\ Second > 0
  BY SecondAssumption
<1>2. square \in Nat /\ cube \in Nat /\ fourth \in Nat
  <2>1. square \in Nat
    BY <1>1
  <2> HIDE DEF square
  <2>2. cube \in Nat
    BY <1>1, <2>1
  <2> HIDE DEF cube
  <2>3. fourth \in Nat
    BY <1>1, <2>2
  <2> QED
    BY <2>1, <2>2, <2>3
<1>3. most \in Nat /\ jitter \in Nat /\ jitter <= most
  <2>1. most \in Nat
    BY <1>1 DEF JitterMax
  <2> HIDE DEF most
  <2>2. hash % (most + 1) \in Nat /\ hash % (most + 1) < most + 1
    BY <2>1, DivisionRemainder
  <2> QED
    BY <2>1, <2>2
<1>4. square <= fourth /\ cube <= fourth
  <2>1. CASE n = 0
    <3>1. square = 0
      BY <2>1
    <3> HIDE DEF square
    <3>2. cube = 0
      BY <2>1, <3>1
    <3> HIDE DEF cube
    <3> QED
      BY <1>2, <3>1, <3>2
  <2>2. CASE n > 0
    <3> HIDE DEF square
    <3>1. square <= cube
      BY <1>1, <1>2, <2>2, ProductGrows
    <3> HIDE DEF cube
    <3>2. cube <= fourth
      BY <1>1, <1>2, <2>2, ProductGrows
    <3> HIDE DEF fourth
    <3> QED
      BY <1>2, <3>1, <3>2
  <2> QED
    BY <1>1, <2>1, <2>2
<1>5. (fourth + 15) * Second + most * Second < half
  OBVIOUS
<1> HIDE DEF square, cube, fourth, most, jitter, half
<1>6. /\ total * Second \in Nat /\ total <= total * Second
      /\ (fourth + 15) * Second <= total * Second
      /\ total * Second <= (fourth + 15) * Second + most * Second
  <2>1. /\ total * Second = (fourth + 15) * Second + jitter * Second
        /\ most * Second = jitter * Second + (most - jitter) * Second
        /\ total \in Nat /\ most - jitter \in Nat
    BY <1>1, <1>2, <1>3
  <2>2. jitter * Second \in Nat /\ (most - jitter) * Second \in Nat
    BY <1>1, <1>3, <2>1
  <2>3. (fourth + 15) * Second \in Nat
    BY <1>1, <1>2
  <2>4. total * Second \in Nat /\ total <= total * Second
    BY <1>1, <2>1, ProductGrows
  <2> HIDE DEF total
  <2> QED
    BY <2>1, <2>2, <2>3, <2>4
<1>7. half \in Nat
  BY ModulusAssumption, DivisionBounds DEF half
<1>8. /\ total \in Nat /\ fourth + 15 <= total
      /\ square < half /\ cube < half /\ fourth < half
      /\ fourth + 15 < half /\ total < half /\ total * Second < half
  <2>1. total \in Nat /\ fourth + 15 <= total /\ fourth <= total
    BY <1>2, <1>3
  <2>2. (fourth + 15) * Second + most * Second \in Nat
    BY <1>1, <1>2, <1>3
  <2> HIDE DEF total
  <2> QED
    BY <1>2, <1>4, <1>5, <1>6, <1>7, <2>1, <2>2
<1>9. JitteredQuarticBackoff(r, hash) = total * Second
  <2>1. Times(n, n) = square
    BY <1>2, <1>8, WrapKeeps DEF Times, square, half
  <2>2. Times(square, n) = cube
    BY <1>2, <1>8, WrapKeeps DEF Times, cube, half
  <2>3. Times(cube, n) = fourth
    BY <1>2, <1>8, WrapKeeps DEF Times, fourth, half
  <2>4. Wrap(fourth + 15) = fourth + 15
    BY <1>2, <1>8, WrapKeeps DEF half
  <2>5. Wrap(total) = total
    BY <1>8, WrapKeeps DEF half
  <2>6. Times(total, Second) = total * Second
    BY <1>6, <1>8, WrapKeeps DEF Times, half
  <2>7. JitteredQuarticBackoff(r, hash)
           = Times(Wrap(Wrap(Times(Times(Times(n, n), n), n) + 15) + jitter), Second)
    BY DEF JitteredQuarticBackoff, jitter, most
  <2> QED
    BY <2>1, <2>2, <2>3, <2>4, <2>5, <2>6, <2>7
<1>10. (total * Second) % Second = 0
  <2>1. total * Second = Second * total
    BY <1>1, <1>8
  <2> QED
    BY <1>1, <1>8, <2>1, MultiplesDivide
<1> QED
  BY <1>6, <1>9, <1>10 DEF square, cube, fourth, most

\* What was put to the policy last.
WaitIsBackoff ==
    retry \in Int /\ (retry > 0 =>
        \E hash \in Nat :
            wait = RetryAfter(MaxRetries, JitteredQuarticBackoff(retry, hash), retry))

LEMMA WaitIsAlwaysBackoff == Spec => []WaitIsBackoff
<1>1. Init => WaitIsBackoff
  BY DEF Init, WaitIsBackoff
<1>2. WaitIsBackoff /\ [Next]_vars => WaitIsBackoff'
  <2> SUFFICES ASSUME WaitIsBackoff, [Next]_vars
               PROVE  WaitIsBackoff'
    OBVIOUS
  <2>1. ASSUME NEW r \in 1..(MaxRetries + 1), NEW hash \in 0..MaxHash, PutRetry(r, hash)
        PROVE  WaitIsBackoff'
    BY <2>1, BoundsAssumption DEF PutRetry, WaitIsBackoff
  <2>2. CASE UNCHANGED <<retry, wait>>
    BY <2>2 DEF WaitIsBackoff
  <2>3. ASSUME NEW boundaries, NEW partitions, NewRetryGrid(boundaries, partitions)
        PROVE  UNCHANGED <<retry, wait>>
    BY <2>3 DEF NewRetryGrid
  <2>4. ASSUME NEW d, Lookup(d)
        PROVE  UNCHANGED <<retry, wait>>
    BY <2>4 DEF Lookup
  <2>5. CASE UNCHANGED vars
    BY <2>2, <2>5 DEF vars
  <2> QED
    BY <2>1, <2>2, <2>3, <2>4, <2>5 DEF Next
<1> QED
  BY <1>1, <1>2, PTL DEF Spec

\* Every retry the policy allows waits on the quartic curve, give or take its
\* jitter, and for whole seconds, for integers of any size and every hash, as
\* long as the longest such wait fits in one.
THEOREM BackoffIsAlwaysOnTheCurve == Spec => []BackoffIsOnTheCurve
<1>1. WaitIsBackoff => BackoffIsOnTheCurve
  <2> DEFINE n == retry - 1
  <2> SUFFICES ASSUME WaitIsBackoff, retry \in 1..MaxRetries,
                      (n * n * n * n + 15) * Second + JitterMax(n) * Second < Modulus \div 2
               PROVE  \E d \in wait : /\ (n * n * n * n + 15) * Second <= d
                                      /\ d <= (n * n * n * n + 15) * Second
                                                 + JitterMax(n) * Second
                                      /\ d % Second = 0
    BY DEF BackoffIsOnTheCurve
  <2>1. retry \in Nat /\ retry > 0 /\ retry <= MaxRetries
    BY BoundsAssumption
  <2>2. PICK hash \in Nat :
           wait = RetryAfter(MaxRetries, JitteredQuarticBackoff(retry, hash), retry)
    BY <2>1 DEF WaitIsBackoff
  <2> DEFINE d == JitteredQuarticBackoff(retry, hash)
  <2> HIDE DEF n
  <2>3. /\ d \in Nat /\ (n * n * n * n + 15) * Second <= d
        /\ d <= (n * n * n * n + 15) * Second + JitterMax(n) * Second
        /\ d % Second = 0
    BY <2>1, BackoffIsExact DEF n
  <2> HIDE DEF d
  <2>4. d \in wait
    BY <2>1, <2>2, <2>3 DEF RetryAfter, d
  <2> QED
    BY <2>3, <2>4
<1> QED
  BY <1>1, WaitIsAlwaysBackoff, PTL

=============================================================================
