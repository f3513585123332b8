----------------------------- MODULE RetryGrid -----------------------------
(***************************************************************************)
(* The retry grid of a queue: the retry delays 0 .. last boundary are cut  *)
(* into bands, one Kafka topic per band, and every band is cut into the    *)
(* same number of partitions.  A delay is looked up with Bucket; all the   *)
(* delays of one partition lie within one partition width of each other,   *)
(* which is what bounds the wait behind the head of a partition.           *)
(*                                                                         *)
(* Times are integers in nanoseconds, as time.Duration is.  The length of  *)
(* a second is a constant so that TLC can use a small one.                 *)
(***************************************************************************)
EXTENDS Integers, Sequences

CONSTANT Second                \* one second, in nanoseconds

ASSUME SecondAssumption == Second \in Nat \ {0}

-----------------------------------------------------------------------------
(* NewRetryGrid: which boundaries and partition counts make a grid.        *)

BandWidth(boundaries, partitions, band) ==
    (boundaries[band + 1] - boundaries[band]) \div partitions

\* A faulty variant lets partition widths be fractions of a second.
FaultyValidBand(boundaries, partitions, band) ==
    /\ boundaries[band] < boundaries[band + 1]
    /\ (boundaries[band + 1] - boundaries[band]) % partitions = 0

ValidBand(boundaries, partitions, band) ==
    LET span  == boundaries[band + 1] - boundaries[band]
        width == BandWidth(boundaries, partitions, band)
    IN  /\ boundaries[band] < boundaries[band + 1]
        /\ span % partitions = 0
        /\ width % Second = 0
        /\ width >= Second

ValidGrid(boundaries, partitions) ==
    /\ Len(boundaries) >= 2
    /\ boundaries[1] = 0
    /\ partitions > 0
    /\ \A i \in 1..Len(boundaries) : boundaries[i] % Second = 0
    /\ \A band \in 1..(Len(boundaries) - 1) :
            ValidBand(boundaries, partitions, band)

-----------------------------------------------------------------------------
(* bucket: the retry topic and partition of a delay.                       *)

Bands(boundaries) == 1..(Len(boundaries) - 1)

InRange(boundaries, delay) ==
    boundaries[1] <= delay /\ delay <= boundaries[Len(boundaries)]

\* slices.BinarySearch over boundaries[1:]: the first band whose upper
\* boundary is not below the delay.
BandOf(boundaries, delay) ==
    CHOOSE band \in Bands(boundaries) :
        /\ delay <= boundaries[band + 1]
        /\ \A lower \in 1..(band - 1) : boundaries[lower + 1] < delay

\* A faulty variant puts a delay on a partition's upper bound into the next.
FaultyPartitionOf(boundaries, partitions, delay) ==
    LET band == BandOf(boundaries, delay)
    IN  (delay - boundaries[band]) \div BandWidth(boundaries, partitions, band)

PartitionOf(boundaries, partitions, delay) ==
    LET band     == BandOf(boundaries, delay)
        relative == delay - boundaries[band]
    IN  IF relative > 0
        THEN (relative - 1) \div BandWidth(boundaries, partitions, band)
        ELSE 0

Bucket(boundaries, partitions, delay) ==
    <<BandOf(boundaries, delay), PartitionOf(boundaries, partitions, delay)>>

Buckets(boundaries, partitions) == Bands(boundaries) \X (0..(partitions - 1))

\* The least delay a bucket does not hold below, and the greatest it holds.
LowerBound(boundaries, partitions, bucket) ==
    boundaries[bucket[1]]
        + bucket[2] * BandWidth(boundaries, partitions, bucket[1])

UpperBound(boundaries, partitions, bucket) ==
    boundaries[bucket[1]]
        + (bucket[2] + 1) * BandWidth(boundaries, partitions, bucket[1])

=============================================================================
