---------------------------- MODULE MCRetryGrid ----------------------------
(***************************************************************************)
(* Checks NewRetryGrid, bucket and the topic names over every small list   *)
(* of boundaries and every delay: a grid is built (or refused), then       *)
(* delays are looked up in it one after the other, and the answers are     *)
(* compared with a definition of the grid as a set of cells.  Without a    *)
(* grid, a retry is put to a policy with the jittered backoff.             *)
(***************************************************************************)
EXTENDS RetryTopics, RetryPolicy, FiniteSets

CONSTANTS MaxBoundary, MaxBoundaries, MaxPartitions, MaxRetries, MaxHash

ASSUME BoundsAssumption ==
    /\ MaxBoundary \in Nat /\ MaxBoundaries \in Nat /\ MaxPartitions \in Nat
    /\ MaxRetries \in Nat /\ MaxHash \in Nat

VARIABLES
    grid,       \* the grid in use: [boundaries, partitions]
    delay,      \* the last delay looked up
    answer,     \* what bucket returned: the bucket, or none when out of range
    retry,      \* the last retry put to the policy
    wait        \* what retryAfter returned: the delay, or none

vars == <<grid, delay, answer, retry, wait>>

BoundaryLists == UNION {[1..n -> 0..MaxBoundary] : n \in 1..MaxBoundaries}

NoGrid == [boundaries |-> <<>>, partitions |-> 0]
Built == grid # NoGrid

Init ==
    /\ grid = NoGrid /\ delay = -1 /\ answer = {}
    /\ retry = 0 /\ wait = {}

\* NewRetryGrid with arguments it accepts; refusing changes nothing.
NewRetryGrid(boundaries, partitions) ==
    /\ ValidGrid(boundaries, partitions)
    /\ grid' = [boundaries |-> boundaries, partitions |-> partitions]
    /\ UNCHANGED <<delay, answer, retry, wait>>

Lookup(d) ==
    /\ Built
    /\ delay' = d
    /\ answer' = IF InRange(grid.boundaries, d)
                 THEN {Bucket(grid.boundaries, grid.partitions, d)}
                 ELSE {}
    /\ UNCHANGED <<grid, retry, wait>>

\* scheduleRetry's question to a policy of MaxRetries.
PutRetry(r, hash) ==
    /\ retry' = r
    /\ wait' = RetryAfter(MaxRetries, JitteredQuarticBackoff(r, hash), r)
    /\ UNCHANGED <<grid, delay, answer>>

Next ==
    \/ /\ ~Built /\ retry = 0
       /\ \E boundaries \in BoundaryLists, partitions \in 0..MaxPartitions :
            NewRetryGrid(boundaries, partitions)
    \/ /\ ~Built /\ retry = 0 /\ ValidPolicy(MaxRetries, TRUE)
       /\ \E r \in 1..(MaxRetries + 1), hash \in 0..MaxHash : PutRetry(r, hash)
    \/ \E d \in -1..(MaxBoundary + 1) : Lookup(d)

Spec == Init /\ [][Next]_vars

-----------------------------------------------------------------------------
(* The grid as a set of cells, none of bucket's arithmetic in it.          *)

Cells == Buckets(grid.boundaries, grid.partitions)

Holds(cell, d) ==
    /\ d <= UpperBound(grid.boundaries, grid.partitions, cell)
    /\ \/ LowerBound(grid.boundaries, grid.partitions, cell) < d
       \/ d = 0 /\ cell = <<1, 0>>

\* bucket answers every delay of the grid, zero and the last boundary
\* included, and answers with the only cell that holds it: a retry is never
\* written to a partition that does not exist, nor to one whose upper bound
\* is below its delay (retry_grid.go, bucket).
BucketIsTheCell ==
    Built => IF 0 <= delay /\ delay <= grid.boundaries[Len(grid.boundaries)]
             THEN answer = {cell \in Cells : Holds(cell, delay)}
             ELSE answer = {}

\* A delay behind another one of the same partition is at most one partition
\* width shorter: what the grid promises about waiting behind the head.  The
\* widths are whole seconds, so no cell is empty (NewRetryGrid's checks).
CellsAreWholeSeconds ==
    Built => \A cell \in Cells :
        LET lower == LowerBound(grid.boundaries, grid.partitions, cell)
            upper == UpperBound(grid.boundaries, grid.partitions, cell)
        IN  lower < upper /\ lower % Second = 0 /\ upper % Second = 0

\* No two bands share a retry topic: the names that config.go's
\* formatRetryDelay makes of the boundaries of one grid are distinct, which
\* needs the whole seconds NewRetryGrid insists on.
BandsHaveOwnTopics ==
    Built => Cardinality(RetryTopicsOf(grid.boundaries))
                 = Cardinality(Bands(grid.boundaries))

\* The topics the benchmark creates are those the workers write to and the
\* movers read: kafka.py and config.go write the same names for every grid that
\* NewRetryGrid accepts, though one counts milliseconds and the other durations.
ProvisionedTopicsAreUsed ==
    Built => Provisioned(grid.boundaries) = RetryTopicsOf(grid.boundaries)

\* Every retry the policy allows waits at least (n^4 + 15) seconds, n retries
\* before it, and at most 29(n + 1) seconds more, as long as that many
\* nanoseconds fit an integer: nothing on the way there overflows before, and
\* no such retry is refused or left without a delay (JitteredQuarticBackoff,
\* retryAfter).
BackoffIsOnTheCurve ==
    LET n      == retry - 1
        curve  == (n * n * n * n + 15) * Second
        jitter == JitterMax(n) * Second
    IN  retry \in 1..MaxRetries /\ curve + jitter < Modulus \div 2 =>
            \E d \in wait : curve <= d /\ d <= curve + jitter /\ d % Second = 0

=============================================================================
