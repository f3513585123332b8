----------------------------- MODULE RetryQueue -----------------------------
(***************************************************************************)
(* What the retry topics promise, whoever moves their records: a retry is  *)
(* delivered to the ready topic at least once, never before its delay has  *)
(* passed since it was appended, and within a partition in the order of    *)
(* the offsets.  Nothing here knows of movers, consumer groups or commits. *)
(***************************************************************************)
EXTENDS RetryGrid

CONSTANTS
    Boundaries,     \* RetryGrid.boundaries
    Partitions,     \* RetryGrid.partitions
    Delays          \* the delays of the retries that may arrive

ASSUME QueueAssumption ==
    /\ Boundaries \in Seq(Int) /\ Partitions \in Int
    /\ ValidGrid(Boundaries, Partitions)
    /\ Delays \subseteq {d \in Nat : InRange(Boundaries, d)}

VARIABLES
    log,            \* log[b]: the retries of bucket b, by offset
    moves,          \* moves[b][i]: how often log[b][i] was written to ready
    now             \* the broker's clock

queue == <<log, moves, now>>

RetryBuckets == Buckets(Boundaries, Partitions)

\* decodes: whether handleRecord makes a delay of the record at all.
Retry == [at : Nat, delay : Nat, decodes : BOOLEAN]

DueAt(b, i) == log[b][i].at + log[b][i].delay

Moved(b, i) == i \in DOMAIN log[b] /\ moves[b][i] > 0

QueueInit ==
    /\ log = [b \in RetryBuckets |-> <<>>]
    /\ moves = [b \in RetryBuckets |-> <<>>]
    /\ now = 0

\* The broker stamps what scheduleRetry produces.
AppendRetry(d, decodes) ==
    LET b == Bucket(Boundaries, Partitions, d)
    IN  /\ log' = [log EXCEPT ![b] =
                     Append(@, [at |-> now, delay |-> d, decodes |-> decodes])]
        /\ moves' = [moves EXCEPT ![b] = Append(@, 0)]
        /\ UNCHANGED now

Tick ==
    /\ now' = now + 1
    /\ UNCHANGED <<log, moves>>

Deliver(b, i) ==
    /\ i \in DOMAIN log[b] /\ log[b][i].decodes
    /\ DueAt(b, i) <= now
    /\ \A j \in 1..(i - 1) : Moved(b, j)
    /\ moves' = [moves EXCEPT ![b][i] = @ + 1]
    /\ UNCHANGED <<log, now>>

QueueNext ==
    \/ \E d \in Delays, decodes \in BOOLEAN : AppendRetry(d, decodes)
    \/ \E b \in RetryBuckets : \E i \in DOMAIN log[b] : Deliver(b, i)
    \/ Tick

QueueSpec == QueueInit /\ [][QueueNext]_queue

=============================================================================
