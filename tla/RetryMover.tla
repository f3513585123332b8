----------------------------- MODULE RetryMover -----------------------------
(***************************************************************************)
(* The retry movers of one queue: RetryMover.Run with the records it holds,*)
(* the consumer it polls, pauses and commits through, and the consumer     *)
(* group that assigns the partitions of the retry topics.                  *)
(*                                                                         *)
(* An offset counts from 1, and committed[b] is the number of records of b *)
(* the group has completed.  Of the group and of its client the model      *)
(* keeps what the code relies on: a partition has one owner; a new owner   *)
(* starts after the committed records; a commit is not checked against the *)
(* assignment; a paused partition is not fetched, but what was fetched     *)
(* before is still delivered; pauses outlive an assignment.  The movers'   *)
(* clocks agree with the broker's.                                         *)
(***************************************************************************)
EXTENDS RetryQueue, FiniteSets

CONSTANTS
    Movers,         \* the mover processes
    NoMover,        \* the owner of an unassigned partition
    RunsAgain,      \* whether Run is called again after it has returned
    MayBeBad,       \* whether records that do not decode may arrive
    MaxRecords,     \* bound: records of a partition
    MaxTime,        \* bound: the clock
    MaxRebalances,  \* bound: partitions taken from a live owner
    MaxFaults       \* bound: faults of the environment

ASSUME MoverAssumption ==
    /\ NoMover \notin Movers
    /\ RunsAgain \in BOOLEAN /\ MayBeBad \in BOOLEAN
    /\ MaxRecords \in Nat /\ MaxTime \in Nat
    /\ MaxRebalances \in Nat /\ MaxFaults \in Nat

VARIABLES
    \* Kafka
    committed,      \* committed[b]: the group's committed offset
    owner,          \* owner[b]: the mover b is assigned to
    \* a mover process
    pc,             \* where Run of m is
    held,           \* RetryMover.held: held[m][b], a sequence of offsets
    moving,         \* the record in move: <<b, i>>, or <<>>
    pollErr,        \* result.err of the poll that returned it is not nil
    paused,         \* the partitions m's client does not fetch
    position,       \* position[m][b]: the last offset poll returned
    fetched,        \* fetched[m][b]: the last offset the client has fetched
    cancelled,      \* the context of m's Run is cancelled
    closed,         \* m.Close has been called
    ret,            \* what the last Run of m returned
    \* bounds
    rebalances, faults

group == <<committed, owner>>
client == <<paused, position, fetched>>
control == <<cancelled, closed, ret>>
bounds == <<rebalances, faults>>
vars == <<queue, group, pc, held, moving, pollErr, client, control, bounds>>

Fault == faults < MaxFaults /\ faults' = faults + 1

Empty == [b \in RetryBuckets |-> 0]

Member(m) == pc[m] # "down" /\ ~closed[m]

-----------------------------------------------------------------------------
(* The life of a mover process.                                            *)

Init ==
    /\ QueueInit
    /\ committed = Empty /\ owner = [b \in RetryBuckets |-> NoMover]
    /\ pc = [m \in Movers |-> "down"]
    /\ held = [m \in Movers |-> [b \in RetryBuckets |-> <<>>]]
    /\ moving = [m \in Movers |-> <<>>]
    /\ pollErr = [m \in Movers |-> FALSE]
    /\ paused = [m \in Movers |-> {}]
    /\ position = [m \in Movers |-> Empty]
    /\ fetched = [m \in Movers |-> Empty]
    /\ cancelled = [m \in Movers |-> FALSE]
    /\ closed = [m \in Movers |-> FALSE]
    /\ ret = [m \in Movers |-> "none"]
    /\ rebalances = 0 /\ faults = 0

NewRetryMover(m) ==
    /\ pc[m] = "down"
    /\ pc' = [pc EXCEPT ![m] = "idle"]
    /\ UNCHANGED <<queue, group, held, moving, pollErr, client, control, bounds>>

Run(m) ==
    /\ pc[m] = "idle" /\ ~closed[m]
    /\ ret[m] = "none" \/ RunsAgain
    /\ pc' = [pc EXCEPT ![m] = "due"]
    /\ ret' = [ret EXCEPT ![m] = "none"]
    /\ UNCHANGED <<queue, group, held, moving, pollErr, client, cancelled,
                   closed, bounds>>

\* Run returns; its context is nobody's any more.
Return(m, value) ==
    /\ pc' = [pc EXCEPT ![m] = "idle"]
    /\ ret' = [ret EXCEPT ![m] = value]
    /\ cancelled' = [cancelled EXCEPT ![m] = FALSE]
    /\ moving' = [moving EXCEPT ![m] = <<>>]
    /\ pollErr' = [pollErr EXCEPT ![m] = FALSE]
    /\ UNCHANGED closed

Cancel(m) ==
    /\ pc[m] \notin {"down", "idle"} /\ ~cancelled[m]
    /\ Fault
    /\ cancelled' = [cancelled EXCEPT ![m] = TRUE]
    /\ UNCHANGED <<queue, group, pc, held, moving, pollErr, client, closed, ret,
                   rebalances>>

\* Close after Run is part of every program; Close while it runs is a fault.
Close(m) ==
    /\ pc[m] # "down" /\ ~closed[m]
    /\ IF pc[m] = "idle" /\ ret[m] # "none" THEN UNCHANGED faults ELSE Fault
    /\ closed' = [closed EXCEPT ![m] = TRUE]
    /\ UNCHANGED <<queue, group, pc, held, moving, pollErr, client, cancelled,
                   ret, rebalances>>

\* The process is gone, and its memory with it.
Vanish(m) ==
    /\ pc' = [pc EXCEPT ![m] = "down"]
    /\ held' = [held EXCEPT ![m] = [b \in RetryBuckets |-> <<>>]]
    /\ moving' = [moving EXCEPT ![m] = <<>>]
    /\ pollErr' = [pollErr EXCEPT ![m] = FALSE]
    /\ paused' = [paused EXCEPT ![m] = {}]
    /\ position' = [position EXCEPT ![m] = Empty]
    /\ fetched' = [fetched EXCEPT ![m] = Empty]
    /\ cancelled' = [cancelled EXCEPT ![m] = FALSE]
    /\ closed' = [closed EXCEPT ![m] = FALSE]
    /\ ret' = [ret EXCEPT ![m] = "none"]
    /\ owner' = [b \in RetryBuckets |-> IF owner[b] = m THEN NoMover ELSE owner[b]]
    /\ UNCHANGED <<queue, committed, rebalances>>

Exit(m) == pc[m] = "idle" /\ closed[m] /\ Vanish(m) /\ UNCHANGED faults

Crash(m) == pc[m] # "down" /\ Fault /\ Vanish(m)

-----------------------------------------------------------------------------
(* The consumer group and the client's fetches.                            *)

\* Where a new owner starts.  A faulty variant is one record early.
FaultyStartOf(b) == committed[b] - 1

StartOf(b) == committed[b]

\* m gets b: newly, from a member that has left, or from a live one.  Nothing
\* tells the RetryMover of either side.
Assign(m, b) ==
    /\ Member(m) /\ owner[b] # m
    /\ IF owner[b] \in Movers /\ Member(owner[b])
       THEN rebalances < MaxRebalances /\ rebalances' = rebalances + 1
       ELSE UNCHANGED rebalances
    /\ owner' = [owner EXCEPT ![b] = m]
    /\ position' = [position EXCEPT ![m][b] = StartOf(b)]
    /\ fetched' = [fetched EXCEPT ![m][b] = StartOf(b)]
    /\ UNCHANGED <<queue, committed, pc, held, moving, pollErr, paused, control,
                   faults>>

Fetch(m, b) ==
    /\ Member(m) /\ owner[b] = m /\ b \notin paused[m]
    /\ fetched[m][b] < Len(log[b])
    /\ fetched' = [fetched EXCEPT ![m][b] = Len(log[b])]
    /\ UNCHANGED <<queue, group, pc, held, moving, pollErr, paused, position,
                   control, bounds>>

-----------------------------------------------------------------------------
(* moveDueRecord and nextWake.                                             *)

Due(b, i) == DueAt(b, i) <= now

Holding(m) == {b \in RetryBuckets : held[m][b] # <<>>}

\* The partitions whose first held record is due.
DueFronts(m) == {b \in Holding(m) : Due(b, Head(held[m][b]))}

MoveDueRecord(m, b) ==
    /\ pc[m] = "due" /\ b \in DueFronts(m)
    /\ moving' = [moving EXCEPT ![m] = <<b, Head(held[m][b])>>]
    /\ pc' = [pc EXCEPT ![m] = "produce"]
    /\ UNCHANGED <<queue, group, held, pollErr, client, control, bounds>>

NoDueRecord(m) ==
    /\ pc[m] = "due" /\ DueFronts(m) = {}
    /\ pc' = [pc EXCEPT ![m] = "poll"]
    /\ UNCHANGED <<queue, group, held, moving, pollErr, client, control, bounds>>

\* The deadline of the poll, nextWake's earliest front, has passed.
Wakes(m) == DueFronts(m) # {}

-----------------------------------------------------------------------------
(* move: produce the record in hand to the ready topic, then commit it.    *)

\* The record is on the ready topic.
Written(m) ==
    LET b == moving[m][1]
        i == moving[m][2]
    IN  moves' = [moves EXCEPT ![b][i] = @ + 1] /\ UNCHANGED <<log, now>>

Produce(m) ==
    /\ pc[m] = "produce" /\ ~closed[m]
    /\ Written(m)
    /\ pc' = [pc EXCEPT ![m] = "commit"]
    /\ UNCHANGED <<group, held, moving, pollErr, client, control, bounds>>

\* A Produce that fails may have been written all the same.  A faulty variant
\* commits even so.
FaultyProduceFails(m) ==
    /\ pc[m] = "produce"
    /\ IF cancelled[m] \/ closed[m] THEN UNCHANGED faults ELSE Fault
    /\ Written(m) \/ UNCHANGED queue
    /\ pc' = [pc EXCEPT ![m] = "commit"]
    /\ UNCHANGED <<group, held, moving, pollErr, client, control, rebalances>>

ProduceFails(m) ==
    /\ pc[m] = "produce"
    /\ IF cancelled[m] \/ closed[m] THEN UNCHANGED faults ELSE Fault
    /\ Written(m) \/ UNCHANGED queue
    /\ Return(m, "error")
    /\ UNCHANGED <<group, held, client, rebalances>>

\* What moveDueRecord does with held after a move: drop the front, and resume
\* the partition when nothing is left.  Faulty variants: always, never, and
\* with the front kept.
FaultyResumeEarly(m, b) ==
    /\ held' = [held EXCEPT ![m][b] = Tail(@)]
    /\ paused' = [paused EXCEPT ![m] = @ \ {b}]

FaultyResumeNever(m, b) ==
    /\ held' = [held EXCEPT ![m][b] = Tail(@)]
    /\ UNCHANGED paused

FaultyKeepFront(m, b) == UNCHANGED <<held, paused>>

DropFront(m, b) ==
    /\ held' = [held EXCEPT ![m][b] = Tail(@)]
    /\ paused' = IF Len(held[m][b]) = 1
                 THEN [paused EXCEPT ![m] = @ \ {b}]
                 ELSE paused

\* The commit is answered.  The record in hand came from held if its partition
\* holds any: handleRecord moves a polled record only when none is held.
Commit(m) ==
    LET b == moving[m][1]
    IN  /\ pc[m] = "commit" /\ ~closed[m]
        /\ committed' = [committed EXCEPT ![b] = moving[m][2]]
        /\ IF held[m][b] # <<>>
           THEN DropFront(m, b)
           ELSE UNCHANGED <<held, paused>>
        /\ \/ /\ pollErr[m]
              /\ Return(m, "error")
           \/ /\ ~pollErr[m]
              /\ pc' = [pc EXCEPT ![m] = "due"]
              /\ moving' = [moving EXCEPT ![m] = <<>>]
              /\ UNCHANGED <<pollErr, control>>
        /\ UNCHANGED <<queue, owner, position, fetched, bounds>>

\* The commit fails, applied or not; the group may refuse a commit of a
\* partition that is no longer m's.
CommitFails(m) ==
    LET b == moving[m][1]
    IN  /\ pc[m] = "commit"
        /\ IF cancelled[m] \/ closed[m] \/ owner[b] # m
           THEN UNCHANGED faults
           ELSE Fault
        /\ \/ UNCHANGED committed
           \/ committed' = [committed EXCEPT ![b] = moving[m][2]]
        /\ Return(m, "error")
        /\ UNCHANGED <<queue, owner, held, client, rebalances>>

-----------------------------------------------------------------------------
(* The poll, and handleRecord.                                             *)

\* result.err is nil, or not.
PollResult(m) ==
    \/ UNCHANGED <<pollErr, faults>>
    \/ pollErr' = [pollErr EXCEPT ![m] = TRUE] /\ Fault

\* The record poll returns.
Polled(m, b) ==
    /\ pc[m] = "poll" /\ ~closed[m]
    /\ owner[b] = m /\ position[m][b] < fetched[m][b]
    /\ position' = [position EXCEPT ![m][b] = @ + 1]
    /\ UNCHANGED <<queue, group, fetched, rebalances>>

\* A record that must wait: for its delay, or behind a held one.  A faulty
\* variant forgets the latter.
FaultyHoldsNoOrder(m, b, i) == ~Due(b, i)

MustHold(m, b, i) == held[m][b] # <<>> \/ ~Due(b, i)

\* A faulty variant holds the last record first.
FaultyHeldWith(m, b, i) == <<i>> \o held[m][b]

HeldWith(m, b, i) == Append(held[m][b], i)

HoldRecord(m, b) ==
    LET i == position[m][b] + 1
    IN  /\ Polled(m, b)
        /\ log[b][i].decodes /\ MustHold(m, b, i)
        /\ held' = [held EXCEPT ![m][b] = HeldWith(m, b, i)]
        /\ paused' = IF held[m][b] = <<>>
                     THEN [paused EXCEPT ![m] = @ \cup {b}]
                     ELSE paused
        /\ \/ /\ pc' = [pc EXCEPT ![m] = "due"]
              /\ UNCHANGED <<moving, pollErr, control, faults>>
           \/ Fault /\ Return(m, "error")

MoveRecord(m, b) ==
    LET i == position[m][b] + 1
    IN  /\ Polled(m, b)
        /\ log[b][i].decodes /\ ~MustHold(m, b, i)
        /\ moving' = [moving EXCEPT ![m] = <<b, i>>]
        /\ pc' = [pc EXCEPT ![m] = "produce"]
        /\ PollResult(m)
        /\ UNCHANGED <<held, paused, control>>

\* The value does not decode, or its delay is invalid or negative.
RejectRecord(m, b) ==
    /\ Polled(m, b)
    /\ ~log[b][position[m][b] + 1].decodes
    /\ Return(m, "error")
    /\ UNCHANGED <<held, paused, faults>>

\* Poll returns no record: Run stops when it was told to, goes round when the
\* poll's deadline has passed, whatever result.err says, and stops on an
\* error.  An empty poll without a deadline changes nothing.
PollStops(m) ==
    /\ pc[m] = "poll" /\ (cancelled[m] \/ closed[m])
    /\ Return(m, "nil")
    /\ UNCHANGED <<queue, group, held, client, bounds>>

PollWakes(m) ==
    /\ pc[m] = "poll" /\ ~cancelled[m] /\ ~closed[m]
    /\ Wakes(m)
    /\ pc' = [pc EXCEPT ![m] = "due"]
    /\ UNCHANGED <<queue, group, held, moving, pollErr, client, control, bounds>>

PollFails(m) ==
    /\ pc[m] = "poll" /\ ~cancelled[m] /\ ~closed[m] /\ ~Wakes(m)
    /\ Fault
    /\ Return(m, "error")
    /\ UNCHANGED <<queue, group, held, client, rebalances>>

-----------------------------------------------------------------------------
(* The system.                                                             *)

\* A worker's scheduleRetry writes a retry.
Arrive(d, decodes) ==
    /\ Len(log[Bucket(Boundaries, Partitions, d)]) < MaxRecords
    /\ now + d <= MaxTime
    /\ AppendRetry(d, decodes)
    /\ UNCHANGED <<group, pc, held, moving, pollErr, client, control, bounds>>

Pass ==
    /\ now < MaxTime
    /\ Tick
    /\ UNCHANGED <<group, pc, held, moving, pollErr, client, control, bounds>>

MoverStep(m) ==
    \/ NewRetryMover(m) \/ Run(m) \/ Cancel(m) \/ Close(m) \/ Exit(m) \/ Crash(m)
    \/ NoDueRecord(m) \/ Produce(m) \/ ProduceFails(m)
    \/ Commit(m) \/ CommitFails(m)
    \/ PollStops(m) \/ PollWakes(m) \/ PollFails(m)
    \/ \E b \in RetryBuckets :
          \/ Assign(m, b) \/ Fetch(m, b) \/ MoveDueRecord(m, b)
          \/ HoldRecord(m, b) \/ MoveRecord(m, b) \/ RejectRecord(m, b)

Next ==
    \/ \E m \in Movers : MoverStep(m)
    \/ \E d \in Delays, decodes \in (IF MayBeBad THEN BOOLEAN ELSE {TRUE}) :
            Arrive(d, decodes)
    \/ Pass

Spec == Init /\ [][Next]_vars

\* A step of the process's only goroutine that needs no fault.
Advance(m) ==
    \/ NewRetryMover(m) \/ Run(m) \/ Exit(m)
    \/ pc[m] = "idle" /\ ret[m] # "none" /\ Close(m)
    \/ NoDueRecord(m) \/ Produce(m) \/ Commit(m)
    \/ closed[m] /\ (ProduceFails(m) \/ CommitFails(m))
    \/ PollStops(m) \/ PollWakes(m)
    \/ \E b \in RetryBuckets :
          \/ MoveDueRecord(m, b)
          \/ HoldRecord(m, b) \/ MoveRecord(m, b) \/ RejectRecord(m, b)

\* Movers are scheduled, Kafka answers, time passes, an unowned partition is
\* assigned, and a mover that has stopped is closed and started again.
Fairness ==
    /\ WF_vars(Pass)
    /\ \A m \in Movers :
        /\ WF_vars(Advance(m))
        /\ \A b \in RetryBuckets :
            WF_vars(owner[b] = NoMover /\ Assign(m, b)) /\ WF_vars(Fetch(m, b))

FairSpec == Spec /\ Fairness

-----------------------------------------------------------------------------
(* Properties                                                              *)

TypeOK ==
    /\ log \in [RetryBuckets -> Seq(Retry)]
    /\ moves \in [RetryBuckets -> Seq(Nat)] /\ now \in Nat
    /\ \A b \in RetryBuckets : Len(moves[b]) = Len(log[b])
    /\ committed \in [RetryBuckets -> Nat]
    /\ owner \in [RetryBuckets -> Movers \cup {NoMover}]
    /\ pc \in [Movers -> {"down", "idle", "due", "poll", "produce", "commit"}]
    /\ held \in [Movers -> [RetryBuckets -> Seq(Nat)]]
    /\ moving \in [Movers -> {<<>>} \cup (RetryBuckets \X Nat)]
    /\ \A m \in Movers : pc[m] \in {"produce", "commit"} <=> moving[m] # <<>>
    /\ pollErr \in [Movers -> BOOLEAN]
    /\ paused \in [Movers -> SUBSET RetryBuckets]
    /\ position \in [Movers -> [RetryBuckets -> Nat]]
    /\ fetched \in [Movers -> [RetryBuckets -> Nat]]
    /\ cancelled \in [Movers -> BOOLEAN] /\ closed \in [Movers -> BOOLEAN]
    /\ ret \in [Movers -> {"none", "nil", "error"}]
    /\ rebalances \in Nat /\ faults \in Nat

\* No retry is lost: whatever the group has committed was written to the ready
\* topic, although a commit stands for every earlier offset too, comes from a
\* mover that may no longer own the partition, and may set the group back.
CommittedAreMoved ==
    \A b \in RetryBuckets : \A i \in 1..committed[b] : Moved(b, i)

\* A held record never waits for the front of its partition longer than its
\* bucket's upper bound: the front is due by then.  (A record may come back
\* into a mover's hands once it has been moved; that one waits for nothing.)
WaitIsBounded ==
    \A m \in Movers, b \in RetryBuckets : \A k \in DOMAIN held[m][b] :
        LET i == held[m][b][k]
        IN  ~Moved(b, i) /\ log[b][i].at + UpperBound(Boundaries, Partitions, b) <= now
              => Due(b, Head(held[m][b]))

\* A partition is paused exactly while records of it are held, whichever way
\* a Run ends and whoever owns it.
PausedWhileHeld ==
    \A m \in Movers : paused[m] = Holding(m)

\* Movers of several deployments coexist without moving a record once each:
\* the group they share gives a partition to one of them at a time.  Only a
\* fault or a rebalance has a record moved twice (docs/api.md, NewRetryMover).
MovedByOneMover ==
    faults = 0 /\ rebalances = 0 =>
        \A b \in RetryBuckets : \A i \in DOMAIN moves[b] : moves[b][i] <= 1

\* Every retry is moved in the end.
EveryRetryMoves ==
    \A b \in RetryBuckets, i \in 1..MaxRecords :
        i \in DOMAIN log[b] ~> Moved(b, i)

-----------------------------------------------------------------------------
(* What the documentation says and the code does not do.                   *)

\* docs/architecture/retry-mover.md: the mover must never commit past an
\* ineligible or failed record.  It does when Run, which is not told to seek
\* back, is called again after a failed move.
NeverCommitsPastAFailure == CommittedAreMoved

=============================================================================
