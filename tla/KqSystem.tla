------------------------------ MODULE KqSystem ------------------------------
(***************************************************************************)
(* A whole queue: clients that enqueue tasks, the worker processes of      *)
(* Worker, the retry topics with their movers, and the share group's limit *)
(* on deliveries.  The workers are those of module Worker, step by step;   *)
(* the movers are taken as RetryQueue describes them, which RetryMover     *)
(* implements.  The system is shown to implement TaskLifecycle and, as far *)
(* as the retry topics go, RetryQueue.                                     *)
(***************************************************************************)
EXTENDS Worker

CONSTANTS
    ClientRetries,  \* RetryPolicy.maxRetries of the clients
    Refused,        \* tasks whose type is blank, or is no text proto can encode
    DeliveryLimit,  \* group.share.delivery.count.limit of the share group
    MaxTime         \* bound: the clock

ASSUME SystemAssumption ==
    /\ ClientRetries \in 0..MaxRetries
    /\ Refused \subseteq Tasks
    /\ DeliveryLimit \in Nat \ {0} /\ MaxTime \in Nat

VARIABLES
    call,           \* call[t]: where the Enqueue of t is
    appended,       \* appended[b][i]: when the broker appended retry[b][i]
    moves,          \* moves[b][i]: how often it was written to ready
    now,            \* the broker's clock
    deliveries      \* deliveries[o]: how often the record at o was acquired

retryLog == <<appended, moves>>
system == <<call, retryLog, now, deliveries>>
allVars == <<vars, system>>

SystemInit ==
    /\ Init
    /\ call = [t \in Tasks |-> "none"]
    /\ appended = [b \in RetryBuckets |-> <<>>]
    /\ moves = [b \in RetryBuckets |-> <<>>]
    /\ now = 0
    /\ deliveries = [o \in Offsets |-> 0]

-----------------------------------------------------------------------------
(* Client.Enqueue.                                                         *)

SetCall(t, state) == call' = [call EXCEPT ![t] = state]

\* newTaskEnvelope: every task gets an id of its own, and the retries of the
\* client's policy.
NewTaskEnvelope(t) ==
    [id |-> t, retries |-> ClientRetries, retried |-> 0, after |-> 0,
     wellFormed |-> TRUE]

\* A task whose envelope is not made or not encoded is refused before anything
\* is produced.
Enqueue(t) ==
    /\ call[t] = "none"
    /\ SetCall(t, IF t \in Refused THEN "error" ELSE "producing")
    /\ UNCHANGED <<vars, retryLog, now, deliveries>>

EnqueueWrites(t) ==
    /\ call[t] = "producing"
    /\ Arrive(NewTaskEnvelope(t))
    /\ SetCall(t, "written")
    /\ UNCHANGED <<retryLog, now, deliveries>>

\* Produce is answered once all in-sync replicas have the record.  A faulty
\* variant answers as soon as it is sent.
FaultyEnqueueReturns(t) ==
    /\ call[t] \in {"producing", "written"}
    /\ SetCall(t, "id")
    /\ UNCHANGED <<vars, retryLog, now, deliveries>>

EnqueueReturns(t) ==
    /\ call[t] = "written"
    /\ SetCall(t, "id")
    /\ UNCHANGED <<vars, retryLog, now, deliveries>>

\* The answer is lost, the context is cancelled, or the client is closed or
\* dies: the record may have been written all the same.
EnqueueFails(t) ==
    /\ call[t] \in {"producing", "written"}
    /\ Fault
    /\ SetCall(t, "error")
    /\ UNCHANGED <<topics, group, run, acks, job, completed, retryLog, now,
                   deliveries>>

-----------------------------------------------------------------------------
(* The workers, and what the broker notes of their steps.                  *)

\* The broker stamps the retries a step appends.
Stamp ==
    /\ appended' = [b \in RetryBuckets |->
          IF retry'[b] = retry[b] THEN appended[b] ELSE Append(appended[b], now)]
    /\ moves' = [b \in RetryBuckets |->
          IF retry'[b] = retry[b] THEN moves[b] ELSE Append(moves[b], 0)]

\* The broker counts the acquisitions of a record, up to its limit.
Count ==
    LET lent == {o \in Offsets : \E w \in Workers : o \in acquired'[w] \ acquired[w]}
    IN  /\ \A o \in lent : deliveries[o] < DeliveryLimit
        /\ deliveries' = [o \in Offsets |->
              IF o \in lent THEN deliveries[o] + 1 ELSE deliveries[o]]

Noted == Stamp /\ Count /\ UNCHANGED <<call, now>>

WorkerActs(w) == WorkerStep(w) /\ Noted

\* A record that was acquired too often is archived instead of being lent once
\* more.  Nothing in kq sets the limit or hears of it.
GiveUp(o) ==
    /\ Available(o) /\ deliveries[o] >= DeliveryLimit
    /\ archived' = archived \cup {o}
    /\ UNCHANGED <<topics, acquired, run, acks, job, completed, faults, system>>

-----------------------------------------------------------------------------
(* The movers, as RetryQueue has them, and time.                           *)

Waiting(b) == {i \in DOMAIN retry[b] : moves[b][i] = 0}

IsDue(b, i) == appended[b][i] + retry[b][i].after <= now

\* A mover writes a due retry to the ready topic as it is; it does so again
\* only when a commit failed or the partition changed hands.
Move(b, i) ==
    /\ IsDue(b, i)
    /\ \A j \in 1..(i - 1) : j \notin Waiting(b)
    /\ IF i \in Waiting(b) THEN UNCHANGED faults ELSE Fault
    /\ Len(ready) < MaxReady
    /\ ready' = Append(ready, retry[b][i])
    /\ moves' = [moves EXCEPT ![b][i] = @ + 1]
    /\ UNCHANGED <<retry, dlq, group, run, acks, job, completed, call,
                   appended, now, deliveries>>

\* Time is of interest only while a retry waits for it.
Tick ==
    /\ now < MaxTime
    /\ \E b \in RetryBuckets : \E i \in Waiting(b) : ~IsDue(b, i)
    /\ now' = now + 1
    /\ UNCHANGED <<vars, call, retryLog, deliveries>>

SystemNext ==
    \/ \E t \in Tasks :
          Enqueue(t) \/ EnqueueWrites(t) \/ EnqueueReturns(t) \/ EnqueueFails(t)
    \/ \E w \in Workers : WorkerActs(w)
    \/ \E o \in Offsets : GiveUp(o)
    \/ \E b \in RetryBuckets : \E i \in DOMAIN retry[b] : Move(b, i)
    \/ Tick

SystemSpec == SystemInit /\ [][SystemNext]_allVars

\* The fairness of the workers, of the movers (EveryRetryMoves), of time, of
\* the answers to a client and of the share group's limit.
SystemFairness ==
    /\ \A t \in Tasks : WF_allVars(EnqueueWrites(t) \/ EnqueueReturns(t))
    /\ \A w \in Workers :
          /\ WF_allVars(Advance(w) /\ Noted) /\ WF_allVars(Goroutines(w) /\ Noted)
          /\ WF_allVars(Acknowledge(w) /\ Noted) /\ WF_allVars(Expire(w) /\ Noted)
    /\ \A b \in RetryBuckets :
          WF_allVars(\E i \in Waiting(b) : Move(b, i))
    /\ WF_allVars(\E o \in Offsets : GiveUp(o))
    /\ WF_allVars(Tick)

FairSystem == SystemSpec /\ SystemFairness

-----------------------------------------------------------------------------
(* The refinement mappings.                                                *)

CopiesOf(t) == {o \in DOMAIN ready : ready[o].id = t}

RetriesOf(t) == {at \in RetryOffsets : retry[at[1]][at[2]].id = t}

DeadLettersOf(t) == {i \in DOMAIN dlq : dlq[i].id = t}

Records(t) ==
    {ready[o] : o \in CopiesOf(t)} \cup {retry[at[1]][at[2]] : at \in RetriesOf(t)}

\* An attempt is started when a record of it is written; it is owed while
\* a copy is on the ready topic, not archived, or on a retry topic, not moved.
Started == [t \in Tasks |-> {e.retried : e \in Records(t)}]

Owed == [t \in Tasks |->
    {ready[o].retried : o \in CopiesOf(t) \ archived}
    \cup {retry[at[1]][at[2]].retried :
            at \in {a \in RetriesOf(t) : a[2] \in Waiting(a[1])}}]

\* It has ended when its handler returned nil, or its retry or its dead letter
\* is written.
Ended == [t \in Tasks |->
    {ready[o].retried : o \in CopiesOf(t) \cap completed}
    \cup {retry[at[1]][at[2]].retried - 1 : at \in RetriesOf(t)}
    \cup {dlq[i].retried : i \in DeadLettersOf(t)}]

Completed == {ready[o].id : o \in completed}

Dead == {dlq[i].id : i \in DOMAIN dlq}

Known == {t \in Tasks : call[t] = "id"}

Lifecycle == INSTANCE TaskLifecycle WITH
    MaxRetries <- ClientRetries,
    known <- Known,
    started <- Started,
    owed <- Owed,
    ended <- Ended,
    completed <- Completed,
    dead <- Dead,
    Patience <- DeliveryLimit,
    mishaps <- faults

RetryLog ==
    [b \in RetryBuckets |->
        [i \in DOMAIN retry[b] |->
            [at |-> appended[b][i], delay |-> retry[b][i].after,
             decodes |-> retry[b][i].wellFormed]]]

RetryDelays == {RetryDelay[at] : at \in (1..MaxRetries) \X Tasks}

Queue == INSTANCE RetryQueue WITH
    Delays <- RetryDelays,
    log <- RetryLog

-----------------------------------------------------------------------------
(* Properties                                                              *)

\* Clients, workers and movers together implement the abstract queue: no step
\* of theirs, crashes, lost answers, expired acquisitions and repeated moves
\* included, delivers an attempt out of turn, forgets one that is owed, or
\* tells a client the id of a task that is not written.
ImplementsLifecycle == Lifecycle!Spec

\* The workers' produces and the movers' writes, seen from the retry topics,
\* are those of RetryQueue: in the bucket of their delay, stamped, delivered
\* when due and in order.
ImplementsQueue == Queue!QueueSpec

\* No accepted task is lost, though the share group archives a record by
\* itself after DeliveryLimit deliveries: while there are fewer faults than
\* that, every task is owed an attempt, completed or dead-lettered.
NoTaskIsLost == Lifecycle!NothingIsLost

\* Dead letters had all their attempts, each after the one before it.
DeadLettersHadEveryAttempt == Lifecycle!EveryAttemptIsMade

\* Every task whose id the client was given completes or is dead-lettered,
\* unless as much has gone wrong as the share group's limit allows for.
EveryKnownTaskEnds ==
    \A t \in Tasks :
        t \in Known ~> t \in Completed \cup Dead \/ faults >= DeliveryLimit

\* The queue comes to rest: every record that was ever written, by an Enqueue
\* that failed or a mover that repeated itself too, is archived or moved in the
\* end, and nothing more is written.
QueueDrains == <>[](\A t \in Tasks : Owed[t] = {})

=============================================================================
