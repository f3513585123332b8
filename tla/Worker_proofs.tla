--------------------------- MODULE Worker_proofs ---------------------------
(***************************************************************************)
(* The safety properties of Worker, for any number of workers, records,    *)
(* tasks and faults and for any valid grid and retry policy.               *)
(*                                                                         *)
(* The heart is WriteBeforeAccept.  It is not inductive: a record becomes  *)
(* archived long after its handler returned, through the results channel   *)
(* and an acknowledgement on its way to the broker.  IInv follows the      *)
(* record along that way.  That it has no effect twice while nothing fails *)
(* is counted at the end, with an invariant of its own.                    *)
(***************************************************************************)
EXTENDS Worker, RetryGrid_proofs

-----------------------------------------------------------------------------
(* The inductive invariant.                                                *)

\* Everything the workers talk about has been written to the ready topic.
OffsetsAreWritten ==
    /\ archived \subseteq DOMAIN ready /\ completed \subseteq DOMAIN ready
    /\ \A w \in Workers, o \in Offsets :
          /\ job[w][o] # "none" => o \in DOMAIN ready
          /\ <<o, "accept">> \in pendingAck[w] => o \in DOMAIN ready

\* What handle has decided about a record justifies its next write.
WritesAreJustified ==
    \A w \in Workers, o \in Offsets :
        /\ job[w][o] = "retrying" =>
              ~Exhausted(ready[o]) /\ Schedulable(ready[o])
        /\ job[w][o] = "burying" => Exhausted(ready[o])

\* A result without an error, and an accept, belong to a settled record.
AcceptsAreSettled ==
    \A w \in Workers, o \in Offsets :
        /\ job[w][o] = "ok" => Settled(o)
        /\ <<o, "accept">> \in pendingAck[w] => Settled(o)

\* Outside dispatch and collect no record is anywhere in the pool.
PoolFollowsRun ==
    \A w \in Workers, o \in Offsets :
        /\ pc[w] \in {"down", "idle", "poll"} => job[w][o] = "none"
        /\ pc[w] = "flush" => job[w][o] \in {"none", "marked"}

\* A marked record is archived, or its accept is on the way, or the generation
\* has an error to return.
MarksAreAccounted ==
    \A w \in Workers, o \in Offsets :
        job[w][o] = "marked" =>
            \/ o \in archived
            \/ <<o, "accept">> \in pendingAck[w]
            \/ taskErr[w] \/ ackErr[w]

\* A generation is no larger than the pool, and Run dispatches only while some
\* record of it is not yet dispatched.
Generation(w) == In(w, JobStates \ {"none"})

GenerationsFit ==
    \A w \in Workers :
        /\ Cardinality(Generation(w)) <= Concurrency
        /\ pc[w] = "dispatch" => In(w, {"fetched"}) # {}

\* What the workers keep up whatever clients, movers and the broker do.
PoolInv ==
    /\ TypeOK
    /\ OffsetsAreWritten
    /\ WritesAreJustified
    /\ AcceptsAreSettled
    /\ RetriesAreDue
    /\ DeadLettersAreExhausted
    /\ PoolFollowsRun
    /\ MarksAreAccounted
    /\ GenerationsFit

IInv == PoolInv /\ WriteBeforeAccept

\* What the rest of a system may do to the state of the workers: write to the
\* ready topic, archive written records, and have faults of its own.
Outside ==
    /\ \/ ready' = ready
       \/ \E e \in Envelope : ready' = Append(ready, e)
    /\ archived \subseteq archived'
    /\ archived' \subseteq Offsets \cap DOMAIN ready'
    /\ faults' \in Nat
    /\ UNCHANGED <<retry, dlq, acquired, run, acks, job, completed>>

PoolStep == (\E w \in Workers : WorkerStep(w)) \/ Outside

-----------------------------------------------------------------------------
(* The retry scheduleRetry writes.                                         *)

LEMMA RetryIsDue ==
    ASSUME NEW e \in Envelope, Schedulable(e)
    PROVE  /\ DelayOf(e) \in Int
           /\ RetryOf(e) \in Envelope
           /\ RetryOf(e).retried = e.retried + 1
           /\ RetryOf(e).retries = e.retries
           /\ RetryOf(e).after = DelayOf(e)
           /\ BucketOf(e) \in RetryBuckets
           /\ DelayOf(e) <= UpperBound(Boundaries, Partitions, BucketOf(e))
           /\ \/ DelayOf(e) = 0
              \/ LowerBound(Boundaries, Partitions, BucketOf(e)) < DelayOf(e)
<1>1. e.retried + 1 \in 1..MaxRetries /\ e.id \in Tasks
  BY WorkerAssumption DEF Schedulable, Envelope
<1>2. DelayOf(e) \in Int
  BY <1>1, WorkerAssumption DEF DelayOf
<1>3. RetryOf(e) \in Envelope
  BY <1>2 DEF RetryOf, Envelope
<1>4. /\ RetryOf(e).retried = e.retried + 1
      /\ RetryOf(e).retries = e.retries
      /\ RetryOf(e).after = DelayOf(e)
  BY DEF RetryOf, Envelope
<1>5. /\ BucketOf(e) \in RetryBuckets
      /\ DelayOf(e) <= UpperBound(Boundaries, Partitions, BucketOf(e))
      /\ \/ DelayOf(e) = 0
         \/ LowerBound(Boundaries, Partitions, BucketOf(e)) < DelayOf(e)
  BY <1>2, WorkerAssumption, BucketHoldsDelay
    DEF Schedulable, BucketOf, RetryBuckets
<1> QED
  BY <1>2, <1>3, <1>4, <1>5

-----------------------------------------------------------------------------
(* Topics are append-only, and so is what settles a record.                *)

TopicsGrow ==
    /\ completed \subseteq completed'
    /\ \A o \in DOMAIN ready : o \in DOMAIN ready' /\ ready'[o] = ready[o]
    /\ \A b \in RetryBuckets : \A i \in DOMAIN retry[b] :
          i \in DOMAIN retry'[b] /\ retry'[b][i] = retry[b][i]
    /\ \A i \in DOMAIN dlq : i \in DOMAIN dlq' /\ dlq'[i] = dlq[i]

LEMMA AppendKeeps ==
    ASSUME NEW S, NEW s \in Seq(S), NEW e \in S
    PROVE  /\ Append(s, e) \in Seq(S)
           /\ \A i \in DOMAIN s : i \in DOMAIN Append(s, e) /\ Append(s, e)[i] = s[i]
           /\ Len(s) + 1 \in DOMAIN Append(s, e) /\ Append(s, e)[Len(s) + 1] = e
           /\ DOMAIN Append(s, e) = DOMAIN s \cup {Len(s) + 1}
  OBVIOUS

\* A produced record is where its topic's writer put it, and nothing else has
\* changed.
LEMMA WrittenGrows ==
    ASSUME TypeOK, OffsetsAreWritten, WritesAreJustified,
           NEW w \in Workers, NEW o \in Offsets, Written(w, o), UNCHANGED completed
    PROVE  /\ TopicsGrow
           /\ ready' = ready
           /\ retry' \in [RetryBuckets -> Seq(Envelope)] /\ dlq' \in Seq(Envelope)
           /\ Settled(o)'
<1>1. o \in DOMAIN ready /\ ready[o] \in Envelope
  <2>1. job[w][o] \in {"retrying", "burying"}
    BY DEF Written
  <2>2. o \in DOMAIN ready
    BY <2>1 DEF OffsetsAreWritten
  <2> QED
    BY <2>2 DEF TypeOK
<1>2. CASE job[w][o] = "retrying"
  <2>1. /\ retry' = [retry EXCEPT ![BucketOf(ready[o])] =
                       Append(@, RetryOf(ready[o]))]
        /\ UNCHANGED <<ready, dlq>>
    BY <1>2 DEF Written
  <2>2. BucketOf(ready[o]) \in RetryBuckets /\ RetryOf(ready[o]) \in Envelope
    BY <1>1, <1>2, RetryIsDue DEF WritesAreJustified
  <2> DEFINE b == BucketOf(ready[o])
             e == RetryOf(ready[o])
  <2>3. /\ retry'[b] = Append(retry[b], e)
        /\ \A c \in RetryBuckets : c # b => retry'[c] = retry[c]
        /\ retry[b] \in Seq(Envelope)
    BY <2>1, <2>2 DEF TypeOK
  <2>4. retry' \in [RetryBuckets -> Seq(Envelope)]
    BY <2>1, <2>2, <2>3, AppendKeeps DEF TypeOK
  <2> HIDE DEF b, e
  <2>5. TopicsGrow
    BY <2>1, <2>2, <2>3, AppendKeeps DEF TopicsGrow, b, e
  <2>6. \E i \in DOMAIN retry'[b] : retry'[b][i] = RetryOf(ready'[o])
    BY <2>1, <2>2, <2>3, AppendKeeps DEF b, e
  <2> QED
    BY <2>1, <2>2, <2>4, <2>5, <2>6 DEF Settled, TypeOK, b
<1>3. CASE job[w][o] = "burying"
  <2>1. dlq' = Append(dlq, ready[o]) /\ UNCHANGED <<ready, retry>>
    BY <1>3 DEF Written
  <2>2. dlq \in Seq(Envelope)
    BY DEF TypeOK
  <2>3. \E i \in DOMAIN dlq' : dlq'[i] = ready'[o]
    BY <1>1, <2>1, <2>2, AppendKeeps
  <2> QED
    BY <1>1, <2>1, <2>2, <2>3, AppendKeeps DEF TopicsGrow, Settled, TypeOK
<1> QED
  BY <1>2, <1>3 DEF Written

LEMMA SettledGrows ==
    ASSUME TopicsGrow, NEW o \in DOMAIN ready, Settled(o)
    PROVE  Settled(o)'
  BY DEF TopicsGrow, Settled

-----------------------------------------------------------------------------
(* Every step keeps the types.                                             *)

LEMMA AutoAcceptType ==
    ASSUME NEW w \in Workers
    PROVE  AutoAccepted(w) \in SUBSET (Offsets \X {"accept", "release"})
  BY DEF AutoAccepted, In

LEMMA TypeIsKept ==
    ASSUME PoolInv, PoolStep
    PROVE  TypeOK'
<1> USE DEF topics, group, run, acks
<1>0. TypeOK
  BY DEF PoolInv
<1>1. ASSUME NEW w \in Workers, NewWorker(w)
      PROVE  TypeOK'
  BY <1>0, <1>1 DEF NewWorker, TypeOK
<1>2. ASSUME NEW w \in Workers, Run(w)
      PROVE  TypeOK'
  BY <1>0, <1>2 DEF Run, TypeOK
<1>3. ASSUME NEW w \in Workers, Cancel(w)
      PROVE  TypeOK'
  BY <1>0, <1>3 DEF Cancel, TypeOK, Fault
<1>4. ASSUME NEW w \in Workers, Close(w)
      PROVE  TypeOK'
  BY <1>0, <1>4 DEF Close, TypeOK, Fault
<1>5. ASSUME NEW w \in Workers, Exit(w)
      PROVE  TypeOK'
  BY <1>0, <1>5 DEF Exit, TypeOK, Vanish, JobStates
<1>6. ASSUME NEW w \in Workers, Crash(w)
      PROVE  TypeOK'
  BY <1>0, <1>6 DEF Crash, TypeOK, Vanish, Fault, JobStates
<1>7. ASSUME NEW w \in Workers, PollRecords(w)
      PROVE  TypeOK'
  <2>1. acquired' \in [Workers -> SUBSET Offsets]
    BY <1>0, <1>7 DEF PollRecords, TypeOK
  <2>2. job' \in [Workers -> [Offsets -> JobStates]]
    BY <1>0, <1>7 DEF PollRecords, TypeOK, JobStates
  <2>3. pendingAck' \in [Workers -> SUBSET (Offsets \X {"accept", "release"})]
    BY <1>0, <1>7, AutoAcceptType DEF PollRecords, TypeOK
  <2>4. pc' = [pc EXCEPT ![w] = "dispatch"]
    BY <1>7 DEF PollRecords
  <2>5. pollErr' \in [Workers -> BOOLEAN] /\ faults' \in Nat
    <3>1. \/ UNCHANGED <<pollErr, faults>>
          \/ pollErr' = [pollErr EXCEPT ![w] = TRUE] /\ Fault
      BY <1>7 DEF PollRecords
    <3>2. pollErr \in [Workers -> BOOLEAN] /\ faults \in Nat
      BY <1>0 DEF TypeOK
    <3>3. pollErr' \in [Workers -> BOOLEAN]
      BY <3>1, <3>2
    <3>4. faults' \in Nat
      BY <3>1, <3>2 DEF Fault
    <3> QED
      BY <3>3, <3>4
  <2>6. UNCHANGED <<topics, archived, cancelled, closed, taskErr, ret, ackErr, completed>>
    BY <1>7 DEF PollRecords
  <2> QED
    BY <1>0, <2>1, <2>2, <2>3, <2>4, <2>5, <2>6 DEF TypeOK
<1>8. ASSUME NEW w \in Workers, PollStops(w)
      PROVE  TypeOK'
  BY <1>0, <1>8 DEF PollStops, TypeOK, Return, AutoAccepted, In, JobStates
<1>9. ASSUME NEW w \in Workers, PollFails(w)
      PROVE  TypeOK'
  BY <1>0, <1>9 DEF PollFails, TypeOK, Return, AutoAccepted, In, Fault, JobStates
<1>10. ASSUME NEW w \in Workers, FlushAcks(w)
      PROVE  TypeOK'
  <2>1. pc' \in [Workers -> {"down", "idle", "poll", "dispatch", "collect", "flush"}]
    BY <1>0, <1>10 DEF FlushAcks, TypeOK, Return
  <2>2. cancelled' \in [Workers -> BOOLEAN] /\ ret' \in [Workers -> {"none", "nil", "error"}]
    BY <1>0, <1>10 DEF FlushAcks, TypeOK, Return
  <2>3. job' \in [Workers -> [Offsets -> JobStates]]
    BY <1>0, <1>10 DEF FlushAcks, TypeOK, JobStates
  <2>4. faults' \in Nat
    BY <1>0, <1>10 DEF FlushAcks, TypeOK, Fault
  <2>5. /\ ackErr' = [ackErr EXCEPT ![w] = FALSE]
        /\ taskErr' = [taskErr EXCEPT ![w] = FALSE]
        /\ pollErr' = [pollErr EXCEPT ![w] = FALSE]
        /\ UNCHANGED <<topics, group, closed, pendingAck, completed>>
    BY <1>10 DEF FlushAcks
  <2> QED
    BY <1>0, <2>1, <2>2, <2>3, <2>4, <2>5 DEF TypeOK
<1>11. ASSUME NEW w \in Workers, NEW o \in Offsets, Dispatch(w, o)
      PROVE  TypeOK'
  BY <1>0, <1>11 DEF Dispatch, TypeOK, SetJob, JobStates
<1>12. ASSUME NEW w \in Workers, NEW o \in Offsets, Take(w, o)
      PROVE  TypeOK'
  BY <1>0, <1>12 DEF Take, TypeOK, SetJob, JobStates
<1>13. ASSUME NEW w \in Workers, NEW o \in Offsets, DecodeFails(w, o)
      PROVE  TypeOK'
  BY <1>0, <1>13 DEF DecodeFails, TypeOK, SetJob, JobStates
<1>14. ASSUME NEW w \in Workers, NEW o \in Offsets, HandlerSucceeds(w, o)
      PROVE  TypeOK'
  BY <1>0, <1>14 DEF HandlerSucceeds, TypeOK, SetJob, JobStates
<1>15. ASSUME NEW w \in Workers, NEW o \in Offsets, HandlerFails(w, o)
      PROVE  TypeOK'
  <2>1. PICK state \in JobStates : job' = SetJob(w, o, state)
    BY <1>15 DEF HandlerFails, JobStates
  <2>2. UNCHANGED <<topics, group, run, acks, completed, faults>>
    BY <1>15 DEF HandlerFails
  <2> QED
    BY <1>0, <2>1, <2>2 DEF TypeOK, SetJob
<1>16. ASSUME NEW w \in Workers, NEW o \in Offsets, HandlerPanics(w, o)
      PROVE  TypeOK'
  BY <1>0, <1>16 DEF HandlerPanics, TypeOK, Vanish, Fault, JobStates
<1>17. ASSUME NEW w \in Workers, NEW o \in Offsets, Produce(w, o)
      PROVE  TypeOK'
  <2>1. retry' \in [RetryBuckets -> Seq(Envelope)] /\ dlq' \in Seq(Envelope) /\ ready' = ready
    BY <1>0, <1>17, WrittenGrows DEF Produce, PoolInv
  <2> QED
    BY <1>0, <1>17, <2>1 DEF Produce, TypeOK, SetJob, JobStates
<1>18. ASSUME NEW w \in Workers, NEW o \in Offsets, ProduceFails(w, o)
      PROVE  TypeOK'
  <2>1. retry' \in [RetryBuckets -> Seq(Envelope)] /\ dlq' \in Seq(Envelope) /\ ready' = ready
    <3>1. CASE UNCHANGED topics
      BY <1>0, <3>1 DEF TypeOK
    <3>2. CASE Written(w, o)
      BY <1>0, <1>18, <3>2, WrittenGrows DEF ProduceFails, PoolInv
    <3> QED
      BY <1>18, <3>1, <3>2 DEF ProduceFails
  <2>2. faults' \in Nat
    BY <1>0, <1>18 DEF ProduceFails, Fault, TypeOK
  <2> QED
    BY <1>0, <1>18, <2>1, <2>2 DEF ProduceFails, TypeOK, SetJob, JobStates
<1>19. ASSUME NEW w \in Workers, NEW o \in Offsets, CollectResult(w, o)
      PROVE  TypeOK'
  <2>1. pendingAck' \in [Workers -> SUBSET (Offsets \X {"accept", "release"})]
    <3>1. PICK status \in {"accept", "release"} :
             pendingAck' = [pendingAck EXCEPT ![w] = @ \cup {<<o, status>>}]
      BY <1>19 DEF CollectResult
    <3>2. {<<o, status>>} \in SUBSET (Offsets \X {"accept", "release"})
      OBVIOUS
    <3> QED
      BY <1>0, <3>1, <3>2 DEF TypeOK
  <2>2. taskErr' \in [Workers -> BOOLEAN]
    BY <1>0, <1>19 DEF CollectResult, TypeOK
  <2>3. pc' \in [Workers -> {"down", "idle", "poll", "dispatch", "collect", "flush"}]
    BY <1>0, <1>19 DEF CollectResult, TypeOK
  <2>4. job' \in [Workers -> [Offsets -> JobStates]]
    BY <1>0, <1>19 DEF CollectResult, TypeOK, SetJob, JobStates
  <2>5. UNCHANGED <<topics, group, cancelled, closed, pollErr, ret, ackErr, completed, faults>>
    BY <1>19 DEF CollectResult
  <2> QED
    BY <1>0, <2>1, <2>2, <2>3, <2>4, <2>5 DEF TypeOK
<1>20. ASSUME NEW w \in Workers, NEW o \in Offsets, LockExpiresEarly(w, o)
      PROVE  TypeOK'
  BY <1>0, <1>20 DEF LockExpiresEarly, TypeOK, LockExpires, Fault
<1>21. ASSUME NEW w \in Workers, NEW o \in Offsets, LockExpiresAbandoned(w, o)
      PROVE  TypeOK'
  BY <1>0, <1>21 DEF LockExpiresAbandoned, TypeOK, LockExpires
<1>22. ASSUME NEW w \in Workers, NEW o \in Offsets, NEW s \in {"accept", "release"}, DeliverAck(w, o, s)
      PROVE  TypeOK'
  <2>1. pendingAck' \in [Workers -> SUBSET (Offsets \X {"accept", "release"})]
    BY <1>0, <1>22 DEF DeliverAck, TypeOK
  <2>2. acquired' \in [Workers -> SUBSET Offsets] /\ archived' \in SUBSET Offsets
    <3>1. Apply(w, o, s) \/ UNCHANGED group
      BY <1>22 DEF DeliverAck
    <3> QED
      BY <1>0, <3>1 DEF TypeOK, Apply
  <2>3. ackErr' \in [Workers -> BOOLEAN]
    BY <1>0, <1>22 DEF DeliverAck, TypeOK
  <2>4. UNCHANGED <<topics, run, job, completed, faults>>
    BY <1>22 DEF DeliverAck
  <2> QED
    BY <1>0, <2>1, <2>2, <2>3, <2>4 DEF TypeOK
<1>23. ASSUME NEW w \in Workers, NEW o \in Offsets, NEW s \in {"accept", "release"}, LoseAck(w, o, s)
      PROVE  TypeOK'
  <2>1. pendingAck' \in [Workers -> SUBSET (Offsets \X {"accept", "release"})]
    BY <1>0, <1>23 DEF LoseAck, TypeOK
  <2>2. acquired' \in [Workers -> SUBSET Offsets] /\ archived' \in SUBSET Offsets
    <3>1. Apply(w, o, s) \/ UNCHANGED group
      BY <1>23 DEF LoseAck
    <3> QED
      BY <1>0, <3>1 DEF TypeOK, Apply
  <2>3. ackErr' \in [Workers -> BOOLEAN] /\ faults' \in Nat
    BY <1>0, <1>23 DEF LoseAck, TypeOK, Fault
  <2>4. UNCHANGED <<topics, run, job, completed>>
    BY <1>23 DEF LoseAck
  <2> QED
    BY <1>0, <2>1, <2>2, <2>3, <2>4 DEF TypeOK
<1>24. CASE Outside
  <2>1. ready' \in Seq(Envelope)
    <3>1. ASSUME NEW e \in Envelope, ready' = Append(ready, e)
          PROVE  ready' \in Seq(Envelope)
      BY <1>0, <3>1, AppendKeeps DEF TypeOK
    <3>2. CASE ready' = ready
      BY <1>0, <3>2 DEF TypeOK
    <3> QED
      BY <1>24, <3>1, <3>2 DEF Outside
  <2> QED
    BY <1>0, <1>24, <2>1 DEF Outside, TypeOK
<1> QED
  BY <1>1, <1>2, <1>3, <1>4, <1>5, <1>6, <1>7, <1>8, <1>9, <1>10, <1>11, <1>12, <1>13, <1>14, <1>15, <1>16, <1>17, <1>18, <1>19, <1>20, <1>21, <1>22, <1>23, <1>24
    DEF PoolStep, WorkerStep, Handle, Acknowledge

-----------------------------------------------------------------------------
(* How one step moves a record: only forwards along the way from the ready *)
(* topic, through the pool and an accept, to the archived offsets.         *)

RecordsMove ==
    \A w \in Workers, o \in Offsets :
        /\ job'[w][o] # "none" => job[w][o] # "none" \/ o \in DOMAIN ready
        /\ job'[w][o] = "retrying" =>
              \/ job[w][o] = "retrying"
              \/ ~Exhausted(ready[o]) /\ Schedulable(ready[o])
        /\ job'[w][o] = "burying" => job[w][o] = "burying" \/ Exhausted(ready[o])
        /\ job'[w][o] = "ok" => job[w][o] = "ok" \/ Settled(o)'
        /\ <<o, "accept">> \in pendingAck'[w] =>
              <<o, "accept">> \in pendingAck[w] \/ job[w][o] = "ok"
        /\ o \in completed' => o \in completed \/ o \in DOMAIN ready

\* What the broker archives was accepted.
ArchivedWereAccepted ==
    \A o \in archived' :
        o \in archived \/ \E w \in Workers : <<o, "accept">> \in pendingAck[w]

\* A poll accepts nothing by itself: no record is unresolved then.
LEMMA NothingAutoAccepted ==
    ASSUME PoolFollowsRun, NEW w \in Workers, pc[w] = "poll"
    PROVE  AutoAccepted(w) = {}
  BY DEF PoolFollowsRun, AutoAccepted, In

LEMMA WorkersMoveRecords ==
    ASSUME PoolInv, NEW u \in Workers, WorkerStep(u)
    PROVE  TopicsGrow /\ RecordsMove /\ ArchivedWereAccepted
<1> USE DEF topics, group, run, acks
<1> DEFINE Goal == TopicsGrow /\ RecordsMove /\ ArchivedWereAccepted
<1>0. TypeOK
  BY DEF PoolInv
<1>0a. ASSUME UNCHANGED topics, completed \subseteq completed'
       PROVE  TopicsGrow
  BY <1>0a DEF TopicsGrow
<1>1. ASSUME NEW w \in Workers,
             NewWorker(w) \/ Run(w) \/ Cancel(w) \/ Close(w)
      PROVE  Goal
  BY <1>0a, <1>1
    DEF NewWorker, Run, Cancel, Close, RecordsMove, ArchivedWereAccepted
<1>2. ASSUME NEW w \in Workers, Vanish(w)
      PROVE  Goal
  BY <1>0, <1>0a, <1>2 DEF Vanish, RecordsMove, ArchivedWereAccepted, TypeOK
<1>3. ASSUME NEW w \in Workers, PollRecords(w)
      PROVE  Goal
  <2>1. TopicsGrow /\ ArchivedWereAccepted
    BY <1>0a, <1>3 DEF PollRecords, ArchivedWereAccepted
  <2>2. pendingAck' = pendingAck
    BY <1>0, <1>3, NothingAutoAccepted DEF PollRecords, TypeOK, PoolInv
  <2>3. PICK polled \in SUBSET {o \in Offsets : Available(o)} :
           job' = [job EXCEPT ![w] = [o \in Offsets |->
                     IF o \in polled THEN "fetched" ELSE job[w][o]]]
    BY <1>3 DEF PollRecords
  <2>4. \A o \in polled : o \in DOMAIN ready
    BY DEF Available
  <2>5. \A v \in Workers, o \in Offsets :
           job'[v][o] = job[v][o] \/ (job'[v][o] = "fetched" /\ o \in polled)
    <3>1. job \in [Workers -> [Offsets -> JobStates]]
      BY <1>0 DEF TypeOK
    <3>2. \A v \in Workers : v # w => job'[v] = job[v]
      BY <2>3, <3>1
    <3>3. \A o \in Offsets :
             job'[w][o] = IF o \in polled THEN "fetched" ELSE job[w][o]
      BY <2>3, <3>1
    <3> QED
      BY <3>2, <3>3
  <2>6. completed' = completed
    BY <1>3 DEF PollRecords
  <2> QED
    BY <2>1, <2>2, <2>4, <2>5, <2>6 DEF RecordsMove
<1>4. ASSUME NEW w \in Workers, PollStops(w) \/ PollFails(w)
      PROVE  Goal
  <2>1. pendingAck' = pendingAck
    <3>1. /\ pc[w] = "poll"
          /\ pendingAck' = [pendingAck EXCEPT ![w] = @ \cup AutoAccepted(w)]
      BY <1>4 DEF PollStops, PollFails
    <3> QED
      BY <1>0, <3>1, NothingAutoAccepted DEF TypeOK, PoolInv
  <2>2. UNCHANGED <<topics, archived, job, completed>>
    BY <1>4 DEF PollStops, PollFails
  <2> QED
    BY <1>0a, <2>1, <2>2 DEF RecordsMove, ArchivedWereAccepted
<1>5. ASSUME NEW w \in Workers, FlushAcks(w)
      PROVE  Goal
  <2>1. /\ job' = [job EXCEPT ![w] = [o \in Offsets |->
                     IF job[w][o] = "marked" THEN "none" ELSE job[w][o]]]
        /\ UNCHANGED <<topics, archived, pendingAck, completed>>
    BY <1>5 DEF FlushAcks
  <2> QED
    BY <1>0, <1>0a, <2>1 DEF RecordsMove, ArchivedWereAccepted, TypeOK
<1>6. ASSUME NEW w \in Workers, NEW o \in Offsets,
             Dispatch(w, o) \/ Take(w, o) \/ DecodeFails(w, o)
      PROVE  Goal
  <2>1. PICK state \in {"queued", "running", "err"} : job' = SetJob(w, o, state)
    BY <1>6 DEF Dispatch, Take, DecodeFails
  <2>2. job[w][o] # "none"
    BY <1>6 DEF Dispatch, Take, DecodeFails
  <2>3. UNCHANGED <<topics, archived, pendingAck, completed>>
    BY <1>6 DEF Dispatch, Take, DecodeFails
  <2> QED
    BY <1>0, <1>0a, <2>1, <2>2, <2>3
      DEF SetJob, RecordsMove, ArchivedWereAccepted, TypeOK
<1>7. ASSUME NEW w \in Workers, NEW o \in Offsets, HandlerSucceeds(w, o)
      PROVE  Goal
  <2>1. Settled(o)'
    BY <1>7 DEF HandlerSucceeds, Settled
  <2>2. o \in DOMAIN ready
    BY <1>7 DEF HandlerSucceeds, PoolInv, OffsetsAreWritten
  <2> QED
    BY <1>0, <1>0a, <1>7, <2>1, <2>2
      DEF HandlerSucceeds, SetJob, RecordsMove, ArchivedWereAccepted, TypeOK
<1>8. ASSUME NEW w \in Workers, NEW o \in Offsets, HandlerFails(w, o)
      PROVE  Goal
  <2>1. PICK state \in {"burying", "retrying", "err"} :
          /\ job' = SetJob(w, o, state)
          /\ state = "burying" => Exhausted(ready[o])
          /\ state = "retrying" => ~Exhausted(ready[o]) /\ Schedulable(ready[o])
    BY <1>8 DEF HandlerFails
  <2>2. /\ job[w][o] # "none"
        /\ UNCHANGED <<topics, archived, pendingAck, completed>>
    BY <1>8 DEF HandlerFails
  <2> QED
    BY <1>0, <1>0a, <2>1, <2>2
      DEF SetJob, RecordsMove, ArchivedWereAccepted, TypeOK
<1>9. ASSUME NEW w \in Workers, NEW o \in Offsets, Produce(w, o)
      PROVE  Goal
  <2>1. TopicsGrow /\ Settled(o)'
    BY <1>0, <1>9, WrittenGrows DEF Produce, PoolInv
  <2> QED
    BY <1>0, <1>9, <2>1
      DEF Produce, SetJob, RecordsMove, ArchivedWereAccepted, TypeOK
<1>10. ASSUME NEW w \in Workers, NEW o \in Offsets, ProduceFails(w, o)
       PROVE  Goal
  <2>1. TopicsGrow
    BY <1>0, <1>0a, <1>10, WrittenGrows DEF ProduceFails, PoolInv
  <2> QED
    BY <1>0, <1>10, <2>1
      DEF ProduceFails, SetJob, RecordsMove, ArchivedWereAccepted, TypeOK
<1>11. ASSUME NEW w \in Workers, NEW o \in Offsets, CollectResult(w, o)
       PROVE  Goal
  BY <1>0, <1>0a, <1>11
    DEF CollectResult, SetJob, RecordsMove, ArchivedWereAccepted, TypeOK
<1>12. ASSUME NEW w \in Workers, NEW o \in Offsets,
              NEW status \in {"accept", "release"},
              DeliverAck(w, o, status) \/ LoseAck(w, o, status)
       PROVE  Goal
  <2>1. /\ <<o, status>> \in pendingAck[w]
        /\ pendingAck' = [pendingAck EXCEPT ![w] = @ \ {<<o, status>>}]
        /\ Apply(w, o, status) \/ UNCHANGED group
        /\ UNCHANGED <<topics, job, completed>>
    BY <1>12 DEF DeliverAck, LoseAck
  <2>2. ArchivedWereAccepted
    BY <2>1 DEF Apply, ArchivedWereAccepted
  <2> QED
    BY <1>0, <1>0a, <2>1, <2>2 DEF RecordsMove, TypeOK
<1>13. ASSUME NEW w \in Workers, NEW o \in Offsets, LockExpires(w, o)
       PROVE  Goal
  BY <1>0a, <1>13 DEF LockExpires, RecordsMove, ArchivedWereAccepted
<1> QED
  BY <1>1, <1>2, <1>3, <1>4, <1>5, <1>6, <1>7, <1>8, <1>9, <1>10, <1>11,
     <1>12, <1>13
    DEF WorkerStep, Handle, Acknowledge, Exit, Crash, HandlerPanics,
        LockExpiresEarly, LockExpiresAbandoned

LEMMA OutsideMovesRecords ==
    ASSUME TypeOK, Outside
    PROVE  TopicsGrow /\ RecordsMove
<1> USE DEF run, acks
<1>1. \A o \in DOMAIN ready : o \in DOMAIN ready' /\ ready'[o] = ready[o]
  <2>1. ASSUME NEW e \in Envelope, ready' = Append(ready, e)
        PROVE  \A o \in DOMAIN ready : o \in DOMAIN ready' /\ ready'[o] = ready[o]
    BY <2>1, AppendKeeps DEF TypeOK
  <2> QED
    BY <2>1 DEF Outside
<1>2. TopicsGrow
  BY <1>1 DEF Outside, TopicsGrow
<1>3. RecordsMove
  BY DEF Outside, RecordsMove
<1> QED
  BY <1>2, <1>3

LEMMA StepsMoveRecords ==
    ASSUME PoolInv, PoolStep
    PROVE  TopicsGrow /\ RecordsMove
<1>1. TypeOK
  BY DEF PoolInv
<1> QED
  BY <1>1, WorkersMoveRecords, OutsideMovesRecords DEF PoolStep

-----------------------------------------------------------------------------
(* The parts of PoolInv that follow a record.                                 *)

LEMMA OffsetsStayWritten ==
    ASSUME PoolInv, PoolStep
    PROVE  OffsetsAreWritten'
<1>1. TopicsGrow /\ RecordsMove
  BY StepsMoveRecords
<1>2. DOMAIN ready \subseteq DOMAIN ready'
  BY <1>1 DEF TopicsGrow
<1>3. archived' \subseteq DOMAIN ready'
  <2> SUFFICES ASSUME NEW o \in archived'
               PROVE  o \in DOMAIN ready'
    OBVIOUS
  <2>1. CASE Outside
    BY <2>1 DEF Outside
  <2>2. ASSUME NEW u \in Workers, WorkerStep(u)
        PROVE  o \in DOMAIN ready'
    <3>1. ArchivedWereAccepted
      BY <2>2, WorkersMoveRecords
    <3>2. o \in Offsets
      BY TypeIsKept DEF TypeOK
    <3> QED
      BY <1>2, <3>1, <3>2 DEF PoolInv, OffsetsAreWritten, ArchivedWereAccepted
  <2> QED
    BY <2>1, <2>2 DEF PoolStep
<1>3a. completed' \subseteq DOMAIN ready'
  <2> SUFFICES ASSUME NEW o \in completed'
               PROVE  o \in DOMAIN ready'
    OBVIOUS
  <2>1. CASE Outside
    BY <1>2, <2>1 DEF Outside, PoolInv, OffsetsAreWritten
  <2>2. ASSUME NEW u \in Workers, WorkerStep(u)
        PROVE  o \in DOMAIN ready'
    <3>1. o \in Offsets
      BY TypeIsKept DEF TypeOK
    <3> QED
      BY <1>1, <1>2, <2>2, <3>1 DEF RecordsMove, PoolInv, OffsetsAreWritten
  <2> QED
    BY <2>1, <2>2 DEF PoolStep
<1>4. ASSUME NEW w \in Workers, NEW o \in Offsets
      PROVE  /\ job'[w][o] # "none" => o \in DOMAIN ready
             /\ <<o, "accept">> \in pendingAck'[w] => o \in DOMAIN ready
  BY <1>1 DEF PoolInv, OffsetsAreWritten, RecordsMove
<1> QED
  BY <1>2, <1>3, <1>3a, <1>4 DEF OffsetsAreWritten

LEMMA WritesStayJustified ==
    ASSUME PoolInv, PoolStep
    PROVE  WritesAreJustified'
<1> SUFFICES ASSUME NEW w \in Workers, NEW o \in Offsets
             PROVE  /\ job'[w][o] = "retrying" =>
                          ~Exhausted(ready'[o]) /\ Schedulable(ready'[o])
                    /\ job'[w][o] = "burying" => Exhausted(ready'[o])
  BY DEF WritesAreJustified, Exhausted, Schedulable, DelayOf
<1>1. TopicsGrow /\ RecordsMove
  BY StepsMoveRecords
<1>2. CASE o \in DOMAIN ready
  <2>1. ready'[o] = ready[o]
    BY <1>1, <1>2 DEF TopicsGrow
  <2> QED
    BY <1>1, <2>1 DEF PoolInv, WritesAreJustified, RecordsMove
<1>3. CASE o \notin DOMAIN ready
  BY <1>1, <1>3 DEF PoolInv, OffsetsAreWritten, RecordsMove
<1> QED
  BY <1>2, <1>3

LEMMA AcceptsStaySettled ==
    ASSUME PoolInv, PoolStep
    PROVE  AcceptsAreSettled'
<1> SUFFICES ASSUME NEW w \in Workers, NEW o \in Offsets
             PROVE  /\ job'[w][o] = "ok" => Settled(o)'
                    /\ <<o, "accept">> \in pendingAck'[w] => Settled(o)'
  BY DEF AcceptsAreSettled
<1>1. TopicsGrow /\ RecordsMove
  BY StepsMoveRecords
<1>2. ASSUME job[w][o] = "ok" \/ <<o, "accept">> \in pendingAck[w]
      PROVE  Settled(o)'
  <2>1. o \in DOMAIN ready /\ Settled(o)
    BY <1>2 DEF PoolInv, OffsetsAreWritten, AcceptsAreSettled
  <2> QED
    BY <1>1, <2>1, SettledGrows
<1> QED
  BY <1>1, <1>2 DEF RecordsMove

-----------------------------------------------------------------------------
(* What is written to the retry topics and to the dead-letter topic.       *)

\* A step writes there only what a goroutine produces.
OnlyHandlersWrite ==
    \/ UNCHANGED <<retry, dlq>>
    \/ \E w \in Workers, o \in Offsets : Written(w, o) /\ UNCHANGED completed

LEMMA StepsWrite ==
    ASSUME PoolStep
    PROVE  OnlyHandlersWrite
<1> USE DEF topics, group, run, acks
<1>1. ASSUME NEW w \in Workers, NEW o \in Offsets, Handle(w, o)
      PROVE  OnlyHandlersWrite
  <2>1. CASE Produce(w, o)
    BY <2>1 DEF Produce, OnlyHandlersWrite
  <2>2. CASE ProduceFails(w, o)
    BY <2>2 DEF ProduceFails, OnlyHandlersWrite
  <2>3. CASE HandlerPanics(w, o)
    BY <2>3 DEF HandlerPanics, Vanish, OnlyHandlersWrite
  <2>4. CASE HandlerFails(w, o)
    BY <2>4 DEF HandlerFails, OnlyHandlersWrite
  <2>5. CASE Take(w, o) \/ DecodeFails(w, o) \/ HandlerSucceeds(w, o)
    BY <2>5 DEF Take, DecodeFails, HandlerSucceeds, OnlyHandlersWrite
  <2> QED
    BY <1>1, <2>1, <2>2, <2>3, <2>4, <2>5 DEF Handle
<1>2. ASSUME NEW w \in Workers,
             \/ NewWorker(w) \/ Run(w) \/ Cancel(w) \/ Close(w) \/ Vanish(w)
      PROVE  OnlyHandlersWrite
  BY <1>2 DEF NewWorker, Run, Cancel, Close, Vanish, OnlyHandlersWrite
<1>3. ASSUME NEW w \in Workers, PollRecords(w) \/ PollStops(w) \/ PollFails(w)
      PROVE  OnlyHandlersWrite
  BY <1>3 DEF PollRecords, PollStops, PollFails, OnlyHandlersWrite
<1>4. ASSUME NEW w \in Workers, FlushAcks(w)
      PROVE  OnlyHandlersWrite
  BY <1>4 DEF FlushAcks, OnlyHandlersWrite
<1>5. ASSUME NEW w \in Workers, NEW o \in Offsets,
             Dispatch(w, o) \/ CollectResult(w, o) \/ LockExpires(w, o)
      PROVE  OnlyHandlersWrite
  BY <1>5 DEF Dispatch, CollectResult, LockExpires, OnlyHandlersWrite
<1>6. ASSUME NEW w \in Workers, NEW o \in Offsets,
             NEW status \in {"accept", "release"},
             DeliverAck(w, o, status) \/ LoseAck(w, o, status)
      PROVE  OnlyHandlersWrite
  BY <1>6 DEF DeliverAck, LoseAck, OnlyHandlersWrite
<1>7. CASE Outside
  BY <1>7 DEF Outside, OnlyHandlersWrite
<1> QED
  BY <1>1, <1>2, <1>3, <1>4, <1>5, <1>6, <1>7
    DEF PoolStep, WorkerStep, Acknowledge, Exit, Crash, LockExpiresEarly,
        LockExpiresAbandoned

\* What RetriesAreDue says of one record of a bucket, but for its origin.
Due(b, e) ==
    /\ e.retried <= e.retries /\ e.retried <= MaxRetries
    /\ e.after <= UpperBound(Boundaries, Partitions, b)
    /\ e.after = 0 \/ LowerBound(Boundaries, Partitions, b) < e.after

LEMMA RetriesStayDue ==
    ASSUME PoolInv, PoolStep
    PROVE  RetriesAreDue'
<1> DEFINE Goal(b, e) ==
      Due(b, e) /\ \E o \in DOMAIN ready' : e = RetryOf(ready'[o])
<1> SUFFICES ASSUME NEW b \in RetryBuckets, NEW i \in DOMAIN retry'[b]
             PROVE  Goal(b, retry'[b][i])
  BY DEF RetriesAreDue, Due, RetryOf, DelayOf
<1>1. \A o \in DOMAIN ready : o \in DOMAIN ready' /\ ready'[o] = ready[o]
  BY StepsMoveRecords DEF TopicsGrow
<1>2. ASSUME i \in DOMAIN retry[b], retry'[b][i] = retry[b][i]
      PROVE  Goal(b, retry'[b][i])
  BY <1>1, <1>2 DEF PoolInv, RetriesAreDue, Due
<1>3. CASE UNCHANGED <<retry, dlq>>
  BY <1>2, <1>3
<1>4. ASSUME NEW w \in Workers, NEW o \in Offsets, Written(w, o)
      PROVE  Goal(b, retry'[b][i])
  <2>1. CASE job[w][o] = "burying"
    BY <1>2, <1>4, <2>1 DEF Written
  <2>2. CASE job[w][o] = "retrying"
    <3> DEFINE c == BucketOf(ready[o])
               e == RetryOf(ready[o])
    <3>1. o \in DOMAIN ready /\ ready[o] \in Envelope
      <4>1. o \in DOMAIN ready
        BY <2>2 DEF PoolInv, OffsetsAreWritten
      <4> QED
        BY <4>1 DEF PoolInv, TypeOK
    <3>2. ~Exhausted(ready[o]) /\ Schedulable(ready[o])
      BY <2>2 DEF PoolInv, WritesAreJustified
    <3>3. c \in RetryBuckets /\ e \in Envelope
      BY <3>1, <3>2, RetryIsDue
    <3>4. retry' = [retry EXCEPT ![c] = Append(@, e)]
      BY <1>4, <2>2 DEF Written
    <3>5. Due(c, e)
      <4>1. e.retried <= e.retries /\ e.retried <= MaxRetries
        BY <3>1, <3>2, RetryIsDue, WorkerAssumption
          DEF Exhausted, Schedulable, Envelope
      <4> QED
        BY <3>1, <3>2, <4>1, RetryIsDue DEF Due
    <3>6. retry \in [RetryBuckets -> Seq(Envelope)]
      BY DEF PoolInv, TypeOK
    <3> HIDE DEF c, e
    <3>7. CASE b # c
      BY <1>2, <3>4, <3>6, <3>7
    <3>8. CASE b = c
      <4>1. retry'[b] = Append(retry[b], e) /\ retry[b] \in Seq(Envelope)
        BY <3>3, <3>4, <3>6, <3>8
      <4>2. CASE i \in DOMAIN retry[b]
        BY <1>2, <3>3, <4>1, <4>2, AppendKeeps
      <4>3. CASE i \notin DOMAIN retry[b]
        <5>1. retry'[b][i] = e
          BY <3>3, <4>1, <4>3, AppendKeeps
        <5>2. Goal(b, e)
          BY <1>1, <3>1, <3>5, <3>8 DEF e
        <5> QED
          BY <5>1, <5>2
      <4> QED
        BY <4>2, <4>3
    <3> QED
      BY <3>7, <3>8
  <2> QED
    BY <1>4, <2>1, <2>2 DEF Written
<1> QED
  BY <1>3, <1>4, StepsWrite DEF OnlyHandlersWrite

LEMMA DeadLettersStayExhausted ==
    ASSUME PoolInv, PoolStep
    PROVE  DeadLettersAreExhausted'
<1> SUFFICES ASSUME NEW i \in DOMAIN dlq'
             PROVE  /\ dlq'[i].retried >= dlq'[i].retries
                    /\ \E o \in DOMAIN ready' : dlq'[i] = ready'[o]
  BY DEF DeadLettersAreExhausted
<1>1. \A o \in DOMAIN ready : o \in DOMAIN ready' /\ ready'[o] = ready[o]
  BY StepsMoveRecords DEF TopicsGrow
<1>2. ASSUME i \in DOMAIN dlq, dlq'[i] = dlq[i]
      PROVE  /\ dlq'[i].retried >= dlq'[i].retries
             /\ \E o \in DOMAIN ready' : dlq'[i] = ready'[o]
  BY <1>1, <1>2 DEF PoolInv, DeadLettersAreExhausted
<1>3. CASE UNCHANGED <<retry, dlq>>
  BY <1>2, <1>3
<1>4. ASSUME NEW w \in Workers, NEW o \in Offsets, Written(w, o)
      PROVE  /\ dlq'[i].retried >= dlq'[i].retries
             /\ \E p \in DOMAIN ready' : dlq'[i] = ready'[p]
  <2>1. CASE job[w][o] = "retrying"
    BY <1>2, <1>4, <2>1 DEF Written
  <2>2. CASE job[w][o] = "burying"
    <3>1. o \in DOMAIN ready /\ ready[o] \in Envelope /\ dlq \in Seq(Envelope)
      <4>1. o \in DOMAIN ready
        BY <2>2 DEF PoolInv, OffsetsAreWritten
      <4> QED
        BY <4>1 DEF PoolInv, TypeOK
    <3>2. ready[o].retried >= ready[o].retries
      BY <2>2 DEF PoolInv, WritesAreJustified, Exhausted
    <3>3. dlq' = Append(dlq, ready[o])
      BY <1>4, <2>2 DEF Written
    <3>4. CASE i \in DOMAIN dlq
      BY <1>2, <3>1, <3>3, <3>4, AppendKeeps
    <3>5. CASE i \notin DOMAIN dlq
      <4>1. dlq'[i] = ready[o]
        BY <3>1, <3>3, <3>5, AppendKeeps
      <4> QED
        BY <1>1, <3>1, <3>2, <4>1
    <3> QED
      BY <3>4, <3>5
  <2> QED
    BY <1>4, <2>1, <2>2 DEF Written
<1> QED
  BY <1>3, <1>4, StepsWrite DEF OnlyHandlersWrite

-----------------------------------------------------------------------------
(* The parts of PoolInv about Run and its pool.                               *)

\* What the steps of other parts leave alone.
LEMMA PoolStaysPut ==
    ASSUME PoolFollowsRun, UNCHANGED <<pc, job>>
    PROVE  PoolFollowsRun'
  BY DEF PoolFollowsRun

\* A goroutine works only while Run dispatches or collects, so whatever it
\* does to the record disturbs nothing.
LEMMA PoolWorksInside ==
    ASSUME TypeOK, PoolFollowsRun, pc' = pc,
           NEW w \in Workers, NEW o \in Offsets, NEW state \in JobStates,
           job[w][o] \notin {"none", "marked"}, job' = SetJob(w, o, state)
    PROVE  PoolFollowsRun'
<1>1. pc[w] \notin {"down", "idle", "poll", "flush"}
  BY DEF PoolFollowsRun
<1>2. ASSUME NEW v \in Workers, NEW p \in Offsets, v # w
      PROVE  job'[v][p] = job[v][p]
  BY <1>2 DEF TypeOK, SetJob
<1> QED
  BY <1>1, <1>2 DEF PoolFollowsRun

LEMMA PoolStillFollowsRun ==
    ASSUME PoolInv, PoolStep
    PROVE  PoolFollowsRun'
<1> USE DEF topics, group, run, acks
<1>0. TypeOK /\ PoolFollowsRun
  BY DEF PoolInv
<1>1. ASSUME NEW w \in Workers, NewWorker(w) \/ Run(w)
      PROVE  PoolFollowsRun'
  BY <1>0, <1>1 DEF NewWorker, Run, PoolFollowsRun, TypeOK
<1>2. ASSUME NEW w \in Workers, Cancel(w) \/ Close(w)
      PROVE  PoolFollowsRun'
  BY <1>0, <1>2, PoolStaysPut DEF Cancel, Close
<1>3. ASSUME NEW w \in Workers, Vanish(w)
      PROVE  PoolFollowsRun'
  BY <1>0, <1>3 DEF Vanish, PoolFollowsRun, TypeOK
<1>4. ASSUME NEW w \in Workers, PollRecords(w)
      PROVE  PoolFollowsRun'
  <2>1. pc' = [pc EXCEPT ![w] = "dispatch"]
    BY <1>4 DEF PollRecords
  <2>2. \A v \in Workers : v # w => job'[v] = job[v]
    BY <1>0, <1>4 DEF PollRecords, TypeOK
  <2> QED
    BY <1>0, <2>1, <2>2 DEF PoolFollowsRun, TypeOK
<1>5. ASSUME NEW w \in Workers, PollStops(w) \/ PollFails(w)
      PROVE  PoolFollowsRun'
  <2>1. pc[w] = "poll" /\ pc' = [pc EXCEPT ![w] = "idle"] /\ job' = job
    BY <1>5 DEF PollStops, PollFails, Return
  <2> QED
    BY <1>0, <2>1 DEF PoolFollowsRun, TypeOK
<1>6. ASSUME NEW w \in Workers, FlushAcks(w)
      PROVE  PoolFollowsRun'
  <2>1. /\ pc[w] = "flush"
        /\ job' = [job EXCEPT ![w] = [o \in Offsets |->
                     IF job[w][o] = "marked" THEN "none" ELSE job[w][o]]]
    BY <1>6 DEF FlushAcks
  <2>2. \A v \in Workers : v # w => pc'[v] = pc[v] /\ job'[v] = job[v]
    BY <1>0, <1>6, <2>1 DEF FlushAcks, Return, TypeOK
  <2>3. \A o \in Offsets : job'[w][o] = "none"
    BY <1>0, <2>1 DEF PoolFollowsRun, TypeOK
  <2> QED
    BY <1>0, <2>2, <2>3 DEF PoolFollowsRun
<1>7. ASSUME NEW w \in Workers, NEW o \in Offsets, Dispatch(w, o)
      PROVE  PoolFollowsRun'
  <2>1. /\ pc[w] = "dispatch" /\ job' = SetJob(w, o, "queued")
        /\ pc' \in {pc, [pc EXCEPT ![w] = "collect"]}
    BY <1>7 DEF Dispatch
  <2>2. /\ pc'[w] \in {"dispatch", "collect"}
        /\ \A v \in Workers : v # w => pc'[v] = pc[v] /\ job'[v] = job[v]
    BY <1>0, <2>1 DEF SetJob, TypeOK
  <2> QED
    BY <1>0, <2>2 DEF PoolFollowsRun
<1>8. ASSUME NEW w \in Workers, NEW o \in Offsets, Handle(w, o)
      PROVE  PoolFollowsRun'
  <2>1. CASE HandlerPanics(w, o)
    BY <1>3, <2>1 DEF HandlerPanics
  <2>2. ASSUME ~HandlerPanics(w, o)
        PROVE  /\ pc' = pc /\ job[w][o] \notin {"none", "marked"}
               /\ \E state \in JobStates : job' = SetJob(w, o, state)
    <3>1. CASE Take(w, o) \/ DecodeFails(w, o) \/ HandlerSucceeds(w, o)
      BY <3>1 DEF Take, DecodeFails, HandlerSucceeds, JobStates
    <3>2. CASE HandlerFails(w, o)
      BY <3>2 DEF HandlerFails, JobStates
    <3>3. CASE Produce(w, o) \/ ProduceFails(w, o)
      BY <3>3 DEF Produce, ProduceFails, JobStates
    <3> QED
      BY <1>8, <2>2, <3>1, <3>2, <3>3 DEF Handle
  <2> QED
    BY <1>0, <2>1, <2>2, PoolWorksInside
<1>9. ASSUME NEW w \in Workers, NEW o \in Offsets, CollectResult(w, o)
      PROVE  PoolFollowsRun'
  <2>1. /\ pc[w] = "collect" /\ job' = SetJob(w, o, "marked")
        /\ pc' = IF LastResult(w, o) THEN [pc EXCEPT ![w] = "flush"] ELSE pc
    BY <1>9 DEF CollectResult
  <2>2. \A v \in Workers : v # w => pc'[v] = pc[v] /\ job'[v] = job[v]
    BY <1>0, <2>1 DEF SetJob, TypeOK
  <2>3. CASE LastResult(w, o)
    <3>1. \A p \in Offsets : p # o => job[w][p] \in {"none", "marked"}
      BY <1>0, <2>3 DEF LastResult, In, TypeOK
    <3>2. \A p \in Offsets : job'[w][p] \in {"none", "marked"}
      BY <1>0, <2>1, <3>1 DEF SetJob, TypeOK
    <3>3. pc'[w] = "flush"
      BY <1>0, <2>1, <2>3 DEF TypeOK
    <3> QED
      BY <1>0, <2>2, <3>2, <3>3 DEF PoolFollowsRun
  <2>4. CASE ~LastResult(w, o)
    BY <1>0, <2>1, <2>2, <2>4 DEF PoolFollowsRun
  <2> QED
    BY <2>3, <2>4
<1>10. ASSUME NEW w \in Workers, NEW o \in Offsets,
              NEW status \in {"accept", "release"},
              DeliverAck(w, o, status) \/ LoseAck(w, o, status)
       PROVE  PoolFollowsRun'
  BY <1>0, <1>10, PoolStaysPut DEF DeliverAck, LoseAck
<1>11. ASSUME NEW w \in Workers, NEW o \in Offsets, LockExpires(w, o)
       PROVE  PoolFollowsRun'
  BY <1>0, <1>11, PoolStaysPut DEF LockExpires
<1>12. CASE Outside
  BY <1>0, <1>12, PoolStaysPut DEF Outside
<1> QED
  BY <1>1, <1>2, <1>3, <1>4, <1>5, <1>6, <1>7, <1>8, <1>9, <1>10, <1>11,
     <1>12
    DEF PoolStep, WorkerStep, Acknowledge, Exit, Crash, LockExpiresEarly,
        LockExpiresAbandoned

\* The account of the marked record at o.
Accounted(w, o) ==
    \/ o \in archived
    \/ <<o, "accept">> \in pendingAck[w]
    \/ taskErr[w] \/ ackErr[w]

\* A step that marks nothing and takes nothing off the account.
LEMMA AccountsStay ==
    ASSUME MarksAreAccounted,
           archived \subseteq archived', UNCHANGED <<taskErr, ackErr>>,
           \A w \in Workers : pendingAck[w] \subseteq pendingAck'[w],
           \A w \in Workers, o \in Offsets :
               job'[w][o] = "marked" => job[w][o] = "marked"
    PROVE  MarksAreAccounted'
<1> SUFFICES ASSUME NEW w \in Workers, NEW o \in Offsets, job'[w][o] = "marked"
             PROVE  Accounted(w, o)'
  BY DEF MarksAreAccounted, Accounted
<1>1. Accounted(w, o)
  BY DEF MarksAreAccounted, Accounted
<1> QED
  BY <1>1 DEF Accounted

LEMMA MarksStayAccounted ==
    ASSUME PoolInv, PoolStep
    PROVE  MarksAreAccounted'
<1> USE DEF topics, group, run, acks
<1>0. TypeOK /\ MarksAreAccounted
  BY DEF PoolInv
<1>1. ASSUME NEW w \in Workers,
             NewWorker(w) \/ Run(w) \/ Cancel(w) \/ Close(w)
      PROVE  MarksAreAccounted'
  <2>1. UNCHANGED <<archived, taskErr, ackErr, pendingAck, job>>
    BY <1>1 DEF NewWorker, Run, Cancel, Close
  <2> QED
    BY <1>0, <2>1, AccountsStay
<1>2. ASSUME NEW w \in Workers, Vanish(w)
      PROVE  MarksAreAccounted'
  <2>1. \A o \in Offsets : job'[w][o] = "none"
    BY <1>0, <1>2 DEF Vanish, TypeOK
  <2>2. \A v \in Workers : v # w =>
            /\ job'[v] = job[v] /\ pendingAck'[v] = pendingAck[v]
            /\ taskErr'[v] = taskErr[v] /\ ackErr'[v] = ackErr[v]
    BY <1>0, <1>2 DEF Vanish, TypeOK
  <2>3. archived' = archived
    BY <1>2 DEF Vanish
  <2> QED
    BY <1>0, <2>1, <2>2, <2>3 DEF MarksAreAccounted
<1>3. ASSUME NEW w \in Workers, PollRecords(w)
      PROVE  MarksAreAccounted'
  <2>1. PICK polled \in SUBSET Offsets :
           job' = [job EXCEPT ![w] = [o \in Offsets |->
                     IF o \in polled THEN "fetched" ELSE job[w][o]]]
    BY <1>3 DEF PollRecords
  <2>2. \A v \in Workers, o \in Offsets :
           job'[v][o] = "marked" => job[v][o] = "marked"
    BY <1>0, <2>1 DEF TypeOK
  <2>3. UNCHANGED <<archived, taskErr, ackErr>>
    BY <1>3 DEF PollRecords
  <2>4. \A v \in Workers : pendingAck[v] \subseteq pendingAck'[v]
    BY <1>0, <1>3 DEF PollRecords, TypeOK
  <2> QED
    BY <1>0, <2>2, <2>3, <2>4, AccountsStay
<1>4. ASSUME NEW w \in Workers, PollStops(w) \/ PollFails(w)
      PROVE  MarksAreAccounted'
  <2>1. /\ UNCHANGED <<archived, taskErr, ackErr, job>>
        /\ pendingAck' = [pendingAck EXCEPT ![w] = @ \cup AutoAccepted(w)]
    BY <1>4 DEF PollStops, PollFails
  <2>2. \A v \in Workers : pendingAck[v] \subseteq pendingAck'[v]
    BY <1>0, <2>1 DEF TypeOK
  <2> QED
    BY <1>0, <2>1, <2>2, AccountsStay
<1>5. ASSUME NEW w \in Workers, FlushAcks(w)
      PROVE  MarksAreAccounted'
  <2>1. /\ job' = [job EXCEPT ![w] = [o \in Offsets |->
                     IF job[w][o] = "marked" THEN "none" ELSE job[w][o]]]
        /\ ackErr' = [ackErr EXCEPT ![w] = FALSE]
        /\ taskErr' = [taskErr EXCEPT ![w] = FALSE]
        /\ UNCHANGED <<archived, pendingAck>>
    BY <1>5 DEF FlushAcks
  <2>2. \A o \in Offsets : job'[w][o] # "marked"
    BY <1>0, <2>1 DEF TypeOK
  <2>3. \A v \in Workers : v # w =>
            job'[v] = job[v] /\ taskErr'[v] = taskErr[v] /\ ackErr'[v] = ackErr[v]
    BY <1>0, <2>1 DEF TypeOK
  <2> QED
    BY <1>0, <2>1, <2>2, <2>3 DEF MarksAreAccounted
<1>6. ASSUME NEW w \in Workers, NEW o \in Offsets, NEW state \in JobStates,
             state # "marked", job' = SetJob(w, o, state),
             UNCHANGED <<archived, taskErr, ackErr, pendingAck>>
      PROVE  MarksAreAccounted'
  <2>1. \A v \in Workers, p \in Offsets :
           job'[v][p] = "marked" => job[v][p] = "marked"
    BY <1>0, <1>6 DEF SetJob, TypeOK
  <2> QED
    BY <1>0, <1>6, <2>1, AccountsStay
<1>7. ASSUME NEW w \in Workers, NEW o \in Offsets, Dispatch(w, o)
      PROVE  MarksAreAccounted'
  BY <1>6, <1>7 DEF Dispatch, JobStates
<1>8. ASSUME NEW w \in Workers, NEW o \in Offsets, Handle(w, o)
      PROVE  MarksAreAccounted'
  <2>1. CASE HandlerPanics(w, o)
    BY <1>2, <2>1 DEF HandlerPanics
  <2>2. CASE Take(w, o) \/ DecodeFails(w, o) \/ HandlerSucceeds(w, o)
    BY <1>6, <2>2 DEF Take, DecodeFails, HandlerSucceeds, JobStates
  <2>3. CASE HandlerFails(w, o)
    BY <1>6, <2>3 DEF HandlerFails, JobStates
  <2>4. CASE Produce(w, o) \/ ProduceFails(w, o)
    BY <1>6, <2>4 DEF Produce, ProduceFails, JobStates
  <2> QED
    BY <1>8, <2>1, <2>2, <2>3, <2>4 DEF Handle
<1>9. ASSUME NEW w \in Workers, NEW o \in Offsets, CollectResult(w, o)
      PROVE  MarksAreAccounted'
  <2>1. /\ job' = SetJob(w, o, "marked")
        /\ UNCHANGED <<archived, ackErr>>
    BY <1>9 DEF CollectResult
  <2>2. \/ /\ pendingAck' = [pendingAck EXCEPT ![w] = @ \cup {<<o, "accept">>}]
           /\ taskErr' = taskErr
        \/ /\ pendingAck' = [pendingAck EXCEPT ![w] = @ \cup {<<o, "release">>}]
           /\ taskErr' = [taskErr EXCEPT ![w] = TRUE]
    BY <1>9 DEF CollectResult
  <2>3. Accounted(w, o)'
    BY <1>0, <2>2 DEF Accounted, TypeOK
  <2>4. ASSUME NEW v \in Workers, NEW p \in Offsets, Accounted(v, p)
        PROVE  Accounted(v, p)'
    <3>1. CASE taskErr' = taskErr
      BY <1>0, <2>1, <2>2, <2>4, <3>1 DEF Accounted, TypeOK
    <3>2. CASE taskErr' = [taskErr EXCEPT ![w] = TRUE]
      BY <1>0, <2>1, <2>2, <2>4, <3>2 DEF Accounted, TypeOK
    <3> QED
      BY <2>2, <3>1, <3>2
  <2>5. ASSUME NEW v \in Workers, NEW p \in Offsets, job'[v][p] = "marked"
        PROVE  (v = w /\ p = o) \/ job[v][p] = "marked"
    BY <1>0, <2>1, <2>5 DEF SetJob, TypeOK
  <2> QED
    BY <1>0, <2>3, <2>4, <2>5 DEF MarksAreAccounted, Accounted
<1>10. ASSUME NEW w \in Workers, NEW o \in Offsets,
              NEW status \in {"accept", "release"},
              DeliverAck(w, o, status) \/ LoseAck(w, o, status)
       PROVE  MarksAreAccounted'
  <2>1. /\ pendingAck' = [pendingAck EXCEPT ![w] = @ \ {<<o, status>>}]
        /\ UNCHANGED <<job, taskErr>>
        /\ \/ Apply(w, o, status) /\ ackErr' = ackErr
           \/ /\ ackErr' = [ackErr EXCEPT ![w] = TRUE]
              /\ Apply(w, o, status) \/ UNCHANGED group
    BY <1>10 DEF DeliverAck, LoseAck
  <2>2. archived \subseteq archived'
    BY <2>1 DEF Apply
  <2>3. ASSUME NEW v \in Workers, NEW p \in Offsets, Accounted(v, p)
        PROVE  Accounted(v, p)'
    <3>1. CASE ackErr' = [ackErr EXCEPT ![w] = TRUE]
      BY <1>0, <2>1, <2>2, <2>3, <3>1 DEF Accounted, TypeOK
    <3>2. CASE Apply(w, o, status) /\ ackErr' = ackErr
      <4>1. status = "accept" => o \in archived'
        BY <3>2 DEF Apply
      <4> QED
        BY <1>0, <2>1, <2>2, <2>3, <3>2, <4>1 DEF Accounted, TypeOK
    <3> QED
      BY <2>1, <3>1, <3>2
  <2> QED
    BY <1>0, <2>1, <2>3 DEF MarksAreAccounted, Accounted
<1>11. ASSUME NEW w \in Workers, NEW o \in Offsets, LockExpires(w, o)
       PROVE  MarksAreAccounted'
  BY <1>0, <1>11, AccountsStay DEF LockExpires
<1>12. CASE Outside
  BY <1>0, <1>12, AccountsStay DEF Outside
<1> QED
  BY <1>1, <1>2, <1>3, <1>4, <1>5, <1>7, <1>8, <1>9, <1>10, <1>11, <1>12
    DEF PoolStep, WorkerStep, Acknowledge, Exit, Crash, LockExpiresEarly,
        LockExpiresAbandoned

-----------------------------------------------------------------------------
(* The size of a generation.                                               *)

LEMMA InIsFinite ==
    ASSUME NEW w \in Workers, NEW states
    PROVE  IsFiniteSet(In(w, states))
<1>1. IsFiniteSet(Offsets)
  BY FS_Interval, WorkerAssumption DEF Offsets
<1>2. In(w, states) \in SUBSET Offsets
  BY DEF In
<1> QED
  BY <1>1, <1>2, FS_Subset

\* A step that brings no record into a pool, and dispatches none.
LEMMA FitsStay ==
    ASSUME TypeOK, TypeOK', GenerationsFit,
           \A v \in Workers, p \in Offsets :
               job'[v][p] # "none" => job[v][p] # "none",
           \A v \in Workers : pc'[v] = "dispatch" =>
               /\ pc[v] = "dispatch"
               /\ \A p \in Offsets : job[v][p] = "fetched" => job'[v][p] = "fetched"
    PROVE  GenerationsFit'
<1> SUFFICES ASSUME NEW w \in Workers
             PROVE  /\ Cardinality(Generation(w)') <= Concurrency
                    /\ pc'[w] = "dispatch" => In(w, {"fetched"})' # {}
  BY DEF GenerationsFit
<1>1. Generation(w)' \in SUBSET Generation(w)
  BY DEF Generation, In, TypeOK
<1>2. IsFiniteSet(Generation(w))
  BY InIsFinite DEF Generation
<1>3. /\ Cardinality(Generation(w)') <= Cardinality(Generation(w))
      /\ IsFiniteSet(Generation(w)')
  BY <1>1, <1>2, FS_Subset
<1>4. Cardinality(Generation(w)) \in Nat /\ Cardinality(Generation(w)') \in Nat
  BY <1>2, <1>3, FS_CardinalityType
<1>5. Cardinality(Generation(w)) <= Concurrency
  BY DEF GenerationsFit
<1>6. Cardinality(Generation(w)') <= Concurrency
  BY <1>3, <1>4, <1>5, WorkerAssumption
<1>7. pc'[w] = "dispatch" => In(w, {"fetched"})' # {}
  BY DEF GenerationsFit, In
<1> QED
  BY <1>6, <1>7

LEMMA GenerationsStayFit ==
    ASSUME PoolInv, PoolStep
    PROVE  GenerationsFit'
<1> USE DEF topics, group, run, acks
<1>0. TypeOK /\ TypeOK' /\ PoolFollowsRun /\ GenerationsFit
  BY TypeIsKept DEF PoolInv
<1>1. ASSUME UNCHANGED job,
             \A v \in Workers : pc'[v] = "dispatch" => pc[v] = "dispatch"
      PROVE  GenerationsFit'
  BY <1>0, <1>1, FitsStay
<1>2. ASSUME NEW w \in Workers,
             \/ NewWorker(w) \/ Run(w) \/ Cancel(w) \/ Close(w)
             \/ PollStops(w) \/ PollFails(w)
      PROVE  GenerationsFit'
  BY <1>0, <1>1, <1>2
    DEF NewWorker, Run, Cancel, Close, PollStops, PollFails, Return, TypeOK
<1>3. ASSUME NEW w \in Workers, Vanish(w)
      PROVE  GenerationsFit'
  <2>1. \A p \in Offsets : job'[w][p] = "none" /\ pc'[w] = "down"
    BY <1>0, <1>3 DEF Vanish, TypeOK
  <2>2. \A v \in Workers : v # w => job'[v] = job[v] /\ pc'[v] = pc[v]
    BY <1>0, <1>3 DEF Vanish, TypeOK
  <2>3. pc'[w] # "dispatch"
    BY <1>0, <1>3 DEF Vanish, TypeOK
  <2> QED
    BY <1>0, <2>1, <2>2, <2>3, FitsStay
<1>4. ASSUME NEW w \in Workers, PollRecords(w)
      PROVE  GenerationsFit'
  <2>1. PICK polled \in SUBSET {o \in Offsets : Available(o)} :
           /\ polled # {} /\ Cardinality(polled) <= PollLimit
           /\ job' = [job EXCEPT ![w] = [o \in Offsets |->
                        IF o \in polled THEN "fetched" ELSE job[w][o]]]
    BY <1>4 DEF PollRecords
  <2>2. pc[w] = "poll" /\ pc' = [pc EXCEPT ![w] = "dispatch"]
    BY <1>4 DEF PollRecords
  <2>3. \A o \in Offsets : job'[w][o] = IF o \in polled THEN "fetched" ELSE "none"
    BY <1>0, <2>1, <2>2 DEF PoolFollowsRun, TypeOK
  <2>4. Generation(w)' = polled /\ In(w, {"fetched"})' = polled
    BY <2>3 DEF Generation, In, JobStates
  <2>5. ASSUME NEW v \in Workers, v # w
        PROVE  /\ Generation(v)' = Generation(v)
               /\ In(v, {"fetched"})' = In(v, {"fetched"}) /\ pc'[v] = pc[v]
    BY <1>0, <2>1, <2>2, <2>5 DEF Generation, In, TypeOK
  <2> QED
    BY <1>0, <2>1, <2>4, <2>5 DEF GenerationsFit, PollLimit
<1>5. ASSUME NEW w \in Workers, FlushAcks(w)
      PROVE  GenerationsFit'
  <2>1. job' = [job EXCEPT ![w] = [o \in Offsets |->
                  IF job[w][o] = "marked" THEN "none" ELSE job[w][o]]]
    BY <1>5 DEF FlushAcks
  <2>2. pc'[w] \in {"idle", "poll"} /\ \A v \in Workers : v # w => pc'[v] = pc[v]
    BY <1>0, <1>5 DEF FlushAcks, Return, TypeOK
  <2>3. \A v \in Workers, p \in Offsets : job'[v][p] # "none" => job[v][p] # "none"
    BY <1>0, <2>1 DEF TypeOK
  <2>4. \A v \in Workers : v # w => job'[v] = job[v]
    BY <1>0, <2>1 DEF TypeOK
  <2> QED
    BY <1>0, <2>2, <2>3, <2>4, FitsStay
<1>6. ASSUME NEW w \in Workers, NEW o \in Offsets, NEW state \in JobStates,
             job[w][o] \notin {"none", "fetched"}, job' = SetJob(w, o, state),
             \A v \in Workers : pc'[v] = "dispatch" => pc[v] = "dispatch"
      PROVE  GenerationsFit'
  <2>1. \A v \in Workers, p \in Offsets : job'[v][p] # "none" => job[v][p] # "none"
    BY <1>0, <1>6 DEF SetJob, TypeOK
  <2>2. \A v \in Workers, p \in Offsets :
           job[v][p] = "fetched" => job'[v][p] = "fetched"
    BY <1>0, <1>6 DEF SetJob, TypeOK
  <2> QED
    BY <1>0, <1>6, <2>1, <2>2, FitsStay
<1>7. ASSUME NEW w \in Workers, NEW o \in Offsets, Dispatch(w, o)
      PROVE  GenerationsFit'
  <2>1. /\ pc[w] = "dispatch" /\ job[w][o] = "fetched" /\ job' = SetJob(w, o, "queued")
        /\ pc' = IF In(w, {"fetched"}) = {o} THEN [pc EXCEPT ![w] = "collect"] ELSE pc
    BY <1>7 DEF Dispatch
  <2>2. \A v \in Workers : v # w => job'[v] = job[v] /\ pc'[v] = pc[v]
    BY <1>0, <2>1 DEF SetJob, TypeOK
  <2>3. \A p \in Offsets : job'[w][p] = IF p = o THEN "queued" ELSE job[w][p]
    BY <1>0, <2>1 DEF SetJob, TypeOK
  <2>4. Generation(w)' = Generation(w)
    BY <2>1, <2>3 DEF Generation, In, JobStates
  <2>5. pc'[w] = "dispatch" => In(w, {"fetched"})' # {}
    <3>1. pc'[w] = "dispatch" => In(w, {"fetched"}) # {o}
      BY <1>0, <2>1 DEF TypeOK
    <3>2. o \in In(w, {"fetched"})
      BY <2>1 DEF In
    <3> QED
      BY <2>3, <3>1, <3>2 DEF In
  <2>6. \A v \in Workers : v # w =>
           Generation(v)' = Generation(v) /\ In(v, {"fetched"})' = In(v, {"fetched"})
    BY <2>2 DEF Generation, In
  <2> QED
    BY <1>0, <2>2, <2>4, <2>5, <2>6 DEF GenerationsFit
<1>8. ASSUME NEW w \in Workers, NEW o \in Offsets, Handle(w, o)
      PROVE  GenerationsFit'
  <2>1. CASE HandlerPanics(w, o)
    BY <1>3, <2>1 DEF HandlerPanics
  <2>2. CASE Take(w, o) \/ DecodeFails(w, o) \/ HandlerSucceeds(w, o)
    BY <1>6, <2>2 DEF Take, DecodeFails, HandlerSucceeds, JobStates
  <2>3. CASE HandlerFails(w, o)
    BY <1>6, <2>3 DEF HandlerFails, JobStates
  <2>4. CASE Produce(w, o) \/ ProduceFails(w, o)
    BY <1>6, <2>4 DEF Produce, ProduceFails, JobStates
  <2> QED
    BY <1>8, <2>1, <2>2, <2>3, <2>4 DEF Handle
<1>9. ASSUME NEW w \in Workers, NEW o \in Offsets, CollectResult(w, o)
      PROVE  GenerationsFit'
  <2>1. /\ job[w][o] \in {"ok", "err"} /\ job' = SetJob(w, o, "marked")
        /\ pc' \in {pc, [pc EXCEPT ![w] = "flush"]}
    BY <1>9 DEF CollectResult
  <2>2. \A v \in Workers : pc'[v] = "dispatch" => pc[v] = "dispatch"
    BY <1>0, <2>1 DEF TypeOK
  <2> QED
    BY <1>6, <2>1, <2>2 DEF JobStates
<1>10. ASSUME NEW w \in Workers, NEW o \in Offsets,
              NEW status \in {"accept", "release"},
              DeliverAck(w, o, status) \/ LoseAck(w, o, status)
       PROVE  GenerationsFit'
  BY <1>1, <1>10 DEF DeliverAck, LoseAck
<1>11. ASSUME NEW w \in Workers, NEW o \in Offsets, LockExpires(w, o)
       PROVE  GenerationsFit'
  BY <1>1, <1>11 DEF LockExpires
<1>12. CASE Outside
  BY <1>1, <1>12 DEF Outside
<1> QED
  BY <1>2, <1>3, <1>4, <1>5, <1>7, <1>8, <1>9, <1>10, <1>11, <1>12
    DEF PoolStep, WorkerStep, Acknowledge, Exit, Crash, LockExpiresEarly,
        LockExpiresAbandoned

\* A set within a generation that misses a record of it has room.
LEMMA RoomIsLeft ==
    ASSUME GenerationsFit, NEW w \in Workers, NEW states,
           states \subseteq JobStates \ {"none"},
           NEW o \in Generation(w), o \notin In(w, states)
    PROVE  Cardinality(In(w, states)) < Concurrency
<1>1. IsFiniteSet(Generation(w)) /\ In(w, states) \in SUBSET Generation(w)
  BY InIsFinite DEF Generation, In
<1>2. /\ Cardinality(In(w, states)) <= Cardinality(Generation(w))
      /\ Cardinality(Generation(w)) = Cardinality(In(w, states))
            => Generation(w) = In(w, states)
      /\ IsFiniteSet(In(w, states))
  BY <1>1, FS_Subset
<1>3. Cardinality(Generation(w)) \in Nat /\ Cardinality(In(w, states)) \in Nat
  BY <1>1, <1>2, FS_CardinalityType
<1>4. Cardinality(Generation(w)) <= Concurrency
  BY DEF GenerationsFit
<1> QED
  BY <1>2, <1>3, <1>4, WorkerAssumption

LEMMA FitNeverBlocks ==
    ASSUME GenerationsFit
    PROVE  ChannelsNeverBlock
<1> SUFFICES ASSUME NEW w \in Workers
             PROVE  /\ pc[w] = "dispatch" => Cardinality(In(w, {"queued"})) < Concurrency
                    /\ Busy(w) # {} => CanReport(w)
  BY DEF ChannelsNeverBlock
<1>1. ASSUME pc[w] = "dispatch"
      PROVE  Cardinality(In(w, {"queued"})) < Concurrency
  <2>1. PICK o \in In(w, {"fetched"}) : TRUE
    BY <1>1 DEF GenerationsFit
  <2>2. o \in Generation(w) /\ o \notin In(w, {"queued"})
    BY <2>1 DEF Generation, In, JobStates
  <2> QED
    BY <2>2, RoomIsLeft DEF JobStates
<1>2. ASSUME Busy(w) # {}
      PROVE  Cardinality(Results(w)) < Concurrency
  <2>1. PICK o \in Busy(w) : TRUE
    BY <1>2
  <2>2. o \in Generation(w) /\ o \notin In(w, {"ok", "err"})
    BY <2>1 DEF Busy, Generation, In, JobStates
  <2> QED
    BY <2>2, RoomIsLeft DEF Results, JobStates
<1> QED
  BY <1>1, <1>2 DEF CanReport

-----------------------------------------------------------------------------
(* All of it together.                                                     *)

LEMMA PoolInvIsKept ==
    ASSUME PoolInv, PoolStep
    PROVE  PoolInv'
<1>1. TypeOK' /\ OffsetsAreWritten' /\ WritesAreJustified' /\ AcceptsAreSettled'
  BY TypeIsKept, OffsetsStayWritten, WritesStayJustified, AcceptsStaySettled
<1>2. RetriesAreDue' /\ DeadLettersAreExhausted'
  BY RetriesStayDue, DeadLettersStayExhausted
<1>3. PoolFollowsRun' /\ MarksAreAccounted' /\ GenerationsFit'
  BY PoolStillFollowsRun, MarksStayAccounted, GenerationsStayFit
<1> QED
  BY <1>1, <1>2, <1>3 DEF PoolInv

-----------------------------------------------------------------------------
(* The steps of Worker by itself.                                          *)

LEMMA NextIsPoolStep ==
    ASSUME IInv, [Next]_vars
    PROVE  PoolStep
<1>0. TypeOK /\ OffsetsAreWritten
  BY DEF IInv, PoolInv
<1>1. archived \subseteq Offsets \cap DOMAIN ready /\ ready \in Seq(Envelope) /\ faults \in Nat
  BY <1>0 DEF TypeOK, OffsetsAreWritten
<1>2. ASSUME NEW e \in Arrivals, Arrive(e)
      PROVE  Outside
  <2>1. e \in Envelope
    BY WorkerAssumption
  <2>2. DOMAIN ready \subseteq DOMAIN Append(ready, e)
    BY <1>1, <2>1, AppendKeeps
  <2> QED
    BY <1>1, <1>2, <2>1, <2>2 DEF Arrive, Outside, group
<1>3. CASE UNCHANGED vars
  <2>1. Outside
    BY <1>1, <1>3 DEF vars, topics, group, run, acks, Outside
  <2> QED
    BY <2>1 DEF PoolStep
<1> QED
  BY <1>2, <1>3 DEF Next, PoolStep

LEMMA WrittenBeforeAccept ==
    ASSUME IInv, [Next]_vars
    PROVE  WriteBeforeAccept'
<1> SUFFICES ASSUME NEW o \in archived'
             PROVE  Settled(o)'
  BY DEF WriteBeforeAccept
<1>0. PoolInv /\ PoolStep
  BY NextIsPoolStep DEF IInv
<1>1. TopicsGrow
  BY <1>0, StepsMoveRecords
<1>1a. ArchivedWereAccepted
  <2>1. CASE archived' = archived
    BY <2>1 DEF ArchivedWereAccepted
  <2>2. ASSUME NEW u \in Workers, WorkerStep(u)
        PROVE  ArchivedWereAccepted
    BY <1>0, <2>2, WorkersMoveRecords
  <2> QED
    BY <2>1, <2>2 DEF Next, Arrive, vars, group
<1>2. o \in Offsets
  BY <1>0, TypeIsKept DEF TypeOK
<1>3. o \in DOMAIN ready /\ Settled(o)
  BY <1>1a, <1>2
    DEF IInv, PoolInv, OffsetsAreWritten, AcceptsAreSettled, WriteBeforeAccept,
        ArchivedWereAccepted
<1> QED
  BY <1>1, <1>3, SettledGrows

-----------------------------------------------------------------------------
(* The theorems.                                                           *)

LEMMA InitIsGood ==
    ASSUME Init
    PROVE  IInv
<1>1. TypeOK
  BY DEF Init, TypeOK, JobStates
<1>2. /\ OffsetsAreWritten /\ WritesAreJustified /\ AcceptsAreSettled
      /\ PoolFollowsRun /\ MarksAreAccounted
  BY DEF Init, OffsetsAreWritten, WritesAreJustified, AcceptsAreSettled,
         PoolFollowsRun, MarksAreAccounted
<1>3. WriteBeforeAccept /\ RetriesAreDue /\ DeadLettersAreExhausted
  BY DEF Init, WriteBeforeAccept, RetriesAreDue, DeadLettersAreExhausted
<1>4. GenerationsFit
  <2>1. \A w \in Workers : Generation(w) = {} /\ pc[w] = "down"
    BY DEF Init, Generation, In
  <2>2. Cardinality({}) = 0
    BY FS_EmptySet
  <2> QED
    <3>1. ASSUME NEW w \in Workers
          PROVE  Cardinality(Generation(w)) <= Concurrency /\ pc[w] # "dispatch"
      <4>1. Cardinality(Generation(w)) = 0
        BY <2>1, <2>2
      <4> QED
        BY <2>1, <4>1, WorkerAssumption
    <3> QED
      BY <3>1 DEF GenerationsFit
<1> QED
  BY <1>1, <1>2, <1>3, <1>4 DEF IInv, PoolInv

\* Every reachable state satisfies the inductive invariant.
THEOREM Invariance == Spec => []IInv
<1>1. Init => IInv
  BY InitIsGood
<1>2. IInv /\ [Next]_vars => IInv'
  <2> SUFFICES ASSUME IInv, [Next]_vars
               PROVE  IInv'
    OBVIOUS
  <2>1. PoolInv'
    BY NextIsPoolStep, PoolInvIsKept DEF IInv
  <2>2. WriteBeforeAccept'
    BY WrittenBeforeAccept
  <2> QED
    BY <2>1, <2>2 DEF IInv
<1> QED
  BY <1>1, <1>2, PTL DEF Spec

\* Type correctness: the state of the workers, of the share group and of the
\* topics keeps its types.
THEOREM TypeCorrect == Spec => []TypeOK
<1>1. IInv => TypeOK
  BY DEF IInv, PoolInv
<1> QED
  BY <1>1, Invariance, PTL

\* No accepted task is lost, with any number of workers and of faults: the
\* handler, the write it may lead to, the result, the acknowledgement and the
\* broker's answer are in an order that no interleaving, cancellation, crash,
\* expired acquisition or lost answer can turn round.
THEOREM NoAcceptedTaskIsLost == Spec => []WriteBeforeAccept
<1>1. IInv => WriteBeforeAccept
  BY DEF IInv
<1> QED
  BY <1>1, Invariance, PTL

\* What scheduleRetry writes is right for every grid and every policy: the
\* next attempt of a delivered task, within both limits, in a partition whose
\* bounds hold its delay.
THEOREM RetriesAreAlwaysDue == Spec => []RetriesAreDue
<1>1. IInv => RetriesAreDue
  BY DEF IInv, PoolInv
<1> QED
  BY <1>1, Invariance, PTL

\* deadLetter never buries a task that has a retry left.
THEOREM DeadLettersAreAlwaysExhausted == Spec => []DeadLettersAreExhausted
<1>1. IInv => DeadLettersAreExhausted
  BY DEF IInv, PoolInv
<1> QED
  BY <1>1, Invariance, PTL

\* Run never polls, and never returns, with a record still in its pool.
THEOREM PoolIsAlwaysDrained == Spec => []PoolIsDrained
<1>1. IInv => PoolIsDrained
  BY DEF IInv, PoolInv, PoolFollowsRun, PoolIsDrained, In
<1> QED
  BY <1>1, Invariance, PTL

\* Neither channel of the pool ever fills up, however many goroutines there are
\* and in whatever order records are dispatched, taken and reported: Run never
\* waits to dispatch a record nor a goroutine to report one.
THEOREM ChannelsAlwaysHaveRoom == Spec => []ChannelsNeverBlock
<1>1. IInv => ChannelsNeverBlock
  BY FitNeverBlocks DEF IInv, PoolInv
<1> QED
  BY <1>1, Invariance, PTL

-----------------------------------------------------------------------------
(* How Run leaves the flush of a generation.                               *)

LEMMA OnlyFlushAcksLeavesFlush ==
    ASSUME PoolInv, PoolStep, NEW w \in Workers,
           pc[w] = "flush", pc'[w] \notin {"flush", "down"}
    PROVE  FlushAcks(w)
<1> USE DEF topics, group, run, acks
<1>0. TypeOK
  BY DEF PoolInv
<1>1. pc' # pc
  OBVIOUS
<1>2. ASSUME NEW v \in Workers,
             NewWorker(v) \/ Run(v) \/ Cancel(v) \/ Close(v)
      PROVE  FALSE
  BY <1>0, <1>1, <1>2 DEF NewWorker, Run, Cancel, Close, TypeOK
<1>3. ASSUME NEW v \in Workers, Vanish(v)
      PROVE  FALSE
  BY <1>0, <1>3 DEF Vanish, TypeOK
<1>4. ASSUME NEW v \in Workers, PollRecords(v)
      PROVE  FALSE
  <2>1. pc[v] = "poll" /\ pc' = [pc EXCEPT ![v] = "dispatch"]
    BY <1>4 DEF PollRecords
  <2> QED
    BY <1>0, <2>1 DEF TypeOK
<1>5. ASSUME NEW v \in Workers, PollStops(v) \/ PollFails(v)
      PROVE  FALSE
  <2>1. pc[v] = "poll" /\ pc' = [pc EXCEPT ![v] = "idle"]
    BY <1>5 DEF PollStops, PollFails, Return
  <2> QED
    BY <1>0, <2>1 DEF TypeOK
<1>6. ASSUME NEW v \in Workers, v # w, FlushAcks(v)
      PROVE  FALSE
  BY <1>0, <1>6 DEF FlushAcks, Return, TypeOK
<1>7. ASSUME NEW v \in Workers, NEW o \in Offsets, Dispatch(v, o)
      PROVE  FALSE
  <2>1. pc[v] = "dispatch" /\ pc' \in {pc, [pc EXCEPT ![v] = "collect"]}
    BY <1>7 DEF Dispatch
  <2> QED
    BY <1>0, <2>1 DEF TypeOK
<1>8. ASSUME NEW v \in Workers, NEW o \in Offsets, CollectResult(v, o)
      PROVE  FALSE
  <2>1. pc[v] = "collect" /\ pc' \in {pc, [pc EXCEPT ![v] = "flush"]}
    BY <1>8 DEF CollectResult
  <2> QED
    BY <1>0, <2>1 DEF TypeOK
<1>9. ASSUME NEW v \in Workers, NEW o \in Offsets, Handle(v, o)
       PROVE  FALSE
  <2>1. CASE HandlerPanics(v, o)
    BY <1>3, <2>1 DEF HandlerPanics
  <2>2. CASE Take(v, o) \/ DecodeFails(v, o) \/ HandlerSucceeds(v, o)
    BY <1>1, <2>2 DEF Take, DecodeFails, HandlerSucceeds
  <2>3. CASE HandlerFails(v, o)
    BY <1>1, <2>3 DEF HandlerFails
  <2>4. CASE Produce(v, o) \/ ProduceFails(v, o)
    BY <1>1, <2>4 DEF Produce, ProduceFails
  <2> QED
    BY <1>9, <2>1, <2>2, <2>3, <2>4 DEF Handle
<1>10. ASSUME NEW v \in Workers, NEW o \in Offsets,
              NEW status \in {"accept", "release"},
              DeliverAck(v, o, status) \/ LoseAck(v, o, status)
       PROVE  FALSE
  BY <1>1, <1>10 DEF DeliverAck, LoseAck
<1>11. ASSUME NEW v \in Workers, NEW o \in Offsets, LockExpires(v, o)
       PROVE  FALSE
  BY <1>1, <1>11 DEF LockExpires
<1>12. CASE Outside
  BY <1>1, <1>12 DEF Outside
<1> QED
  BY <1>2, <1>3, <1>4, <1>5, <1>6, <1>7, <1>8, <1>9, <1>10, <1>11, <1>12
    DEF PoolStep, WorkerStep, Acknowledge, Exit, Crash, LockExpiresEarly,
        LockExpiresAbandoned

\* The next generation is polled only when the broker has archived every record
\* of this one.
THEOREM GenerationsDoNotOverlap == Spec => ContinuesOnlyWhenArchived
<1> DEFINE Continues ==
      \A w \in Workers :
          pc[w] = "flush" /\ pc'[w] = "poll" => In(w, {"marked"}) \subseteq archived
<1>1. IInv /\ [Next]_vars => [Continues]_vars
  <2> SUFFICES ASSUME IInv, [Next]_vars, NEW w \in Workers,
                      pc[w] = "flush", pc'[w] = "poll",
                      NEW o \in Offsets, job[w][o] = "marked"
               PROVE  o \in archived
    BY DEF In
  <2>1. FlushAcks(w)
    BY NextIsPoolStep, OnlyFlushAcksLeavesFlush DEF IInv
  <2>2. ~taskErr[w] /\ ~FlushError(w)
    BY <2>1 DEF FlushAcks, Return, IInv, PoolInv, TypeOK
  <2> QED
    BY <2>2 DEF IInv, PoolInv, MarksAreAccounted, FlushError
<1> QED
  BY <1>1, Invariance, PTL DEF Spec, ContinuesOnlyWhenArchived

\* Whatever went wrong with an acknowledgement, the Run that flushes it says so.
THEOREM AckErrorsAlwaysSurface == Spec => AckErrorsSurface
<1> DEFINE Surfaces ==
      \A w \in Workers :
          pc[w] = "flush" /\ (ackErr[w] \/ pendingAck[w] # {})
            /\ pc'[w] \notin {"flush", "down"} => ret'[w] = "error"
<1>1. IInv /\ [Next]_vars => [Surfaces]_vars
  <2> SUFFICES ASSUME IInv, [Next]_vars, NEW w \in Workers,
                      pc[w] = "flush", ackErr[w] \/ pendingAck[w] # {},
                      pc'[w] \notin {"flush", "down"}
               PROVE  ret'[w] = "error"
    OBVIOUS
  <2>1. FlushAcks(w)
    BY NextIsPoolStep, OnlyFlushAcksLeavesFlush DEF IInv
  <2>2. FlushError(w)
    BY DEF FlushError
  <2>3. Return(w, "error")
    BY <2>1, <2>2 DEF FlushAcks
  <2> QED
    BY <2>3 DEF Return, IInv, PoolInv, TypeOK
<1> QED
  BY <1>1, Invariance, PTL DEF Spec, AckErrorsSurface

-----------------------------------------------------------------------------
(* How many there are of something.                                        *)

LEMMA CountDown ==
    ASSUME NEW D, NEW E, IsFiniteSet(D), E \subseteq D
    PROVE  /\ IsFiniteSet(E) /\ Cardinality(E) \in Nat /\ Cardinality(D) \in Nat
           /\ Cardinality(E) <= Cardinality(D)
  BY FS_Subset, FS_CardinalityType

LEMMA CountUp ==
    ASSUME NEW D, NEW E, NEW x, IsFiniteSet(D), E \subseteq D \cup {x}
    PROVE  /\ IsFiniteSet(E) /\ Cardinality(E) \in Nat /\ Cardinality(D) \in Nat
           /\ Cardinality(E) <= Cardinality(D) + 1
<1>1. /\ IsFiniteSet(D \cup {x}) /\ Cardinality(D) \in Nat
      /\ Cardinality(D \cup {x}) \in {Cardinality(D), Cardinality(D) + 1}
  BY FS_AddElement, FS_CardinalityType
<1>2. IsFiniteSet(E) /\ Cardinality(E) \in Nat /\ Cardinality(E) <= Cardinality(D \cup {x})
  BY <1>1, CountDown
<1> QED
  BY <1>1, <1>2

LEMMA CountLess ==
    ASSUME NEW D, NEW E, NEW x \in D, IsFiniteSet(D), E \subseteq D \ {x}
    PROVE  /\ IsFiniteSet(E) /\ Cardinality(E) \in Nat /\ Cardinality(D) \in Nat
           /\ Cardinality(E) + 1 <= Cardinality(D)
<1>1. /\ IsFiniteSet(D \ {x}) /\ Cardinality(D) \in Nat
      /\ Cardinality(D \ {x}) = Cardinality(D) - 1
  BY FS_RemoveElement, FS_CardinalityType
<1>2. IsFiniteSet(E) /\ Cardinality(E) \in Nat /\ Cardinality(E) <= Cardinality(D \ {x})
  BY <1>1, CountDown
<1> QED
  BY <1>1, <1>2

-----------------------------------------------------------------------------
(* One effect for a delivery.  As long as nothing fails, a record is lent  *)
(* to one worker, who has it until it is acknowledged; and every effect    *)
(* spends the record it is made of, which is then on its way to being      *)
(* archived.                                                               *)

Undisturbed == faults = 0 /\ Panics = {}

\* The record at o has had its effect and will not be worked on again.
Spent(o) ==
    \/ o \in archived
    \/ \E w \in Workers : job[w][o] = "ok" \/ <<o, "accept">> \in pendingAck[w]

Spenders(t, n) ==
    {o \in Offsets : o \in DOMAIN ready /\ IsAttempt(ready[o], t, n) /\ Spent(o)}

InWork == JobStates \ {"none", "marked"}

Statuses == {"accept", "release"}

\* The worker that has o, working on it or waiting for the answer to its one
\* acknowledgement.
LentOnce ==
    \A w \in Workers, o \in Offsets :
        o \in acquired[w] =>
            /\ o \notin archived
            /\ \A v \in Workers : o \in acquired[v] => v = w

HeldBy(w, o) ==
    /\ job[w][o] \in InWork =>
          /\ o \in acquired[w]
          /\ <<o, "accept">> \notin pendingAck[w] /\ <<o, "release">> \notin pendingAck[w]
    /\ <<o, "accept">> \in pendingAck[w] =>
          /\ o \in acquired[w] /\ job[w][o] = "marked"
          /\ <<o, "release">> \notin pendingAck[w]
    /\ <<o, "release">> \in pendingAck[w] => o \in acquired[w] /\ job[w][o] = "marked"

HeldByWorker == \A w \in Workers, o \in Offsets : HeldBy(w, o)

NobodyStopped == \A w \in Workers : ~cancelled[w] /\ ~closed[w]

EffectsAreSpent ==
    /\ IsFiniteSet(RetryOffsets)
    /\ \A t \in Tasks, n \in Nat : EffectsOf(t, n) <= Cardinality(Spenders(t, n))

OneEffect == LentOnce /\ HeldByWorker /\ NobodyStopped /\ EffectsAreSpent

\* What a step that is no fault can be.
UndisturbedStep ==
    \/ \E w \in Workers :
          \/ NewWorker(w) \/ Run(w) \/ PollRecords(w) \/ FlushAcks(w)
          \/ \E o \in Offsets :
                \/ Dispatch(w, o) \/ Take(w, o) \/ DecodeFails(w, o)
                \/ HandlerSucceeds(w, o) \/ HandlerFails(w, o) \/ Produce(w, o)
                \/ CollectResult(w, o) \/ LockExpiresAbandoned(w, o)
                \/ \E s \in Statuses : DeliverAck(w, o, s)
    \/ \E e \in Arrivals : Arrive(e)
    \/ UNCHANGED vars

LEMMA StepsAreUndisturbed ==
    ASSUME TypeOK, [Next]_vars, Undisturbed', faults = 0 => NobodyStopped
    PROVE  Undisturbed /\ UndisturbedStep
<1> USE DEF topics, group, run, acks
<1>0. Panics = {} /\ faults' = 0 /\ faults \in Nat
  BY DEF Undisturbed, TypeOK
<1>1. Fault => FALSE
  BY <1>0 DEF Fault
<1>2. ASSUME NEW w \in Workers, WorkerStep(w)
      PROVE  faults = 0
  <2>1. CASE \/ NewWorker(w) \/ Run(w) \/ Exit(w) \/ PollStops(w)
             \/ Acknowledge(w)
    BY <1>0, <2>1 DEF NewWorker, Run, Exit, PollStops, Acknowledge, DeliverAck
  <2>2. CASE Cancel(w) \/ Close(w) \/ Crash(w) \/ PollFails(w)
    BY <1>1, <2>2 DEF Cancel, Close, Crash, PollFails
  <2>3. CASE PollRecords(w) \/ FlushAcks(w)
    BY <1>0, <1>1, <2>3 DEF PollRecords, FlushAcks
  <2>4. ASSUME NEW o \in Offsets, Dispatch(w, o) \/ CollectResult(w, o)
        PROVE  faults = 0
    BY <1>0, <2>4 DEF Dispatch, CollectResult
  <2>5. ASSUME NEW o \in Offsets, Handle(w, o)
        PROVE  faults = 0
    BY <1>0, <1>1, <2>5 DEF Handle, Take, DecodeFails, HandlerSucceeds, HandlerFails,
       HandlerPanics, Produce, ProduceFails
  <2>6. ASSUME NEW o \in Offsets, LockExpiresEarly(w, o) \/ LockExpiresAbandoned(w, o)
        PROVE  faults = 0
    BY <1>0, <1>1, <2>6 DEF LockExpiresEarly, LockExpiresAbandoned
  <2>7. ASSUME NEW o \in Offsets, NEW s \in {"accept", "release"}, LoseAck(w, o, s)
        PROVE  faults = 0
    BY <1>0, <1>1, <2>7 DEF LoseAck
  <2> QED
    BY <1>2, <2>1, <2>2, <2>3, <2>4, <2>5, <2>6, <2>7 DEF WorkerStep
<1>3. faults = 0
  <2>1. ASSUME NEW e \in Arrivals, Arrive(e)
        PROVE  faults = 0
    BY <1>0, <2>1 DEF Arrive
  <2>2. CASE UNCHANGED vars
    BY <1>0, <2>2 DEF vars
  <2> QED
    BY <1>2, <2>1, <2>2 DEF Next
<1>4. NobodyStopped
  BY <1>3
<1>5. ASSUME NEW w \in Workers, WorkerStep(w)
      PROVE  UndisturbedStep
  <2>0. ~cancelled[w] /\ ~closed[w]
    BY <1>4 DEF NobodyStopped
  <2>1. ~(Exit(w) \/ PollStops(w))
    BY <2>0 DEF Exit, PollStops
  <2>2. ~(Cancel(w) \/ Close(w) \/ Crash(w) \/ PollFails(w))
    BY <1>1 DEF Cancel, Close, Crash, PollFails
  <2>3. ASSUME NEW o \in Offsets
        PROVE  /\ ~HandlerPanics(w, o) /\ ~ProduceFails(w, o)
               /\ ~LockExpiresEarly(w, o)
               /\ \A s \in {"accept", "release"} : ~LoseAck(w, o, s)
    BY <1>0, <1>1, <2>0 DEF HandlerPanics, ProduceFails, LockExpiresEarly, LoseAck
  <2>4. CASE NewWorker(w) \/ Run(w) \/ PollRecords(w) \/ FlushAcks(w)
    BY <2>4 DEF UndisturbedStep
  <2>5. CASE Acknowledge(w)
    BY <2>5 DEF UndisturbedStep, Acknowledge, Statuses
  <2>6. ASSUME NEW o \in Offsets,
               \/ Dispatch(w, o) \/ Handle(w, o) \/ CollectResult(w, o)
               \/ LockExpiresAbandoned(w, o)
        PROVE  UndisturbedStep
    BY <2>3, <2>6 DEF UndisturbedStep, Handle
  <2> QED
    BY <1>5, <2>1, <2>2, <2>3, <2>4, <2>5, <2>6 DEF WorkerStep
<1>6. UndisturbedStep
  BY <1>5 DEF Next, UndisturbedStep
<1> QED
  BY <1>0, <1>3, <1>6 DEF Undisturbed

\* How such a step changes what is lent, in work and acknowledged.
LEMMA LendingIsKept ==
    ASSUME PoolInv, OneEffect, UndisturbedStep, faults' = 0
    PROVE  /\ LentOnce' /\ HeldByWorker' /\ NobodyStopped'
           /\ \A o \in Offsets : Spent(o) => Spent(o)'
<1> USE DEF topics, group, run, acks
<1> DEFINE Goal == /\ LentOnce' /\ HeldByWorker' /\ NobodyStopped'
                   /\ \A o \in Offsets : Spent(o) => Spent(o)'
<1>0. TypeOK /\ LentOnce /\ HeldByWorker /\ NobodyStopped /\ PoolFollowsRun
  BY DEF PoolInv, OneEffect
<1>0a. /\ job \in [Workers -> [Offsets -> JobStates]]
       /\ acquired \in [Workers -> SUBSET Offsets]
       /\ pendingAck \in [Workers -> SUBSET (Offsets \X {"accept", "release"})]
       /\ archived \subseteq Offsets
  BY <1>0 DEF TypeOK
<1>0b. Fault => FALSE
  BY <1>0 DEF Fault, TypeOK
<1>1. CASE UNCHANGED <<group, pendingAck, job, cancelled, closed>>
  BY <1>0, <1>1 DEF LentOnce, HeldByWorker, HeldBy, NobodyStopped, Spent
<1>2. ASSUME NEW w \in Workers, NEW o \in Offsets, NEW state \in InWork,
             job[w][o] \in InWork \ {"ok"}, job' = SetJob(w, o, state),
             UNCHANGED <<group, pendingAck, cancelled, closed>>
      PROVE  Goal
  <2>1. \A v \in Workers, p \in Offsets :
           job'[v][p] = IF v = w /\ p = o THEN state ELSE job[v][p]
    BY <1>0a, <1>2 DEF SetJob
  <2>2. LentOnce' /\ NobodyStopped'
    BY <1>0, <1>2 DEF LentOnce, NobodyStopped
  <2>3. HeldByWorker'
    <3>1. ASSUME NEW v \in Workers, NEW p \in Offsets
          PROVE  HeldBy(v, p)'
      <4>1. HeldBy(v, p)
        BY <1>0 DEF HeldByWorker
      <4> QED
        BY <1>2, <2>1, <4>1 DEF HeldBy, InWork
    <3> QED
      BY <3>1 DEF HeldByWorker
  <2>4. \A p \in Offsets : Spent(p) => Spent(p)'
    BY <1>2, <2>1 DEF Spent
  <2> QED
    BY <2>2, <2>3, <2>4
<1>3. ASSUME NEW w \in Workers, PollRecords(w)
      PROVE  Goal
  <2>1. PICK polled \in SUBSET {o \in Offsets : Available(o)} :
           /\ acquired' = [acquired EXCEPT ![w] = @ \cup polled]
           /\ job' = [job EXCEPT ![w] = [o \in Offsets |->
                         IF o \in polled THEN "fetched" ELSE job[w][o]]]
    BY <1>3 DEF PollRecords
  <2>2. pc[w] = "poll" /\ pendingAck' = pendingAck /\ UNCHANGED <<archived, cancelled, closed>>
    <3>1. pc[w] = "poll" /\ AutoAccepted(w) = {}
      BY <1>0, <1>3, NothingAutoAccepted DEF PollRecords
    <3> QED
      BY <1>0a, <1>3, <3>1 DEF PollRecords
  <2>3. \A v \in Workers : acquired'[v] = IF v = w THEN acquired[w] \cup polled ELSE acquired[v]
    BY <1>0a, <2>1
  <2>4. \A v \in Workers, o \in Offsets :
           job'[v][o] = IF v = w /\ o \in polled THEN "fetched" ELSE job[v][o]
    BY <1>0a, <2>1
  <2>5. \A o \in polled : /\ o \notin archived
                          /\ \A v \in Workers : o \notin acquired[v]
    BY <2>1 DEF Available
  <2>6. \A o \in Offsets : job[w][o] = "none"
    BY <1>0, <2>2 DEF PoolFollowsRun
  <2>7. LentOnce' /\ NobodyStopped'
    BY <1>0, <2>2, <2>3, <2>5 DEF LentOnce, NobodyStopped
  <2>8. HeldByWorker'
    <3>1. ASSUME NEW v \in Workers, NEW p \in Offsets
          PROVE  HeldBy(v, p)'
      <4>1. HeldBy(v, p)
        BY <1>0 DEF HeldByWorker
      <4> QED
        BY <2>2, <2>3, <2>4, <2>5, <2>6, <4>1 DEF HeldBy, InWork
    <3> QED
      BY <3>1 DEF HeldByWorker
  <2>9. \A o \in Offsets : Spent(o) => Spent(o)'
    BY <2>2, <2>4, <2>6 DEF Spent
  <2> QED
    BY <2>7, <2>8, <2>9
<1>4. ASSUME NEW w \in Workers, NEW o \in Offsets, CollectResult(w, o)
      PROVE  Goal
  <2>1. PICK s \in Statuses :
           /\ pendingAck' = [pendingAck EXCEPT ![w] = @ \cup {<<o, s>>}]
           /\ job[w][o] = "ok" => s = "accept"
    BY <1>4 DEF CollectResult, Statuses
  <2>2. /\ job' = SetJob(w, o, "marked") /\ job[w][o] \in {"ok", "err"}
        /\ UNCHANGED <<group, cancelled, closed>>
    BY <1>4 DEF CollectResult
  <2>3. \A v \in Workers, p \in Offsets :
           job'[v][p] = IF v = w /\ p = o THEN "marked" ELSE job[v][p]
    BY <1>0a, <2>2 DEF SetJob
  <2>4. \A v \in Workers, p \in Offsets, status \in Statuses :
           <<p, status>> \in pendingAck'[v] <=>
              \/ <<p, status>> \in pendingAck[v]
              \/ v = w /\ p = o /\ status = s
    BY <1>0a, <2>1
  <2>5. /\ o \in acquired[w]
        /\ \A status \in Statuses : <<o, status>> \notin pendingAck[w]
    BY <1>0, <2>2 DEF HeldByWorker, HeldBy, InWork, JobStates, Statuses
  <2>6. LentOnce' /\ NobodyStopped'
    BY <1>0, <2>2 DEF LentOnce, NobodyStopped
  <2>7. HeldByWorker'
    <3>1. ASSUME NEW v \in Workers, NEW p \in Offsets
          PROVE  HeldBy(v, p)'
      <4>1. HeldBy(v, p)
        BY <1>0 DEF HeldByWorker
      <4> QED
        BY <2>2, <2>3, <2>4, <2>5, <4>1 DEF HeldBy, InWork, Statuses
    <3> QED
      BY <3>1 DEF HeldByWorker
  <2>8. ASSUME NEW p \in Offsets, Spent(p)
        PROVE  Spent(p)'
    <3>1. ASSUME NEW v \in Workers, job[v][p] = "ok"
          PROVE  Spent(p)'
      <4>1. CASE v = w /\ p = o
        <5>1. <<o, "accept">> \in pendingAck'[w]
          BY <2>1, <2>4, <3>1, <4>1
        <5> QED
          BY <4>1, <5>1 DEF Spent
      <4>2. CASE ~(v = w /\ p = o)
        BY <2>3, <3>1, <4>2 DEF Spent
      <4> QED
        BY <4>1, <4>2
    <3>2. ASSUME NEW v \in Workers, <<p, "accept">> \in pendingAck[v]
          PROVE  Spent(p)'
      <4>1. <<p, "accept">> \in pendingAck'[v]
        BY <2>4, <3>2 DEF Statuses
      <4> QED
        BY <4>1 DEF Spent
    <3>3. CASE p \in archived
      BY <2>2, <3>3 DEF Spent
    <3> QED
      BY <2>8, <3>1, <3>2, <3>3 DEF Spent
  <2> QED
    BY <2>6, <2>7, <2>8
<1>5. ASSUME NEW w \in Workers, NEW o \in Offsets, NEW s \in Statuses,
             DeliverAck(w, o, s)
      PROVE  Goal
  <2>1. <<o, s>> \in pendingAck[w] /\ UNCHANGED <<job, cancelled, closed>>
    BY <1>5 DEF DeliverAck
  <2>2. /\ o \in acquired[w] /\ job[w][o] = "marked"
        /\ \A status \in Statuses : <<o, status>> \in pendingAck[w] => status = s
    BY <1>0, <2>1 DEF HeldByWorker, HeldBy, Statuses
  <2>3. /\ acquired' = [acquired EXCEPT ![w] = @ \ {o}]
        /\ archived' = IF s = "accept" THEN archived \cup {o} ELSE archived
        /\ pendingAck' = [pendingAck EXCEPT ![w] = @ \ {<<o, s>>}]
    BY <1>5, <2>2 DEF DeliverAck, Apply
  <2>4. \A v \in Workers :
           acquired'[v] = IF v = w THEN acquired[w] \ {o} ELSE acquired[v]
    BY <1>0a, <2>3
  <2>5. \A v \in Workers, p \in Offsets, status \in Statuses :
           <<p, status>> \in pendingAck'[v] <=>
              <<p, status>> \in pendingAck[v] /\ ~(v = w /\ p = o)
    BY <1>0a, <2>2, <2>3
  <2>6. \A v \in Workers : o \in acquired[v] => v = w
    BY <1>0, <2>2 DEF LentOnce
  <2>7. LentOnce' /\ NobodyStopped'
    BY <1>0, <2>1, <2>3, <2>4, <2>6 DEF LentOnce, NobodyStopped
  <2>8. HeldByWorker'
    <3>1. ASSUME NEW v \in Workers, NEW p \in Offsets
          PROVE  HeldBy(v, p)'
      <4>1. HeldBy(v, p)
        BY <1>0 DEF HeldByWorker
      <4> QED
        BY <2>1, <2>2, <2>4, <2>5, <4>1 DEF HeldBy, InWork, Statuses
    <3> QED
      BY <3>1 DEF HeldByWorker
  <2>9. ASSUME NEW p \in Offsets, Spent(p)
        PROVE  Spent(p)'
    <3>1. CASE p = o /\ s = "accept"
      BY <2>3, <3>1 DEF Spent
    <3>2. CASE p # o
      BY <2>1, <2>3, <2>5, <2>9, <3>2 DEF Spent, Statuses
    <3>3. CASE p = o /\ s = "release"
      <4>1. o \notin archived
        BY <1>0, <2>2 DEF LentOnce
      <4>2. ASSUME NEW v \in Workers, job[v][o] = "ok" \/ <<o, "accept">> \in pendingAck[v]
            PROVE  FALSE
        <5>1. o \in acquired[v]
          BY <1>0, <4>2 DEF HeldByWorker, HeldBy, InWork, JobStates, Statuses
        <5>2. v = w
          BY <2>6, <5>1
        <5> QED
          BY <2>2, <3>3, <4>2, <5>2 DEF Statuses
      <4> QED
        BY <2>9, <3>3, <4>1, <4>2 DEF Spent
    <3> QED
      BY <3>1, <3>2, <3>3 DEF Statuses
  <2> QED
    BY <2>7, <2>8, <2>9
<1>6. ASSUME NEW w \in Workers, NEW o \in Offsets, LockExpiresAbandoned(w, o)
      PROVE  Goal
  <2>1. /\ acquired' = [acquired EXCEPT ![w] = @ \ {o}]
        /\ UNCHANGED <<archived, job, pendingAck, cancelled, closed>>
        /\ job[w][o] = "none"
        /\ \A s \in Statuses : <<o, s>> \notin pendingAck[w]
    BY <1>6 DEF LockExpiresAbandoned, LockExpires, InHand, Statuses
  <2>2. \A v \in Workers :
           acquired'[v] = IF v = w THEN acquired[w] \ {o} ELSE acquired[v]
    BY <1>0a, <2>1
  <2>3. LentOnce' /\ NobodyStopped'
    BY <1>0, <2>1, <2>2 DEF LentOnce, NobodyStopped
  <2>4. HeldByWorker'
    <3>1. ASSUME NEW v \in Workers, NEW p \in Offsets
          PROVE  HeldBy(v, p)'
      <4>1. HeldBy(v, p)
        BY <1>0 DEF HeldByWorker
      <4> QED
        BY <2>1, <2>2, <4>1 DEF HeldBy, InWork
    <3> QED
      BY <3>1 DEF HeldByWorker
  <2>5. \A p \in Offsets : Spent(p) => Spent(p)'
    BY <2>1 DEF Spent
  <2> QED
    BY <2>3, <2>4, <2>5
<1>7. ASSUME NEW w \in Workers, FlushAcks(w)
      PROVE  Goal
  <2>1. /\ pendingAck[w] = {} /\ UNCHANGED <<group, pendingAck, closed>>
        /\ job' = [job EXCEPT ![w] = [o \in Offsets |->
                      IF job[w][o] = "marked" THEN "none" ELSE job[w][o]]]
        /\ cancelled' \in {cancelled, [cancelled EXCEPT ![w] = FALSE]}
    BY <1>0b, <1>7 DEF FlushAcks, Return
  <2>2. \A v \in Workers, o \in Offsets :
           job'[v][o] = IF v = w /\ job[v][o] = "marked" THEN "none" ELSE job[v][o]
    BY <1>0a, <2>1
  <2>3. LentOnce'
    BY <1>0, <2>1 DEF LentOnce
  <2>4. NobodyStopped'
    BY <1>0, <2>1 DEF NobodyStopped, TypeOK
  <2>5. HeldByWorker'
    <3>1. ASSUME NEW v \in Workers, NEW p \in Offsets
          PROVE  HeldBy(v, p)'
      <4>1. HeldBy(v, p)
        BY <1>0 DEF HeldByWorker
      <4> QED
        BY <2>1, <2>2, <4>1 DEF HeldBy, InWork
    <3> QED
      BY <3>1 DEF HeldByWorker
  <2>6. \A o \in Offsets : Spent(o) => Spent(o)'
    BY <2>1, <2>2 DEF Spent
  <2> QED
    BY <2>3, <2>4, <2>5, <2>6
<1>8. ASSUME NEW w \in Workers, NewWorker(w) \/ Run(w)
      PROVE  Goal
  BY <1>1, <1>8 DEF NewWorker, Run
<1>9. ASSUME NEW w \in Workers, NEW o \in Offsets,
             Dispatch(w, o) \/ Take(w, o) \/ DecodeFails(w, o) \/ HandlerSucceeds(w, o)
      PROVE  Goal
  BY <1>2, <1>9 DEF Dispatch, Take, DecodeFails, HandlerSucceeds, InWork, JobStates
<1>10. ASSUME NEW w \in Workers, NEW o \in Offsets, HandlerFails(w, o) \/ Produce(w, o)
       PROVE  Goal
  BY <1>2, <1>10 DEF HandlerFails, Produce, InWork, JobStates
<1>11. ASSUME NEW e \in Arrivals, Arrive(e)
       PROVE  Goal
  BY <1>1, <1>11 DEF Arrive
<1>12. CASE UNCHANGED vars
  BY <1>1, <1>12 DEF vars
<1> QED
  BY <1>3, <1>4, <1>5, <1>6, <1>7, <1>8, <1>9, <1>10, <1>11, <1>12 DEF UndisturbedStep

\* The three kinds of effects.
Successes(t, n) == {o \in completed : IsAttempt(ready[o], t, n)}

NextAttempts(t, n) ==
    {at \in RetryOffsets : IsAttempt(retry[at[1]][at[2]], t, n + 1)}

Burials(t, n) == {i \in DOMAIN dlq : IsAttempt(dlq[i], t, n)}

LEMMA EffectsAreCounted ==
    ASSUME TypeOK, IsFiniteSet(RetryOffsets), NEW t, NEW n
    PROVE  /\ IsFiniteSet(Successes(t, n)) /\ Cardinality(Successes(t, n)) \in Nat
           /\ IsFiniteSet(NextAttempts(t, n)) /\ Cardinality(NextAttempts(t, n)) \in Nat
           /\ IsFiniteSet(Burials(t, n)) /\ Cardinality(Burials(t, n)) \in Nat
           /\ IsFiniteSet(Spenders(t, n)) /\ Cardinality(Spenders(t, n)) \in Nat
           /\ EffectsOf(t, n) = Cardinality(Successes(t, n))
                 + Cardinality(NextAttempts(t, n)) + Cardinality(Burials(t, n))
<1>1. IsFiniteSet(Offsets)
  BY FS_Interval, WorkerAssumption DEF Offsets
<1>2. Successes(t, n) \subseteq Offsets /\ Spenders(t, n) \subseteq Offsets
  BY DEF TypeOK, Successes, Spenders
<1>3. IsFiniteSet(DOMAIN dlq)
  <2>1. DOMAIN dlq = 1..Len(dlq) /\ Len(dlq) \in Nat
    BY DEF TypeOK
  <2> QED
    BY <2>1, FS_Interval
<1>4. Burials(t, n) \subseteq DOMAIN dlq
  BY DEF Burials
<1>5. NextAttempts(t, n) \subseteq RetryOffsets
  BY DEF NextAttempts
<1>6. EffectsOf(t, n) = Cardinality(Successes(t, n))
         + Cardinality(NextAttempts(t, n)) + Cardinality(Burials(t, n))
  BY DEF EffectsOf, Successes, NextAttempts, Burials
<1>7. IsFiniteSet(Successes(t, n)) /\ Cardinality(Successes(t, n)) \in Nat
  BY <1>1, <1>2, CountDown
<1>8. IsFiniteSet(Spenders(t, n)) /\ Cardinality(Spenders(t, n)) \in Nat
  BY <1>1, <1>2, CountDown
<1>9. IsFiniteSet(Burials(t, n)) /\ Cardinality(Burials(t, n)) \in Nat
  BY <1>3, <1>4, CountDown
<1>10. IsFiniteSet(NextAttempts(t, n)) /\ Cardinality(NextAttempts(t, n)) \in Nat
  BY <1>5, CountDown
<1> QED
  BY <1>6, <1>7, <1>8, <1>9, <1>10

\* The count of an effect that was added, if it is one of attempt n of t.
LEMMA AtMostOneMore ==
    ASSUME NEW D, NEW E, NEW x, NEW p \in BOOLEAN, IsFiniteSet(D),
           E \subseteq D \cup {x}, ~p => E \subseteq D
    PROVE  /\ IsFiniteSet(E) /\ Cardinality(E) \in Nat /\ Cardinality(D) \in Nat
           /\ Cardinality(E) <= Cardinality(D) + 1
           /\ ~p => Cardinality(E) <= Cardinality(D)
<1>1. CASE p
  BY <1>1, CountUp
<1>2. CASE ~p
  <2>1. /\ IsFiniteSet(E) /\ Cardinality(E) \in Nat /\ Cardinality(D) \in Nat
        /\ Cardinality(E) <= Cardinality(D)
    BY <1>2, CountDown
  <2> QED
    BY <2>1
<1> QED
  BY <1>1, <1>2

\* A step of which no topic but the ready topic hears.
LEMMA NoEffectIsAdded ==
    ASSUME TypeOK, TypeOK', OffsetsAreWritten, EffectsAreSpent,
           UNCHANGED <<completed, retry, dlq>>,
           \A o \in DOMAIN ready : o \in DOMAIN ready' /\ ready'[o] = ready[o],
           \A o \in Offsets : Spent(o) => Spent(o)'
    PROVE  EffectsAreSpent'
<1>1. IsFiniteSet(RetryOffsets) /\ RetryOffsets' = RetryOffsets
  BY DEF EffectsAreSpent, RetryOffsets
<1>2. ASSUME NEW t \in Tasks, NEW n \in Nat
      PROVE  EffectsOf(t, n)' <= Cardinality(Spenders(t, n)')
  <2>1. Successes(t, n)' = Successes(t, n)
    BY DEF Successes, OffsetsAreWritten
  <2>2. NextAttempts(t, n)' = NextAttempts(t, n) /\ Burials(t, n)' = Burials(t, n)
    BY <1>1 DEF NextAttempts, Burials
  <2>3. Spenders(t, n) \subseteq Spenders(t, n)'
    BY DEF Spenders
  <2>4. EffectsOf(t, n) <= Cardinality(Spenders(t, n))
    BY DEF EffectsAreSpent
  <2>5. EffectsOf(t, n) = Cardinality(Successes(t, n))
           + Cardinality(NextAttempts(t, n)) + Cardinality(Burials(t, n))
    BY <1>1, EffectsAreCounted
  <2>6. EffectsOf(t, n)' = Cardinality(Successes(t, n)')
           + Cardinality(NextAttempts(t, n)') + Cardinality(Burials(t, n)')
    BY DEF EffectsOf, Successes, NextAttempts, Burials
  <2>7. IsFiniteSet(Spenders(t, n)')
    <3>1. IsFiniteSet(Offsets)
      BY FS_Interval, WorkerAssumption DEF Offsets
    <3>2. Spenders(t, n)' \subseteq Offsets
      BY DEF Spenders, Offsets
    <3> QED
      BY <3>1, <3>2, CountDown
  <2>8. /\ Cardinality(Spenders(t, n)) <= Cardinality(Spenders(t, n)')
        /\ Cardinality(Spenders(t, n)) \in Nat /\ Cardinality(Spenders(t, n)') \in Nat
    BY <2>3, <2>7, CountDown
  <2>9. EffectsOf(t, n)' = EffectsOf(t, n) /\ EffectsOf(t, n) \in Nat
    BY <1>1, <2>1, <2>2, <2>5, <2>6, EffectsAreCounted
  <2> QED
    BY <2>4, <2>8, <2>9
<1> QED
  BY <1>1, <1>2 DEF EffectsAreSpent

\* What a handler that succeeds and a Produce add.
EffectFrom(o) ==
    \/ completed' = completed \cup {o} /\ UNCHANGED <<retry, dlq>>
    \/ /\ \E b \in RetryBuckets :
             retry' = [retry EXCEPT ![b] = Append(@, RetryOf(ready[o]))]
       /\ RetryOf(ready[o]) \in Envelope
       /\ UNCHANGED <<completed, dlq>>
    \/ dlq' = Append(dlq, ready[o]) /\ UNCHANGED <<completed, retry>>

LEMMA RetryIsNextAttempt ==
    ASSUME NEW e \in Envelope, NEW t, NEW n \in Nat
    PROVE  IsAttempt(RetryOf(e), t, n + 1) <=> IsAttempt(e, t, n)
<1>1. e.retried \in Nat
  BY DEF Envelope
<1>2. RetryOf(e).id = e.id /\ RetryOf(e).retried = e.retried + 1
  BY DEF RetryOf
<1> QED
  BY <1>1, <1>2 DEF IsAttempt

LEMMA AddedEffectIsCounted ==
    ASSUME TypeOK, IsFiniteSet(RetryOffsets), OffsetsAreWritten,
           NEW o \in Offsets, o \in DOMAIN ready, ready' = ready, EffectFrom(o),
           NEW t \in Tasks, NEW n \in Nat
    PROVE  /\ IsFiniteSet(RetryOffsets')
           /\ EffectsOf(t, n) \in Nat /\ EffectsOf(t, n)' \in Nat
           /\ EffectsOf(t, n)' <= EffectsOf(t, n) + 1
           /\ ~IsAttempt(ready[o], t, n) => EffectsOf(t, n)' <= EffectsOf(t, n)
<1> DEFINE mine == IsAttempt(ready[o], t, n)
<1>0. mine \in BOOLEAN
  BY DEF IsAttempt
<1>1. /\ EffectsOf(t, n) = Cardinality(Successes(t, n))
            + Cardinality(NextAttempts(t, n)) + Cardinality(Burials(t, n))
      /\ IsFiniteSet(Successes(t, n)) /\ Cardinality(Successes(t, n)) \in Nat
      /\ IsFiniteSet(NextAttempts(t, n)) /\ Cardinality(NextAttempts(t, n)) \in Nat
      /\ IsFiniteSet(Burials(t, n)) /\ Cardinality(Burials(t, n)) \in Nat
  BY EffectsAreCounted
<1>2. EffectsOf(t, n)' = Cardinality(Successes(t, n)')
         + Cardinality(NextAttempts(t, n)') + Cardinality(Burials(t, n)')
  BY DEF EffectsOf, Successes, NextAttempts, Burials
<1>3. ready[o] \in Envelope
  BY DEF TypeOK
<1>4. CASE completed' = completed \cup {o} /\ UNCHANGED <<retry, dlq>>
  <2>1. RetryOffsets' = RetryOffsets
    BY <1>4 DEF RetryOffsets
  <2>2. NextAttempts(t, n)' = NextAttempts(t, n) /\ Burials(t, n)' = Burials(t, n)
    BY <1>4, <2>1 DEF NextAttempts, Burials
  <2>3. Successes(t, n)' \subseteq Successes(t, n) \cup {o}
    BY <1>4 DEF Successes
  <2>4. ~mine => Successes(t, n)' \subseteq Successes(t, n)
    BY <1>4 DEF Successes
  <2>5. /\ Cardinality(Successes(t, n)') \in Nat
        /\ Cardinality(Successes(t, n)') <= Cardinality(Successes(t, n)) + 1
        /\ ~mine => Cardinality(Successes(t, n)') <= Cardinality(Successes(t, n))
    <3> HIDE DEF mine
    <3> QED
      BY <1>0, <1>1, <2>3, <2>4, AtMostOneMore
  <2> QED
    BY <1>1, <1>2, <2>1, <2>2, <2>5
<1>5. CASE dlq' = Append(dlq, ready[o]) /\ UNCHANGED <<completed, retry>>
  <2>1. RetryOffsets' = RetryOffsets
    BY <1>5 DEF RetryOffsets
  <2>2. NextAttempts(t, n)' = NextAttempts(t, n) /\ Successes(t, n)' = Successes(t, n)
    BY <1>5, <2>1 DEF NextAttempts, Successes
  <2>3. /\ DOMAIN dlq' = DOMAIN dlq \cup {Len(dlq) + 1}
        /\ dlq'[Len(dlq) + 1] = ready[o]
        /\ \A i \in DOMAIN dlq : dlq'[i] = dlq[i]
    <3>1. dlq \in Seq(Envelope)
      BY DEF TypeOK
    <3> QED
      BY <1>3, <1>5, <3>1, AppendKeeps
  <2>4. Burials(t, n)' \subseteq Burials(t, n) \cup {Len(dlq) + 1}
    BY <2>3 DEF Burials
  <2>5. ~mine => Burials(t, n)' \subseteq Burials(t, n)
    BY <2>3 DEF Burials
  <2>6. /\ Cardinality(Burials(t, n)') \in Nat
        /\ Cardinality(Burials(t, n)') <= Cardinality(Burials(t, n)) + 1
        /\ ~mine => Cardinality(Burials(t, n)') <= Cardinality(Burials(t, n))
    <3> HIDE DEF mine
    <3> QED
      BY <1>0, <1>1, <2>4, <2>5, AtMostOneMore
  <2> QED
    BY <1>1, <1>2, <2>1, <2>2, <2>6
<1>6. ASSUME NEW b \in RetryBuckets, RetryOf(ready[o]) \in Envelope,
             retry' = [retry EXCEPT ![b] = Append(@, RetryOf(ready[o]))],
             UNCHANGED <<completed, dlq>>
      PROVE  /\ IsFiniteSet(RetryOffsets')
             /\ EffectsOf(t, n)' \in Nat
             /\ EffectsOf(t, n)' <= EffectsOf(t, n) + 1
             /\ ~mine => EffectsOf(t, n)' <= EffectsOf(t, n)
  <2> DEFINE x == <<b, Len(retry[b]) + 1>>
  <2>1. /\ retry[b] \in Seq(Envelope) /\ retry'[b] = Append(retry[b], RetryOf(ready[o]))
        /\ \A c \in RetryBuckets : c # b => retry'[c] = retry[c]
    BY <1>6 DEF TypeOK
  <2>2. /\ DOMAIN retry'[b] = DOMAIN retry[b] \cup {Len(retry[b]) + 1}
        /\ retry'[b][Len(retry[b]) + 1] = RetryOf(ready[o])
        /\ \A i \in DOMAIN retry[b] : retry'[b][i] = retry[b][i]
    BY <1>6, <2>1, AppendKeeps
  <2>3. ASSUME NEW at \in RetryOffsets'
        PROVE  \/ at = x /\ retry'[at[1]][at[2]] = RetryOf(ready[o])
               \/ at \in RetryOffsets /\ retry'[at[1]][at[2]] = retry[at[1]][at[2]]
    <3>1. PICK c \in RetryBuckets : \E i \in DOMAIN retry'[c] : at = <<c, i>>
      BY <2>3 DEF RetryOffsets
    <3>2. PICK i \in DOMAIN retry'[c] : at = <<c, i>>
      BY <3>1
    <3>3. at[1] = c /\ at[2] = i
      BY <3>2
    <3>4. CASE c = b /\ i = Len(retry[b]) + 1
      BY <2>2, <3>2, <3>3, <3>4
    <3>5. CASE ~(c = b /\ i = Len(retry[b]) + 1)
      <4>1. i \in DOMAIN retry[c] /\ retry'[c][i] = retry[c][i]
        BY <2>1, <2>2, <3>2, <3>5
      <4>2. at \in RetryOffsets
        BY <3>1, <3>2, <4>1 DEF RetryOffsets
      <4> QED
        BY <3>3, <4>1, <4>2
    <3> QED
      BY <3>4, <3>5
  <2> HIDE DEF x
  <2>4. RetryOffsets' \subseteq RetryOffsets \cup {x}
    BY <2>3
  <2>5. IsFiniteSet(RetryOffsets')
    BY <2>4, CountUp
  <2>6. NextAttempts(t, n)' \subseteq NextAttempts(t, n) \cup {x}
    BY <2>3 DEF NextAttempts
  <2>7. ~mine => NextAttempts(t, n)' \subseteq NextAttempts(t, n)
    BY <1>3, <2>3, RetryIsNextAttempt DEF NextAttempts
  <2>8. Successes(t, n)' = Successes(t, n) /\ Burials(t, n)' = Burials(t, n)
    BY <1>6 DEF Successes, Burials
  <2>9. /\ Cardinality(NextAttempts(t, n)') \in Nat
        /\ Cardinality(NextAttempts(t, n)') <= Cardinality(NextAttempts(t, n)) + 1
        /\ ~mine => Cardinality(NextAttempts(t, n)') <= Cardinality(NextAttempts(t, n))
    <3> HIDE DEF mine
    <3> QED
      BY <1>0, <1>1, <2>6, <2>7, AtMostOneMore
  <2> QED
    BY <1>1, <1>2, <2>5, <2>8, <2>9
<1> QED
  BY <1>1, <1>4, <1>5, <1>6 DEF EffectFrom

\* An effect spends the record it is made of.
LEMMA AddedEffectIsSpent ==
    ASSUME TypeOK, OffsetsAreWritten, EffectsAreSpent,
           NEW o \in Offsets, o \in DOMAIN ready, ready' = ready, EffectFrom(o),
           ~Spent(o), Spent(o)', \A p \in Offsets : Spent(p) => Spent(p)'
    PROVE  EffectsAreSpent'
<1>1. IsFiniteSet(RetryOffsets)
  BY DEF EffectsAreSpent
<1>2. ASSUME NEW t \in Tasks, NEW n \in Nat
      PROVE  IsFiniteSet(RetryOffsets') /\ EffectsOf(t, n)' <= Cardinality(Spenders(t, n)')
  <2>1. /\ IsFiniteSet(RetryOffsets')
        /\ EffectsOf(t, n) \in Nat /\ EffectsOf(t, n)' \in Nat
        /\ EffectsOf(t, n)' <= EffectsOf(t, n) + 1
        /\ ~IsAttempt(ready[o], t, n) => EffectsOf(t, n)' <= EffectsOf(t, n)
    BY <1>1, AddedEffectIsCounted
  <2>2. EffectsOf(t, n) <= Cardinality(Spenders(t, n))
    BY DEF EffectsAreSpent
  <2>3. IsFiniteSet(Spenders(t, n)')
    <3>1. IsFiniteSet(Offsets)
      BY FS_Interval, WorkerAssumption DEF Offsets
    <3>2. Spenders(t, n)' \subseteq Offsets
      BY DEF Spenders, Offsets
    <3> QED
      BY <3>1, <3>2, CountDown
  <2>4. Spenders(t, n) \subseteq Spenders(t, n)' \ {o}
    BY DEF Spenders
  <2>5. CASE IsAttempt(ready[o], t, n)
    <3>1. o \in Spenders(t, n)'
      BY <2>5 DEF Spenders
    <3>2. /\ Cardinality(Spenders(t, n)) \in Nat /\ Cardinality(Spenders(t, n)') \in Nat
          /\ Cardinality(Spenders(t, n)) + 1 <= Cardinality(Spenders(t, n)')
      BY <2>3, <2>4, <3>1, CountLess
    <3> QED
      BY <2>1, <2>2, <3>2
  <2>6. CASE ~IsAttempt(ready[o], t, n)
    <3>1. /\ Cardinality(Spenders(t, n)) \in Nat /\ Cardinality(Spenders(t, n)') \in Nat
          /\ Cardinality(Spenders(t, n)) <= Cardinality(Spenders(t, n)')
      BY <2>3, <2>4, CountDown
    <3> QED
      BY <2>1, <2>2, <2>6, <3>1
  <2> QED
    BY <2>1, <2>5, <2>6
<1>3. ready[o].id \in Tasks /\ 0 \in Nat
  <2>1. ready[o] \in Envelope
    BY DEF TypeOK
  <2> QED
    BY <2>1 DEF Envelope
<1>4. IsFiniteSet(RetryOffsets')
  BY <1>2, <1>3
<1> QED
  BY <1>2, <1>4 DEF EffectsAreSpent

LEMMA EffectsStaySpent ==
    ASSUME PoolInv, TypeOK', OneEffect, UndisturbedStep, faults' = 0
    PROVE  EffectsAreSpent'
<1> USE DEF topics, group, run, acks
<1>0. /\ TypeOK /\ OffsetsAreWritten /\ WritesAreJustified
      /\ LentOnce /\ HeldByWorker /\ EffectsAreSpent
  BY DEF PoolInv, OneEffect
<1>1. \A o \in Offsets : Spent(o) => Spent(o)'
  BY LendingIsKept
<1>2. ASSUME UNCHANGED <<ready, completed, retry, dlq>>
      PROVE  EffectsAreSpent'
  BY <1>0, <1>1, <1>2, NoEffectIsAdded
<1>3. ASSUME NEW w \in Workers, NEW o \in Offsets,
             job[w][o] \in {"running", "retrying", "burying"},
             job' = SetJob(w, o, "ok"), ready' = ready, EffectFrom(o)
      PROVE  EffectsAreSpent'
  <2>1. job[w][o] \in InWork \ {"ok"}
    BY <1>3 DEF InWork, JobStates
  <2>2. /\ o \in acquired[w] /\ <<o, "accept">> \notin pendingAck[w]
        /\ o \notin archived /\ \A v \in Workers : o \in acquired[v] => v = w
    BY <1>0, <2>1 DEF LentOnce, HeldByWorker, HeldBy
  <2>3. ASSUME NEW v \in Workers, job[v][o] = "ok" \/ <<o, "accept">> \in pendingAck[v]
        PROVE  FALSE
    <3>1. "ok" \in InWork
      BY DEF InWork, JobStates
    <3>2. o \in acquired[v]
      BY <1>0, <2>3, <3>1 DEF HeldByWorker, HeldBy
    <3>3. v = w
      BY <2>2, <3>2
    <3> QED
      BY <2>1, <2>2, <2>3, <3>3
  <2>4. ~Spent(o)
    BY <2>2, <2>3 DEF Spent
  <2>5. Spent(o)'
    <3>1. job'[w][o] = "ok"
      BY <1>0, <1>3 DEF SetJob, TypeOK
    <3> QED
      BY <3>1 DEF Spent
  <2>6. o \in DOMAIN ready
    BY <1>0, <2>1 DEF OffsetsAreWritten, InWork
  <2> QED
    BY <1>0, <1>1, <1>3, <2>4, <2>5, <2>6, AddedEffectIsSpent
<1>4. ASSUME NEW w \in Workers, NEW o \in Offsets, HandlerSucceeds(w, o)
      PROVE  EffectsAreSpent'
  BY <1>3, <1>4 DEF HandlerSucceeds, EffectFrom
<1>5. ASSUME NEW w \in Workers, NEW o \in Offsets, Produce(w, o)
      PROVE  EffectsAreSpent'
  <2>1. /\ job[w][o] \in {"retrying", "burying"} /\ job' = SetJob(w, o, "ok")
        /\ completed' = completed /\ Written(w, o)
    BY <1>5 DEF Produce
  <2>2. o \in DOMAIN ready /\ ready[o] \in Envelope
    <3>1. o \in DOMAIN ready
      BY <1>0, <2>1 DEF OffsetsAreWritten
    <3> QED
      BY <1>0, <3>1 DEF TypeOK
  <2>3. CASE job[w][o] = "retrying"
    <3>1. BucketOf(ready[o]) \in RetryBuckets /\ RetryOf(ready[o]) \in Envelope
      BY <1>0, <2>2, <2>3, RetryIsDue DEF WritesAreJustified
    <3>2. /\ retry' = [retry EXCEPT ![BucketOf(ready[o])] =
                          Append(@, RetryOf(ready[o]))]
          /\ ready' = ready /\ dlq' = dlq
      BY <2>1, <2>3 DEF Written
    <3>3. EffectFrom(o)
      BY <2>1, <3>1, <3>2 DEF EffectFrom
    <3> QED
      BY <1>3, <2>1, <3>2, <3>3
  <2>4. CASE job[w][o] = "burying"
    <3>1. dlq' = Append(dlq, ready[o]) /\ ready' = ready /\ retry' = retry
      BY <2>1, <2>4 DEF Written
    <3>2. EffectFrom(o)
      BY <2>1, <3>1 DEF EffectFrom
    <3> QED
      BY <1>3, <2>1, <3>1, <3>2
  <2> QED
    BY <2>1, <2>3, <2>4
<1>6. ASSUME NEW e \in Arrivals, Arrive(e)
      PROVE  EffectsAreSpent'
  <2>1. ready' = Append(ready, e) /\ UNCHANGED <<completed, retry, dlq>>
    BY <1>6 DEF Arrive
  <2>2. ready \in Seq(Envelope) /\ e \in Envelope
    BY <1>0, WorkerAssumption DEF TypeOK
  <2>3. \A o \in DOMAIN ready : o \in DOMAIN ready' /\ ready'[o] = ready[o]
    BY <2>1, <2>2, AppendKeeps
  <2> QED
    BY <1>0, <1>1, <2>1, <2>3, NoEffectIsAdded
<1>7. ASSUME NEW w \in Workers,
             NewWorker(w) \/ Run(w) \/ PollRecords(w) \/ FlushAcks(w)
      PROVE  EffectsAreSpent'
  BY <1>2, <1>7 DEF NewWorker, Run, PollRecords, FlushAcks
<1>8. ASSUME NEW w \in Workers, NEW o \in Offsets,
             \/ Dispatch(w, o) \/ Take(w, o) \/ DecodeFails(w, o) \/ HandlerFails(w, o)
             \/ CollectResult(w, o) \/ LockExpiresAbandoned(w, o)
      PROVE  EffectsAreSpent'
  BY <1>2, <1>8 DEF Dispatch, Take, DecodeFails, HandlerFails, CollectResult,
     LockExpiresAbandoned, LockExpires
<1>9. ASSUME NEW w \in Workers, NEW o \in Offsets, NEW s \in Statuses,
             DeliverAck(w, o, s)
      PROVE  EffectsAreSpent'
  BY <1>2, <1>9 DEF DeliverAck
<1>10. CASE UNCHANGED vars
  BY <1>2, <1>10 DEF vars
<1> QED
  BY <1>4, <1>5, <1>6, <1>7, <1>8, <1>9, <1>10 DEF UndisturbedStep

LEMMA NothingHadAnEffect ==
    ASSUME Init
    PROVE  OneEffect
<1>1. LentOnce /\ HeldByWorker /\ NobodyStopped
  BY DEF Init, LentOnce, HeldByWorker, HeldBy, NobodyStopped, InWork
<1>2. completed = {} /\ RetryOffsets = {} /\ DOMAIN dlq = {}
  BY DEF Init, RetryOffsets
<1>3. IsFiniteSet({}) /\ Cardinality({}) = 0
  BY FS_EmptySet
<1>4. ASSUME NEW t \in Tasks, NEW n \in Nat
      PROVE  EffectsOf(t, n) <= Cardinality(Spenders(t, n))
  <2>1. Successes(t, n) = {} /\ NextAttempts(t, n) = {} /\ Burials(t, n) = {}
    BY <1>2 DEF Successes, NextAttempts, Burials
  <2>2. TypeOK
    BY InitIsGood DEF IInv, PoolInv
  <2>3. /\ EffectsOf(t, n) = Cardinality(Successes(t, n))
              + Cardinality(NextAttempts(t, n)) + Cardinality(Burials(t, n))
        /\ Cardinality(Spenders(t, n)) \in Nat
    BY <1>2, <1>3, <2>2, EffectsAreCounted
  <2> QED
    BY <1>3, <2>1, <2>3
<1> QED
  BY <1>1, <1>2, <1>3, <1>4 DEF OneEffect, EffectsAreSpent

LEMMA SpentAreCopies ==
    ASSUME TypeOK, Undisturbed => OneEffect
    PROVE  NoFaultNoDuplicate
<1> SUFFICES ASSUME Undisturbed, NEW o \in DOMAIN ready
             PROVE  EffectsOf(ready[o].id, ready[o].retried)
                       <= Copies(ready[o].id, ready[o].retried)
  BY DEF NoFaultNoDuplicate, Undisturbed
<1> DEFINE t == ready[o].id
           n == ready[o].retried
           copies == {p \in DOMAIN ready : IsAttempt(ready[p], t, n)}
<1>1. t \in Tasks /\ n \in Nat
  <2>1. ready[o] \in Envelope
    BY DEF TypeOK
  <2> QED
    BY <2>1 DEF Envelope
<1>2. IsFiniteSet(copies)
  <2>1. DOMAIN ready = 1..Len(ready) /\ Len(ready) \in Nat
    BY DEF TypeOK
  <2>2. IsFiniteSet(DOMAIN ready)
    BY <2>1, FS_Interval
  <2> QED
    BY <2>2, CountDown
<1>3. Spenders(t, n) \subseteq copies /\ Copies(t, n) = Cardinality(copies)
  BY DEF Spenders, Copies
<1> HIDE DEF t, n, copies
<1>4. EffectsOf(t, n) <= Cardinality(Spenders(t, n)) /\ IsFiniteSet(RetryOffsets)
  BY <1>1 DEF OneEffect, EffectsAreSpent
<1>5. /\ Cardinality(Spenders(t, n)) <= Cardinality(copies)
      /\ Cardinality(Spenders(t, n)) \in Nat /\ Cardinality(copies) \in Nat
  BY <1>2, <1>3, CountDown
<1>6. EffectsOf(t, n) \in Nat
  <2>1. /\ Cardinality(Successes(t, n)) \in Nat /\ Cardinality(Burials(t, n)) \in Nat
        /\ Cardinality(NextAttempts(t, n)) \in Nat
        /\ EffectsOf(t, n) = Cardinality(Successes(t, n))
              + Cardinality(NextAttempts(t, n)) + Cardinality(Burials(t, n))
    BY <1>4, EffectsAreCounted
  <2> QED
    BY <2>1
<1>7. EffectsOf(t, n) <= Copies(t, n)
  BY <1>3, <1>4, <1>5, <1>6
<1> QED
  BY <1>7 DEF t, n

\* As long as nothing fails, no attempt has more effects than it has copies on
\* the ready topic: the loans of the share group, the two channels, the
\* acknowledgements and Run called again after a failed task never have a
\* record handled to its effect twice.
THEOREM OneEffectPerDelivery == Spec => []NoFaultNoDuplicate
<1>1. Init => (Undisturbed => OneEffect)
  BY NothingHadAnEffect
<1>2. IInv /\ IInv' /\ (Undisturbed => OneEffect) /\ [Next]_vars
        => (Undisturbed => OneEffect)'
  <2> SUFFICES ASSUME IInv, IInv', Undisturbed => OneEffect, [Next]_vars, Undisturbed'
               PROVE  OneEffect'
    OBVIOUS
  <2>1. PoolInv /\ TypeOK /\ TypeOK'
    BY DEF IInv, PoolInv
  <2>2. faults = 0 => NobodyStopped
    BY DEF Undisturbed, OneEffect
  <2>3. Undisturbed /\ UndisturbedStep /\ faults' = 0
    BY <2>1, <2>2, StepsAreUndisturbed DEF Undisturbed
  <2>4. LentOnce' /\ HeldByWorker' /\ NobodyStopped'
    BY <2>1, <2>3, LendingIsKept
  <2>5. EffectsAreSpent'
    BY <2>1, <2>3, EffectsStaySpent
  <2> QED
    BY <2>4, <2>5 DEF OneEffect
<1>3. IInv /\ (Undisturbed => OneEffect) => NoFaultNoDuplicate
  BY SpentAreCopies DEF IInv, PoolInv
<1> QED
  BY <1>1, <1>2, <1>3, Invariance, PTL DEF Spec

=============================================================================
