--------------------------- MODULE KqSystem_proofs ---------------------------
(***************************************************************************)
(* The composition of clients, workers, movers and the share group, for    *)
(* any number of each.                                                     *)
(***************************************************************************)
EXTENDS KqSystem, Worker_proofs, SequenceTheorems

-----------------------------------------------------------------------------
(* The invariant of the composition.                                       *)

SystemTypeOK ==
    /\ call \in [Tasks -> {"none", "producing", "written", "id", "error"}]
    /\ appended \in [RetryBuckets -> Seq(Nat)]
    /\ moves \in [RetryBuckets -> Seq(Nat)]
    /\ \A b \in RetryBuckets :
          Len(appended[b]) = Len(retry[b]) /\ Len(moves[b]) = Len(retry[b])
    /\ now \in Nat
    /\ deliveries \in [Offsets -> Nat]

\* Every record was made by a client or is a retry of one that was.
RecordsAreClients ==
    \A o \in DOMAIN ready :
        /\ ready[o].retries = ClientRetries /\ ready[o].retried <= ClientRetries
        /\ ready[o].wellFormed

\* Nothing is written for a call that has not come to its Produce, and what a
\* client is told the id of is written.
CallsAreKept ==
    \A t \in Tasks :
        /\ call[t] \in {"none", "producing"} => CopiesOf(t) = {}
        /\ call[t] \in {"written", "id"} => CopiesOf(t) # {}

SystemInv == PoolInv /\ SystemTypeOK /\ RecordsAreClients /\ CallsAreKept

-----------------------------------------------------------------------------
(* What a worker's step does to the records of the tasks.                  *)

\* A goroutine has produced the next attempt of the record at o.
Retried(o) ==
    /\ o \in DOMAIN ready /\ ready[o] \in Envelope
    /\ ~Exhausted(ready[o]) /\ Schedulable(ready[o])
    /\ retry' = [retry EXCEPT ![BucketOf(ready[o])] = Append(@, RetryOf(ready[o]))]
    /\ UNCHANGED <<ready, dlq, archived, completed>>

\* A goroutine has produced the dead letter of the record at o.
Buried(o) ==
    /\ o \in DOMAIN ready /\ ready[o] \in Envelope /\ Exhausted(ready[o])
    /\ dlq' = Append(dlq, ready[o])
    /\ UNCHANGED <<ready, retry, archived, completed>>

\* The handler of the record at o has returned nil.
Succeeded(o) ==
    /\ o \in DOMAIN ready /\ ready[o] \in Envelope
    /\ completed' = completed \cup {o}
    /\ UNCHANGED <<topics, archived>>

\* The share group archives the record at o.
Archived(o) ==
    /\ o \in DOMAIN ready /\ ready[o] \in Envelope
    /\ archived' = archived \cup {o}
    /\ UNCHANGED <<topics, completed>>

Quiet == UNCHANGED <<topics, archived, completed>>

LEMMA WrittenEffects ==
    ASSUME PoolInv, NEW w \in Workers, NEW o \in Offsets, Written(w, o),
           UNCHANGED <<archived, completed>>
    PROVE  Retried(o) \/ Buried(o)
<1>1. job[w][o] \in {"retrying", "burying"}
  BY DEF Written
<1>2. o \in DOMAIN ready
  BY <1>1 DEF PoolInv, OffsetsAreWritten
<1>3. ready[o] \in Envelope
  BY <1>2 DEF PoolInv, TypeOK
<1>4. CASE job[w][o] = "retrying"
  BY <1>2, <1>3, <1>4 DEF Written, Retried, PoolInv, WritesAreJustified
<1>5. CASE job[w][o] = "burying"
  BY <1>2, <1>3, <1>5 DEF Written, Buried, PoolInv, WritesAreJustified
<1> QED
  BY <1>1, <1>4, <1>5

\* What a worker's step may be, seen from the tasks.
WorkerEffect ==
    /\ \/ Quiet
       \/ \E o \in Offsets :
             \/ Retried(o) \/ Buried(o) \/ Succeeded(o)
             \/ Archived(o) /\ Settled(o)
    /\ faults' \in {faults, faults + 1}

LEMMA WorkerEffects ==
    ASSUME PoolInv, NEW u \in Workers, WorkerStep(u)
    PROVE  WorkerEffect
<1> USE DEF topics, group, run, acks
<1>0. TypeOK
  BY DEF PoolInv
<1>1. ASSUME UNCHANGED <<topics, archived, completed>>,
             faults' \in {faults, faults + 1}
      PROVE  WorkerEffect
  BY <1>1 DEF WorkerEffect, Quiet
<1>2. ASSUME NEW w \in Workers,
             NewWorker(w) \/ Run(w) \/ Cancel(w) \/ Close(w)
      PROVE  WorkerEffect
  BY <1>1, <1>2 DEF NewWorker, Run, Cancel, Close, Fault
<1>3. ASSUME NEW w \in Workers, Vanish(w), UNCHANGED faults \/ Fault
      PROVE  WorkerEffect
  BY <1>1, <1>3 DEF Vanish, Fault
<1>4. ASSUME NEW w \in Workers, PollRecords(w) \/ PollStops(w) \/ PollFails(w)
      PROVE  WorkerEffect
  BY <1>1, <1>4 DEF PollRecords, PollStops, PollFails, Fault
<1>5. ASSUME NEW w \in Workers, FlushAcks(w)
      PROVE  WorkerEffect
  BY <1>1, <1>5 DEF FlushAcks, Fault
<1>6. ASSUME NEW w \in Workers, NEW o \in Offsets,
             \/ Dispatch(w, o) \/ Take(w, o) \/ DecodeFails(w, o)
             \/ HandlerFails(w, o) \/ CollectResult(w, o)
      PROVE  WorkerEffect
  BY <1>1, <1>6 DEF Dispatch, Take, DecodeFails, HandlerFails, CollectResult
<1>7. ASSUME NEW w \in Workers, NEW o \in Offsets, HandlerSucceeds(w, o)
      PROVE  WorkerEffect
  <2>1. o \in DOMAIN ready
    BY <1>7 DEF HandlerSucceeds, PoolInv, OffsetsAreWritten
  <2>2. ready[o] \in Envelope
    BY <1>0, <2>1 DEF TypeOK
  <2>3. Succeeded(o) /\ faults' = faults
    BY <1>7, <2>1, <2>2 DEF HandlerSucceeds, Succeeded
  <2> QED
    BY <2>3 DEF WorkerEffect
<1>8. ASSUME NEW w \in Workers, NEW o \in Offsets, Produce(w, o)
      PROVE  WorkerEffect
  <2>1. Written(w, o) /\ UNCHANGED <<archived, completed, faults>>
    BY <1>8 DEF Produce
  <2> QED
    BY <2>1, WrittenEffects DEF WorkerEffect
<1>9. ASSUME NEW w \in Workers, NEW o \in Offsets, ProduceFails(w, o)
      PROVE  WorkerEffect
  <2>1. /\ Written(w, o) \/ UNCHANGED topics
        /\ UNCHANGED <<archived, completed>>
        /\ faults' \in {faults, faults + 1}
    BY <1>9 DEF ProduceFails, Fault
  <2> QED
    BY <1>1, <2>1, WrittenEffects DEF WorkerEffect
<1>10. ASSUME NEW w \in Workers, NEW o \in Offsets,
              NEW status \in {"accept", "release"},
              DeliverAck(w, o, status) \/ LoseAck(w, o, status)
       PROVE  WorkerEffect
  <2>1. /\ <<o, status>> \in pendingAck[w]
        /\ Apply(w, o, status) \/ UNCHANGED group
        /\ UNCHANGED <<topics, completed>>
        /\ faults' \in {faults, faults + 1}
    BY <1>10 DEF DeliverAck, LoseAck, Fault
  <2>2. CASE archived' = archived
    BY <1>1, <2>1, <2>2
  <2>3. CASE archived' # archived
    <3>1. status = "accept" /\ archived' = archived \cup {o}
      BY <2>1, <2>3 DEF Apply
    <3>2. o \in DOMAIN ready /\ Settled(o)
      BY <2>1, <3>1 DEF PoolInv, OffsetsAreWritten, AcceptsAreSettled
    <3>3. ready[o] \in Envelope
      BY <1>0, <3>2 DEF TypeOK
    <3>4. Archived(o)
      BY <2>1, <3>1, <3>2, <3>3 DEF Archived
    <3> QED
      BY <2>1, <3>2, <3>4 DEF WorkerEffect
  <2> QED
    BY <2>2, <2>3
<1>11. ASSUME NEW w \in Workers, NEW o \in Offsets, LockExpires(w, o),
              UNCHANGED faults \/ Fault
       PROVE  WorkerEffect
  BY <1>1, <1>11 DEF LockExpires, Fault
<1> QED
  BY <1>2, <1>3, <1>4, <1>5, <1>6, <1>7, <1>8, <1>9, <1>10, <1>11
    DEF WorkerStep, Handle, Acknowledge, Exit, Crash, HandlerPanics,
        LockExpiresEarly, LockExpiresAbandoned

-----------------------------------------------------------------------------
(* Every step of the system is one the workers live with.                  *)

LEMMA StepsArePoolSteps ==
    ASSUME SystemInv, [SystemNext]_allVars
    PROVE  PoolStep
<1> USE DEF group
<1>0. /\ archived \subseteq Offsets \cap DOMAIN ready /\ ready \in Seq(Envelope)
      /\ retry \in [RetryBuckets -> Seq(Envelope)] /\ faults \in Nat
  BY DEF SystemInv, PoolInv, TypeOK, OffsetsAreWritten
<1>1. CASE UNCHANGED vars
  BY <1>0, <1>1 DEF vars, topics, PoolStep, Outside
<1>2. ASSUME NEW e \in Envelope, ready' = Append(ready, e),
             UNCHANGED <<retry, dlq, group, run, acks, job, completed>>,
             faults' \in Nat
      PROVE  PoolStep
  <2>1. DOMAIN ready \subseteq DOMAIN Append(ready, e)
    BY <1>0, <1>2, AppendKeeps
  <2> QED
    BY <1>0, <1>2, <2>1 DEF PoolStep, Outside
<1>3. ASSUME NEW t \in Tasks,
             Enqueue(t) \/ EnqueueWrites(t) \/ EnqueueReturns(t) \/ EnqueueFails(t)
      PROVE  PoolStep
  <2>1. NewTaskEnvelope(t) \in Envelope
    BY SystemAssumption, WorkerAssumption DEF NewTaskEnvelope, Envelope
  <2>2. CASE EnqueueWrites(t)
    BY <1>0, <1>2, <2>1, <2>2 DEF EnqueueWrites, Arrive
  <2>3. CASE EnqueueFails(t)
    BY <1>0, <2>3 DEF EnqueueFails, Fault, topics, PoolStep, Outside
  <2> QED
    BY <1>1, <1>3, <2>2, <2>3 DEF Enqueue, EnqueueReturns
<1>4. ASSUME NEW w \in Workers, WorkerActs(w)
      PROVE  PoolStep
  BY <1>4 DEF WorkerActs, PoolStep
<1>5. ASSUME NEW o \in Offsets, GiveUp(o)
      PROVE  PoolStep
  BY <1>0, <1>5 DEF GiveUp, Available, topics, PoolStep, Outside
<1>6. ASSUME NEW b \in RetryBuckets, NEW i \in DOMAIN retry[b], Move(b, i)
      PROVE  PoolStep
  <2>1. retry[b][i] \in Envelope
    BY <1>0
  <2>2. faults' \in Nat
    BY <1>0, <1>6 DEF Move, Fault
  <2> QED
    BY <1>2, <1>6, <2>1, <2>2 DEF Move
<1>7. CASE Tick
  BY <1>1, <1>7 DEF Tick
<1> QED
  BY <1>1, <1>3, <1>4, <1>5, <1>6, <1>7 DEF SystemNext, allVars

LEMMA ReadyGrows ==
    ASSUME ready \in Seq(Envelope), NEW e \in Envelope, ready' = Append(ready, e)
    PROVE  /\ ready' \in Seq(Envelope)
           /\ DOMAIN ready' = DOMAIN ready \cup {Len(ready) + 1}
           /\ Len(ready) + 1 \notin DOMAIN ready
           /\ ready'[Len(ready) + 1] = e
           /\ \A o \in DOMAIN ready : ready'[o] = ready[o]
           /\ \A t \in Tasks :
                 CopiesOf(t)' =
                    CopiesOf(t) \cup (IF e.id = t THEN {Len(ready) + 1} ELSE {})
<1>1. /\ ready' \in Seq(Envelope)
      /\ DOMAIN ready' = DOMAIN ready \cup {Len(ready) + 1}
      /\ Len(ready) + 1 \notin DOMAIN ready
      /\ ready'[Len(ready) + 1] = e
      /\ \A o \in DOMAIN ready : ready'[o] = ready[o]
  OBVIOUS
<1> QED
  BY <1>1 DEF CopiesOf

\* The retries on the topics repeat the task of a record that is written.
LEMMA RetriesAreClients ==
    ASSUME SystemInv, NEW b \in RetryBuckets, NEW i \in DOMAIN retry[b]
    PROVE  /\ retry[b][i] \in Envelope
           /\ retry[b][i].retries = ClientRetries
           /\ retry[b][i].retried \in 1..ClientRetries
           /\ retry[b][i].wellFormed
           /\ CopiesOf(retry[b][i].id) # {}
<1>1. PICK o \in DOMAIN ready : retry[b][i] = RetryOf(ready[o])
  BY DEF SystemInv, PoolInv, RetriesAreDue
<1>2. /\ ready[o] \in Envelope /\ retry[b][i] \in Envelope
      /\ retry[b][i].retried <= retry[b][i].retries
  BY DEF SystemInv, PoolInv, TypeOK, RetriesAreDue
<1>3. /\ retry[b][i].retries = ready[o].retries
      /\ retry[b][i].retried = ready[o].retried + 1
      /\ retry[b][i].wellFormed
      /\ retry[b][i].id = ready[o].id
  BY <1>1 DEF RetryOf
<1>4. ready[o].retries = ClientRetries /\ ready[o].retried \in Nat
  BY <1>2 DEF SystemInv, RecordsAreClients, Envelope
<1>5. o \in CopiesOf(retry[b][i].id)
  BY <1>3 DEF CopiesOf
<1> QED
  BY <1>2, <1>3, <1>4, <1>5, SystemAssumption

-----------------------------------------------------------------------------
(* The invariant of the composition is kept.                               *)

LEMMA StampKeepsTypes ==
    ASSUME SystemInv, WorkerEffect, Stamp
    PROVE  /\ appended' \in [RetryBuckets -> Seq(Nat)]
           /\ moves' \in [RetryBuckets -> Seq(Nat)]
           /\ \A b \in RetryBuckets :
                 Len(appended'[b]) = Len(retry'[b]) /\ Len(moves'[b]) = Len(retry'[b])
<1>0. /\ appended \in [RetryBuckets -> Seq(Nat)]
      /\ moves \in [RetryBuckets -> Seq(Nat)]
      /\ \A b \in RetryBuckets :
            Len(appended[b]) = Len(retry[b]) /\ Len(moves[b]) = Len(retry[b])
      /\ now \in Nat
      /\ retry \in [RetryBuckets -> Seq(Envelope)]
  BY DEF SystemInv, SystemTypeOK, PoolInv, TypeOK
<1>1. \A b \in RetryBuckets :
        \/ retry'[b] = retry[b]
        \/ retry'[b] # retry[b] /\ Len(retry'[b]) = Len(retry[b]) + 1
  <2>1. CASE retry' = retry
    BY <2>1
  <2>2. ASSUME NEW o \in Offsets, Retried(o)
        PROVE  <1>1!:
    <3>1. RetryOf(ready[o]) \in Envelope /\ BucketOf(ready[o]) \in RetryBuckets
      BY <2>2, RetryIsDue DEF Retried
    <3>2. retry' = [retry EXCEPT ![BucketOf(ready[o])] = Append(@, RetryOf(ready[o]))]
      BY <2>2 DEF Retried
    <3> HIDE DEF BucketOf, RetryOf
    <3>3. \A b \in RetryBuckets :
            Len(Append(retry[b], RetryOf(ready[o]))) = Len(retry[b]) + 1
      BY <1>0, <3>1
    <3> QED
      BY <1>0, <3>1, <3>2, <3>3
  <2> QED
    BY <2>1, <2>2 DEF WorkerEffect, Quiet, Buried, Succeeded, Archived, topics
<1>2. ASSUME NEW b \in RetryBuckets
      PROVE  /\ appended'[b] \in Seq(Nat) /\ moves'[b] \in Seq(Nat)
             /\ Len(appended'[b]) = Len(retry'[b]) /\ Len(moves'[b]) = Len(retry'[b])
  <2>1. CASE retry'[b] = retry[b]
    BY <1>0, <2>1 DEF Stamp
  <2>2. CASE retry'[b] # retry[b] /\ Len(retry'[b]) = Len(retry[b]) + 1
    <3>1. appended'[b] = Append(appended[b], now) /\ moves'[b] = Append(moves[b], 0)
      BY <2>2 DEF Stamp
    <3>2. appended[b] \in Seq(Nat) /\ moves[b] \in Seq(Nat)
      BY <1>0
    <3> QED
      BY <1>0, <2>2, <3>1, <3>2
  <2> QED
    BY <1>1, <2>1, <2>2
<1>3. appended' = [b \in RetryBuckets |-> appended'[b]]
      /\ moves' = [b \in RetryBuckets |-> moves'[b]]
  BY DEF Stamp
<1> QED
  BY <1>2, <1>3

LEMMA SystemTypeIsKept ==
    ASSUME SystemInv, [SystemNext]_allVars
    PROVE  SystemTypeOK'
<1>0. SystemTypeOK /\ TypeOK
  BY DEF SystemInv, PoolInv
<1>1. CASE UNCHANGED <<retry, system>>
  BY <1>0, <1>1 DEF SystemTypeOK, system, retryLog
<1>2. ASSUME NEW t \in Tasks,
             Enqueue(t) \/ EnqueueWrites(t) \/ EnqueueReturns(t) \/ EnqueueFails(t)
      PROVE  SystemTypeOK'
  <2>1. /\ UNCHANGED <<retry, appended, moves, now, deliveries>>
        /\ \E state \in {"none", "producing", "written", "id", "error"} :
              SetCall(t, state)
    BY <1>2 DEF Enqueue, EnqueueWrites, EnqueueReturns, EnqueueFails, Arrive,
                vars, topics, retryLog
  <2> QED
    BY <1>0, <2>1 DEF SystemTypeOK, SetCall
<1>3. ASSUME NEW w \in Workers, WorkerActs(w)
      PROVE  SystemTypeOK'
  <2>1. WorkerEffect /\ Stamp /\ Count /\ UNCHANGED <<call, now>>
    BY <1>3, WorkerEffects DEF WorkerActs, Noted, SystemInv
  <2>2. deliveries' \in [Offsets -> Nat]
    BY <1>0, <2>1 DEF SystemTypeOK, Count
  <2> QED
    BY <1>0, <2>1, <2>2, StampKeepsTypes DEF SystemTypeOK
<1>4. ASSUME NEW o \in Offsets, GiveUp(o)
      PROVE  SystemTypeOK'
  BY <1>1, <1>4 DEF GiveUp, topics
<1>5. ASSUME NEW b \in RetryBuckets, NEW i \in DOMAIN retry[b], Move(b, i)
      PROVE  SystemTypeOK'
  <2>1. moves' = [moves EXCEPT ![b][i] = @ + 1]
        /\ UNCHANGED <<retry, call, appended, now, deliveries>>
    BY <1>5 DEF Move
  <2>2. i \in DOMAIN moves[b] /\ moves[b] \in Seq(Nat)
    BY <1>0 DEF SystemTypeOK, TypeOK
  <2>3. /\ [moves[b] EXCEPT ![i] = @ + 1] \in Seq(Nat)
        /\ Len([moves[b] EXCEPT ![i] = @ + 1]) = Len(moves[b])
    BY <2>2
  <2>4. moves' = [moves EXCEPT ![b] = [moves[b] EXCEPT ![i] = @ + 1]]
    BY <1>0, <2>1 DEF SystemTypeOK
  <2> QED
    BY <1>0, <2>1, <2>3, <2>4 DEF SystemTypeOK
<1>6. CASE Tick
  BY <1>0, <1>6 DEF Tick, SystemTypeOK, vars, topics, retryLog
<1> QED
  BY <1>1, <1>2, <1>3, <1>4, <1>5, <1>6
    DEF SystemNext, allVars, vars, topics

\* The ready topic grows by a client's record or by a retry of one.
LEMMA ReadyIsWrittenTo ==
    ASSUME SystemInv, [SystemNext]_allVars
    PROVE  \/ ready' = ready
           \/ \E t \in Tasks : EnqueueWrites(t)
           \/ \E b \in RetryBuckets : \E i \in DOMAIN retry[b] : Move(b, i)
<1>1. ASSUME NEW w \in Workers, WorkerActs(w)
      PROVE  ready' = ready
  BY <1>1, WorkerEffects
    DEF WorkerActs, SystemInv, WorkerEffect, Quiet, Retried, Buried, Succeeded,
        Archived, topics
<1> QED
  BY <1>1 DEF SystemNext, allVars, vars, topics, Enqueue, EnqueueReturns,
              EnqueueFails, GiveUp, Tick

LEMMA RecordsStayClients ==
    ASSUME SystemInv, [SystemNext]_allVars
    PROVE  RecordsAreClients'
<1>0. ready \in Seq(Envelope) /\ RecordsAreClients
  BY DEF SystemInv, PoolInv, TypeOK
<1>1. CASE ready' = ready
  BY <1>0, <1>1 DEF RecordsAreClients
<1>2. ASSUME NEW e \in Envelope, ready' = Append(ready, e),
             e.retries = ClientRetries, e.retried <= ClientRetries, e.wellFormed
      PROVE  RecordsAreClients'
  BY <1>0, <1>2, ReadyGrows DEF RecordsAreClients
<1>3. ASSUME NEW t \in Tasks, EnqueueWrites(t)
      PROVE  RecordsAreClients'
  <2>1. NewTaskEnvelope(t) \in Envelope
    BY SystemAssumption, WorkerAssumption DEF NewTaskEnvelope, Envelope
  <2> QED
    BY <1>2, <1>3, <2>1, SystemAssumption
      DEF EnqueueWrites, Arrive, NewTaskEnvelope
<1>4. ASSUME NEW b \in RetryBuckets, NEW i \in DOMAIN retry[b], Move(b, i)
      PROVE  RecordsAreClients'
  <2>1. retry[b][i].retried <= ClientRetries
    BY RetriesAreClients, SystemAssumption
  <2> QED
    BY <1>2, <1>4, <2>1, RetriesAreClients DEF Move
<1> QED
  BY <1>1, <1>3, <1>4, ReadyIsWrittenTo

LEMMA CallsStayKept ==
    ASSUME SystemInv, [SystemNext]_allVars
    PROVE  CallsAreKept'
<1>0. ready \in Seq(Envelope) /\ CallsAreKept
      /\ call \in [Tasks -> {"none", "producing", "written", "id", "error"}]
  BY DEF SystemInv, PoolInv, TypeOK, SystemTypeOK
<1>1. ASSUME ready' = ready, call' = call
      PROVE  CallsAreKept'
  BY <1>0, <1>1 DEF CallsAreKept, CopiesOf
<1>2. ASSUME NEW t \in Tasks, Enqueue(t) \/ EnqueueReturns(t) \/ EnqueueFails(t)
      PROVE  CallsAreKept'
  <2>1. ready' = ready
    BY <1>2 DEF Enqueue, EnqueueReturns, EnqueueFails, vars, topics
  <2>2. \A s \in Tasks : CopiesOf(s)' = CopiesOf(s)
    BY <2>1 DEF CopiesOf
  <2>3. \/ call[t] = "none" /\ call'[t] \in {"producing", "error"}
        \/ call[t] = "written" /\ call'[t] = "id"
        \/ call'[t] = "error"
    BY <1>0, <1>2 DEF Enqueue, EnqueueReturns, EnqueueFails, SetCall
  <2>4. \A s \in Tasks : s # t => call'[s] = call[s]
    BY <1>0, <1>2 DEF Enqueue, EnqueueReturns, EnqueueFails, SetCall
  <2> QED
    BY <1>0, <2>2, <2>3, <2>4 DEF CallsAreKept
<1>3. ASSUME NEW t \in Tasks, EnqueueWrites(t)
      PROVE  CallsAreKept'
  <2> DEFINE e == NewTaskEnvelope(t)
  <2>1. e \in Envelope /\ e.id = t
    BY SystemAssumption, WorkerAssumption DEF NewTaskEnvelope, Envelope
  <2>2. ready' = Append(ready, e)
    BY <1>3 DEF EnqueueWrites, Arrive
  <2> HIDE DEF e
  <2>3. \A s \in Tasks :
          CopiesOf(s)' =
            CopiesOf(s) \cup (IF e.id = s THEN {Len(ready) + 1} ELSE {})
    BY <1>0, <2>1, <2>2, ReadyGrows
  <2>4. call'[t] = "written" /\ \A s \in Tasks : s # t => call'[s] = call[s]
    BY <1>0, <1>3 DEF EnqueueWrites, SetCall
  <2> QED
    BY <1>0, <2>1, <2>3, <2>4 DEF CallsAreKept
<1>4. ASSUME NEW w \in Workers, WorkerActs(w)
      PROVE  CallsAreKept'
  <2>1. WorkerEffect
    BY <1>4, WorkerEffects DEF WorkerActs, SystemInv
  <2>2. ready' = ready
    BY <2>1 DEF WorkerEffect, Quiet, Retried, Buried, Succeeded, Archived, topics
  <2> QED
    BY <1>1, <1>4, <2>2 DEF WorkerActs, Noted
<1>5. ASSUME NEW b \in RetryBuckets, NEW i \in DOMAIN retry[b], Move(b, i)
      PROVE  CallsAreKept'
  <2> DEFINE e == retry[b][i]
  <2>1. e \in Envelope /\ CopiesOf(e.id) # {}
    BY RetriesAreClients
  <2>2. ready' = Append(ready, e) /\ call' = call
    BY <1>5 DEF Move
  <2> HIDE DEF e
  <2>3. \A s \in Tasks :
          CopiesOf(s)' =
            CopiesOf(s) \cup (IF e.id = s THEN {Len(ready) + 1} ELSE {})
    BY <1>0, <2>1, <2>2, ReadyGrows
  <2> QED
    BY <1>0, <2>1, <2>2, <2>3 DEF CallsAreKept
<1> QED
  BY <1>1, <1>2, <1>3, <1>4, <1>5
    DEF SystemNext, allVars, system, vars, topics, GiveUp, Tick

LEMMA SystemInvIsKept ==
    ASSUME SystemInv, [SystemNext]_allVars
    PROVE  SystemInv'
<1>1. PoolInv'
  BY StepsArePoolSteps, PoolInvIsKept DEF SystemInv
<1> QED
  BY <1>1, SystemTypeIsKept, RecordsStayClients, CallsStayKept DEF SystemInv

LEMMA SystemInitIsGood ==
    ASSUME SystemInit
    PROVE  SystemInv
<1>1. PoolInv
  BY InitIsGood DEF SystemInit, IInv
<1>2. ready = <<>> /\ retry = [b \in RetryBuckets |-> <<>>]
  BY DEF SystemInit, Init
<1>3. SystemTypeOK
  BY <1>2 DEF SystemInit, SystemTypeOK
<1>4. RecordsAreClients /\ CallsAreKept
  BY <1>2 DEF SystemInit, RecordsAreClients, CallsAreKept, CopiesOf
<1> QED
  BY <1>1, <1>3, <1>4 DEF SystemInv

-----------------------------------------------------------------------------
(* The refinement mapping, attempt by attempt.                             *)

Is(e, t, k) == e.id = t /\ e.retried = k

IsStarted(t, k) ==
    \/ \E o \in DOMAIN ready : Is(ready[o], t, k)
    \/ \E b \in RetryBuckets : \E i \in DOMAIN retry[b] : Is(retry[b][i], t, k)

IsOwed(t, k) ==
    \/ \E o \in DOMAIN ready : Is(ready[o], t, k) /\ o \notin archived
    \/ \E b \in RetryBuckets : \E i \in DOMAIN retry[b] :
          Is(retry[b][i], t, k) /\ moves[b][i] = 0

IsEnded(t, k) ==
    \/ \E o \in DOMAIN ready : Is(ready[o], t, k) /\ o \in completed
    \/ \E b \in RetryBuckets : \E i \in DOMAIN retry[b] :
          retry[b][i].id = t /\ retry[b][i].retried - 1 = k
    \/ \E i \in DOMAIN dlq : Is(dlq[i], t, k)

LEMMA RetriesOfTask ==
    ASSUME NEW t
    PROVE  /\ \A at \in RetriesOf(t) :
                 /\ at[1] \in RetryBuckets /\ at[2] \in DOMAIN retry[at[1]]
                 /\ retry[at[1]][at[2]].id = t
           /\ \A b \in RetryBuckets : \A i \in DOMAIN retry[b] :
                 retry[b][i].id = t =>
                    /\ <<b, i>> \in RetriesOf(t)
                    /\ <<b, i>>[1] = b /\ <<b, i>>[2] = i
  BY DEF RetriesOf, RetryOffsets

LEMMA Mapping ==
    ASSUME NEW t \in Tasks, NEW k
    PROVE  /\ k \in Started[t] <=> IsStarted(t, k)
           /\ k \in Owed[t] <=> IsOwed(t, k)
           /\ k \in Ended[t] <=> IsEnded(t, k)
<1>1. k \in Started[t] <=>
        \/ \E o \in CopiesOf(t) : k = ready[o].retried
        \/ \E at \in RetriesOf(t) : k = retry[at[1]][at[2]].retried
  BY DEF Started, Records
<1>2. k \in Owed[t] <=>
        \/ \E o \in CopiesOf(t) : o \notin archived /\ k = ready[o].retried
        \/ \E at \in RetriesOf(t) :
              at[2] \in Waiting(at[1]) /\ k = retry[at[1]][at[2]].retried
  BY DEF Owed
<1>3. k \in Ended[t] <=>
        \/ \E o \in CopiesOf(t) : o \in completed /\ k = ready[o].retried
        \/ \E at \in RetriesOf(t) : k = retry[at[1]][at[2]].retried - 1
        \/ \E i \in DeadLettersOf(t) : k = dlq[i].retried
  BY DEF Ended
<1>4. k \in Started[t] <=> IsStarted(t, k)
  <2>1. ASSUME NEW at \in RetriesOf(t),
               k = retry[at[1]][at[2]].retried
        PROVE  \E b \in RetryBuckets : \E i \in DOMAIN retry[b] :
                  Is(retry[b][i], t, k)
    BY <2>1, RetriesOfTask DEF Is
  <2>2. ASSUME NEW b \in RetryBuckets, NEW i \in DOMAIN retry[b],
               Is(retry[b][i], t, k)
        PROVE  \E at \in RetriesOf(t) :
                  k = retry[at[1]][at[2]].retried
    <3>1. <<b, i>> \in RetriesOf(t) /\ <<b, i>>[1] = b /\ <<b, i>>[2] = i
      BY <2>2, RetriesOfTask DEF Is
    <3> QED
      BY <2>2, <3>1 DEF Is
  <2> QED
    BY <1>1, <2>1, <2>2 DEF IsStarted, Is, CopiesOf
<1>5. k \in Owed[t] <=> IsOwed(t, k)
  <2>1. ASSUME NEW at \in RetriesOf(t),
               at[2] \in Waiting(at[1]) /\ k = retry[at[1]][at[2]].retried
        PROVE  \E b \in RetryBuckets : \E i \in DOMAIN retry[b] :
                  Is(retry[b][i], t, k) /\ moves[b][i] = 0
    BY <2>1, RetriesOfTask DEF Is, Waiting
  <2>2. ASSUME NEW b \in RetryBuckets, NEW i \in DOMAIN retry[b],
               Is(retry[b][i], t, k) /\ moves[b][i] = 0
        PROVE  \E at \in RetriesOf(t) :
                  at[2] \in Waiting(at[1]) /\ k = retry[at[1]][at[2]].retried
    <3>1. <<b, i>> \in RetriesOf(t) /\ <<b, i>>[1] = b /\ <<b, i>>[2] = i
      BY <2>2, RetriesOfTask DEF Is
    <3> QED
      BY <2>2, <3>1 DEF Is, Waiting
  <2> QED
    BY <1>2, <2>1, <2>2 DEF IsOwed, Is, CopiesOf
<1>6. k \in Ended[t] <=> IsEnded(t, k)
  <2>1. ASSUME NEW at \in RetriesOf(t),
               k = retry[at[1]][at[2]].retried - 1
        PROVE  \E b \in RetryBuckets : \E i \in DOMAIN retry[b] :
                  retry[b][i].id = t /\ retry[b][i].retried - 1 = k
    BY <2>1, RetriesOfTask DEF Is
  <2>2. ASSUME NEW b \in RetryBuckets, NEW i \in DOMAIN retry[b],
               retry[b][i].id = t /\ retry[b][i].retried - 1 = k
        PROVE  \E at \in RetriesOf(t) :
                  k = retry[at[1]][at[2]].retried - 1
    <3>1. <<b, i>> \in RetriesOf(t) /\ <<b, i>>[1] = b /\ <<b, i>>[2] = i
      BY <2>2, RetriesOfTask DEF Is
    <3> QED
      BY <2>2, <3>1 DEF Is
  <2> QED
    BY <1>3, <2>1, <2>2 DEF IsEnded, Is, CopiesOf, DeadLettersOf
<1> QED
  BY <1>4, <1>5, <1>6

LEMMA RetriesOfTaskNext ==
    ASSUME NEW t
    PROVE  /\ \A at \in RetriesOf(t)' :
                 /\ at[1] \in RetryBuckets /\ at[2] \in DOMAIN retry'[at[1]]
                 /\ retry'[at[1]][at[2]].id = t
           /\ \A b \in RetryBuckets : \A i \in DOMAIN retry'[b] :
                 retry'[b][i].id = t =>
                    /\ <<b, i>> \in RetriesOf(t)'
                    /\ <<b, i>>[1] = b /\ <<b, i>>[2] = i
  BY DEF RetriesOf, RetryOffsets

\* The same after a step.
LEMMA MappingNext ==
    ASSUME NEW t \in Tasks, NEW k
    PROVE  /\ k \in Started'[t] <=> IsStarted(t, k)'
           /\ k \in Owed'[t] <=> IsOwed(t, k)'
           /\ k \in Ended'[t] <=> IsEnded(t, k)'
<1>1. k \in Started'[t] <=>
        \/ \E o \in CopiesOf(t)' : k = ready'[o].retried
        \/ \E at \in RetriesOf(t)' : k = retry'[at[1]][at[2]].retried
  BY DEF Started, Records
<1>2. k \in Owed'[t] <=>
        \/ \E o \in CopiesOf(t)' : o \notin archived' /\ k = ready'[o].retried
        \/ \E at \in RetriesOf(t)' :
              at[2] \in {i \in DOMAIN retry'[at[1]] : moves'[at[1]][i] = 0}
              /\ k = retry'[at[1]][at[2]].retried
  BY DEF Owed, Waiting
<1>3. k \in Ended'[t] <=>
        \/ \E o \in CopiesOf(t)' : o \in completed' /\ k = ready'[o].retried
        \/ \E at \in RetriesOf(t)' : k = retry'[at[1]][at[2]].retried - 1
        \/ \E i \in DeadLettersOf(t)' : k = dlq'[i].retried
  BY DEF Ended
<1>4. k \in Started'[t] <=> IsStarted(t, k)'
  <2>1. ASSUME NEW at \in RetriesOf(t)',
               k = retry'[at[1]][at[2]].retried
        PROVE  \E b \in RetryBuckets : \E i \in DOMAIN retry'[b] :
                  Is(retry'[b][i], t, k)
    BY <2>1, RetriesOfTaskNext DEF Is
  <2>2. ASSUME NEW b \in RetryBuckets, NEW i \in DOMAIN retry'[b],
               Is(retry'[b][i], t, k)
        PROVE  \E at \in RetriesOf(t)' :
                  k = retry'[at[1]][at[2]].retried
    <3>1. <<b, i>> \in RetriesOf(t)' /\ <<b, i>>[1] = b /\ <<b, i>>[2] = i
      BY <2>2, RetriesOfTaskNext DEF Is
    <3> QED
      BY <2>2, <3>1 DEF Is
  <2> QED
    BY <1>1, <2>1, <2>2 DEF IsStarted, Is, CopiesOf
<1>5. k \in Owed'[t] <=> IsOwed(t, k)'
  <2>1. ASSUME NEW at \in RetriesOf(t)',
               at[2] \in {j \in DOMAIN retry'[at[1]] : moves'[at[1]][j] = 0} /\ k = retry'[at[1]][at[2]].retried
        PROVE  \E b \in RetryBuckets : \E i \in DOMAIN retry'[b] :
                  Is(retry'[b][i], t, k) /\ moves'[b][i] = 0
    BY <2>1, RetriesOfTaskNext DEF Is
  <2>2. ASSUME NEW b \in RetryBuckets, NEW i \in DOMAIN retry'[b],
               Is(retry'[b][i], t, k) /\ moves'[b][i] = 0
        PROVE  \E at \in RetriesOf(t)' :
                  at[2] \in {j \in DOMAIN retry'[at[1]] : moves'[at[1]][j] = 0} /\ k = retry'[at[1]][at[2]].retried
    <3>1. <<b, i>> \in RetriesOf(t)' /\ <<b, i>>[1] = b /\ <<b, i>>[2] = i
      BY <2>2, RetriesOfTaskNext DEF Is
    <3> QED
      BY <2>2, <3>1 DEF Is
  <2> QED
    BY <1>2, <2>1, <2>2 DEF IsOwed, Is, CopiesOf
<1>6. k \in Ended'[t] <=> IsEnded(t, k)'
  <2>1. ASSUME NEW at \in RetriesOf(t)',
               k = retry'[at[1]][at[2]].retried - 1
        PROVE  \E b \in RetryBuckets : \E i \in DOMAIN retry'[b] :
                  retry'[b][i].id = t /\ retry'[b][i].retried - 1 = k
    BY <2>1, RetriesOfTaskNext DEF Is
  <2>2. ASSUME NEW b \in RetryBuckets, NEW i \in DOMAIN retry'[b],
               retry'[b][i].id = t /\ retry'[b][i].retried - 1 = k
        PROVE  \E at \in RetriesOf(t)' :
                  k = retry'[at[1]][at[2]].retried - 1
    <3>1. <<b, i>> \in RetriesOf(t)' /\ <<b, i>>[1] = b /\ <<b, i>>[2] = i
      BY <2>2, RetriesOfTaskNext DEF Is
    <3> QED
      BY <2>2, <3>1 DEF Is
  <2> QED
    BY <1>3, <2>1, <2>2 DEF IsEnded, Is, CopiesOf, DeadLettersOf
<1> QED
  BY <1>4, <1>5, <1>6

LEMMA FunctionsOfTasks ==
    /\ Started = [t \in Tasks |-> Started[t]] /\ Started' = [t \in Tasks |-> Started'[t]]
    /\ Owed = [t \in Tasks |-> Owed[t]] /\ Owed' = [t \in Tasks |-> Owed'[t]]
    /\ Ended = [t \in Tasks |-> Ended[t]] /\ Ended' = [t \in Tasks |-> Ended'[t]]
<1>1. Started = [t \in Tasks |-> Started[t]] /\ Started' = [t \in Tasks |-> Started'[t]]
  BY DEF Started
<1>2. Owed = [t \in Tasks |-> Owed[t]] /\ Owed' = [t \in Tasks |-> Owed'[t]]
  BY DEF Owed
<1>3. Ended = [t \in Tasks |-> Ended[t]] /\ Ended' = [t \in Tasks |-> Ended'[t]]
  BY DEF Ended
<1> QED
  BY <1>1, <1>2, <1>3

LEMMA SetsStay ==
    ASSUME NEW F, NEW G,
           F = [s \in Tasks |-> F[s]], G = [s \in Tasks |-> G[s]],
           \A s \in Tasks : \A j : j \in G[s] <=> j \in F[s]
    PROVE  G = F
<1>1. \A s \in Tasks : G[s] = F[s]
  OBVIOUS
<1> QED
  BY <1>1

\* The mappings change as the attempts do.
LEMMA StartedStays ==
    ASSUME \A s \in Tasks : \A j : IsStarted(s, j)' <=> IsStarted(s, j)
    PROVE  Started' = Started
<1>1. \A s \in Tasks : \A j : j \in Started'[s] <=> j \in Started[s]
  BY Mapping, MappingNext
<1> QED
  BY <1>1, FunctionsOfTasks, SetsStay

LEMMA StartedGrows ==
    ASSUME NEW t \in Tasks, NEW k,
           \A s \in Tasks : \A j :
              IsStarted(s, j)' <=> IsStarted(s, j) \/ (s = t /\ j = k)
    PROVE  Started' = [Started EXCEPT ![t] = @ \cup {k}]
<1>1. \A s \in Tasks : \A j :
         j \in Started'[s] <=> j \in Started[s] \/ (s = t /\ j = k)
  BY Mapping, MappingNext
<1>2. \A s \in Tasks :
         Started'[s] = IF s = t THEN Started[s] \cup {k} ELSE Started[s]
  BY <1>1
<1> QED
  BY <1>2, FunctionsOfTasks

LEMMA OwedStays ==
    ASSUME \A s \in Tasks : \A j : IsOwed(s, j)' <=> IsOwed(s, j)
    PROVE  Owed' = Owed
<1>1. \A s \in Tasks : \A j : j \in Owed'[s] <=> j \in Owed[s]
  BY Mapping, MappingNext
<1> QED
  BY <1>1, FunctionsOfTasks, SetsStay

LEMMA OwedGrows ==
    ASSUME NEW t \in Tasks, NEW k,
           \A s \in Tasks : \A j :
              IsOwed(s, j)' <=> IsOwed(s, j) \/ (s = t /\ j = k)
    PROVE  Owed' = [Owed EXCEPT ![t] = @ \cup {k}]
<1>1. \A s \in Tasks : \A j :
         j \in Owed'[s] <=> j \in Owed[s] \/ (s = t /\ j = k)
  BY Mapping, MappingNext
<1>2. \A s \in Tasks :
         Owed'[s] = IF s = t THEN Owed[s] \cup {k} ELSE Owed[s]
  BY <1>1
<1> QED
  BY <1>2, FunctionsOfTasks

LEMMA EndedStays ==
    ASSUME \A s \in Tasks : \A j : IsEnded(s, j)' <=> IsEnded(s, j)
    PROVE  Ended' = Ended
<1>1. \A s \in Tasks : \A j : j \in Ended'[s] <=> j \in Ended[s]
  BY Mapping, MappingNext
<1> QED
  BY <1>1, FunctionsOfTasks, SetsStay

LEMMA EndedGrows ==
    ASSUME NEW t \in Tasks, NEW k,
           \A s \in Tasks : \A j :
              IsEnded(s, j)' <=> IsEnded(s, j) \/ (s = t /\ j = k)
    PROVE  Ended' = [Ended EXCEPT ![t] = @ \cup {k}]
<1>1. \A s \in Tasks : \A j :
         j \in Ended'[s] <=> j \in Ended[s] \/ (s = t /\ j = k)
  BY Mapping, MappingNext
<1>2. \A s \in Tasks :
         Ended'[s] = IF s = t THEN Ended[s] \cup {k} ELSE Ended[s]
  BY <1>1
<1> QED
  BY <1>2, FunctionsOfTasks

-----------------------------------------------------------------------------
(* What the steps do to the attempts.                                      *)

\* Everything a step leaves alone.
LEMMA QuietKeepsAttempts ==
    ASSUME Quiet, SystemTypeOK, TypeOK,
           \A b \in RetryBuckets : \A i \in DOMAIN retry[b] : moves'[b][i] = moves[b][i]
    PROVE  Started' = Started /\ Owed' = Owed /\ Ended' = Ended
<1> USE DEF Quiet, topics
<1>1. \A s \in Tasks : \A j : IsStarted(s, j)' <=> IsStarted(s, j)
  BY DEF IsStarted
<1>2. \A s \in Tasks : \A j : IsOwed(s, j)' <=> IsOwed(s, j)
  BY DEF IsOwed
<1>3. \A s \in Tasks : \A j : IsEnded(s, j)' <=> IsEnded(s, j)
  BY DEF IsEnded
<1> QED
  BY <1>1, <1>2, <1>3, StartedStays, OwedStays, EndedStays

\* A record on the ready topic starts its attempt, which is owed from then on.
LEMMA ReadyBeginsAttempt ==
    ASSUME SystemInv, NEW e \in Envelope, ready' = Append(ready, e),
           UNCHANGED <<retry, dlq, archived, completed>>,
           \A b \in RetryBuckets : \A i \in DOMAIN retry[b] :
              /\ moves'[b][i] = 0 => moves[b][i] = 0
              /\ moves[b][i] = 0 =>
                    moves'[b][i] = 0 \/ Is(retry[b][i], e.id, e.retried)
    PROVE  /\ Started' = [Started EXCEPT ![e.id] = @ \cup {e.retried}]
           /\ Owed' = [Owed EXCEPT ![e.id] = @ \cup {e.retried}]
           /\ Ended' = Ended
<1> DEFINE n == Len(ready) + 1
<1>0. /\ e.id \in Tasks
      /\ archived \subseteq DOMAIN ready /\ completed \subseteq DOMAIN ready
      /\ DOMAIN ready' = DOMAIN ready \cup {n} /\ n \notin DOMAIN ready
      /\ ready'[n] = e
      /\ \A o \in DOMAIN ready : ready'[o] = ready[o]
  <2>1. ready \in Seq(Envelope)
    BY DEF SystemInv, PoolInv, TypeOK
  <2> QED
    BY <2>1, ReadyGrows DEF SystemInv, PoolInv, OffsetsAreWritten, Envelope
<1> HIDE DEF n
<1>1. \A s \in Tasks : \A j :
         IsStarted(s, j)' <=> IsStarted(s, j) \/ (s = e.id /\ j = e.retried)
  BY <1>0 DEF IsStarted, Is
<1>2. \A s \in Tasks : \A j :
         IsOwed(s, j)' <=> IsOwed(s, j) \/ (s = e.id /\ j = e.retried)
  <2>1. ASSUME NEW s \in Tasks, NEW j, IsOwed(s, j)'
        PROVE  IsOwed(s, j) \/ (s = e.id /\ j = e.retried)
    BY <1>0, <2>1 DEF IsOwed, Is
  <2>2. ASSUME NEW s \in Tasks, NEW j, IsOwed(s, j)
        PROVE  IsOwed(s, j)' \/ (s = e.id /\ j = e.retried)
    BY <1>0, <2>2 DEF IsOwed, Is
  <2>3. IsOwed(e.id, e.retried)'
    BY <1>0 DEF IsOwed, Is
  <2> QED
    BY <2>1, <2>2, <2>3
<1>3. \A s \in Tasks : \A j : IsEnded(s, j)' <=> IsEnded(s, j)
  BY <1>0 DEF IsEnded, Is
<1> QED
  BY <1>0, <1>1, <1>2, <1>3, StartedGrows, OwedGrows, EndedStays

LEMMA OwedShrinks ==
    ASSUME NEW t \in Tasks, NEW k,
           \A s \in Tasks : \A j : IsOwed(s, j)' => IsOwed(s, j),
           \A s \in Tasks : \A j :
              IsOwed(s, j) => IsOwed(s, j)' \/ (s = t /\ j = k)
    PROVE  \/ Owed' = Owed
           \/ k \in Owed[t] /\ Owed' = [Owed EXCEPT ![t] = @ \ {k}]
<1>1. CASE IsOwed(t, k) /\ ~IsOwed(t, k)'
  <2>1. \A s \in Tasks : \A j :
           j \in Owed'[s] <=> j \in Owed[s] /\ ~(s = t /\ j = k)
    BY <1>1, Mapping, MappingNext
  <2>2. \A s \in Tasks : Owed'[s] = IF s = t THEN Owed[s] \ {k} ELSE Owed[s]
    BY <2>1
  <2> QED
    BY <1>1, <2>2, FunctionsOfTasks, Mapping
<1>2. CASE IsOwed(t, k) => IsOwed(t, k)'
  BY <1>2, OwedStays
<1> QED
  BY <1>1, <1>2

\* What the broker notes of a retry that is written.
LEMMA RetryIsStamped ==
    ASSUME SystemInv, NEW o \in Offsets, Retried(o), Stamp
    PROVE  LET b == BucketOf(ready[o])
               n == Len(retry[b]) + 1
           IN  /\ b \in RetryBuckets
               /\ RetryOf(ready[o]) \in Envelope
               /\ \A c \in RetryBuckets : c # b =>
                     /\ retry'[c] = retry[c]
                     /\ moves'[c] = moves[c] /\ appended'[c] = appended[c]
               /\ DOMAIN retry'[b] = DOMAIN retry[b] \cup {n}
               /\ n \notin DOMAIN retry[b]
               /\ retry'[b][n] = RetryOf(ready[o])
               /\ moves'[b] = Append(moves[b], 0)
               /\ appended'[b] = Append(appended[b], now)
               /\ moves'[b][n] = 0 /\ appended'[b][n] = now
               /\ \A i \in DOMAIN retry[b] :
                     /\ retry'[b][i] = retry[b][i]
                     /\ moves'[b][i] = moves[b][i]
                     /\ appended'[b][i] = appended[b][i]
<1> DEFINE b == BucketOf(ready[o])
           n == Len(retry[b]) + 1
           r == RetryOf(ready[o])
<1>1. b \in RetryBuckets /\ r \in Envelope
  BY RetryIsDue DEF Retried
<1>2. /\ retry[b] \in Seq(Envelope) /\ moves[b] \in Seq(Nat) /\ appended[b] \in Seq(Nat)
      /\ Len(moves[b]) = Len(retry[b]) /\ Len(appended[b]) = Len(retry[b]) /\ now \in Nat
      /\ retry \in [RetryBuckets -> Seq(Envelope)]
  BY <1>1 DEF SystemInv, PoolInv, TypeOK, SystemTypeOK
<1>3. retry' = [retry EXCEPT ![b] = Append(@, r)]
  BY DEF Retried
<1> HIDE DEF b, r
<1>4. retry'[b] = Append(retry[b], r) /\ retry'[b] # retry[b]
  <2>1. Len(Append(retry[b], r)) = Len(retry[b]) + 1
    BY <1>1, <1>2
  <2> QED
    BY <1>1, <1>2, <1>3, <2>1
<1>5. /\ moves'[b] = Append(moves[b], 0) /\ appended'[b] = Append(appended[b], now)
      /\ \A c \in RetryBuckets : c # b =>
            /\ retry'[c] = retry[c]
            /\ moves'[c] = moves[c] /\ appended'[c] = appended[c]
  BY <1>1, <1>2, <1>3, <1>4 DEF Stamp
<1>6. /\ DOMAIN retry'[b] = DOMAIN retry[b] \cup {n} /\ n \notin DOMAIN retry[b]
      /\ retry'[b][n] = r /\ \A i \in DOMAIN retry[b] : retry'[b][i] = retry[b][i]
  BY <1>1, <1>2, <1>4
<1>7. /\ moves'[b][n] = 0 /\ \A i \in DOMAIN retry[b] : moves'[b][i] = moves[b][i]
  <2>1. DOMAIN moves[b] = DOMAIN retry[b] /\ n = Len(moves[b]) + 1
    BY <1>2
  <2> QED
    BY <1>2, <1>5, <2>1, AppendKeeps
<1>8. /\ appended'[b][n] = now
      /\ \A i \in DOMAIN retry[b] : appended'[b][i] = appended[b][i]
  <2> DEFINE a == appended[b]
  <2>1. /\ a \in Seq(Nat) /\ now \in Nat /\ appended'[b] = Append(a, now)
        /\ DOMAIN a = DOMAIN retry[b] /\ n = Len(a) + 1
    BY <1>2, <1>5
  <2> HIDE DEF a, n
  <2>2. /\ Append(a, now)[n] = now
        /\ \A i \in DOMAIN a : Append(a, now)[i] = a[i]
    BY <2>1, AppendKeeps
  <2> QED
    BY <2>1, <2>2 DEF a
<1> QED
  BY <1>1, <1>5, <1>6, <1>7, <1>8 DEF b, r

\* A retry ends its attempt and starts the next one.
LEMMA RetryEndsAttempt ==
    ASSUME SystemInv, NEW o \in Offsets, Retried(o), Stamp
    PROVE  LET t == ready[o].id
               k == ready[o].retried
           IN  /\ Started' = [Started EXCEPT ![t] = @ \cup {k + 1}]
               /\ Owed' = [Owed EXCEPT ![t] = @ \cup {k + 1}]
               /\ Ended' = [Ended EXCEPT ![t] = @ \cup {k}]
<1> DEFINE t == ready[o].id
           k == ready[o].retried
           b == BucketOf(ready[o])
           n == Len(retry[b]) + 1
           r == RetryOf(ready[o])
<1>0. t \in Tasks /\ k \in Nat /\ r.id = t /\ r.retried = k + 1
  BY DEF Retried, Envelope, RetryOf
<1>1. /\ b \in RetryBuckets
      /\ \A c \in RetryBuckets : c # b => retry'[c] = retry[c] /\ moves'[c] = moves[c]
      /\ DOMAIN retry'[b] = DOMAIN retry[b] \cup {n}
      /\ n \notin DOMAIN retry[b]
      /\ retry'[b][n] = r /\ moves'[b][n] = 0
      /\ \A i \in DOMAIN retry[b] :
            retry'[b][i] = retry[b][i] /\ moves'[b][i] = moves[b][i]
  BY RetryIsStamped
<1>2. UNCHANGED <<ready, dlq, archived, completed>>
  BY DEF Retried
<1> HIDE DEF t, k, b, n, r
<1>3. \A c \in RetryBuckets : \A i :
        i \in DOMAIN retry'[c] <=> i \in DOMAIN retry[c] \/ (c = b /\ i = n)
  BY <1>1
<1>4. \A c \in RetryBuckets : \A i \in DOMAIN retry[c] :
        retry'[c][i] = retry[c][i] /\ moves'[c][i] = moves[c][i]
  BY <1>1
<1>5. \A s \in Tasks : \A j :
         IsStarted(s, j)' <=> IsStarted(s, j) \/ (s = t /\ j = k + 1)
  BY <1>0, <1>1, <1>2, <1>3, <1>4 DEF IsStarted, Is
<1>6. \A s \in Tasks : \A j :
         IsOwed(s, j)' <=> IsOwed(s, j) \/ (s = t /\ j = k + 1)
  BY <1>0, <1>1, <1>2, <1>3, <1>4 DEF IsOwed, Is
<1>7. \A s \in Tasks : \A j :
         IsEnded(s, j)' <=> IsEnded(s, j) \/ (s = t /\ j = k)
  BY <1>0, <1>1, <1>2, <1>3, <1>4 DEF IsEnded, Is
<1>8. /\ Started' = [Started EXCEPT ![t] = @ \cup {k + 1}]
      /\ Owed' = [Owed EXCEPT ![t] = @ \cup {k + 1}]
      /\ Ended' = [Ended EXCEPT ![t] = @ \cup {k}]
  BY <1>0, <1>5, <1>6, <1>7, StartedGrows, OwedGrows, EndedGrows
<1> QED
  BY <1>8 DEF t, k

\* A dead letter and a success end it.
LEMMA BuryEndsAttempt ==
    ASSUME SystemInv, NEW o \in Offsets, Buried(o), moves' = moves
    PROVE  LET t == ready[o].id
               k == ready[o].retried
           IN  /\ Started' = Started /\ Owed' = Owed
               /\ Ended' = [Ended EXCEPT ![t] = @ \cup {k}]
               /\ Completed' = Completed /\ Dead' = Dead \cup {t}
<1> DEFINE t == ready[o].id
           k == ready[o].retried
           n == Len(dlq) + 1
<1>0. t \in Tasks
  BY DEF Buried, Envelope
<1>1. /\ UNCHANGED <<ready, retry, archived, completed>>
      /\ DOMAIN dlq' = DOMAIN dlq \cup {n}
      /\ dlq'[n] = ready[o]
      /\ \A i \in DOMAIN dlq : dlq'[i] = dlq[i]
  <2>1. dlq \in Seq(Envelope) /\ ready[o] \in Envelope /\ dlq' = Append(dlq, ready[o])
    BY DEF SystemInv, PoolInv, TypeOK, Buried
  <2>2. n \notin DOMAIN dlq /\ \A i \in DOMAIN dlq : Append(dlq, ready[o])[i] = dlq[i]
    BY <2>1
  <2> QED
    BY <2>1, <2>2, AppendKeeps DEF Buried
<1>2. Is(ready[o], t, k)
  BY DEF Is
<1> HIDE DEF t, k, n
<1>3. \A s \in Tasks : \A j : IsStarted(s, j)' <=> IsStarted(s, j)
  BY <1>1 DEF IsStarted
<1>4. \A s \in Tasks : \A j : IsOwed(s, j)' <=> IsOwed(s, j)
  BY <1>1 DEF IsOwed
<1>5. \A s \in Tasks : \A j :
         IsEnded(s, j)' <=> IsEnded(s, j) \/ (s = t /\ j = k)
  BY <1>1, <1>2 DEF IsEnded, Is
<1>6. /\ Started' = Started /\ Owed' = Owed
      /\ Ended' = [Ended EXCEPT ![t] = @ \cup {k}]
  BY <1>0, <1>3, <1>4, <1>5, StartedStays, OwedStays, EndedGrows
<1>7. Completed' = Completed
  BY <1>1 DEF Completed
<1>8. Dead' = Dead \cup {t}
  BY <1>1 DEF Dead, t
<1> QED
  BY <1>6, <1>7, <1>8 DEF t, k

LEMMA SuccessEndsAttempt ==
    ASSUME SystemInv, NEW o \in Offsets, Succeeded(o), moves' = moves
    PROVE  LET t == ready[o].id
               k == ready[o].retried
           IN  /\ Started' = Started /\ Owed' = Owed
               /\ Ended' = [Ended EXCEPT ![t] = @ \cup {k}]
               /\ Completed' = Completed \cup {t} /\ Dead' = Dead
<1> DEFINE t == ready[o].id
           k == ready[o].retried
<1>0. t \in Tasks /\ o \in DOMAIN ready
  BY DEF Succeeded, Envelope
<1>1. UNCHANGED <<ready, retry, dlq, archived>> /\ completed' = completed \cup {o}
  BY DEF Succeeded, topics
<1>2. Is(ready[o], t, k)
  BY DEF Is
<1> HIDE DEF t, k
<1>3. \A s \in Tasks : \A j : IsStarted(s, j)' <=> IsStarted(s, j)
  BY <1>1 DEF IsStarted
<1>4. \A s \in Tasks : \A j : IsOwed(s, j)' <=> IsOwed(s, j)
  BY <1>1 DEF IsOwed
<1>5. \A s \in Tasks : \A j :
         IsEnded(s, j)' <=> IsEnded(s, j) \/ (s = t /\ j = k)
  BY <1>0, <1>1, <1>2 DEF IsEnded, Is
<1>6. /\ Started' = Started /\ Owed' = Owed
      /\ Ended' = [Ended EXCEPT ![t] = @ \cup {k}]
  BY <1>0, <1>3, <1>4, <1>5, StartedStays, OwedStays, EndedGrows
<1>7. Completed' = Completed \cup {t}
  BY <1>1 DEF Completed, t
<1>8. Dead' = Dead
  BY <1>1 DEF Dead
<1> QED
  BY <1>6, <1>7, <1>8 DEF t, k

\* An archived record is owed no more, unless there is another copy of it.
LEMMA ArchiveSettlesAttempt ==
    ASSUME SystemInv, NEW o \in DOMAIN ready, archived' = archived \cup {o},
           UNCHANGED <<topics, completed, moves>>
    PROVE  LET t == ready[o].id
               k == ready[o].retried
           IN  /\ Started' = Started /\ Ended' = Ended
               /\ Completed' = Completed /\ Dead' = Dead
               /\ \/ Owed' = Owed
                  \/ k \in Owed[t] /\ Owed' = [Owed EXCEPT ![t] = @ \ {k}]
<1> DEFINE t == ready[o].id
           k == ready[o].retried
<1>0. t \in Tasks
  <2>1. ready[o] \in Envelope
    BY DEF SystemInv, PoolInv, TypeOK
  <2> QED
    BY <2>1 DEF Envelope
<1>1. UNCHANGED <<ready, retry, dlq>>
  BY DEF topics
<1>2. \A s \in Tasks : \A j : IsStarted(s, j)' <=> IsStarted(s, j)
  BY <1>1 DEF IsStarted
<1>3. \A s \in Tasks : \A j : IsEnded(s, j)' <=> IsEnded(s, j)
  BY <1>1 DEF IsEnded
<1>4. \A s \in Tasks : \A j : IsOwed(s, j)' => IsOwed(s, j)
  BY <1>1 DEF IsOwed
<1>5. \A s \in Tasks : \A j : IsOwed(s, j) => IsOwed(s, j)' \/ (s = t /\ j = k)
  BY <1>1 DEF IsOwed, Is
<1> HIDE DEF t, k
<1>6. Started' = Started /\ Ended' = Ended
  BY <1>2, <1>3, StartedStays, EndedStays
<1>7. \/ Owed' = Owed
      \/ k \in Owed[t] /\ Owed' = [Owed EXCEPT ![t] = @ \ {k}]
  BY <1>0, <1>4, <1>5, OwedShrinks
<1>8. Completed' = Completed /\ Dead' = Dead
  BY <1>1 DEF Completed, Dead
<1> QED
  BY <1>6, <1>7, <1>8 DEF t, k

-----------------------------------------------------------------------------
(* Every step but GiveUp is a step of TaskLifecycle or none.               *)

LEMMA CopiesAreStarted ==
    ASSUME SystemInv, NEW o \in DOMAIN ready
    PROVE  /\ ready[o] \in Envelope /\ ready[o].id \in Tasks
           /\ ready[o].retried \in Lifecycle!Attempts
           /\ ready[o].retried \in Started[ready[o].id]
           /\ ready[o].retries = ClientRetries
<1>1. ready[o] \in Envelope
  BY DEF SystemInv, PoolInv, TypeOK
<1>2. ready[o].id \in Tasks /\ ready[o].retried \in Nat
  BY <1>1 DEF Envelope
<1>3. ready[o].retries = ClientRetries /\ ready[o].retried <= ClientRetries
  BY DEF SystemInv, RecordsAreClients
<1>4. IsStarted(ready[o].id, ready[o].retried)
  BY DEF IsStarted, Is
<1> QED
  BY <1>1, <1>2, <1>3, <1>4, Mapping, SystemAssumption DEF Lifecycle!Attempts

\* A record that has had its effect is one whose attempt has ended.
LEMMA SettledHaveEnded ==
    ASSUME SystemInv, NEW o \in DOMAIN ready, Settled(o)
    PROVE  ready[o].retried \in Ended[ready[o].id]
<1>1. ready[o].id \in Tasks /\ ready[o].retried \in Nat
  BY CopiesAreStarted DEF Envelope
<1>2. /\ RetryOf(ready[o]).id = ready[o].id
      /\ RetryOf(ready[o]).retried - 1 = ready[o].retried
  BY <1>1 DEF RetryOf
<1>3. IsEnded(ready[o].id, ready[o].retried)
  BY <1>2 DEF Settled, IsEnded, Is
<1> QED
  BY <1>1, <1>3, Mapping

LEMMA StutterIsLifecycle ==
    ASSUME Known' = Known, Started' = Started, Owed' = Owed, Ended' = Ended,
           Completed' = Completed, Dead' = Dead, faults' \in {faults, faults + 1}
    PROVE  Lifecycle!Next
  BY DEF Lifecycle!Next, Lifecycle!tasks

LEMMA WorkersImplementLifecycle ==
    ASSUME SystemInv, NEW w \in Workers, WorkerActs(w)
    PROVE  Lifecycle!Next
<1>0. /\ WorkerEffect /\ Stamp
      /\ Known' = Known /\ faults' \in {faults, faults + 1}
  BY WorkerEffects DEF WorkerActs, Noted, SystemInv, WorkerEffect, Known
<1>1. retry' = retry => moves' = moves
  BY <1>0 DEF Stamp, SystemInv, SystemTypeOK
<1>2. CASE Quiet
  <2>1. moves' = moves
    BY <1>1, <1>2 DEF Quiet, topics
  <2>2. Started' = Started /\ Owed' = Owed /\ Ended' = Ended
    BY <1>2, <2>1, QuietKeepsAttempts DEF SystemInv, PoolInv
  <2>3. Completed' = Completed /\ Dead' = Dead
    BY <1>2 DEF Quiet, topics, Completed, Dead
  <2> QED
    BY <1>0, <2>2, <2>3, StutterIsLifecycle
<1>3. ASSUME NEW o \in Offsets, Retried(o)
      PROVE  Lifecycle!Next
  <2> DEFINE t == ready[o].id
             k == ready[o].retried
  <2>1. t \in Tasks /\ k \in Lifecycle!Attempts /\ k \in Started[t]
    BY <1>3, CopiesAreStarted DEF Retried
  <2>2. k < ClientRetries
    <3>1. ready[o].retries = ClientRetries /\ k \in 0..ClientRetries
      BY <1>3, CopiesAreStarted DEF Retried, Lifecycle!Attempts
    <3> QED
      BY <1>3, <3>1, SystemAssumption DEF Retried, Exhausted
  <2>3. /\ Started' = [Started EXCEPT ![t] = @ \cup {k + 1}]
        /\ Owed' = [Owed EXCEPT ![t] = @ \cup {k + 1}]
        /\ Ended' = [Ended EXCEPT ![t] = @ \cup {k}]
    BY <1>0, <1>3, RetryEndsAttempt
  <2>4. Completed' = Completed /\ Dead' = Dead
    BY <1>3 DEF Retried, Completed, Dead
  <2> HIDE DEF t, k
  <2>5. Lifecycle!Retry(t, k)
    BY <1>0, <2>1, <2>2, <2>3, <2>4 DEF Lifecycle!Retry, Lifecycle!Begin, Lifecycle!End
  <2> QED
    BY <1>0, <2>1, <2>5 DEF Lifecycle!Next
<1>4. ASSUME NEW o \in Offsets, Buried(o)
      PROVE  Lifecycle!Next
  <2> DEFINE t == ready[o].id
             k == ready[o].retried
  <2>1. t \in Tasks /\ k \in Lifecycle!Attempts /\ k \in Started[t]
    BY <1>4, CopiesAreStarted DEF Buried
  <2>2. k = ClientRetries
    <3>1. ready[o].retries = ClientRetries /\ k \in 0..ClientRetries
      BY <1>4, CopiesAreStarted DEF Buried, Lifecycle!Attempts
    <3> QED
      BY <1>4, <3>1, SystemAssumption DEF Buried, Exhausted
  <2>3. /\ Started' = Started /\ Owed' = Owed
        /\ Ended' = [Ended EXCEPT ![t] = @ \cup {k}]
        /\ Completed' = Completed /\ Dead' = Dead \cup {t}
    BY <1>1, <1>4, BuryEndsAttempt DEF Buried
  <2> HIDE DEF t, k
  <2>4. Lifecycle!Bury(t, k)
    BY <1>0, <2>1, <2>2, <2>3 DEF Lifecycle!Bury, Lifecycle!End
  <2> QED
    BY <1>0, <2>1, <2>4 DEF Lifecycle!Next
<1>5. ASSUME NEW o \in Offsets, Succeeded(o)
      PROVE  Lifecycle!Next
  <2> DEFINE t == ready[o].id
             k == ready[o].retried
  <2>1. t \in Tasks /\ k \in Lifecycle!Attempts /\ k \in Started[t]
    BY <1>5, CopiesAreStarted DEF Succeeded
  <2>2. /\ Started' = Started /\ Owed' = Owed
        /\ Ended' = [Ended EXCEPT ![t] = @ \cup {k}]
        /\ Completed' = Completed \cup {t} /\ Dead' = Dead
    BY <1>1, <1>5, SuccessEndsAttempt DEF Succeeded, topics
  <2> HIDE DEF t, k
  <2>3. Lifecycle!Complete(t, k)
    BY <1>0, <2>1, <2>2 DEF Lifecycle!Complete, Lifecycle!End
  <2> QED
    BY <1>0, <2>1, <2>3 DEF Lifecycle!Next
<1>6. ASSUME NEW o \in Offsets, Archived(o), Settled(o)
      PROVE  Lifecycle!Next
  <2> DEFINE t == ready[o].id
             k == ready[o].retried
  <2>1. t \in Tasks /\ k \in Lifecycle!Attempts /\ k \in Ended[t]
    BY <1>6, CopiesAreStarted, SettledHaveEnded DEF Archived
  <2>2. /\ Started' = Started /\ Ended' = Ended
        /\ Completed' = Completed /\ Dead' = Dead
        /\ \/ Owed' = Owed
           \/ k \in Owed[t] /\ Owed' = [Owed EXCEPT ![t] = @ \ {k}]
    BY <1>1, <1>6, ArchiveSettlesAttempt DEF Archived, topics
  <2> HIDE DEF t, k
  <2>3. CASE Owed' = Owed
    BY <1>0, <2>2, <2>3, StutterIsLifecycle
  <2>4. CASE k \in Owed[t] /\ Owed' = [Owed EXCEPT ![t] = @ \ {k}]
    <3>1. Lifecycle!Settle(t, k)
      BY <1>0, <2>1, <2>2, <2>4 DEF Lifecycle!Settle
    <3> QED
      BY <1>0, <2>1, <3>1 DEF Lifecycle!Next
  <2> QED
    BY <2>2, <2>3, <2>4
<1> QED
  BY <1>0, <1>2, <1>3, <1>4, <1>5, <1>6 DEF WorkerEffect

LEMMA ClientsImplementLifecycle ==
    ASSUME SystemInv, NEW t \in Tasks,
           Enqueue(t) \/ EnqueueWrites(t) \/ EnqueueReturns(t) \/ EnqueueFails(t)
    PROVE  Lifecycle!Next
<1>0. /\ call \in [Tasks -> {"none", "producing", "written", "id", "error"}]
      /\ CallsAreKept /\ completed \subseteq DOMAIN ready
  BY DEF SystemInv, SystemTypeOK, PoolInv, OffsetsAreWritten
<1>1. ASSUME UNCHANGED <<topics, archived, completed, moves>>
      PROVE  /\ Started' = Started /\ Owed' = Owed /\ Ended' = Ended
             /\ Completed' = Completed /\ Dead' = Dead
  <2>1. Started' = Started /\ Owed' = Owed /\ Ended' = Ended
    BY <1>1, QuietKeepsAttempts DEF Quiet, SystemInv, PoolInv
  <2> QED
    BY <1>1, <2>1 DEF Completed, Dead, topics
<1>2. CASE Enqueue(t) \/ EnqueueFails(t)
  <2>1. Known' = Known
    BY <1>0, <1>2 DEF Enqueue, EnqueueFails, SetCall, Known
  <2>2. UNCHANGED <<topics, archived, completed, moves>> /\ faults' \in {faults, faults + 1}
    BY <1>2 DEF Enqueue, EnqueueFails, Fault, vars, group, retryLog
  <2> QED
    BY <1>1, <2>1, <2>2, StutterIsLifecycle
<1>3. CASE EnqueueReturns(t)
  <2>1. Known' = Known \cup {t}
    BY <1>0, <1>3 DEF EnqueueReturns, SetCall, Known
  <2>2. UNCHANGED <<topics, archived, completed, moves>> /\ faults' = faults
    BY <1>3 DEF EnqueueReturns, vars, group, retryLog
  <2>3. Started[t] # {}
    <3>1. PICK o \in CopiesOf(t) : TRUE
      BY <1>0, <1>3 DEF EnqueueReturns, CallsAreKept
    <3> QED
      BY <3>1, CopiesAreStarted DEF CopiesOf
  <2>4. Lifecycle!Confirm(t)
    BY <1>1, <2>1, <2>2, <2>3 DEF Lifecycle!Confirm
  <2> QED
    BY <2>2, <2>4 DEF Lifecycle!Next
<1>4. CASE EnqueueWrites(t)
  <2> DEFINE e == NewTaskEnvelope(t)
  <2>1. e \in Envelope /\ e.id = t /\ e.retried = 0
    BY SystemAssumption, WorkerAssumption DEF NewTaskEnvelope, Envelope
  <2>2. /\ ready' = Append(ready, e)
        /\ UNCHANGED <<retry, dlq, archived, completed, moves, faults>>
    BY <1>4 DEF EnqueueWrites, Arrive, group, retryLog
  <2> HIDE DEF e
  <2>3. /\ Started' = [Started EXCEPT ![t] = @ \cup {0}]
        /\ Owed' = [Owed EXCEPT ![t] = @ \cup {0}]
        /\ Ended' = Ended
    BY <2>1, <2>2, ReadyBeginsAttempt
  <2>4. Started[t] = {}
    <3>1. CopiesOf(t) = {}
      BY <1>0, <1>4 DEF EnqueueWrites, CallsAreKept
    <3>2. \A k : ~IsStarted(t, k)
      BY <3>1, RetriesAreClients DEF IsStarted, Is, CopiesOf
    <3> QED
      BY <3>2, Mapping
  <2>5. Known' = Known
    BY <1>0, <1>4 DEF EnqueueWrites, SetCall, Known
  <2>6. Completed' = Completed /\ Dead' = Dead
    <3>1. \A o \in completed : ready'[o] = ready[o]
      BY <1>0, <2>1, <2>2, ReadyGrows DEF SystemInv, PoolInv, TypeOK
    <3> QED
      BY <2>2, <3>1 DEF Completed, Dead
  <2>7. Lifecycle!Accept(t)
    BY <2>3, <2>4, <2>5, <2>6 DEF Lifecycle!Accept, Lifecycle!Begin
  <2> QED
    BY <2>2, <2>7 DEF Lifecycle!Next
<1> QED
  BY <1>2, <1>3, <1>4

LEMMA MovesImplementLifecycle ==
    ASSUME SystemInv, NEW b \in RetryBuckets, NEW i \in DOMAIN retry[b], Move(b, i)
    PROVE  Lifecycle!Next
<1> DEFINE e == retry[b][i]
           t == e.id
           k == e.retried
<1>1. e \in Envelope /\ t \in Tasks /\ k \in Lifecycle!Attempts
  <2>1. e \in Envelope /\ k \in 1..ClientRetries
    BY RetriesAreClients
  <2> QED
    BY <2>1, SystemAssumption DEF Envelope, Lifecycle!Attempts
<1>2. k \in Started[t]
  <2>1. IsStarted(t, k)
    BY DEF IsStarted, Is
  <2> QED
    BY <1>1, <2>1, Mapping
<1>3. /\ ready' = Append(ready, e)
      /\ UNCHANGED <<retry, dlq, archived, completed, call>>
      /\ faults' \in {faults, faults + 1}
  BY DEF Move, Fault, group
<1>4. \A c \in RetryBuckets : \A j \in DOMAIN retry[c] :
         /\ moves'[c][j] = 0 => moves[c][j] = 0
         /\ moves[c][j] = 0 => moves'[c][j] = 0 \/ Is(retry[c][j], t, k)
  <2>1. /\ moves \in [RetryBuckets -> Seq(Nat)]
        /\ \A c \in RetryBuckets : \A j \in DOMAIN retry[c] : j \in DOMAIN moves[c]
    BY DEF SystemInv, SystemTypeOK, PoolInv, TypeOK
  <2>2. moves' = [moves EXCEPT ![b][i] = @ + 1]
    BY DEF Move
  <2>3. \A c \in RetryBuckets : \A j \in DOMAIN retry[c] :
           moves'[c][j] = IF c = b /\ j = i THEN moves[c][j] + 1 ELSE moves[c][j]
    BY <2>1, <2>2
  <2>4. \A c \in RetryBuckets : \A j \in DOMAIN retry[c] : moves[c][j] \in Nat
    BY <2>1
  <2> QED
    BY <2>3, <2>4 DEF Is
<1> HIDE DEF e
<1>5. /\ Started' = [Started EXCEPT ![t] = @ \cup {k}]
      /\ Owed' = [Owed EXCEPT ![t] = @ \cup {k}]
      /\ Ended' = Ended
  BY <1>1, <1>3, <1>4, ReadyBeginsAttempt
<1>6. Completed' = Completed /\ Dead' = Dead /\ Known' = Known
  <2>1. \A o \in completed : ready'[o] = ready[o]
    BY <1>1, <1>3, ReadyGrows DEF SystemInv, PoolInv, TypeOK, OffsetsAreWritten
  <2> QED
    BY <1>3, <2>1 DEF Completed, Dead, Known
<1> HIDE DEF t, k
<1>7. Lifecycle!Redeliver(t, k)
  BY <1>2, <1>5, <1>6 DEF Lifecycle!Redeliver, Lifecycle!Begin
<1> QED
  BY <1>1, <1>3, <1>7 DEF Lifecycle!Next

-----------------------------------------------------------------------------
(* The limit on deliveries.  The share group counts deliveries, not faults, *)
(* and archives a record that was delivered too often.  That every delivery *)
(* of a record that is not settled is paid for by a fault is what keeps     *)
(* tasks from being lost that way.  It holds of reliable handlers and of a  *)
(* policy that fits the grid: an error that Run answers with a release is a *)
(* delivery spent without a fault.                                          *)

Reliable ==
    /\ Panics = {} /\ Unencodable = {}
    /\ \A r \in 1..MaxRetries, t \in Tasks :
          RetryDelay[<<r, t>>] >= 0 /\ InRange(Boundaries, RetryDelay[<<r, t>>])

\* A delivery of the record at o is on its way to being settled.
Works(v, o) ==
    /\ o \in acquired[v] /\ ~cancelled[v] /\ ~closed[v]
    /\ job[v][o] \in {"fetched", "queued", "running", "retrying", "burying"}

UnderWay(o) == \E v \in Workers : Works(v, o)

\* Faults whose delivery is still to come: a cancelled Run may poll once more,
\* and a release that outlived its generation may undo the next delivery.
Cancels(v) == pc[v] = "poll" /\ cancelled[v]

Releases(v, o) == <<o, "release">> \in pendingAck[v] /\ job[v][o] # "marked"

Debts(o) ==
    {<<v, "cancelled">> : v \in {u \in Workers : Cancels(u)}}
    \cup {<<v, "release">> : v \in {u \in Workers : Releases(u, o)}}

Balance(o) ==
    /\ IsFiniteSet(Debts(o))
    /\ deliveries[o] + Cardinality(Debts(o)) <= faults + (IF UnderWay(o) THEN 1 ELSE 0)

Balanced ==
    \A o \in Offsets : (o \in DOMAIN ready /\ Settled(o)) \/ Balance(o)

\* A context belongs to a Run.
CancelledRun == \A w \in Workers : cancelled[w] => pc[w] \notin {"down", "idle"}

\* Only the account of w changes in a step of w.
OthersStand(w, o) ==
    \A v \in Workers \ {w} :
        /\ Cancels(v)' => Cancels(v)
        /\ Releases(v, o)' => Releases(v, o)
        /\ Works(v, o) => Works(v, o)'

LEMMA DebtsOf ==
    ASSUME NEW o, NEW x
    PROVE  /\ x \in Debts(o) <=>
                 \E v \in Workers :
                    \/ Cancels(v) /\ x = <<v, "cancelled">>
                    \/ Releases(v, o) /\ x = <<v, "release">>
           /\ x \in Debts(o)' <=>
                 \E v \in Workers :
                    \/ Cancels(v)' /\ x = <<v, "cancelled">>
                    \/ Releases(v, o)' /\ x = <<v, "release">>
<1>1. x \in Debts(o) <=>
         \E v \in Workers :
            \/ Cancels(v) /\ x = <<v, "cancelled">>
            \/ Releases(v, o) /\ x = <<v, "release">>
  BY DEF Debts
<1>2. x \in Debts(o)' <=>
         \E v \in Workers :
            \/ Cancels(v)' /\ x = <<v, "cancelled">>
            \/ Releases(v, o)' /\ x = <<v, "release">>
  BY DEF Debts
<1> QED
  BY <1>1, <1>2

LEMMA BalanceIsKept ==
    ASSUME NEW w \in Workers, NEW o, Balance(o), OthersStand(w, o),
           deliveries[o] \in Nat, faults \in Nat, faults' \in {faults, faults + 1},
           deliveries'[o] = deliveries[o],
           Cancels(w)' => Cancels(w), Releases(w, o)' => Releases(w, o),
           Works(w, o) => Works(w, o)' \/ faults' = faults + 1
    PROVE  Balance(o)'
<1>1. Debts(o)' \subseteq Debts(o)
  BY DebtsOf DEF OthersStand
<1>2. UnderWay(o) => UnderWay(o)' \/ faults' = faults + 1
  BY DEF UnderWay, OthersStand
<1>3. /\ IsFiniteSet(Debts(o)') /\ Cardinality(Debts(o)') \in Nat
      /\ Cardinality(Debts(o)) \in Nat
      /\ Cardinality(Debts(o)') <= Cardinality(Debts(o))
  BY <1>1, CountDown DEF Balance
<1> QED
  BY <1>2, <1>3 DEF Balance

\* A fault that leaves a delivery for later.
LEMMA BalanceIsOwed ==
    ASSUME NEW w \in Workers, NEW o, Balance(o), OthersStand(w, o),
           deliveries[o] \in Nat, faults \in Nat, faults' = faults + 1,
           deliveries'[o] = deliveries[o],
           (Cancels(w)' => Cancels(w)) \/ (Releases(w, o)' => Releases(w, o)),
           Works(w, o) => Works(w, o)'
    PROVE  Balance(o)'
<1>1. \E x : Debts(o)' \subseteq Debts(o) \cup {x}
  <2>1. CASE Cancels(w)' => Cancels(w)
    <3>1. Debts(o)' \subseteq Debts(o) \cup {<<w, "release">>}
      BY <2>1, DebtsOf DEF OthersStand
    <3> QED
      BY <3>1
  <2>2. CASE Releases(w, o)' => Releases(w, o)
    <3>1. Debts(o)' \subseteq Debts(o) \cup {<<w, "cancelled">>}
      BY <2>2, DebtsOf DEF OthersStand
    <3> QED
      BY <3>1
  <2> QED
    BY <2>1, <2>2
<1>2. UnderWay(o) => UnderWay(o)'
  BY DEF UnderWay, OthersStand
<1>3. /\ IsFiniteSet(Debts(o)') /\ Cardinality(Debts(o)') \in Nat
      /\ Cardinality(Debts(o)) \in Nat
      /\ Cardinality(Debts(o)') <= Cardinality(Debts(o)) + 1
  BY <1>1, CountUp DEF Balance
<1> QED
  BY <1>2, <1>3 DEF Balance

\* The delivery it was left for: a late release undoes it, or a cancelled Run
\* makes it in vain.
LEMMA BalanceIsSpent ==
    ASSUME NEW w \in Workers, NEW o, Balance(o), OthersStand(w, o),
           deliveries[o] \in Nat, faults \in Nat, faults' \in {faults, faults + 1},
           \/ /\ Releases(w, o) /\ ~Releases(w, o)'
              /\ Cancels(w)' => Cancels(w)
              /\ deliveries'[o] = deliveries[o]
           \/ /\ Cancels(w) /\ ~Cancels(w)'
              /\ Releases(w, o)' => Releases(w, o)
              /\ deliveries'[o] = deliveries[o] + 1 /\ ~UnderWay(o)
    PROVE  Balance(o)'
<1>1. PICK x \in Debts(o) : Debts(o)' \subseteq Debts(o) \ {x}
  <2>1. CASE /\ Releases(w, o) /\ ~Releases(w, o)'
             /\ Cancels(w)' => Cancels(w)
    <3>1. <<w, "release">> \in Debts(o)
      BY <2>1, DebtsOf
    <3>2. <<w, "release">> \notin Debts(o)'
      BY <2>1, DebtsOf
    <3>3. Debts(o)' \subseteq Debts(o)
      BY <2>1, DebtsOf DEF OthersStand
    <3> QED
      BY <3>1, <3>2, <3>3
  <2>2. CASE /\ Cancels(w) /\ ~Cancels(w)'
             /\ Releases(w, o)' => Releases(w, o)
    <3>1. <<w, "cancelled">> \in Debts(o)
      BY <2>2, DebtsOf
    <3>2. <<w, "cancelled">> \notin Debts(o)'
      BY <2>2, DebtsOf
    <3>3. Debts(o)' \subseteq Debts(o)
      BY <2>2, DebtsOf DEF OthersStand
    <3> QED
      BY <3>1, <3>2, <3>3
  <2> QED
    BY <2>1, <2>2
<1>2. /\ IsFiniteSet(Debts(o)') /\ Cardinality(Debts(o)') \in Nat
      /\ Cardinality(Debts(o)) \in Nat
      /\ Cardinality(Debts(o)') + 1 <= Cardinality(Debts(o))
  BY <1>1, CountLess DEF Balance
<1>3. deliveries'[o] \in Nat
  OBVIOUS
<1> QED
  BY <1>2, <1>3 DEF Balance

\* A delivery like any other.
LEMMA BalanceBegins ==
    ASSUME NEW w \in Workers, NEW o, Balance(o), OthersStand(w, o),
           deliveries[o] \in Nat, faults \in Nat, faults' \in {faults, faults + 1},
           deliveries'[o] = deliveries[o] + 1,
           Cancels(w)' => Cancels(w), Releases(w, o)' => Releases(w, o),
           ~UnderWay(o), Works(w, o)'
    PROVE  Balance(o)'
<1>1. Debts(o)' \subseteq Debts(o)
  BY DebtsOf DEF OthersStand
<1>2. UnderWay(o)'
  BY DEF UnderWay
<1>3. /\ IsFiniteSet(Debts(o)') /\ Cardinality(Debts(o)') \in Nat
      /\ Cardinality(Debts(o)) \in Nat
      /\ Cardinality(Debts(o)') <= Cardinality(Debts(o))
  BY <1>1, CountDown DEF Balance
<1> QED
  BY <1>2, <1>3 DEF Balance

\* What a worker's step leaves alone: the other workers.
Alone(v) ==
    /\ pc'[v] = pc[v] /\ cancelled'[v] = cancelled[v] /\ closed'[v] = closed[v]
    /\ job'[v] = job[v] /\ pendingAck'[v] = pendingAck[v]
    /\ acquired'[v] = acquired[v]

LEMMA OthersAreAlone ==
    ASSUME TypeOK, NEW w \in Workers, WorkerStep(w)
    PROVE  \A v \in Workers \ {w} : Alone(v)
<1> SUFFICES ASSUME NEW v \in Workers, v # w
             PROVE  Alone(v)
  OBVIOUS
<1> USE DEF group, run, acks, SetJob
<1>1. CASE NewWorker(w) \/ Run(w) \/ Cancel(w) \/ Close(w)
  BY <1>1 DEF NewWorker, Run, Cancel, Close, TypeOK, Alone
<1>2. CASE Vanish(w)
  BY <1>2 DEF Vanish, TypeOK, Alone
<1>3. CASE PollRecords(w)
  BY <1>3 DEF PollRecords, TypeOK, Alone
<1>4. CASE PollStops(w) \/ PollFails(w)
  BY <1>4 DEF PollStops, PollFails, Return, TypeOK, Alone
<1>5. CASE FlushAcks(w)
  BY <1>5 DEF FlushAcks, Return, TypeOK, Alone
<1>6. ASSUME NEW o \in Offsets, Dispatch(w, o) \/ CollectResult(w, o)
      PROVE  Alone(v)
  BY <1>6 DEF Dispatch, CollectResult, TypeOK, Alone
<1>7. ASSUME NEW o \in Offsets,
             \/ Take(w, o) \/ DecodeFails(w, o) \/ HandlerSucceeds(w, o)
             \/ HandlerFails(w, o)
      PROVE  Alone(v)
  BY <1>7 DEF Take, DecodeFails, HandlerSucceeds, HandlerFails, TypeOK, Alone
<1>8. ASSUME NEW o \in Offsets, Produce(w, o) \/ ProduceFails(w, o)
      PROVE  Alone(v)
  BY <1>8 DEF Produce, ProduceFails, TypeOK, Alone
<1>9. ASSUME NEW o \in Offsets, NEW status \in {"accept", "release"},
             DeliverAck(w, o, status) \/ LoseAck(w, o, status)
      PROVE  Alone(v)
  BY <1>9 DEF DeliverAck, LoseAck, Apply, TypeOK, Alone
<1>10. ASSUME NEW o \in Offsets, LockExpires(w, o)
       PROVE  Alone(v)
  BY <1>10 DEF LockExpires, TypeOK, Alone
<1> QED
  BY <1>1, <1>2, <1>3, <1>4, <1>5, <1>6, <1>7, <1>8, <1>9, <1>10
    DEF WorkerStep, Handle, Acknowledge, Exit, Crash, HandlerPanics,
        LockExpiresEarly, LockExpiresAbandoned

LEMMA AloneStand ==
    ASSUME NEW w \in Workers, NEW p, \A v \in Workers \ {w} : Alone(v)
    PROVE  OthersStand(w, p)
  BY DEF OthersStand, Alone, Cancels, Releases, Works

LEMMA CancelledRunIsKept ==
    ASSUME TypeOK, CancelledRun, NEW w \in Workers, WorkerStep(w)
    PROVE  CancelledRun'
<1> USE DEF run
<1>0. \A v \in Workers \ {w} : Alone(v)
  BY OthersAreAlone
<1>1. SUFFICES cancelled'[w] => pc'[w] \notin {"down", "idle"}
  BY <1>0 DEF CancelledRun, Alone
<1>2. CASE NewWorker(w) \/ Run(w) \/ Cancel(w) \/ Close(w)
  BY <1>2 DEF NewWorker, Run, Cancel, Close, TypeOK, CancelledRun
<1>3. CASE Vanish(w)
  BY <1>3 DEF Vanish, TypeOK
<1>4. CASE PollRecords(w)
  BY <1>4 DEF PollRecords, TypeOK
<1>5. CASE PollStops(w) \/ PollFails(w)
  BY <1>5 DEF PollStops, PollFails, Return, TypeOK
<1>6. CASE FlushAcks(w)
  BY <1>6 DEF FlushAcks, Return, TypeOK
<1>7. ASSUME NEW o \in Offsets, Dispatch(w, o) \/ CollectResult(w, o)
      PROVE  cancelled'[w] => pc'[w] \notin {"down", "idle"}
  BY <1>7 DEF Dispatch, CollectResult, TypeOK, CancelledRun
<1>8. ASSUME UNCHANGED <<pc, cancelled>>
      PROVE  cancelled'[w] => pc'[w] \notin {"down", "idle"}
  BY <1>8 DEF CancelledRun
<1>9. ASSUME NEW o \in Offsets,
             \/ Take(w, o) \/ DecodeFails(w, o) \/ HandlerSucceeds(w, o)
             \/ HandlerFails(w, o) \/ Produce(w, o) \/ ProduceFails(w, o)
             \/ LockExpires(w, o)
      PROVE  UNCHANGED <<pc, cancelled>>
  BY <1>9 DEF Take, DecodeFails, HandlerSucceeds, HandlerFails, Produce,
              ProduceFails, LockExpires
<1>10. ASSUME NEW o \in Offsets, NEW status \in {"accept", "release"},
              DeliverAck(w, o, status) \/ LoseAck(w, o, status)
       PROVE  UNCHANGED <<pc, cancelled>>
  BY <1>10 DEF DeliverAck, LoseAck
<1> QED
  BY <1>2, <1>3, <1>4, <1>5, <1>6, <1>7, <1>8, <1>9, <1>10
    DEF WorkerStep, Handle, Acknowledge, Exit, Crash, HandlerPanics,
        LockExpiresEarly, LockExpiresAbandoned

LEMMA CountKeeps ==
    ASSUME Count, NEW p \in Offsets, \A v \in Workers : acquired'[v] \subseteq acquired[v]
    PROVE  deliveries'[p] = deliveries[p]
  BY DEF Count

\* Every delivery by a worker is paid for, or settles its record.
LEMMA WorkersStayBalanced ==
    ASSUME SystemInv, CancelledRun, Reliable, NEW w \in Workers, WorkerActs(w),
           NEW p \in Offsets, Balance(p)
    PROVE  (p \in DOMAIN ready /\ Settled(p)') \/ Balance(p)'
<1> USE DEF topics, group, run, acks
<1>0. /\ TypeOK /\ PoolInv /\ WorkerStep(w) /\ Count
      /\ deliveries[p] \in Nat /\ faults \in Nat
      /\ \A v \in Workers \ {w} : Alone(v)
      /\ faults' \in {faults, faults + 1}
  BY OthersAreAlone, WorkerEffects
    DEF SystemInv, SystemTypeOK, PoolInv, TypeOK, WorkerActs, Noted, WorkerEffect
<1>0a. OthersStand(w, p)
  BY <1>0, AloneStand
<1>0b. \A o \in DOMAIN ready : Settled(o) => Settled(o)'
  <2>1. PoolStep
    BY <1>0 DEF PoolStep
  <2> QED
    BY <1>0, <2>1, StepsMoveRecords, SettledGrows
<1>0c. job[w] \in [Offsets -> JobStates] /\ job \in [Workers -> [Offsets -> JobStates]]
  BY <1>0 DEF TypeOK
<1>k. ASSUME p \in acquired'[w] => p \in acquired[w],
             Cancels(w)' => Cancels(w), Releases(w, p)' => Releases(w, p),
             Works(w, p) => Works(w, p)' \/ faults' = faults + 1
      PROVE  Balance(p)'
  <2>1. deliveries'[p] = deliveries[p]
    BY <1>0, <1>k DEF Count, Alone
  <2> QED
    BY <1>0, <1>0a, <1>k, <2>1, BalanceIsKept
<1>1. CASE NewWorker(w) \/ Run(w)
  <2>1. /\ acquired' = acquired /\ job' = job /\ pendingAck' = pendingAck
        /\ UNCHANGED <<cancelled, closed>>
        /\ pc'[w] = "poll" => pc[w] = "idle"
    BY <1>0, <1>1 DEF NewWorker, Run, TypeOK
  <2> QED
    BY <1>k, <2>1 DEF Cancels, Releases, Works, CancelledRun
<1>2. CASE Cancel(w)
  <2>1. /\ acquired' = acquired /\ job' = job /\ pendingAck' = pendingAck
        /\ UNCHANGED <<pc, closed>> /\ faults' = faults + 1
    BY <1>2 DEF Cancel, Fault
  <2>2. CASE pc[w] = "poll"
    <3>1. ~Works(w, p) /\ (Releases(w, p)' => Releases(w, p))
      BY <1>0, <2>1, <2>2 DEF PoolInv, PoolFollowsRun, Works, Releases
    <3>2. deliveries'[p] = deliveries[p]
      BY <1>0, <2>1, CountKeeps
    <3> QED
      BY <1>0, <1>0a, <2>1, <3>1, <3>2, BalanceIsOwed
  <2>3. CASE pc[w] # "poll"
    BY <1>k, <2>1, <2>3 DEF Cancels, Releases
  <2> QED
    BY <2>2, <2>3
<1>3. CASE Close(w)
  BY <1>k, <1>3 DEF Close, Fault, Cancels, Releases
<1>4. ASSUME Vanish(w), pc[w] = "idle" \/ faults' = faults + 1
      PROVE  Balance(p)'
  <2>1. acquired' = acquired /\ pc'[w] = "down" /\ pendingAck'[w] = {}
    BY <1>0, <1>4 DEF Vanish, TypeOK
  <2>2. pc[w] = "idle" => ~Works(w, p)
    BY <1>0 DEF PoolInv, PoolFollowsRun, Works
  <2> QED
    BY <1>k, <1>4, <2>1, <2>2 DEF Cancels, Releases
<1>5. CASE Exit(w) \/ Crash(w)
  BY <1>4, <1>5 DEF Exit, Crash, Fault
<1>6. CASE PollRecords(w)
  <2>1. PICK polled \in SUBSET {o \in Offsets : Available(o)} :
           /\ acquired' = [acquired EXCEPT ![w] = @ \cup polled]
           /\ job' = [job EXCEPT ![w] = [o \in Offsets |->
                         IF o \in polled THEN "fetched" ELSE job[w][o]]]
    BY <1>6 DEF PollRecords
  <2>2. /\ pc[w] = "poll" /\ ~closed[w] /\ pc'[w] = "dispatch"
        /\ UNCHANGED <<cancelled, closed>>
        /\ pendingAck'[w] = pendingAck[w] \cup AutoAccepted(w)
    BY <1>0, <1>6 DEF PollRecords, TypeOK
  <2>3. pendingAck'[w] = pendingAck[w]
    BY <1>0, <2>2, NothingAutoAccepted DEF PoolInv
  <2>4. /\ acquired'[w] = acquired[w] \cup polled
        /\ job'[w][p] = IF p \in polled THEN "fetched" ELSE job[w][p]
    BY <1>0, <1>0c, <2>1 DEF TypeOK
  <2>5. job[w][p] = "none" /\ ~Works(w, p) /\ ~Cancels(w)'
        /\ (Releases(w, p)' => Releases(w, p))
    BY <1>0, <2>2, <2>3 DEF PoolInv, PoolFollowsRun, Works, Cancels, Releases
  <2>6. CASE p \notin polled
    BY <1>k, <2>4, <2>5, <2>6
  <2>7. CASE p \in polled
    <3>1. \A v \in Workers : p \notin acquired[v]
      BY <2>7 DEF Available
    <3>2. ~UnderWay(p)
      BY <3>1 DEF UnderWay, Works
    <3>3. deliveries'[p] = deliveries[p] + 1
      BY <1>0, <2>4, <2>7, <3>1 DEF Count
    <3>4. CASE cancelled[w]
      <4>1. Cancels(w)
        BY <2>2, <3>4 DEF Cancels
      <4> QED
        BY <1>0, <1>0a, <2>5, <3>2, <3>3, <4>1, BalanceIsSpent
    <3>5. CASE ~cancelled[w]
      <4>1. Works(w, p)'
        BY <2>2, <2>4, <2>7, <3>5 DEF Works
      <4> QED
        BY <1>0, <1>0a, <2>5, <3>2, <3>3, <4>1, BalanceBegins
    <3> QED
      BY <3>4, <3>5
  <2> QED
    BY <2>6, <2>7
<1>7. CASE PollStops(w) \/ PollFails(w)
  <2>1. /\ pc[w] = "poll" /\ pc'[w] = "idle" /\ UNCHANGED <<acquired, job>>
        /\ pendingAck'[w] = pendingAck[w] \cup AutoAccepted(w)
    BY <1>0, <1>7 DEF PollStops, PollFails, Return, TypeOK
  <2>2. pendingAck'[w] = pendingAck[w] /\ ~Works(w, p)
    BY <1>0, <2>1, NothingAutoAccepted DEF PoolInv, PoolFollowsRun, Works
  <2> QED
    BY <1>k, <2>1, <2>2 DEF Cancels, Releases
<1>8. CASE FlushAcks(w)
  <2>1. /\ pc[w] = "flush" /\ UNCHANGED <<acquired, pendingAck>>
        /\ pc'[w] = "poll" => ~cancelled'[w]
        /\ pendingAck[w] = {} \/ faults' = faults + 1
    BY <1>0, <1>8 DEF FlushAcks, Return, Fault, TypeOK
  <2>2. ~Works(w, p) /\ ~Cancels(w)'
    BY <1>0, <2>1 DEF PoolInv, PoolFollowsRun, Works, Cancels
  <2>3. CASE pendingAck[w] = {}
    BY <1>k, <2>1, <2>2, <2>3 DEF Releases
  <2>4. CASE faults' = faults + 1
    <3>1. deliveries'[p] = deliveries[p]
      BY <1>0, <2>1, CountKeeps
    <3> QED
      BY <1>0, <1>0a, <2>2, <2>4, <3>1, BalanceIsOwed
  <2> QED
    BY <2>1, <2>3, <2>4
\* A record that changes its job and nothing else.
<1>j. ASSUME NEW o \in Offsets, NEW state \in JobStates, job' = SetJob(w, o, state),
             UNCHANGED <<acquired, pendingAck, cancelled, closed>>,
             pc'[w] = "poll" => pc[w] = "poll",
             p = o => (Releases(w, p)' => Releases(w, p)),
             p = o => (Works(w, p) => Works(w, p)' \/ faults' = faults + 1)
      PROVE  Balance(p)'
  <2>1. p # o => job'[w][p] = job[w][p]
    BY <1>0c, <1>j DEF SetJob
  <2> QED
    BY <1>j, <1>k, <2>1 DEF Cancels, Releases, Works
<1>9. ASSUME NEW o \in Offsets, Dispatch(w, o)
      PROVE  Balance(p)'
  <2>1. job[w][o] = "fetched" /\ job'[w][o] = "queued"
    BY <1>0c, <1>9 DEF Dispatch, SetJob
  <2>2. pc'[w] = "poll" => pc[w] = "poll"
    BY <1>0, <1>9 DEF Dispatch, TypeOK
  <2> QED
    BY <1>9, <1>j, <2>1, <2>2 DEF Dispatch, JobStates, Works, Releases
<1>10. ASSUME NEW o \in Offsets, Take(w, o)
       PROVE  Balance(p)'
  <2>1. job[w][o] = "queued" /\ job'[w][o] = "running"
    BY <1>0c, <1>10 DEF Take, SetJob
  <2> QED
    BY <1>10, <1>j, <2>1 DEF Take, JobStates, Works, Releases
<1>11. ASSUME NEW o \in Offsets, job[w][o] # "none"
       PROVE  o \in DOMAIN ready /\ ready[o] \in Envelope /\ ready[o].wellFormed
  BY <1>0, <1>11, CopiesAreStarted
    DEF PoolInv, OffsetsAreWritten, SystemInv, RecordsAreClients
<1>12. ASSUME NEW o \in Offsets, DecodeFails(w, o)
       PROVE  FALSE
  BY <1>11, <1>12 DEF DecodeFails
<1>13. ASSUME NEW o \in Offsets, HandlerSucceeds(w, o)
       PROVE  (p \in DOMAIN ready /\ Settled(p)') \/ Balance(p)'
  <2>1. CASE p = o
    BY <1>11, <1>13, <2>1 DEF HandlerSucceeds, Settled
  <2>2. CASE p # o
    BY <1>13, <1>j, <2>2 DEF HandlerSucceeds, JobStates
  <2> QED
    BY <2>1, <2>2
<1>14. ASSUME NEW o \in Offsets, HandlerFails(w, o)
       PROVE  Balance(p)'
  <2>1. job[w][o] = "running" /\ UNCHANGED <<acquired, pendingAck, pc, cancelled, closed>>
    BY <1>14 DEF HandlerFails
  <2>2. Exhausted(ready[o]) \/ Schedulable(ready[o])
    <3>1. /\ ready[o] \in Envelope /\ ready[o].id \in Tasks
          /\ ready[o].retries = ClientRetries
      BY <1>11, <2>1, CopiesAreStarted
    <3>2. ready[o].retried \in Nat /\ MaxRetries \in Nat /\ ClientRetries \in 0..MaxRetries
      BY <3>1, SystemAssumption, WorkerAssumption DEF Envelope
    <3>3. ~Exhausted(ready[o]) => ready[o].retried + 1 \in 1..MaxRetries
      BY <3>1, <3>2 DEF Exhausted
    <3> QED
      BY <3>1, <3>2, <3>3 DEF Reliable, Schedulable, DelayOf
  <2>3. PICK state \in {"burying", "retrying", "err"} :
           /\ job' = SetJob(w, o, state)
           /\ state = "err" => cancelled[w]
    <3>1. ready[o].id \notin Unencodable
      BY DEF Reliable
    <3> QED
      BY <1>14, <2>2, <3>1 DEF HandlerFails
  <2>4. job'[w][o] = state /\ state \in JobStates
    BY <1>0c, <2>3 DEF SetJob, JobStates
  <2> QED
    BY <1>j, <2>1, <2>3, <2>4 DEF Works, Releases
<1>15. ASSUME NEW o \in Offsets, HandlerPanics(w, o)
       PROVE  Balance(p)'
  BY <1>4, <1>15 DEF HandlerPanics, Reliable, Fault
<1>16. ASSUME NEW o \in Offsets, Written(w, o), UNCHANGED completed
       PROVE  Settled(o)'
  BY <1>0, <1>16, WrittenGrows DEF PoolInv
<1>17. ASSUME NEW o \in Offsets, Produce(w, o)
       PROVE  (p \in DOMAIN ready /\ Settled(p)') \/ Balance(p)'
  <2>1. CASE p = o
    BY <1>11, <1>16, <1>17, <2>1 DEF Produce
  <2>2. CASE p # o
    BY <1>17, <1>j, <2>2 DEF Produce, JobStates
  <2> QED
    BY <2>1, <2>2
<1>18. ASSUME NEW o \in Offsets, ProduceFails(w, o)
       PROVE  (p \in DOMAIN ready /\ Settled(p)') \/ Balance(p)'
  <2>1. job[w][o] \in {"retrying", "burying"} /\ job'[w][o] = "err"
    BY <1>0c, <1>18 DEF ProduceFails, SetJob
  <2>2. Works(w, o) => faults' = faults + 1
    BY <1>18 DEF ProduceFails, Works, Fault
  <2>3. Balance(p)'
    BY <1>18, <1>j, <2>1, <2>2 DEF ProduceFails, JobStates, Releases
  <2> QED
    BY <2>3
<1>19. ASSUME NEW o \in Offsets, CollectResult(w, o)
       PROVE  Balance(p)'
  <2>1. job[w][o] \in {"ok", "err"} /\ job'[w][o] = "marked"
    BY <1>0c, <1>19 DEF CollectResult, SetJob
  <2>2. p # o => job'[w][p] = job[w][p]
    BY <1>0c, <1>19 DEF CollectResult, SetJob
  <2>3. p # o /\ <<p, "release">> \in pendingAck'[w] => <<p, "release">> \in pendingAck[w]
    BY <1>0, <1>19 DEF CollectResult, TypeOK
  <2>4. UNCHANGED <<acquired, cancelled, closed>> /\ (pc'[w] = "poll" => pc[w] = "poll")
    BY <1>0, <1>19 DEF CollectResult, TypeOK
  <2> QED
    BY <1>k, <2>1, <2>2, <2>3, <2>4 DEF Cancels, Releases, Works
<1>20. ASSUME NEW o \in Offsets, NEW status \in {"accept", "release"},
              DeliverAck(w, o, status) \/ LoseAck(w, o, status)
       PROVE  (p \in DOMAIN ready /\ Settled(p)') \/ Balance(p)'
  <2>1. /\ <<o, status>> \in pendingAck[w]
        /\ pendingAck'[w] = pendingAck[w] \ {<<o, status>>}
        /\ UNCHANGED <<job, pc, cancelled, closed>>
        /\ acquired'[w] = acquired[w] \/ acquired'[w] = acquired[w] \ {o}
    BY <1>0, <1>20 DEF DeliverAck, LoseAck, Apply, TypeOK
  <2>2. CASE p # o
    BY <1>k, <2>1, <2>2 DEF Cancels, Releases, Works
  <2>3. CASE p = o /\ status = "accept"
    BY <1>0, <1>0b, <2>1, <2>3 DEF PoolInv, OffsetsAreWritten, AcceptsAreSettled
  <2>4. CASE p = o /\ status = "release"
    <3>1. ~Releases(w, p)' /\ (Cancels(w)' => Cancels(w))
      BY <2>1, <2>4 DEF Releases, Cancels
    <3>2. CASE job[w][o] = "marked"
      BY <1>k, <2>1, <2>4, <3>1, <3>2 DEF Works
    <3>3. CASE job[w][o] # "marked"
      <4>1. Releases(w, p)
        BY <2>1, <2>4, <3>3 DEF Releases
      <4>2. deliveries'[p] = deliveries[p]
        BY <1>0, <2>1 DEF Count, Alone
      <4> QED
        BY <1>0, <1>0a, <3>1, <4>1, <4>2, BalanceIsSpent
    <3> QED
      BY <3>2, <3>3
  <2> QED
    BY <2>2, <2>3, <2>4
<1>21. ASSUME NEW o \in Offsets, LockExpires(w, o),
              InHand(w, o) => faults' = faults + 1
       PROVE  Balance(p)'
  <2>1. /\ acquired'[w] = acquired[w] \ {o}
        /\ UNCHANGED <<job, pc, cancelled, closed, pendingAck>>
    BY <1>0, <1>21 DEF LockExpires, TypeOK
  <2>2. Works(w, o) => faults' = faults + 1
    BY <1>21 DEF InHand, Works
  <2> QED
    BY <1>k, <2>1, <2>2 DEF Cancels, Releases, Works
<1> QED
  BY <1>0, <1>1, <1>2, <1>3, <1>5, <1>6, <1>7, <1>8, <1>9, <1>10, <1>12, <1>13,
     <1>14, <1>15, <1>17, <1>18, <1>19, <1>20, <1>21
    DEF WorkerStep, Handle, Acknowledge, LockExpiresEarly, LockExpiresAbandoned, Fault

\* What changes nothing that a balance is made of.
LEMMA BalanceStands ==
    ASSUME UNCHANGED <<acquired, pc, cancelled, closed, job, pendingAck, deliveries>>,
           faults \in Nat, faults' \in {faults, faults + 1},
           NEW p \in Offsets, deliveries[p] \in Nat, Balance(p)
    PROVE  Balance(p)'
<1>1. \A x : x \in Debts(p)' <=> x \in Debts(p)
  BY DebtsOf DEF Cancels, Releases
<1>2. Debts(p)' = Debts(p)
  BY <1>1
<1>3. UnderWay(p)' <=> UnderWay(p)
  BY DEF UnderWay, Works
<1>4. Cardinality(Debts(p)) \in Nat
  BY FS_CardinalityType DEF Balance
<1> QED
  BY <1>2, <1>3, <1>4 DEF Balance

\* The steps that are none of a worker's.
LEMMA OthersLeaveWorkers ==
    ASSUME SystemInv, [SystemNext]_allVars, ~\E w \in Workers : WorkerActs(w)
    PROVE  /\ UNCHANGED <<acquired, pc, cancelled, closed, job, pendingAck, deliveries>>
           /\ faults' \in {faults, faults + 1}
  BY DEF SystemNext, allVars, system, vars, topics, group, run, acks, retryLog,
         Enqueue, EnqueueWrites, Arrive, EnqueueReturns, EnqueueFails, GiveUp, Move,
         Tick, Fault

LEMMA BalanceInductive ==
    ASSUME Reliable, SystemInv, CancelledRun, Balanced, [SystemNext]_allVars
    PROVE  CancelledRun' /\ Balanced'
<1>0. /\ PoolInv /\ TypeOK /\ faults \in Nat /\ deliveries \in [Offsets -> Nat]
      /\ TopicsGrow
  BY StepsArePoolSteps, StepsMoveRecords DEF SystemInv, PoolInv, TypeOK, SystemTypeOK
<1>1. ASSUME NEW p \in DOMAIN ready, Settled(p)
      PROVE  (p \in DOMAIN ready /\ Settled(p))'
  BY <1>0, <1>1, SettledGrows DEF TopicsGrow
<1>2. ASSUME NEW w \in Workers, WorkerActs(w)
      PROVE  CancelledRun' /\ Balanced'
  <2>1. CancelledRun'
    BY <1>0, <1>2, CancelledRunIsKept DEF WorkerActs
  <2>2. ASSUME NEW p \in Offsets, Balance(p)
        PROVE  (p \in DOMAIN ready /\ Settled(p))' \/ Balance(p)'
    <3>1. (p \in DOMAIN ready /\ Settled(p)') \/ Balance(p)'
      BY <1>2, <2>2, WorkersStayBalanced
    <3> QED
      BY <1>0, <3>1 DEF TopicsGrow
  <2> QED
    BY <1>1, <2>1, <2>2 DEF Balanced
<1>3. CASE ~\E w \in Workers : WorkerActs(w)
  <2>1. /\ UNCHANGED <<acquired, pc, cancelled, closed, job, pendingAck, deliveries>>
        /\ faults' \in {faults, faults + 1}
    BY <1>3, OthersLeaveWorkers
  <2>2. \A p \in Offsets : Balance(p) => Balance(p)'
    BY <1>0, <2>1, BalanceStands
  <2>3. CancelledRun'
    BY <2>1 DEF CancelledRun
  <2> QED
    BY <1>1, <2>2, <2>3 DEF Balanced
<1> QED
  BY <1>2, <1>3

LEMMA BalanceInitial ==
    ASSUME SystemInit
    PROVE  CancelledRun /\ Balanced
<1>1. /\ \A w \in Workers : ~cancelled[w] /\ pendingAck[w] = {}
      /\ faults = 0 /\ \A p \in Offsets : deliveries[p] = 0
      /\ \A w \in Workers : acquired[w] = {}
  BY DEF SystemInit, Init
<1>2. ASSUME NEW p \in Offsets
      PROVE  Balance(p)
  <2>1. Debts(p) = {}
    <3>1. \A x : x \notin Debts(p)
      BY <1>1, DebtsOf DEF Cancels, Releases
    <3> QED
      BY <3>1
  <2>2. ~UnderWay(p)
    BY <1>1 DEF UnderWay, Works
  <2>3. IsFiniteSet(Debts(p)) /\ Cardinality(Debts(p)) = 0
    BY <2>1, FS_EmptySet
  <2> QED
    BY <1>1, <2>2, <2>3 DEF Balance
<1> QED
  BY <1>1, <1>2 DEF CancelledRun, Balanced

-----------------------------------------------------------------------------
(* Giving a record up.                                                     *)

\* Nothing but what is owed depends on it.
LEMMA GiveUpSettles ==
    ASSUME SystemInv, NEW o \in Offsets, GiveUp(o)
    PROVE  /\ o \in DOMAIN ready
           /\ UNCHANGED <<Known, faults>>
           /\ LET t == ready[o].id
                  k == ready[o].retried
              IN  /\ Started' = Started /\ Ended' = Ended
                  /\ Completed' = Completed /\ Dead' = Dead
                  /\ \/ Owed' = Owed
                     \/ k \in Owed[t] /\ Owed' = [Owed EXCEPT ![t] = @ \ {k}]
<1>1. o \in DOMAIN ready /\ archived' = archived \cup {o}
      /\ UNCHANGED <<topics, completed, moves, call, faults>>
  BY DEF GiveUp, Available, system, retryLog
<1>2. UNCHANGED <<Known, faults>>
  BY <1>1 DEF Known
<1> QED
  BY <1>1, <1>2, ArchiveSettlesAttempt

LEMMA GiveUpImplementsLifecycle ==
    ASSUME SystemInv, Balanced, NEW o \in Offsets, GiveUp(o)
    PROVE  Lifecycle!Next
<1> DEFINE t == ready[o].id
           k == ready[o].retried
<1>1. /\ o \in DOMAIN ready /\ UNCHANGED <<Known, faults>>
      /\ Started' = Started /\ Ended' = Ended
      /\ Completed' = Completed /\ Dead' = Dead
      /\ \/ Owed' = Owed
         \/ k \in Owed[t] /\ Owed' = [Owed EXCEPT ![t] = @ \ {k}]
  BY GiveUpSettles
<1>2. t \in Tasks /\ k \in Lifecycle!Attempts
  BY <1>1, CopiesAreStarted
<1>3. k \in Ended[t] \/ faults >= DeliveryLimit
  <2>1. CASE Settled(o)
    BY <1>1, <2>1, SettledHaveEnded
  <2>2. CASE Balance(o)
    <3>1. ~UnderWay(o) /\ deliveries[o] >= DeliveryLimit
      BY DEF GiveUp, Available, UnderWay, Works
    <3>2. /\ Cardinality(Debts(o)) \in Nat /\ deliveries[o] \in Nat
          /\ faults \in Nat /\ DeliveryLimit \in Nat
      BY <2>2, FS_CardinalityType, SystemAssumption
        DEF Balance, SystemInv, SystemTypeOK, PoolInv, TypeOK
    <3> QED
      BY <2>2, <3>1, <3>2 DEF Balance
  <2> QED
    BY <2>1, <2>2 DEF Balanced
<1> HIDE DEF t, k
<1>4. CASE Owed' = Owed
  BY <1>1, <1>4, StutterIsLifecycle
<1>5. CASE k \in Owed[t] /\ Owed' = [Owed EXCEPT ![t] = @ \ {k}]
  <2>1. Lifecycle!Settle(t, k)
    BY <1>1, <1>3, <1>5 DEF Lifecycle!Settle
  <2> QED
    BY <1>1, <1>2, <2>1 DEF Lifecycle!Next
<1> QED
  BY <1>1, <1>4, <1>5

LEMMA StepsImplementLifecycle ==
    ASSUME SystemInv, [SystemNext]_allVars, ~\E o \in Offsets : GiveUp(o)
    PROVE  [Lifecycle!Next]_(Lifecycle!lifecycle)
<1>1. ASSUME UNCHANGED <<vars, call, retryLog>>
      PROVE  UNCHANGED Lifecycle!lifecycle
  <2>1. UNCHANGED <<topics, archived, completed, faults, call, moves>>
    BY <1>1 DEF vars, group, retryLog
  <2>2. Started' = Started /\ Owed' = Owed /\ Ended' = Ended
    BY <2>1, QuietKeepsAttempts DEF Quiet, SystemInv, PoolInv
  <2>3. Completed' = Completed /\ Dead' = Dead /\ Known' = Known
    BY <2>1 DEF topics, Completed, Dead, Known
  <2> QED
    BY <2>1, <2>2, <2>3 DEF Lifecycle!lifecycle, Lifecycle!tasks
<1> QED
  BY <1>1, ClientsImplementLifecycle, WorkersImplementLifecycle,
     MovesImplementLifecycle
    DEF SystemNext, allVars, system, Tick

-----------------------------------------------------------------------------
(* The retry topics.                                                       *)

LEMMA QueueBuckets ==
    /\ Queue!RetryBuckets = RetryBuckets
    /\ \A d : Queue!Bucket(Boundaries, Partitions, d) = Bucket(Boundaries, Partitions, d)
  BY DEF Queue!RetryBuckets, RetryBuckets, Queue!Buckets, Buckets, Queue!Bands, Bands,
         Queue!Bucket, Bucket, Queue!BandOf, BandOf, Queue!PartitionOf, PartitionOf,
         Queue!BandWidth, BandWidth

LEMMA IsAppended ==
    ASSUME NEW S, NEW n \in Nat, NEW s \in [1..n -> S],
           NEW f \in [1..(n + 1) -> S],
           \A i \in 1..n : f[i] = s[i]
    PROVE  f = Append(s, f[n + 1])
<1> DEFINE e == f[n + 1]
<1>1. s \in Seq(S) /\ e \in S
  BY SeqDef
<1>2. Len(s) = n
  <2>1. Len(s) \in Nat /\ DOMAIN s = 1..Len(s) /\ DOMAIN s = 1..n
    BY <1>1, LenProperties
  <2> QED
    BY <2>1
<1> HIDE DEF e
<1>3. /\ Append(s, e) \in [1..(n + 1) -> S]
      /\ \A i \in 1..n : Append(s, e)[i] = s[i]
      /\ Append(s, e)[n + 1] = e
  <2>1. /\ Append(s, e) \in Seq(S) /\ Len(Append(s, e)) = n + 1
        /\ \A i \in 1..n : Append(s, e)[i] = s[i]
        /\ Append(s, e)[n + 1] = e
    BY <1>1, <1>2, AppendProperties
  <2> QED
    BY <2>1, LenProperties
<1>4. \A i \in 1..(n + 1) : i \in 1..n \/ i = n + 1
  OBVIOUS
<1>5. \A i \in 1..(n + 1) : f[i] = Append(s, e)[i]
  BY <1>3, <1>4 DEF e
<1>6. f = Append(s, e)
  BY <1>3, <1>5
<1> QED
  BY <1>6 DEF e

LEMMA QuietKeepsQueue ==
    ASSUME UNCHANGED <<retry, appended, moves, now>>
    PROVE  UNCHANGED <<RetryLog, moves, now>>
  BY DEF RetryLog

LEMMA WorkersImplementQueue ==
    ASSUME SystemInv, NEW w \in Workers, WorkerActs(w)
    PROVE  Queue!QueueNext \/ UNCHANGED <<RetryLog, moves, now>>
<1>0. WorkerEffect /\ Stamp /\ now' = now
  BY WorkerEffects DEF WorkerActs, Noted, SystemInv
<1>1. CASE retry' = retry
  <2>1. UNCHANGED <<appended, moves>>
    BY <1>0, <1>1 DEF Stamp, SystemInv, SystemTypeOK
  <2> QED
    BY <1>0, <1>1, <2>1, QuietKeepsQueue
<1>2. ASSUME NEW o \in Offsets, Retried(o)
      PROVE  Queue!QueueNext
  <2> DEFINE e == ready[o]
             b == BucketOf(e)
             n == Len(retry[b])
             d == DelayOf(e)
             new == [at |-> now, delay |-> d, decodes |-> TRUE]
  <2>1. /\ b \in RetryBuckets
        /\ \A c \in RetryBuckets : c # b =>
              /\ retry'[c] = retry[c]
              /\ moves'[c] = moves[c] /\ appended'[c] = appended[c]
        /\ retry'[b][n + 1] = RetryOf(e)
        /\ moves'[b] = Append(moves[b], 0)
        /\ appended'[b][n + 1] = now
        /\ \A i \in DOMAIN retry[b] :
              /\ retry'[b][i] = retry[b][i]
              /\ appended'[b][i] = appended[b][i]
    BY <1>0, <1>2, RetryIsStamped
  <2>2. n \in Nat /\ DOMAIN retry[b] = 1..n /\ DOMAIN retry'[b] = 1..(n + 1)
    <3>1. retry[b] \in Seq(Envelope)
      BY <2>1 DEF SystemInv, PoolInv, TypeOK
    <3>2. DOMAIN retry'[b] = DOMAIN retry[b] \cup {n + 1}
      BY <1>0, <1>2, RetryIsStamped
    <3> QED
      BY <3>1, <3>2
  <2>3. d \in RetryDelays /\ RetryOf(e).after = d /\ RetryOf(e).wellFormed
    <3>1. <<e.retried + 1, e.id>> \in (1..MaxRetries) \X Tasks
      BY <1>2, WorkerAssumption DEF Retried, Schedulable, Envelope
    <3> QED
      BY <3>1 DEF RetryDelays, DelayOf, RetryOf
  <2>4. b = Queue!Bucket(Boundaries, Partitions, d)
    BY QueueBuckets DEF BucketOf
  <2> HIDE DEF b, n, d, e
  <2>5. RetryLog'[b] = Append(RetryLog[b], new)
    <3>1. RetryLog[b] = [i \in 1..n |-> [at |-> appended[b][i],
                            delay |-> retry[b][i].after,
                            decodes |-> retry[b][i].wellFormed]]
      BY <2>1, <2>2 DEF RetryLog
    <3>2. RetryLog'[b] = [i \in 1..(n + 1) |-> [at |-> appended'[b][i],
                            delay |-> retry'[b][i].after,
                            decodes |-> retry'[b][i].wellFormed]]
      BY <2>1, <2>2 DEF RetryLog
    <3>3. n + 1 \in 1..(n + 1) /\ \A i \in 1..n : i \in 1..(n + 1)
      BY <2>2
    <3>4. ASSUME NEW i \in 1..n
          PROVE  RetryLog'[b][i] = RetryLog[b][i]
      <4>1. RetryLog[b][i] = [at |-> appended[b][i], delay |-> retry[b][i].after,
                              decodes |-> retry[b][i].wellFormed]
        BY <3>1
      <4>2. RetryLog'[b][i] = [at |-> appended'[b][i], delay |-> retry'[b][i].after,
                               decodes |-> retry'[b][i].wellFormed]
        BY <3>2, <3>3
      <4> QED
        BY <2>1, <2>2, <4>1, <4>2
    <3>5. RetryLog'[b][n + 1] = new
      <4>1. RetryLog'[b][n + 1] =
              [at |-> appended'[b][n + 1], delay |-> retry'[b][n + 1].after,
               decodes |-> retry'[b][n + 1].wellFormed]
        BY <3>2, <3>3
      <4>2. retry'[b][n + 1].after = d /\ retry'[b][n + 1].wellFormed = TRUE
        BY <2>1, <2>3 DEF RetryOf
      <4> QED
        BY <2>1, <4>1, <4>2
    <3> DEFINE old == RetryLog[b]
               log == RetryLog'[b]
               S == {log[i] : i \in 1..(n + 1)}
    <3>6. log \in [1..(n + 1) -> S] /\ old \in [1..n -> S]
      BY <3>1, <3>2, <3>3, <3>4
    <3>7. (\A i \in 1..n : log[i] = old[i]) /\ log[n + 1] = new
      BY <3>4, <3>5
    <3> HIDE DEF new, old, log, S
    <3>8. log = Append(old, log[n + 1])
      BY <2>2, <3>6, <3>7, IsAppended
    <3> QED
      BY <3>7, <3>8 DEF old, log
  <2>6. \A c \in RetryBuckets : c # b => RetryLog'[c] = RetryLog[c]
    BY <2>1 DEF RetryLog
  <2>7. /\ RetryLog = [c \in RetryBuckets |-> RetryLog[c]]
        /\ RetryLog' = [c \in RetryBuckets |-> RetryLog'[c]]
    BY DEF RetryLog
  <2>8. RetryLog' = [RetryLog EXCEPT ![b] = Append(@, new)]
    <3> HIDE DEF new
    <3> QED
      BY <2>1, <2>5, <2>6, <2>7
  <2>9. moves' = [moves EXCEPT ![b] = Append(@, 0)]
    BY <1>0, <2>1 DEF Stamp, SystemInv, SystemTypeOK
  <2>10. Queue!AppendRetry(d, TRUE)
    BY <1>0, <2>4, <2>8, <2>9 DEF Queue!AppendRetry
  <2> QED
    BY <2>3, <2>10 DEF Queue!QueueNext
<1> QED
  BY <1>0, <1>1, <1>2 DEF WorkerEffect, Quiet, Buried, Succeeded, Archived, topics

LEMMA MovesImplementQueue ==
    ASSUME SystemInv, NEW b \in RetryBuckets, NEW i \in DOMAIN retry[b], Move(b, i)
    PROVE  Queue!QueueNext
<1>1. /\ retry[b] \in Seq(Envelope) /\ moves[b] \in Seq(Nat)
      /\ Len(moves[b]) = Len(retry[b])
  BY DEF SystemInv, SystemTypeOK, PoolInv, TypeOK
<1>2. UNCHANGED RetryLog
  BY DEF Move, RetryLog
<1>3. \A j \in DOMAIN retry[b] :
         /\ j \in DOMAIN RetryLog[b]
         /\ RetryLog[b][j].at = appended[b][j]
         /\ RetryLog[b][j].delay = retry[b][j].after
         /\ RetryLog[b][j].decodes = retry[b][j].wellFormed
  BY DEF RetryLog
<1>4. \A j \in 1..(i - 1) : Queue!Moved(b, j)
  <2> SUFFICES ASSUME NEW j \in 1..(i - 1)
               PROVE  Queue!Moved(b, j)
    OBVIOUS
  <2>1. j \in DOMAIN retry[b] /\ moves[b][j] \in Nat
    BY <1>1
  <2>2. moves[b][j] # 0
    BY <2>1 DEF Move, Waiting
  <2> QED
    BY <1>3, <2>1, <2>2 DEF Queue!Moved
<1>5. Queue!DueAt(b, i) <= now
  BY <1>3 DEF Queue!DueAt, Move, IsDue
<1>6. RetryLog[b][i].decodes
  BY <1>3, RetriesAreClients
<1>7. Queue!Deliver(b, i)
  BY <1>2, <1>3, <1>4, <1>5, <1>6 DEF Queue!Deliver, Move
<1> QED
  BY <1>3, <1>7, QueueBuckets DEF Queue!QueueNext

LEMMA StepsImplementQueue ==
    ASSUME SystemInv, [SystemNext]_allVars
    PROVE  [Queue!QueueNext]_(Queue!queue)
<1> USE DEF Queue!queue
<1>1. CASE UNCHANGED <<retry, appended, moves, now>>
  BY <1>1, QuietKeepsQueue
<1>2. ASSUME NEW t \in Tasks,
             Enqueue(t) \/ EnqueueWrites(t) \/ EnqueueReturns(t) \/ EnqueueFails(t)
      PROVE  UNCHANGED <<retry, appended, moves, now>>
  BY <1>2 DEF Enqueue, EnqueueWrites, EnqueueReturns, EnqueueFails, Arrive, vars,
              topics, retryLog
<1>3. ASSUME NEW o \in Offsets, GiveUp(o)
      PROVE  UNCHANGED <<retry, appended, moves, now>>
  BY <1>3 DEF GiveUp, topics, system, retryLog
<1>4. CASE Tick
  <2>1. UNCHANGED <<RetryLog, moves>> /\ now' = now + 1
    BY <1>4 DEF Tick, vars, topics, retryLog, RetryLog
  <2> QED
    BY <2>1 DEF Queue!QueueNext, Queue!Tick
<1> QED
  BY <1>1, <1>2, <1>3, <1>4, WorkersImplementQueue, MovesImplementQueue
    DEF SystemNext, allVars, vars, topics, system, retryLog

LEMMA InitImplementsQueue ==
    ASSUME SystemInit
    PROVE  Queue!QueueInit
<1>1. RetryLog = [b \in RetryBuckets |-> <<>>]
  <2>1. \A b \in RetryBuckets : DOMAIN retry[b] = {}
    BY DEF SystemInit, Init
  <2>2. \A b \in RetryBuckets : RetryLog[b] = <<>>
    BY <2>1 DEF RetryLog
  <2> QED
    BY <2>2 DEF RetryLog
<1> QED
  BY <1>1, QueueBuckets DEF SystemInit, Queue!QueueInit

-----------------------------------------------------------------------------
(* What TaskLifecycle_proofs shows of the abstract queue, of this one.     *)

Promises == INSTANCE TaskLifecycle_proofs WITH
    MaxRetries <- ClientRetries,
    known <- Known,
    started <- Started,
    owed <- Owed,
    ended <- Ended,
    completed <- Completed,
    dead <- Dead,
    Patience <- DeliveryLimit,
    mishaps <- faults

LEMMA SameQueue ==
    /\ Lifecycle!Init <=> Promises!Init
    /\ [Lifecycle!Next]_(Lifecycle!lifecycle) <=> [Promises!Next]_(Promises!lifecycle)
    /\ NoTaskIsLost <=> Promises!NothingIsLost
    /\ DeadLettersHadEveryAttempt <=> Promises!EveryAttemptIsMade
<1>1. Lifecycle!Init <=> Promises!Init
  BY DEF Lifecycle!Init, Promises!Init
<1>2. [Lifecycle!Next]_(Lifecycle!lifecycle) <=> [Promises!Next]_(Promises!lifecycle)
  BY DEF Lifecycle!Next, Promises!Next, Lifecycle!lifecycle, Promises!lifecycle,
         Lifecycle!tasks, Promises!tasks, Lifecycle!Attempts, Promises!Attempts,
         Lifecycle!Begin, Promises!Begin, Lifecycle!End, Promises!End,
         Lifecycle!Accept, Promises!Accept, Lifecycle!Confirm, Promises!Confirm,
         Lifecycle!Complete, Promises!Complete, Lifecycle!Retry, Promises!Retry,
         Lifecycle!Bury, Promises!Bury, Lifecycle!Redeliver, Promises!Redeliver,
         Lifecycle!Settle, Promises!Settle
<1>3. NoTaskIsLost <=> Promises!NothingIsLost
  BY DEF NoTaskIsLost, Lifecycle!NothingIsLost, Promises!NothingIsLost
<1>4. DeadLettersHadEveryAttempt <=> Promises!EveryAttemptIsMade
  BY DEF DeadLettersHadEveryAttempt, Lifecycle!EveryAttemptIsMade,
         Promises!EveryAttemptIsMade, Lifecycle!Attempts, Promises!Attempts
<1> QED
  BY <1>1, <1>2, <1>3, <1>4

LEMMA PromisesAssumption == Promises!LifecycleAssumption
  BY SystemAssumption, WorkerAssumption DEF Promises!LifecycleAssumption

LEMMA InitImplementsLifecycle ==
    ASSUME SystemInit
    PROVE  Lifecycle!Init
<1>1. /\ ready = <<>> /\ dlq = <<>> /\ completed = {} /\ faults = 0
      /\ Known = {}
      /\ \A b \in RetryBuckets : DOMAIN retry[b] = {}
  BY DEF SystemInit, Init, Known
<1>2. /\ \A t \in Tasks : Started[t] = {}
      /\ \A t \in Tasks : Owed[t] = {}
      /\ \A t \in Tasks : Ended[t] = {}
  <2>1. \A t \in Tasks : \A k : ~IsStarted(t, k) /\ ~IsOwed(t, k) /\ ~IsEnded(t, k)
    BY <1>1 DEF IsStarted, IsOwed, IsEnded
  <2> QED
    BY <2>1, Mapping
<1>3. /\ Started = [t \in Tasks |-> {}]
      /\ Owed = [t \in Tasks |-> {}]
      /\ Ended = [t \in Tasks |-> {}]
  BY <1>2, FunctionsOfTasks
<1>4. Completed = {} /\ Dead = {}
  BY <1>1 DEF Completed, Dead
<1>5. Known = {} /\ faults = 0
  BY <1>1
<1>6. Lifecycle!Init <=>
        /\ Known = {} /\ Completed = {} /\ Dead = {}
        /\ Started = [t \in Tasks |-> {}]
        /\ Owed = [t \in Tasks |-> {}]
        /\ Ended = [t \in Tasks |-> {}]
        /\ faults = 0
  BY Zenon DEF Lifecycle!Init
<1> QED
  BY <1>3, <1>4, <1>5, <1>6, Zenon

\* The order of the attempts holds whatever the handlers and the policy do:
\* a record that is given up only stops being owed.
AttemptsInOrder == Promises!TypeOK /\ Promises!EveryAttemptIsMade

LEMMA AttemptsStayInOrder ==
    ASSUME SystemInv, AttemptsInOrder, [SystemNext]_allVars
    PROVE  AttemptsInOrder'
<1>1. ASSUME NEW o \in Offsets, GiveUp(o)
      PROVE  AttemptsInOrder'
  <2>1. /\ UNCHANGED <<Known, faults>>
        /\ Started' = Started /\ Ended' = Ended /\ Completed' = Completed /\ Dead' = Dead
        /\ Owed' = Owed \/ \E t \in Tasks : \E k : Owed' = [Owed EXCEPT ![t] = @ \ {k}]
    BY <1>1, GiveUpSettles, CopiesAreStarted
  <2> QED
    BY <2>1 DEF AttemptsInOrder, Promises!TypeOK, Promises!EveryAttemptIsMade
<1>2. CASE ~\E o \in Offsets : GiveUp(o)
  <2>1. [Promises!Next]_(Promises!lifecycle)
    BY <1>2, StepsImplementLifecycle, SameQueue
  <2>2. Promises!TypeOK'
    BY <2>1, PromisesAssumption, Promises!TypeInductive DEF AttemptsInOrder
  <2>3. Promises!EveryAttemptIsMade'
    BY <2>1, PromisesAssumption, Promises!AttemptsStayInOrder DEF AttemptsInOrder
  <2> QED
    BY <2>2, <2>3 DEF AttemptsInOrder
<1> QED
  BY <1>1, <1>2

-----------------------------------------------------------------------------
(* The theorems.                                                           *)

\* Every reachable state of the composition satisfies its invariant.
LEMMA SystemInvariance == SystemSpec => []SystemInv
<1>1. SystemInit => SystemInv
  BY SystemInitIsGood
<1>2. SystemInv /\ [SystemNext]_allVars => SystemInv'
  BY SystemInvIsKept
<1> QED
  BY <1>1, <1>2, PTL DEF SystemSpec

\* With clients, movers and the share group around them, too, the channels of a
\* worker's pool have room whenever somebody sends on them, for any number of
\* workers, goroutines and tasks.
THEOREM ChannelsHaveRoomInTheSystem == SystemSpec => []ChannelsNeverBlock
<1>1. SystemInv => ChannelsNeverBlock
  BY FitNeverBlocks DEF SystemInv, PoolInv
<1> QED
  BY <1>1, SystemInvariance, PTL

\* The workers' produces and the movers' writes are, step by step, those of
\* RetryQueue: in the bucket of their delay, stamped, delivered when due and in
\* the order of the offsets.
THEOREM SystemImplementsQueue == SystemSpec => ImplementsQueue
<1>1. SystemInit => Queue!QueueInit
  BY InitImplementsQueue
<1>2. SystemInv /\ [SystemNext]_allVars => [Queue!QueueNext]_(Queue!queue)
  BY StepsImplementQueue
<1> QED
  BY <1>1, <1>2, SystemInvariance, PTL DEF SystemSpec, ImplementsQueue, Queue!QueueSpec

\* A dead-lettered task has had every attempt its client allowed, one after the
\* other, whatever crashes, expires, is cancelled, moved twice or given up.
THEOREM DeadLettersAlwaysHadEveryAttempt == SystemSpec => []DeadLettersHadEveryAttempt
<1>1. SystemInit => AttemptsInOrder
  <2>1. SystemInit => Promises!Init
    BY InitImplementsLifecycle, SameQueue
  <2>2. Promises!Init => Promises!TypeOK /\ Promises!EveryAttemptIsMade
    BY PromisesAssumption, Promises!InvInitial DEF Promises!IInv
  <2> QED
    BY <2>1, <2>2 DEF AttemptsInOrder
<1>2. SystemInv /\ AttemptsInOrder /\ [SystemNext]_allVars => AttemptsInOrder'
  BY AttemptsStayInOrder
<1>3. AttemptsInOrder => DeadLettersHadEveryAttempt
  BY SameQueue DEF AttemptsInOrder
<1> QED
  BY <1>1, <1>2, <1>3, SystemInvariance, PTL DEF SystemSpec

LEMMA ReliableInvariance ==
    ASSUME Reliable
    PROVE  SystemSpec => [](SystemInv /\ CancelledRun /\ Balanced)
<1> DEFINE Inv == SystemInv /\ CancelledRun /\ Balanced
<1>1. SystemInit => Inv
  BY SystemInitIsGood, BalanceInitial
<1>2. Inv /\ [SystemNext]_allVars => Inv'
  <2> SUFFICES ASSUME Inv, [SystemNext]_allVars
               PROVE  Inv'
    OBVIOUS
  <2>1. SystemInv'
    BY SystemInvIsKept
  <2>2. CancelledRun' /\ Balanced'
    BY BalanceInductive
  <2> QED
    BY <2>1, <2>2
<1> QED
  BY <1>1, <1>2, PTL DEF SystemSpec

LEMMA ReliableStepsImplementLifecycle ==
    ASSUME SystemInv, Balanced, [SystemNext]_allVars
    PROVE  [Lifecycle!Next]_(Lifecycle!lifecycle)
  BY GiveUpImplementsLifecycle, StepsImplementLifecycle

\* Clients, workers, movers and the share group together implement TaskLifecycle,
\* when handlers neither panic for good nor return errors that cannot be
\* encoded and the policy's delays are within the grid: every step of theirs
\* is a step of the abstract queue or none.
THEOREM SystemImplementsLifecycle ==
    ASSUME Reliable
    PROVE  SystemSpec => ImplementsLifecycle
<1>1. SystemInit => Lifecycle!Init
  BY InitImplementsLifecycle
<1>2. SystemInv /\ CancelledRun /\ Balanced /\ [SystemNext]_allVars
        => [Lifecycle!Next]_(Lifecycle!lifecycle)
  BY ReliableStepsImplementLifecycle
<1>3. SystemSpec => [](SystemInv /\ CancelledRun /\ Balanced)
  BY ReliableInvariance
<1> QED
  BY <1>1, <1>2, <1>3, PTL DEF SystemSpec, ImplementsLifecycle, Lifecycle!Spec

\* While there are fewer faults than the share group allows deliveries, every
\* accepted task is owed an attempt, completed or dead-lettered, for any number
\* of clients' tasks, workers, records and retries.
THEOREM NoTaskIsEverLost ==
    ASSUME Reliable
    PROVE  SystemSpec => []NoTaskIsLost
<1>1. SystemInit => Promises!IInv
  BY InitImplementsLifecycle, SameQueue, PromisesAssumption, Promises!InvInitial
<1>2. SystemInv /\ CancelledRun /\ Balanced /\ Promises!IInv /\ [SystemNext]_allVars
        => Promises!IInv'
  BY ReliableStepsImplementLifecycle, SameQueue, PromisesAssumption,
     Promises!InvInductive
<1>3. Promises!IInv => NoTaskIsLost
  BY SameQueue, PromisesAssumption, Promises!InvImpliesNothingIsLost
<1>4. SystemSpec => [](SystemInv /\ CancelledRun /\ Balanced)
  BY ReliableInvariance
<1> QED
  BY <1>1, <1>2, <1>3, <1>4, PTL DEF SystemSpec

=============================================================================
