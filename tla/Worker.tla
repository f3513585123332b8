------------------------------- MODULE Worker -------------------------------
(***************************************************************************)
(* The worker processes of one queue: Worker.Run with its pool of handler  *)
(* goroutines, the share consumer it polls and acknowledges through, and   *)
(* the topics it reads and writes.                                         *)
(*                                                                         *)
(* A record of the ready topic is named by its offset.  A goroutine's      *)
(* handling of a record is split where other processes can act: it is      *)
(* taken from the jobs channel, the handler runs, a record is produced.    *)
(* The broker's share group is modelled by what the code relies on: a      *)
(* record is acquired by one member at a time, the acquisition may expire, *)
(* an acknowledgement is applied only for the member that holds it.        *)
(***************************************************************************)
EXTENDS RetryGrid, FiniteSets

CONSTANTS
    Workers,        \* the worker processes of the queue
    Tasks,          \* task identities
    Concurrency,    \* WorkerConfig.Concurrency
    Boundaries,     \* RetryGrid.boundaries
    Partitions,     \* RetryGrid.partitions
    MaxRetries,     \* RetryPolicy.maxRetries of the workers
    RetryDelay,     \* RetryPolicy.delay: a function of <<retry, task>>
    Panics,         \* tasks whose handler keeps panicking
    Unencodable,    \* tasks whose handler may return an error of bytes that
                    \* are no text, which encodeEnvelope refuses
    Arrivals,       \* envelopes that may arrive on the ready topic
    MaxReady,       \* bound: records on the ready topic
    MaxFaults       \* bound: faults of the environment

RetryBuckets == Buckets(Boundaries, Partitions)

Envelope == [id: Tasks, retries: Nat, retried: Nat, after: Int,
             wellFormed: BOOLEAN]

ASSUME WorkerAssumption ==
    /\ Concurrency \in Nat \ {0}
    /\ Boundaries \in Seq(Int) /\ Partitions \in Int
    /\ ValidGrid(Boundaries, Partitions)
    /\ MaxRetries \in Nat
    /\ RetryDelay \in [(1..MaxRetries) \X Tasks -> Int]
    /\ Panics \subseteq Tasks /\ Unencodable \subseteq Tasks
    /\ Arrivals \subseteq Envelope
    /\ MaxReady \in Nat /\ MaxFaults \in Nat

VARIABLES
    \* Kafka
    ready,          \* the ready topic: a sequence of envelopes
    acquired,       \* acquired[w]: the offsets the share group lends to w
    archived,       \* the offsets accepted: never delivered again
    retry,          \* retry[bucket]: the retry topics' partitions
    dlq,            \* the dead-letter topic
    \* a worker process
    pc,             \* where Worker.Run of w is
    job,            \* job[w][o]: how far w is with the record at o
    cancelled,      \* the context of w's Run is cancelled
    closed,         \* w.Close has been called
    taskErr,        \* taskErr of this generation is not nil
    pollErr,        \* result.err of this generation's poll is not nil
    pendingAck,     \* acknowledgements given by w, not yet answered
    ackErr,         \* kafkaShareGroupConsumer.ackErr is not nil
    ret,            \* what the last Run of w returned
    \* history and bounds
    completed,      \* offsets whose handler has returned nil
    faults          \* faults so far

topics == <<ready, retry, dlq>>
group == <<acquired, archived>>
run == <<pc, cancelled, closed, taskErr, pollErr, ret>>
acks == <<pendingAck, ackErr>>
vars == <<topics, group, run, acks, job, completed, faults>>

Offsets == 1..MaxReady

\* fetched: returned by Poll; queued: in the jobs channel; running, retrying,
\* burying: a goroutine runs the handler, produces to a retry topic or to the
\* dlq; ok, err: in the results channel; marked: record.Ack has been called.
JobStates == {"none", "fetched", "queued", "running", "retrying", "burying",
              "ok", "err", "marked"}

In(w, states) == {o \in Offsets : job[w][o] \in states}
Busy(w) == In(w, {"running", "retrying", "burying"})
Results(w) == In(w, {"ok", "err"})

Available(o) ==
    /\ o \in DOMAIN ready
    /\ o \notin archived
    /\ \A w \in Workers : o \notin acquired[w]

Fault == faults < MaxFaults /\ faults' = faults + 1

\* The records of the retry topics, named by bucket and offset.
RetryOffsets == UNION {{b} \X DOMAIN retry[b] : b \in RetryBuckets}

SetJob(w, o, state) == [job EXCEPT ![w][o] = state]

-----------------------------------------------------------------------------
(* The life of a worker process.                                           *)

Init ==
    /\ ready = <<>> /\ dlq = <<>>
    /\ retry = [b \in RetryBuckets |-> <<>>]
    /\ acquired = [w \in Workers |-> {}] /\ archived = {}
    /\ pc = [w \in Workers |-> "down"]
    /\ job = [w \in Workers |-> [o \in Offsets |-> "none"]]
    /\ cancelled = [w \in Workers |-> FALSE]
    /\ closed = [w \in Workers |-> FALSE]
    /\ taskErr = [w \in Workers |-> FALSE]
    /\ pollErr = [w \in Workers |-> FALSE]
    /\ pendingAck = [w \in Workers |-> {}]
    /\ ackErr = [w \in Workers |-> FALSE]
    /\ ret = [w \in Workers |-> "none"]
    /\ completed = {} /\ faults = 0

NewWorker(w) ==
    /\ pc[w] = "down"
    /\ pc' = [pc EXCEPT ![w] = "idle"]
    /\ UNCHANGED <<topics, group, job, cancelled, closed, taskErr, pollErr,
                   ret, acks, completed, faults>>

\* Run, with a context of its own, up to its first Poll.
Run(w) ==
    /\ pc[w] = "idle" /\ ~closed[w]
    /\ pc' = [pc EXCEPT ![w] = "poll"]
    /\ ret' = [ret EXCEPT ![w] = "none"]
    /\ UNCHANGED <<topics, group, job, cancelled, closed, taskErr, pollErr,
                   acks, completed, faults>>

Cancel(w) ==
    /\ pc[w] \notin {"down", "idle"} /\ ~cancelled[w]
    /\ Fault
    /\ cancelled' = [cancelled EXCEPT ![w] = TRUE]
    /\ UNCHANGED <<topics, group, pc, job, closed, taskErr, pollErr, ret, acks,
                   completed>>

\* Worker.Close, after Run or while it runs.
Close(w) ==
    /\ pc[w] # "down" /\ ~closed[w]
    /\ Fault
    /\ closed' = [closed EXCEPT ![w] = TRUE]
    /\ UNCHANGED <<topics, group, pc, job, cancelled, taskErr, pollErr, ret,
                   acks, completed>>

\* The process is gone: its memory with it, but not its acquisitions.
Vanish(w) ==
    /\ pc' = [pc EXCEPT ![w] = "down"]
    /\ job' = [job EXCEPT ![w] = [o \in Offsets |-> "none"]]
    /\ cancelled' = [cancelled EXCEPT ![w] = FALSE]
    /\ closed' = [closed EXCEPT ![w] = FALSE]
    /\ taskErr' = [taskErr EXCEPT ![w] = FALSE]
    /\ pollErr' = [pollErr EXCEPT ![w] = FALSE]
    /\ pendingAck' = [pendingAck EXCEPT ![w] = {}]
    /\ ackErr' = [ackErr EXCEPT ![w] = FALSE]
    /\ ret' = [ret EXCEPT ![w] = "none"]
    /\ UNCHANGED <<topics, group, completed>>

Exit(w) ==
    /\ pc[w] = "idle" /\ closed[w]
    /\ Vanish(w)
    /\ UNCHANGED faults

Crash(w) ==
    /\ pc[w] # "down"
    /\ Fault
    /\ Vanish(w)

\* Run returns; its context is nobody's any more.
Return(w, value) ==
    /\ pc' = [pc EXCEPT ![w] = "idle"]
    /\ cancelled' = [cancelled EXCEPT ![w] = FALSE]
    /\ ret' = [ret EXCEPT ![w] = value]

-----------------------------------------------------------------------------
(* Poll and the dispatch of a generation.                                  *)

\* The share client accepts what the last poll delivered and nobody
\* acknowledged.
AutoAccepted(w) ==
    {<<o, "accept">> : o \in In(w, JobStates \ {"none", "marked"})}

\* ShareMaxRecords and ShareMaxRecordsStrict, and the limit given to
\* PollRecords.  A faulty variant: the broker's batches are not cut.
FaultyPollLimit == Concurrency + 1

PollLimit == Concurrency

\* Poll returns records.
PollRecords(w) ==
    /\ pc[w] = "poll" /\ ~closed[w]
    /\ \E polled \in SUBSET {o \in Offsets : Available(o)} :
        /\ polled # {} /\ Cardinality(polled) <= PollLimit
        /\ acquired' = [acquired EXCEPT ![w] = @ \cup polled]
        /\ job' = [job EXCEPT ![w] = [o \in Offsets |->
                      IF o \in polled THEN "fetched" ELSE job[w][o]]]
    /\ pendingAck' = [pendingAck EXCEPT ![w] = @ \cup AutoAccepted(w)]
    /\ pc' = [pc EXCEPT ![w] = "dispatch"]
    /\ \/ UNCHANGED <<pollErr, faults>>
       \/ pollErr' = [pollErr EXCEPT ![w] = TRUE] /\ Fault
    /\ UNCHANGED <<topics, archived, cancelled, closed, taskErr, ret, ackErr,
                   completed>>

\* Poll returns no record.  Run stops when it was told to, or on an error; a
\* poll that is merely empty goes round the loop and changes nothing.
PollStops(w) ==
    /\ pc[w] = "poll" /\ (cancelled[w] \/ closed[w])
    /\ pendingAck' = [pendingAck EXCEPT ![w] = @ \cup AutoAccepted(w)]
    /\ Return(w, "nil")
    /\ UNCHANGED <<topics, group, job, closed, taskErr, pollErr, ackErr,
                   completed, faults>>

PollFails(w) ==
    /\ pc[w] = "poll" /\ ~cancelled[w] /\ ~closed[w]
    /\ Fault
    /\ pendingAck' = [pendingAck EXCEPT ![w] = @ \cup AutoAccepted(w)]
    /\ Return(w, "error")
    /\ UNCHANGED <<topics, group, job, closed, taskErr, pollErr, ackErr,
                   completed>>

\* jobs <- workerJob: blocks while the channel is full.
Dispatch(w, o) ==
    /\ pc[w] = "dispatch" /\ job[w][o] = "fetched"
    /\ Cardinality(In(w, {"queued"})) < Concurrency
    /\ job' = SetJob(w, o, "queued")
    /\ pc' = IF In(w, {"fetched"}) = {o} THEN [pc EXCEPT ![w] = "collect"] ELSE pc
    /\ UNCHANGED <<topics, group, cancelled, closed, taskErr, pollErr, ret,
                   acks, completed, faults>>

-----------------------------------------------------------------------------
(* A goroutine of the pool: handle.  It reports its result on a channel of *)
(* Concurrency places.                                                     *)

CanReport(w) == Cardinality(Results(w)) < Concurrency

Take(w, o) ==
    /\ job[w][o] = "queued"
    /\ Cardinality(Busy(w)) < Concurrency
    /\ job' = SetJob(w, o, "running")
    /\ UNCHANGED <<topics, group, run, acks, completed, faults>>

DecodeFails(w, o) ==
    /\ job[w][o] = "running" /\ ~ready[o].wellFormed
    /\ CanReport(w)
    /\ job' = SetJob(w, o, "err")
    /\ UNCHANGED <<topics, group, run, acks, completed, faults>>

HandlerSucceeds(w, o) ==
    /\ job[w][o] = "running" /\ ready[o].wellFormed
    /\ CanReport(w)
    /\ job' = SetJob(w, o, "ok")
    /\ completed' = completed \cup {o}
    /\ UNCHANGED <<topics, group, run, acks, faults>>

\* RetryPolicy.retryAfter.
DelayOf(e) == RetryDelay[<<e.retried + 1, e.id>>]

\* scheduleRetry reaches its Produce: the policy knows the retry, and its
\* delay is neither negative nor beyond the grid.  A faulty variant is one
\* retry short.
FaultySchedulable(e) ==
    e.retried + 1 < MaxRetries /\ InRange(Boundaries, DelayOf(e))

Schedulable(e) ==
    /\ e.retried + 1 <= MaxRetries
    /\ DelayOf(e) >= 0
    /\ InRange(Boundaries, DelayOf(e))

\* Whether the envelope has no retry left.  Faulty variants: one too many, one
\* too few.
FaultyExhaustedLate(e) == e.retried > e.retries

FaultyExhaustedEarly(e) == e.retried + 1 >= e.retries

Exhausted(e) == e.retried >= e.retries

\* What handle does with a handler's error.
HandlerFails(w, o) ==
    /\ job[w][o] = "running" /\ ready[o].wellFormed
    /\ \/ /\ ~cancelled[w] /\ Exhausted(ready[o])
          /\ job' = SetJob(w, o, "burying")
       \/ /\ ~cancelled[w] /\ ~Exhausted(ready[o]) /\ Schedulable(ready[o])
          /\ job' = SetJob(w, o, "retrying")
       \/ /\ \/ cancelled[w] \/ ready[o].id \in Unencodable
             \/ ~Exhausted(ready[o]) /\ ~Schedulable(ready[o])
          /\ CanReport(w)
          /\ job' = SetJob(w, o, "err")
    /\ UNCHANGED <<topics, group, run, acks, completed, faults>>

\* Nothing recovers a panic of the handler: the process dies.  Any handler may
\* panic, as a fault; those of Panics do so again and again.
HandlerPanics(w, o) ==
    /\ job[w][o] = "running" /\ ready[o].wellFormed
    /\ IF ready[o].id \in Panics THEN UNCHANGED faults ELSE Fault
    /\ Vanish(w)

\* The envelope scheduleRetry writes.  Faulty variants: it counts down, it
\* keeps the delay it came with.
FaultyRetryOf(e) == [e EXCEPT !.retried = @ - 1]

FaultyRetryAfter(e) == [e EXCEPT !.retried = @ + 1]

RetryOf(e) ==
    [id |-> e.id, retries |-> e.retries, retried |-> e.retried + 1,
     after |-> DelayOf(e), wellFormed |-> TRUE]

BucketOf(e) == Bucket(Boundaries, Partitions, DelayOf(e))

\* The record the goroutine produces is on its topic.
Written(w, o) ==
    \/ /\ job[w][o] = "retrying"
       /\ retry' = [retry EXCEPT ![BucketOf(ready[o])] =
                       Append(@, RetryOf(ready[o]))]
       /\ UNCHANGED <<ready, dlq>>
    \/ /\ job[w][o] = "burying"
       /\ dlq' = Append(dlq, ready[o])
       /\ UNCHANGED <<ready, retry>>

\* scheduleRetry and deadLetter return nil once the record is written.  A
\* faulty variant still returns the handler's error.
FaultyProduce(w, o) ==
    /\ job[w][o] \in {"retrying", "burying"} /\ ~closed[w]
    /\ CanReport(w)
    /\ Written(w, o)
    /\ job' = SetJob(w, o, "err")
    /\ UNCHANGED <<group, run, acks, completed, faults>>

Produce(w, o) ==
    /\ job[w][o] \in {"retrying", "burying"} /\ ~closed[w]
    /\ CanReport(w)
    /\ Written(w, o)
    /\ job' = SetJob(w, o, "ok")
    /\ UNCHANGED <<group, run, acks, completed, faults>>

\* A Produce that fails may have been written all the same.  A faulty variant
\* drops its error.
FaultyProduceFails(w, o) ==
    /\ job[w][o] \in {"retrying", "burying"}
    /\ CanReport(w)
    /\ IF cancelled[w] \/ closed[w] THEN UNCHANGED faults ELSE Fault
    /\ Written(w, o) \/ UNCHANGED topics
    /\ job' = SetJob(w, o, "ok")
    /\ UNCHANGED <<group, run, acks, completed>>

ProduceFails(w, o) ==
    /\ job[w][o] \in {"retrying", "burying"}
    /\ CanReport(w)
    /\ IF cancelled[w] \/ closed[w] THEN UNCHANGED faults ELSE Fault
    /\ Written(w, o) \/ UNCHANGED topics
    /\ job' = SetJob(w, o, "err")
    /\ UNCHANGED <<group, run, acks, completed>>

-----------------------------------------------------------------------------
(* The results of a generation, and its acknowledgements.                  *)

\* The result of o is the last of the generation: Run's receive loop takes as
\* many as there are records.  Faulty variants: it stops once nothing is
\* queued, it takes as many as there are goroutines.
FaultyLastResult(w, o) == In(w, {"queued", "ok", "err"}) = {o}

FaultyResultCount(w, o) == Cardinality(In(w, {"marked"})) + 1 = Concurrency

LastResult(w, o) == In(w, JobStates \ {"none", "marked"}) = {o}

CollectResult(w, o) ==
    /\ pc[w] = "collect" /\ job[w][o] \in {"ok", "err"}
    /\ job' = SetJob(w, o, "marked")
    /\ \/ /\ job[w][o] = "ok"
          /\ pendingAck' = [pendingAck EXCEPT ![w] = @ \cup {<<o, "accept">>}]
          /\ UNCHANGED taskErr
       \/ /\ job[w][o] = "err"
          /\ pendingAck' = [pendingAck EXCEPT ![w] = @ \cup {<<o, "release">>}]
          /\ taskErr' = [taskErr EXCEPT ![w] = TRUE]
    /\ pc' = IF LastResult(w, o) THEN [pc EXCEPT ![w] = "flush"] ELSE pc
    /\ UNCHANGED <<topics, group, cancelled, closed, pollErr, ret, ackErr,
                   completed, faults>>

\* The broker applies an acknowledgement.
Apply(w, o, status) ==
    /\ o \in acquired[w]
    /\ acquired' = [acquired EXCEPT ![w] = @ \ {o}]
    /\ archived' = IF status = "accept" THEN archived \cup {o} ELSE archived

\* An answer reaches recordAckResult: applied; or refused, the record being no
\* longer w's.
DeliverAck(w, o, status) ==
    /\ <<o, status>> \in pendingAck[w]
    /\ pendingAck' = [pendingAck EXCEPT ![w] = @ \ {<<o, status>>}]
    /\ \/ Apply(w, o, status) /\ UNCHANGED ackErr
       \/ /\ o \notin acquired[w]
          /\ ackErr' = [ackErr EXCEPT ![w] = TRUE]
          /\ UNCHANGED group
    /\ UNCHANGED <<topics, run, job, completed, faults>>

\* The request or its answer is lost: an error, whatever the broker did.  A
\* closed client no longer sends what is pending.
LoseAck(w, o, status) ==
    /\ <<o, status>> \in pendingAck[w]
    /\ IF closed[w] THEN UNCHANGED faults ELSE Fault
    /\ pendingAck' = [pendingAck EXCEPT ![w] = @ \ {<<o, status>>}]
    /\ ackErr' = [ackErr EXCEPT ![w] = TRUE]
    /\ Apply(w, o, status) \/ UNCHANGED group
    /\ UNCHANGED <<topics, run, job, completed>>

\* What FlushAcks returns: the flush's own error joined with the errors the
\* callback recorded.  A faulty variant: only the former.
FaultyFlushError(w) == pendingAck[w] # {}

FlushError(w) == pendingAck[w] # {} \/ ackErr[w]

\* FlushAcks returns, because every acknowledgement is answered or because
\* its second has passed, and takeAckError empties ackErr; then the end of
\* Run's loop.  result.closed is not asked again: a closed client polls no
\* records.
FlushAcks(w) ==
    /\ pc[w] = "flush"
    /\ IF pendingAck[w] = {} THEN UNCHANGED faults ELSE Fault
    /\ \/ /\ cancelled[w]
          /\ Return(w, IF FlushError(w) THEN "error" ELSE "nil")
       \/ /\ ~cancelled[w] /\ (taskErr[w] \/ FlushError(w) \/ pollErr[w])
          /\ Return(w, "error")
       \/ /\ ~cancelled[w] /\ ~(taskErr[w] \/ FlushError(w) \/ pollErr[w])
          /\ pc' = [pc EXCEPT ![w] = "poll"]
          /\ UNCHANGED <<ret, cancelled>>
    /\ ackErr' = [ackErr EXCEPT ![w] = FALSE]
    /\ job' = [job EXCEPT ![w] = [o \in Offsets |->
                  IF job[w][o] = "marked" THEN "none" ELSE job[w][o]]]
    /\ taskErr' = [taskErr EXCEPT ![w] = FALSE]
    /\ pollErr' = [pollErr EXCEPT ![w] = FALSE]
    /\ UNCHANGED <<topics, group, closed, pendingAck, completed>>

-----------------------------------------------------------------------------
(* The rest of the system, as the workers see it.                          *)

\* A record the client or the retry mover writes to the ready topic.
Arrive(e) ==
    /\ Len(ready) < MaxReady
    /\ ready' = Append(ready, e)
    /\ UNCHANGED <<retry, dlq, group, run, acks, job, completed, faults>>

InHand(w, o) ==
    job[w][o] # "none" \/ \E status \in {"accept", "release"} :
                              <<o, status>> \in pendingAck[w]

LockExpires(w, o) ==
    /\ o \in acquired[w]
    /\ acquired' = [acquired EXCEPT ![w] = @ \ {o}]
    /\ UNCHANGED <<topics, archived, run, acks, job, completed>>

\* The acquisition outlasts the work on the record only when the work is slow.
LockExpiresEarly(w, o) == InHand(w, o) /\ Fault /\ LockExpires(w, o)

LockExpiresAbandoned(w, o) ==
    ~InHand(w, o) /\ LockExpires(w, o) /\ UNCHANGED faults

Handle(w, o) ==
    \/ Take(w, o) \/ DecodeFails(w, o)
    \/ HandlerSucceeds(w, o) \/ HandlerFails(w, o) \/ HandlerPanics(w, o)
    \/ Produce(w, o) \/ ProduceFails(w, o)

Acknowledge(w) ==
    \E o \in Offsets, status \in {"accept", "release"} : DeliverAck(w, o, status)

WorkerStep(w) ==
    \/ NewWorker(w) \/ Run(w) \/ Cancel(w) \/ Close(w) \/ Exit(w) \/ Crash(w)
    \/ PollRecords(w) \/ PollStops(w) \/ PollFails(w)
    \/ FlushAcks(w) \/ Acknowledge(w)
    \/ \E o \in Offsets :
          \/ Dispatch(w, o) \/ Handle(w, o) \/ CollectResult(w, o)
          \/ LockExpiresEarly(w, o) \/ LockExpiresAbandoned(w, o)
          \/ \E status \in {"accept", "release"} : LoseAck(w, o, status)

Next ==
    \/ \E w \in Workers : WorkerStep(w)
    \/ \E e \in Arrivals : Arrive(e)

Spec == Init /\ [][Next]_vars

-----------------------------------------------------------------------------
(* Fairness: the main loop and the goroutines are scheduled, handlers      *)
(* return, the broker answers, an abandoned acquisition expires, and       *)
(* whoever runs the workers starts them again.  Faults are never forced.   *)

\* A step of the process's main goroutine.
Advance(w) ==
    \/ NewWorker(w) \/ Run(w) \/ Exit(w)
    \/ PollRecords(w) \/ PollStops(w) \/ FlushAcks(w)
    \/ \E o \in Offsets : Dispatch(w, o) \/ CollectResult(w, o)

Goroutines(w) == \E o \in Offsets : Handle(w, o)

Expire(w) == \E o \in Offsets : LockExpiresAbandoned(w, o)

Fairness ==
    \A w \in Workers :
        /\ WF_vars(Advance(w)) /\ WF_vars(Goroutines(w))
        /\ WF_vars(Acknowledge(w)) /\ WF_vars(Expire(w))

FairSpec == Spec /\ Fairness

-----------------------------------------------------------------------------
(* Properties                                                              *)

TypeOK ==
    /\ ready \in Seq(Envelope) /\ dlq \in Seq(Envelope)
    /\ retry \in [RetryBuckets -> Seq(Envelope)]
    /\ acquired \in [Workers -> SUBSET Offsets] /\ archived \in SUBSET Offsets
    /\ pc \in [Workers -> {"down", "idle", "poll", "dispatch", "collect", "flush"}]
    /\ job \in [Workers -> [Offsets -> JobStates]]
    /\ cancelled \in [Workers -> BOOLEAN] /\ closed \in [Workers -> BOOLEAN]
    /\ taskErr \in [Workers -> BOOLEAN] /\ pollErr \in [Workers -> BOOLEAN]
    /\ pendingAck \in [Workers -> SUBSET (Offsets \X {"accept", "release"})]
    /\ ackErr \in [Workers -> BOOLEAN]
    /\ ret \in [Workers -> {"none", "nil", "error"}]
    /\ completed \in SUBSET Offsets /\ faults \in Nat

\* The record at o has had its effect: its handler has returned nil, or the
\* task's next attempt is on a retry topic, or it is on the dead-letter topic.
Settled(o) ==
    \/ o \in completed
    \/ \E b \in RetryBuckets : \E i \in DOMAIN retry[b] :
            retry[b][i] = RetryOf(ready[o])
    \/ \E i \in DOMAIN dlq : dlq[i] = ready[o]

\* No accepted task is lost: whatever fails, is cancelled, expires or crashes,
\* the broker stops delivering a record only after its handler succeeded or
\* its task was written elsewhere (handle returns nil only then, Run accepts
\* only what returned nil, and the client's acceptance of unresolved records
\* at the next poll finds none).
WriteBeforeAccept == \A o \in archived : Settled(o)

\* Every retry is the successor of a delivered record, within both retry
\* limits, and waits in a partition whose upper bound covers its delay.
RetriesAreDue ==
    \A b \in RetryBuckets : \A i \in DOMAIN retry[b] :
        LET e == retry[b][i]
        IN  /\ e.retried <= e.retries /\ e.retried <= MaxRetries
            /\ e.after <= UpperBound(Boundaries, Partitions, b)
            /\ e.after = 0 \/ LowerBound(Boundaries, Partitions, b) < e.after
            /\ \E o \in DOMAIN ready : e = RetryOf(ready[o])

\* A task reaches the dead-letter topic only with its retries used up.
DeadLettersAreExhausted ==
    \A i \in DOMAIN dlq :
        /\ dlq[i].retried >= dlq[i].retries
        /\ \E o \in DOMAIN ready : dlq[i] = ready[o]

\* Neither channel ever blocks: a generation is never larger than Concurrency,
\* so the dispatch loop, which runs before anybody receives results, always
\* finds room, and so does a goroutine with a result.
ChannelsNeverBlock ==
    \A w \in Workers :
        /\ pc[w] = "dispatch" => Cardinality(In(w, {"queued"})) < Concurrency
        /\ Busy(w) # {} => CanReport(w)

\* Between two generations, and once Run has returned, the pool is drained: no
\* record is queued, in a goroutine or in the results channel.
PoolIsDrained ==
    \A w \in Workers : pc[w] \in {"idle", "poll"} => In(w, JobStates \ {"none"}) = {}

\* Run polls the next generation only when the broker has archived every
\* record of this one: no failed task, refused, lost or late acknowledgement
\* lets two generations overlap.
ContinuesOnlyWhenArchived ==
    [][\A w \in Workers :
          pc[w] = "flush" /\ pc'[w] = "poll" => In(w, {"marked"}) \subseteq archived]_vars

\* An acknowledgement that was refused, lost or not answered in time is never
\* swallowed: the Run that flushes it returns an error, cancelled or not.
AckErrorsSurface ==
    [][\A w \in Workers :
          pc[w] = "flush" /\ (ackErr[w] \/ pendingAck[w] # {})
            /\ pc'[w] \notin {"flush", "down"} => ret'[w] = "error"]_vars

IsAttempt(e, t, n) == e.id = t /\ e.retried = n

\* How often attempt n of task t is on the ready topic, and how many effects it
\* has had: a handler that returned nil, a retry or a dead letter.
Copies(t, n) == Cardinality({o \in DOMAIN ready : IsAttempt(ready[o], t, n)})

EffectsOf(t, n) ==
    Cardinality({o \in completed : IsAttempt(ready[o], t, n)})
    + Cardinality({at \in RetryOffsets : IsAttempt(retry[at[1]][at[2]], t, n + 1)})
    + Cardinality({i \in DOMAIN dlq : IsAttempt(dlq[i], t, n)})

\* Without faults a delivery has one effect: released records, concurrent
\* workers and Run called again make no duplicates by themselves.
NoFaultNoDuplicate ==
    faults = 0 /\ Panics = {} =>
        \A o \in DOMAIN ready :
            EffectsOf(ready[o].id, ready[o].retried)
                <= Copies(ready[o].id, ready[o].retried)

-----------------------------------------------------------------------------
(* What the documentation says and the code does not do.                   *)

\* docs/api.md: handler panics are recovered and treated as retryable errors.
\* A task whose handler panics would then be retried or dead-lettered.
PanicsAreRetried ==
    \A o \in Offsets : o \in DOMAIN ready /\ ready[o].id \in Panics ~> Settled(o)

\* docs/requirements.md: tasks that exhaust retries must be retained in a
\* dead-letter queue.  A task can have retries left by its own count, which
\* the client stamped, and none by the worker's policy.
ExhaustedTasksAreRetained ==
    \A o \in Offsets :
        o \in DOMAIN ready /\ ready[o].retried >= MaxRetries ~> Settled(o)

=============================================================================
