# Verification of kq

TLA+ models of kq, a Kafka share-group job queue in Go, with the TLC runs that
check them and the TLAPS proofs about them.  Paths are relative to `src/`.
`PROJECT.json` lists components, runs, mutants, the source lines every
definition models, findings, hazards and theorems.

## The system

A *client* writes tasks to a queue's ready topic.  *Workers* share the ready
topic through a Kafka share group, run a handler for each task, and accept the
record when the handler succeeds.  When it fails, the worker writes the task to
a *retry topic* that fits its delay, or to the *dead-letter topic* when its
retries are used up, and then accepts the record.  *Retry movers*, a classic
consumer group, write retries back to the ready topic when their delay has
passed.  All state outside a process is in Kafka.

| Part | State | Operations | Interacts through |
| --- | --- | --- | --- |
| Retry grid, topic names (`retry_grid.go`, `config.go`) | boundaries, partitions (immutable) | `NewRetryGrid`, `bucket`, `formatRetryDelay`, `retryTopics` | called by worker and mover |
| Retry policy (`retry_policy.go`) | maxRetries, delay function | `retryAfter`, `JitteredQuarticBackoff` | called by worker; the client stamps maxRetries |
| Worker (`worker.go`) | two channels, a pool of goroutines, errors of a generation | `Run`, `handle`, `scheduleRetry`, `deadLetter`, `flushAcks`, `Close` | share consumer, producer, handler |
| Share consumer (`share_consumer.go`) | `ackErr` under a mutex | `Poll`, `Ack`, `FlushAcks`, callback `recordAckResult` | franz-go's goroutine calls it back |
| Retry mover (`retry_mover.go`) | `held`: per partition, records waiting | `Run`, `handleRecord`, `moveDueRecord`, `move`, `nextWake` | retry consumer, producer, clock |
| Retry consumer (`retry_consumer.go`) | franz-go's position, pauses | `Poll`, `Pause`, `Resume`, `Commit` | consumer group |
| Client, producer (`client.go`, `producer.go`) | none | `Enqueue`, `Produce` | ready topic |
| Task envelope (`task.go`, `kq.proto`) | none | encode, decode, validate | every record's value |
| Benchmark, Go (`bench/internal`, `bench/cmd`) | event channel, role processes | `Writer.Write/Close/run`, `RunWorker`, `RunProducer`, `RunMover`, `RunObserver` | stdout events |
| Benchmark, Python (`bench/kqbench`) | role processes, collected events | start, wait, drain, stop, account | processes, event files |

Where it is hard: a record's acceptance is decided by one goroutine, justified
by another's produce, carried by the client asynchronously and answered in a
callback, while the acquisition can expire, the process can crash and `Run` can
be cancelled, closed or called again; a mover's commit is a single offset for a
whole prefix of a partition which may have changed owner meanwhile.

What makes each part correct:

- grid: every delay within it has exactly one cell and no two bands a topic;
- worker: nothing is accepted before it has had its effect; the pool is drained
  between generations and its channels never deadlock; errors of
  acknowledgements surface; retries and dead letters are justified; every
  record is archived in the end;
- mover: nothing is committed before it was moved; never early, in order, no
  longer behind the front than the bucket's bound; every retry is moved;
- event writer: no event accepted by `Write` is lost by `Close`, no send on a
  closed channel, no deadlock;
- harness: no role process outlives a run, accounting agrees with events, and a
  run drains as long as there are workers.

## Modules

| Module | Models |
| --- | --- |
| `RetryGrid` | `NewRetryGrid` and `bucket` as operators over any grid; `Second` is a constant, so that TLC may use a small one |
| `RetryTopics` | topic names; a name is the pair of count and unit, as `config.go` forms it and as the benchmark's `kafka.py` forms it again |
| `RetryPolicy` | `NewRetryPolicy`, `retryAfter` and `JitteredQuarticBackoff` in integers that wrap round at a given number; the hash is any number |
| `MCRetryGrid` | building a grid, looking up delays and asking the policy, for TLC, with a definition by cells to compare with |
| `Worker` | worker processes, their pools and share consumers, the share group, the topics |
| `MCWorker` | small instances |
| `RetryQueue` | the abstract promise of the retry topics |
| `RetryMover` | mover processes and their consumer group; extends `RetryQueue` and implements its `QueueSpec` |
| `MCRetryMover` | small instances |
| `TaskLifecycle` | the abstract promise of a whole queue: delivery at least once, attempt after attempt |
| `KqSystem` | clients, the workers of `Worker`, the retry topics with their movers and the share group's limit on deliveries, composed; implements `TaskLifecycle` and `RetryQueue` |
| `MCKqSystem` | small instances |
| `EventWriter` | the benchmark's `events.Writer`: writers, callers of `Close` and the encoding goroutine |
| `MCEventWriter` | a small instance |
| `LoadRun` | a run of the benchmark: harness, role processes, their events, the accounting; extends `TaskLifecycle` and implements it |
| `MCLoadRun` | a small instance |
| `RetryGrid_proofs`, `MCRetryGrid_proofs`, `Worker_proofs`, `RetryMover_proofs`, `TaskLifecycle_proofs`, `KqSystem_proofs`, `LoadRun_proofs`, `EventWriter_proofs` | theorems |

How they build on each other:

    RetryGrid --- RetryTopics, RetryPolicy --- MCRetryGrid
        |-------- Worker --- KqSystem  ==>  TaskLifecycle, RetryQueue
        |-------- RetryQueue  <==  RetryMover
    TaskLifecycle  <==  LoadRun

`==>` is "implements": the abstract specification is a `PROPERTY` of a run, or
a theorem, of the detailed one.

### Worker

`job[w][o]` says how far worker `w` is with the record at offset `o` of the
ready topic: fetched by the poll, in the jobs channel, in a goroutine that runs
the handler, produces to a retry topic or to the dead-letter topic, in the
results channel with or without an error, or acknowledged ("marked") and
waiting for the flush.  `pc[w]` is where `Worker.Run` is: poll, dispatch,
collect, flush, or not running.  A goroutine's handling of a record is split
where others can act: taking the job, the handler's end, the produce.
`pendingAck[w]` are acknowledgements given to the client and not answered;
`DeliverAck` and `LoseAck` answer them through the callback at any time, also
during a later generation, because `flushAcks` gives up after a second.
`FlushAcks` is the flush with the whole end of `Run`'s loop body.

External, and modelled by what the code relies on: the share group lends a
record to one member at a time, a loan may expire, an acknowledgement is
applied only for the holder, and a poll accepts what the previous one left
unacknowledged.  The broker's own limit on acquisitions of a record
(`group.share.delivery.count.limit`), which nothing in the repository sets, is
in `KqSystem`.

Data: an envelope is its id, retries, retried, retry delay and whether it
decodes.  Payloads, error texts and timestamps decide nothing.

### Retry mover

`held[m][b]` is the code's `held`; `position`, `fetched` and `paused` are
franz-go's.  `Run` is `due` (`moveDueRecord`), `poll`, `produce` and `commit`
(`move`).  The record in move came from `held` if its partition holds any,
since a polled record is moved only when its partition holds none, so `Commit`
contains what `moveDueRecord` does to `held` and the pause afterwards.  A poll
and the `handleRecord` of its record are one step: nothing another process does
between them matters to them.  A commit is not checked against the assignment,
as in a classic group whose generation is current.  The deadline of a poll is
derived from `held` (`Wakes`), which does not change during the poll.  All
clocks agree.

### Event writer

`write[g]` and `close[c]` are where a call of `Write` or `Close` is, at the
points where another goroutine can act; who holds the `RWMutex` is derived from
them.  As in `sync`, a waiting `Lock` keeps new readers out.  A full buffer
blocks `Send` while the read lock is held.  The output is a sequence; a write
to it may fail.  Send order among blocked senders is arbitrary in the model and
first come, first served in Go.

### The whole queue

`KqSystem` takes every step of `Worker` as it is, with what the broker notes of
it: the time a retry is appended (`Stamp`) and how often a record was acquired
(`Count`).  `Client.Enqueue` is three steps, the envelope (or its refusal), the
record on the topic, the answer; `EnqueueFails` is a lost answer, a cancelled
context, a closed or dead client, before or after the record was written.  The
movers are a `Move` of `RetryQueue`, which `RetryMover` is shown to implement, so
the composition keeps what the two halves tell each other and not the mover's
internals.  `GiveUp` is the share group archiving a record after
`DeliveryLimit` deliveries.

`TaskLifecycle` says what all this is for.  An accepted task is owed its attempt
0; an attempt may be delivered more than once; it ends in success, in the next
attempt, or in the dead-letter queue if it is the last; it stops being owed only
when it has ended, or when as much has gone wrong as the share group's limit
allows for (`Patience`).  In the mapping of `KqSystem` an attempt is owed while
a record of it is on the ready topic and not archived, or on a retry topic and
not moved; it has ended when its handler returned nil, or its retry or dead
letter is written.

### Benchmark run

`LoadRun` is `run_harness` with the processes it starts.  `phase` is where it
is; `proc[p]` the state of a process; `pipe[p]` what `p` wrote and its reader
thread has not read; `seen[p]` what the reader appended; `managed` the list
`run_harness` passes to `stop_processes`.  The queue under load is
`TaskLifecycle`'s, a task being named by its workload id.  Abstractions:

- `stop_processes` and `write_results` are one step, `Close`: after it nothing
  is read any more, and whoever is in `managed` has been ended by it;
- events are copied process after process in the code; they only grow, so a
  copy that passes a test passes it in full once taken;
- `account` sorts an unresolved id into outstanding or missing by whether its
  handler was seen to start; the run ends when both are empty, so
  `handler_started` and its time are left out;
- an outage (`until_time`) may be over when a handler asks, or not; the times
  of jobs, and `anchor_outage_window` which computes one, are data;
- a worker whose acknowledgement, or the answer to it, is lost gets an error
  from `FlushAcks`; `Run` and `RunWorker` return it and the process ends, its
  events written, and nobody starts it again (`SettlementLost`).  A worker
  process handles one delivery at a time here; generations are `Worker`'s;
- a process that crashes loses what its writer still holds; after a run has
  failed, only `Close` matters.  That `write_artifacts` may fail, which makes
  the status 1, is left out with the artifacts.

## Runs

Deadlock is not checked where the system may rightly stop: workers with nothing
to poll, movers at the end of the modelled time, a run that is done.  Every
passing property has a mutant, a faulty variant of one mapped definition, that
violates it.

| Run | Shows | Bounds |
| --- | --- | --- |
| `retry_grid` | `BucketIsTheCell`, `CellsAreWholeSeconds`, `BandsHaveOwnTopics`, `ProvisionedTopicsAreUsed`, `BackoffIsOnTheCurve` | all lists of up to four boundaries up to 18, one to three partitions, all delays around them; a second of two units, so fractions of seconds occur; a minute of two seconds, an hour of two minutes, a day of two hours, so every unit of a name occurs; 18 retries and 2^17 integers, so that the backoff overflows within the modelled retries |
| `worker_faults` | `TypeOK`, `WriteBeforeAccept`, `RetriesAreDue`, `DeadLettersAreExhausted`, `PoolIsDrained`, `NoFaultNoDuplicate`, `ContinuesOnlyWhenArchived`, `AckErrorsSurface` | two workers of two goroutines, two records of three kinds (a retry left, a last attempt whose error does not encode, no envelope), one fault of any kind |
| `mover_rebalance` | `TypeOK`, `CommittedAreMoved`, `PausedWhileHeld`, `WaitIsBounded`, `MovedByOneMover`, `QueueSpec` | two movers, one partition of two records of one or two units of delay, some of which do not decode, one change of a live owner, one fault |
| `mover_liveness` | `EveryRetryMoves` | two mover processes, two partitions, records of one unit of delay, one change of a live owner, one fault |
| `event_writer` | `TypeOK`, `NoSendAfterClose`, `CloseDrains`, `NothingIsLost`, `EveryWriteReturns`, `EveryCloseReturns` | two writers of two events each, two callers of `Close`, a buffer of one event |
| `system_safety` | `NoTaskIsLost`, `DeadLettersHadEveryAttempt`, `ChannelsNeverBlock`, `ImplementsLifecycle`, `ImplementsQueue` | two workers, a task with one retry (the workers' policy knows two), four records, two faults, three units of time, records archived after three deliveries, so that neither fault is excused |
| `system_liveness` | `EveryKnownTaskEnds`, `QueueDrains` | one worker of two goroutines, a task with one retry, a second that is refused, two faults, records archived after two deliveries, so that the limit applies |
| `load_run` | `LoadTypeOK`, `DrainIsReal`, `VerdictIsFinal`, `NoProcessIsLeftBehind`, `WorkloadMeetsAWarmGroup`, `EveryRunDrains` | one producer of two ids, of which one always fails, with one retry; two workers, a mover, the observer, one warm-up task, one mishap; a failed spawn of any process and a timeout of any wait besides |

Two workers and two records are enough for every pair of interfering steps
(expired acquisition and second delivery, a generation with a success and a
failure).  `worker_faults` has one fault within a generation of two records;
`system_safety` and `system_liveness` have two, of one task on its way through
ready, retry and dead-letter topic, which reaches a fault during the handling of
a fault, and in `system_liveness` the limit on deliveries.  In the mover a front and one record
behind it exhibit order, commit of a prefix and the pause; one handover exhibits
the stale owner.  In a benchmark run the two ids are one that completes and one
that is dead-lettered, each of which may be the one whose enqueue fails.  With
two workers and one mishap a lost acknowledgement always leaves a worker, so the
exception `EveryRunDrains` makes for a run without workers never applies: it
drains on the other one.  That several producers share the ids without gap or
overlap is proved (`LoadRun_proofs`), and `load_stale_doc` has two.

Faults are bounded by `MaxFaults` and `MaxMishaps`, records by `MaxReady` and
`MaxRecords`, time by `MaxTime`, handovers between live movers by
`MaxRebalances`.  The abstract `RetryQueue` and `TaskLifecycle` have no bounds of
their own beyond the task set; the bounds of the retry topics are in the guards
of `RetryMover` and `KqSystem`.

Four runs are expected to find a violation, each of a statement of the
documentation or a comment:

- `worker_panic_doc`: panics are not recovered (`docs/api.md` says they are);
- `worker_policy_doc`: a task with retries left by the client's count and none
  by the worker's policy is delivered for ever and never dead-lettered;
- `mover_again_doc`: when the move of a polled record failed and `Run` is
  called again, the next commit passes the failed record, which is lost;
- `load_stale_doc`: `account`'s comment says that dead letters of earlier runs
  cannot mask a missing task; a run on topics that outlived another one reuses
  its ids, and a dead letter of the same id does mask it.

The recap of the core delivery work (`docs/recaps/0001-core-delivery.md`)
knows of rebalances as a follow-up, and of records that do not decode, which
are released and delivered again; the other documents do not.
`CommittedAreMoved` holds where a mover whose `Run` has returned is closed and
replaced, as the benchmark's `RunMover` and the integration tests do.
`docs/api.md` lets movers of several deployments coexist; that this moves no
record twice holds without faults and rebalances (`MovedByOneMover`), and no
more is promised by at-least-once delivery.

### Refinement

- `RetryMover` implements `RetryQueue` (`QueueSpec`): a step of a mover is a
  delivery or a stutter.  Model-checked and proved.
- `KqSystem` implements `TaskLifecycle` (`ImplementsLifecycle`) and, seen from
  the retry topics, `RetryQueue` (`ImplementsQueue`), with `INSTANCE ... WITH`
  under the mapping described above.  Model-checked and proved.  A move is
  written there as `RetryQueue`'s, so `ImplementsQueue` is about the workers and
  the clock; that the movers do as it says is `RetryMover`'s refinement.
- `LoadRun` implements `TaskLifecycle`: its queue is `TaskLifecycle`'s by
  construction, and the theorem `LoadImplementsLifecycle` says that no role
  departs from it.

### Fairness

Weak fairness of the scheduling of goroutines and loops, of Kafka's answers, of
the end of handlers, of the expiry of acquisitions nobody works on, of the
passing of time, and of a supervisor that starts a stopped process again.
Faults are never forced and are finitely many.  A poll that returns records is
fair; nothing is assumed about which records.  In detail:

- a worker: its loop, restart included (`Advance`), its goroutines, the answers
  to its acknowledgements, the expiry of its acquisitions, each by itself; Go
  schedules every goroutine, and Kafka answers or the client's deadline passes;
- a mover: its loop, and the group's assignment and fetches; in `KqSystem`, what
  `EveryRetryMoves` gives: the front of a partition that is due is moved;
- `KqSystem` besides: a client that has begun an `Enqueue` gets an answer, the
  share group applies its limit, the clock goes on while a retry waits;
- `LoadRun`: one weak fairness for all: something of harness, roles and readers
  happens while anything can.  It suffices as each of them has finitely much to
  do.  A worker that has ended is not started again, as in the harness.  Nothing
  says a timeout expires, or that a producer's failed enqueue happens.

`EveryKnownTaskEnds` and `QueueDrains` say of the composition what the code
cannot say of one process: an accepted task completes or is dead-lettered, and
the topics come to rest, through crashes, lost answers and repeated deliveries.

## Proofs

TLAPS proves, for every number of workers, goroutines, records, tasks and
faults, every valid grid and every retry policy:

- `BucketHoldsDelay` (`RetryGrid_proofs`): bucket answers with an existing
  partition whose bounds hold the delay; the existence of the band is
  `LeastElement`, the partition is arithmetic of division;
- every invariant of `retry_grid` (`MCRetryGrid_proofs`), for any number and
  size of boundaries, partitions and units: `BucketIsAlwaysTheCell`,
  `CellsAreAlwaysWholeSeconds`, `BandsAlwaysHaveOwnTopics`,
  `ProvisionedTopicsAreAlwaysUsed`, and `BackoffIsAlwaysOnTheCurve` for integers
  of any size;
- `TypeCorrect`, `NoAcceptedTaskIsLost`, `RetriesAreAlwaysDue`,
  `DeadLettersAreAlwaysExhausted`, `PoolIsAlwaysDrained`,
  `ChannelsAlwaysHaveRoom`, `OneEffectPerDelivery`, `GenerationsDoNotOverlap`,
  `AckErrorsAlwaysSurface` (`Worker_proofs`);
- `TypeCorrect`, `NoRetryIsLost`, `PausesFollowHolds`, `NobodyWaitsLong`,
  `RecordsMoveOnce` and the refinement `MoversImplementQueue`
  (`RetryMover_proofs`), for any number of movers, partitions, rebalances and
  faults, where `Run` is not called again after it has returned (`~RunsAgain`;
  `mover_again_doc` shows why);
- `TypeCorrect`, `NeverSendsOnClosedChannel`, `NoEventIsLost`,
  `CloseAlwaysDrains` (`EventWriter_proofs`), for any buffer and any number of
  goroutines;
- `TypeCorrect`, `NoTaskIsLost`, `AttemptsAreInOrder` (`TaskLifecycle_proofs`),
  for any tasks and number of retries: what implements the abstract queue
  inherits them;
- of the whole queue (`KqSystem_proofs`): `ChannelsHaveRoomInTheSystem`,
  `SystemImplementsQueue` and `DeadLettersAlwaysHadEveryAttempt` with any faults,
  and under the condition `Reliable` described below the refinement
  `SystemImplementsLifecycle` and with it `NoTaskIsEverLost`;
- `LoadImplementsLifecycle`, `LoadTypeCorrect`, `RunsLeaveNoProcess` and, when
  the warm-up ids lie above the workload (`TotalTasks <= IDBase`),
  `VerdictsAreFinal`, `WorkloadFollowsWarmup` and, when moreover no dead letter of
  an earlier run is on the topic (`StaleDead = {}`), `DrainedRunsAreAccounted`
  (`LoadRun_proofs`), for any topology, workload and number of mishaps.

The assumptions are those the modules declare: a valid grid, a policy that maps
retries within its maximum to integers, positive concurrency, units that divide
one another, natural bounds and, of the whole queue, clients that stamp no more
retries than the workers' policy knows (`worker_policy_doc` shows why).

### Grid, names and backoff

Two cells of a grid cannot hold the same delay, because the cells of a band are
laid end to end (`CellBounds`, `OneCellHolds`), and `bucket` answers with a cell
that does: so its search and its division find the only one.  Names of boundaries
differ because a count and a unit determine the delay, and the harness, which
counts milliseconds, forms the same pair because a common factor goes out of a
division (`CommonFactor`).  The backoff is exact because no intermediate product
exceeds the final one (`BackoffIsExact`); `WrapKeeps` says when nothing wraps.

### Worker

The inductive invariant `IInv` follows a record on its way to being archived.
`WriteBeforeAccept` alone is not inductive: what is archived was accepted before
(`AcceptsAreSettled`), what is accepted came out of the results channel without
an error, and that was produced with a justification (`WritesAreJustified`, from
which `RetriesAreDue` and `DeadLettersAreExhausted` follow, the former with
`BucketHoldsDelay`).  `PoolFollowsRun` is needed because a poll accepts whatever
is unacknowledged: the pool must be empty then.  `MarksAreAccounted` says that a
marked record is archived, or its accept is on its way, or an error is recorded;
with it `FlushAcks` goes on only when all is archived.  Settledness never goes
away because topics only grow (`TopicsGrow`).  `GenerationsFit` bounds what is in
the pool by `Concurrency`: a record is dispatched only while another place in the
generation is its own, so neither channel can be full when it is written to.  TLC
has checked `IInv` on the instance of `worker_faults`.

`OneEffectPerDelivery` counts.  The effects of an attempt are never more than the
records of it that are `Spent`: archived, accepted, or in the results channel
without an error (`EffectsAreSpent`).  A step that adds an effect spends its
record, which was not spent before because, as long as nothing has failed, a
record is lent to one worker (`LentOnce`), who has it until its one
acknowledgement is answered (`HeldByWorker`).  What is spent stays so, and spent
records are copies.  TLC has checked this invariant too.  The property counts
effects by task and number of the attempt: another delivery of the same attempt
is another copy, whatever delay it came with.

### Retry mover

A commit of the mover stands for a prefix of a partition, so the invariant of
`RetryMover_proofs` accounts for every record of the prefix.  What precedes the
record in move is moved (`MoveIsNext`); what precedes a held record is moved or
held before it (`HeldInOrder`), so the front of `held` always may be moved
next; and what a running mover has polled is moved, held or in move
(`PolledAreKnown`), so that a polled record may be held or moved.  The last is
what a second `Run` breaks, as it forgets the record in move.  A new owner
starts at the committed offset, where `CommittedAreMoved` gives
`PolledAreKnown` anew.  Each write of a mover is then a `Deliver` of
`RetryQueue`.  `NobodyWaitsLong` adds that a log is in the order of its times
(`LogInOrder`) and, by `BucketHoldsDelay`, that no delay exceeds the bound of
its bucket.  TLC has checked `IInv` with two movers, three records, a rebalance
and a fault.

`RecordsMoveOnce` has a second invariant, of the time before the first fault and
handover.  A partition has one owner and nobody else knows anything of it
(`OwnerInv`, `HasNothingOf`); what lies beyond the commit has not been moved,
except the record its owner has just written (`BeyondTheCommit`).  So a record is
written when its count is zero, and an owner that ends leaves nothing that it has
written and not committed.

### Event writer

The invariant is `NothingIsLost` with the discipline of its lock: whoever is past
`closeOnce` is alone (`LockIsExclusive`), while he is inside the write lock there
are no readers, and `closed` says that the channel is closed
(`ClosedTellsEnded`); hence nobody who saw it open still sends when it closes.

### The whole queue

`NothingIsLost` of `TaskLifecycle` is not inductive: it needs that a started
attempt is owed or has ended (`StartedAreOwedOrEnded`), and that one that ended
otherwise than in success or in the dead-letter queue started the next one
(`EndsLeadOn`); as attempts are finitely many, the last one started is owed.

For the composition, each step of a worker is first reduced to its effect on the
topics (`WorkerEffect`: a retry, a dead letter, a success, an archived record, or
none); the invariant of `Worker_proofs` holds under `Outside`, what clients,
movers and the share group may do to the worker's state.  Retries, dead letters
and successes then end an attempt that a record of the topics has started, and an
archived record's attempt has ended by `WriteBeforeAccept`.  What is left is the
share group's own limit: `GiveUp` archives a record that may have had no effect
yet, and `TaskLifecycle` allows this only after as many faults as the limit.  So
deliveries must be paid for by faults (`Balance`): those of a record that is not
settled are at most the faults so far, and one for the delivery under way, less
the `Debts`: faults whose delivery is still to come, as a cancelled `Run` may poll
once more and a release that outlived its generation may undo a later delivery.

This is where `Reliable` is needed: no handler panics for ever, no error text is
unencodable, and the policy's delays are neither negative nor beyond the grid.
Otherwise a record is delivered and released again and again without any fault,
until the limit archives it: an accepted task that has neither completed nor
died, which the hazards at `worker.go:137` and `share_consumer.go:39` are about.
`system_safety` is an instance that satisfies `Reliable`.

### Benchmark run

The accounting of a benchmark run counts: as many attempts as ids, then all were
attempted.  That this is so for every number of producers is the argument of
`LoadRun_proofs`: the ids of two producers never meet and none repeats one
(`IdsAreDistinct`, by division), a producer has each of its ids before it or
behind it (`ProducersAdvance`), an event says what is the case and an enqueue is
reported once, by one process (`ReportsAreTrue`).  So enqueued and failed ids are
disjoint sets of workload ids, and one that counts as many elements as the
workload is the workload (`DrainedMeansAttempted`).  From then on no report can
change the verdict (`EndsPersist`).  `LiveAreManaged` says that whoever runs is
on the harness's list, unless a batch could not be started.  The harness relies
on `TotalTasks <= IDBase` without comparing the two numbers;
`StaleDead = {}` is necessary, as `load_stale_doc` shows.

### Only model-checked

Every safety invariant and every action property of a passing run is proved.
What stays with TLC is liveness, which is out of this prover's reach:
`EveryRetryMoves`, `EveryWriteReturns`, `EveryCloseReturns`,
`EveryKnownTaskEnds`, `QueueDrains` and `EveryRunDrains`; and
`ImplementsLifecycle` and `NoTaskIsLost` without `Reliable`, within the bounds of
`system_safety`.

## Plan

Done: grid, topic names and policy; worker with share consumer; retry mover with
its consumer; the abstract `RetryQueue` and `TaskLifecycle`; client, workers and
movers composed; event writer; benchmark roles, harness and accounting; proofs
of all safety properties of the runs.

Left: what remains true of a mover whose `Run` is called again (`RunsAgain`),
where `mover_again_doc` refutes the whole: what is committed and not moved is at
most the record that was in move.  And `NoTaskIsLost` without `Reliable`, when
the releases of records that cannot be settled are counted with the faults.

## Not modelled

- Validation of plain arguments, Kafka client options, protobuf encoding and
  generated code: no state, or not this program's.
- The benchmark's configuration, sampling of workloads, container commands,
  file formats, metrics and reports, and `run_sweep`, a loop over runs: no state
  over which a model checker would see more than a unit test.  Of the topics of
  the benchmark only their names, and what an earlier run left on them, are
  modelled.
- In the accounting, the number of duplicate completions, which decides nothing,
  and the classes of unresolved ids.
- Six hazards have no property; `PROJECT.json` says why at each: a backoff that
  overflows (`BackoffIsOnTheCurve` ends where that begins), a process that is
  taken for one that was never ready because its reader lags, an error of
  one partition that a poll drops at its deadline, a retry that does not decode
  and stops its partition for ever, which the recap admits, two settings of the
  benchmark that must agree and are not compared, and a run whose enqueues all
  failed, which ends with status 0 as the harness accounts.  The processes of a
  batch of which another one could not be started stay behind, which
  `NoProcessIsLeftBehind` excepts.
