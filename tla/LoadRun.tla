------------------------------- MODULE LoadRun -------------------------------
(***************************************************************************)
(* A run of the benchmark: the Python harness starts the kq-load processes *)
(* (observer, workers, movers, producers), reads the events each of them   *)
(* writes to its standard output, and decides from these events alone      *)
(* whether every task of the workload was accounted for.  The queue under  *)
(* load is that of TaskLifecycle; a task is named by its workload id.      *)
(***************************************************************************)
EXTENDS TaskLifecycle, Sequences, FiniteSets

CONSTANTS
    Producers, Workers, Movers,     \* the topology
    TotalTasks,     \* target_rps * duration_seconds
    WarmupTasks, IDBase,            \* the reserved range of warm-up ids
    FailureMode,    \* failures.mode: "none", "permanent" or "until_time"
    Failing,        \* the ids for which ModeFor draws that mode
    StaleDead,      \* ids of dead letters an earlier run left on the topic
    MaxMishaps      \* bound: failed enqueues, lost settlements, crashed roles

WorkloadIDs == 0..(TotalTasks - 1)

WarmupIDs == IDBase..(IDBase + WarmupTasks - 1)

ASSUME LoadRunAssumption ==
    /\ {Producers, Workers, Movers, TotalTasks} \subseteq Nat \ {0}
    /\ {WarmupTasks, IDBase, MaxMishaps} \subseteq Nat
    /\ FailureMode \in {"none", "permanent", "until_time"}
    /\ Tasks = WorkloadIDs \cup WarmupIDs
    /\ Failing \subseteq WorkloadIDs /\ StaleDead \subseteq Tasks

VARIABLES
    phase,          \* where run_harness is
    error,          \* the exception it caught
    status,         \* its exit status
    managed,        \* its list of processes
    proc,           \* proc[p]: the state of process p
    pipe,           \* pipe[p]: the events p has written and no one has read
    seen,           \* seen[p]: the events p's reader thread has appended
    left,           \* left[p]: the ids producer p has still to enqueue
    written,        \* producers whose current id is written to the topic
    handling        \* handling[p]: the delivery in the hands of worker p

harness == <<phase, error, status, managed>>
roles == <<left, written, handling>>
stdout == <<pipe, seen>>
loadVars == <<lifecycle, harness, proc, stdout, roles>>

Count(role) ==
    CASE role = "worker" -> Workers
      [] role = "mover" -> Movers
      [] role = "producer" -> Producers
      [] OTHER -> 1

Role(role) == {role} \X (0..(Count(role) - 1))

Services == UNION {Role(r) : r \in {"observer", "worker", "mover"}}

ProducerRoles == Role("producer") \cup Role("warmup")

Processes == Services \cup ProducerRoles

None == <<>>

\* The ids of a producer process: index, index + producers, and so on, below
\* the total.  A faulty variant goes on up to the total.
FaultyIdsOf(p) ==
    IF p[1] = "warmup" THEN [i \in 1..WarmupTasks |-> IDBase + i - 1]
    ELSE [i \in 1..((TotalTasks - p[2]) \div Producers + 1) |->
              p[2] + (i - 1) * Producers]

IdsOf(p) ==
    IF p[1] = "warmup" THEN [i \in 1..WarmupTasks |-> IDBase + i - 1]
    ELSE [i \in 1..((TotalTasks - p[2] + Producers - 1) \div Producers) |->
              p[2] + (i - 1) * Producers]

LoadInit ==
    /\ Init
    /\ phase = "observer" /\ error = "none" /\ status = -1
    /\ managed = {}
    /\ proc = [p \in Processes |-> "absent"]
    /\ pipe = [p \in Processes |-> <<>>]
    /\ seen = [p \in Processes |-> {}]
    /\ left = [p \in ProducerRoles |-> IdsOf(p)]
    /\ written = {}
    /\ handling = [p \in Role("worker") |-> None]

-----------------------------------------------------------------------------
(* Processes and their events.                                             *)

Live(p) == proc[p] \in {"starting", "running"}

Put(p, state) == proc' = [proc EXCEPT ![p] = state]

Write(p, event) ==
    /\ pipe' = [pipe EXCEPT ![p] = Append(@, event)]
    /\ UNCHANGED seen

Mishap == mishaps < MaxMishaps /\ mishaps' = mishaps + 1

Ready(p) ==
    /\ proc[p] = "starting"
    /\ Put(p, "running")
    /\ Write(p, <<"ready">>)
    /\ UNCHANGED <<lifecycle, harness, roles>>

\* A producer that is done leaves; output.Close drains what it has written.
Exit(p) ==
    /\ proc[p] = "running" /\ left[p] = <<>>
    /\ Put(p, "exited")
    /\ UNCHANGED <<lifecycle, harness, stdout, roles>>

\* A process that crashes loses what its writer still holds.
Crash(p) ==
    /\ Live(p) /\ Mishap
    /\ Put(p, "crashed")
    /\ \E n \in 0..Len(pipe[p]) : pipe' = [pipe EXCEPT ![p] = SubSeq(@, 1, n)]
    /\ UNCHANGED <<tasks, harness, seen, roles>>

\* The reader thread of p appends the next event.
Drain(p) ==
    /\ pipe[p] # <<>>
    /\ seen' = [seen EXCEPT ![p] = @ \cup {Head(pipe[p])}]
    /\ pipe' = [pipe EXCEPT ![p] = Tail(@)]
    /\ UNCHANGED <<lifecycle, harness, proc, roles>>

-----------------------------------------------------------------------------
(* The roles.                                                              *)

Enqueuing(p) == proc[p] = "running" /\ left[p] # <<>>

Enqueue(p) ==
    /\ Enqueuing(p) /\ p \notin written
    /\ Accept(Head(left[p]))
    /\ written' = written \cup {p}
    /\ UNCHANGED <<mishaps, harness, proc, stdout, left, handling>>

NextJob(p) ==
    /\ left' = [left EXCEPT ![p] = Tail(@)]
    /\ written' = written \ {p}
    /\ UNCHANGED <<harness, proc, handling>>

EnqueueSucceeds(p) ==
    /\ Enqueuing(p) /\ p \in written
    /\ Confirm(Head(left[p])) /\ UNCHANGED mishaps
    /\ Write(p, <<"enqueued", Head(left[p])>>)
    /\ NextJob(p)

\* A failed Enqueue may have written its task; the producer goes on.
EnqueueFails(p) ==
    /\ Enqueuing(p) /\ Mishap
    /\ Write(p, <<"enqueue_error", Head(left[p])>>)
    /\ NextJob(p)
    /\ UNCHANGED tasks

Hand(p, delivery) ==
    /\ handling' = [handling EXCEPT ![p] = delivery]
    /\ UNCHANGED <<harness, proc, left, written>>

\* A retry reaches the workers through a mover.  What a worker held when it
\* ended is delivered once more.
HandlerStarts(p, t, k) ==
    /\ proc[p] = "running" /\ handling[p] = None
    /\ k \in owed[t]
    /\ \A q \in Role("worker") :
          handling[q] # None /\ Live(q) => SubSeq(handling[q], 1, 2) # <<t, k>>
    /\ k = 0 \/ \E m \in Role("mover") : proc[m] = "running"
    /\ Hand(p, <<t, k, "handler">>)
    /\ UNCHANGED <<lifecycle, stdout>>

\* applyFailureBehavior: a permanent failure never ends; an outage may be over
\* by the time the handler runs, or not.
MustFail(t) == t \in Failing /\ FailureMode = "permanent"

MayFail(t) == t \in Failing /\ FailureMode # "none"

InHand(p, stage) ==
    proc[p] = "running" /\ handling[p] # None /\ handling[p][3] = stage

Succeeds(p) ==
    LET t == handling[p][1]  k == handling[p][2]
    IN  /\ ~MustFail(t)
        /\ Complete(t, k)
        /\ Write(p, <<"completed", t>>)

FailsOver(p) ==
    LET t == handling[p][1]  k == handling[p][2]
    IN  /\ MayFail(t)
        /\ IF k < MaxRetries THEN Retry(t, k) ELSE Bury(t, k)
        /\ UNCHANGED stdout

HandlerReturns(p) ==
    /\ InHand(p, "handler")
    /\ Succeeds(p) \/ FailsOver(p)
    /\ Hand(p, <<handling[p][1], handling[p][2], "settle">>)
    /\ UNCHANGED mishaps

Archive(t, k) == IF k \in owed[t] THEN Settle(t, k) ELSE UNCHANGED tasks

Settles(p) ==
    /\ InHand(p, "settle")
    /\ Archive(handling[p][1], handling[p][2])
    /\ Hand(p, None)
    /\ UNCHANGED <<mishaps, stdout>>

\* A faulty variant exits without Writer.Close.
FaultySettlementLost(p) ==
    /\ InHand(p, "settle") /\ Mishap
    /\ Archive(handling[p][1], handling[p][2]) \/ UNCHANGED tasks
    /\ Put(p, "exited")
    /\ pipe' = [pipe EXCEPT ![p] = <<>>]
    /\ UNCHANGED <<harness, seen, roles>>

\* The acknowledgement is lost, or the answer to it: FlushAcks reports it, Run
\* and RunWorker return, and the process ends once its events are written.
\* Nobody starts it again.
SettlementLost(p) ==
    /\ InHand(p, "settle") /\ Mishap
    /\ Archive(handling[p][1], handling[p][2]) \/ UNCHANGED tasks
    /\ Put(p, "exited")
    /\ UNCHANGED <<harness, stdout, roles>>

EventsOf(p) == seen[p] \cup {pipe[p][i] : i \in DOMAIN pipe[p]}

\* The observer reads the dead-letter topic from its start.
Reported(p) == {t \in Tasks : <<"dead", t>> \in EventsOf(p)}

Observe(p, t) ==
    /\ proc[p] = "running"
    /\ t \in (dead \cup StaleDead) \ Reported(p)
    /\ Write(p, <<"dead", t>>)
    /\ UNCHANGED <<lifecycle, harness, proc, roles>>

-----------------------------------------------------------------------------
(* account: the ids of a set of events.                                    *)

Events == UNION {seen[p] : p \in managed}

\* The warm-up ids do not count; a faulty variant counts them.
FaultyExcluded == {}

Excluded == WarmupIDs

IdsWith(type) == {t \in Tasks \ Excluded : <<type, t>> \in Events}

Produced == IdsWith("enqueued")

\* Errors are counted, not collected: one for every process that reported one.
EnqueueErrors ==
    {e \in managed \X (Tasks \ Excluded) : <<"enqueue_error", e[2]>> \in seen[e[1]]}

Attempted == Cardinality(Produced) + Cardinality(EnqueueErrors)

\* Outstanding, when its handler was seen to start, or else missing.
Unresolved == Produced \ (IdsWith("completed") \cup IdsWith("dead"))

\* A faulty variant does not ask whether every id was attempted.
FaultyDrained == Unresolved = {}

Drained == Attempted >= TotalTasks /\ Unresolved = {}

-----------------------------------------------------------------------------
(* run_harness.                                                            *)

Go(next) == phase' = next /\ UNCHANGED error

\* A faulty variant stops the long-lived roles only.
FaultyClose(cause) ==
    /\ proc' = [p \in Processes |->
          IF p \in managed \cap Services /\ Live(p) THEN "exited" ELSE proc[p]]
    /\ phase' = "done" /\ error' = cause
    /\ status' = IF cause = "none" /\ Unresolved = {} THEN 0 ELSE 1
    /\ UNCHANGED <<lifecycle, managed, stdout, roles>>

\* stop_processes: SIGTERM, and SIGKILL after the grace period, so that whoever
\* is in the list is gone.  Then write_results closes the books on what has been
\* read; an event that was not, because its process was killed or its reader did
\* not join in time, is lost.
Close(cause) ==
    /\ proc' = [p \in Processes |->
          IF p \in managed /\ Live(p) THEN "exited" ELSE proc[p]]
    /\ phase' = "done" /\ error' = cause
    /\ status' = IF cause = "none" /\ Unresolved = {} THEN 0 ELSE 1
    /\ UNCHANGED <<lifecycle, managed, stdout, roles>>

\* start_role: when a process of a batch cannot be started, those before it
\* never get into the list.
StartRole(role) ==
    \E n \in 0..Count(role) :
        /\ proc' = [p \in Processes |->
              IF p[1] = role /\ p[2] < n THEN "starting" ELSE proc[p]]
        /\ IF n = Count(role)
           THEN managed' = managed \cup Role(role)
           ELSE UNCHANGED managed

Starts(role, next) ==
    /\ phase = role
    /\ StartRole(role)
    /\ \/ Role(role) \subseteq managed' /\ Go(next)
       \/ ~(Role(role) \subseteq managed') /\ phase' = "stopping" /\ error' = "spawn"
    /\ UNCHANGED <<lifecycle, status, stdout, roles>>

IsReady(p) == <<"ready">> \in seen[p]

Stays == UNCHANGED <<lifecycle, status, managed, proc, stdout, roles>>

\* wait_until_ready: whoever has exited and was not seen to be ready, its
\* event still in the pipe perhaps, is taken for a failure.
AwaitReady(ps, now, next) ==
    /\ phase = now
    /\ \/ (\A p \in ps : IsReady(p)) /\ Go(next) /\ Stays
       \/ (\E p \in ps : ~Live(p) /\ ~IsReady(p)) /\ Close("exited before ready")

AwaitExit(ps, now, next) ==
    /\ phase = now /\ Stays
    /\ \A p \in ps : ~Live(p)
    /\ Go(next)

\* run_warmup_phase goes on when every warm-up id was seen to be executed.  A
\* faulty variant goes on when they were enqueued.
FaultyWarmedUp == \A t \in WarmupIDs : \E p \in managed : <<"enqueued", t>> \in seen[p]

WarmedUp == \A t \in WarmupIDs : \E p \in managed : <<"completed", t>> \in seen[p]

AwaitWarmup == phase = "warm" /\ Stays /\ WarmedUp /\ Go("producer")

\* wait_for_terminal_accounting.  The events of the processes are copied one
\* process after the other; they only grow, so a copy that passes the test
\* passes it in full once it is taken.
AwaitDrain == phase = "accounting" /\ Stays /\ Drained /\ Go("stopping")

TimeOut ==
    /\ phase \in {"ready", "warmup ready", "warmup exit", "warm",
                  "producer ready", "producer exit", "accounting"}
    /\ Close("timeout")

Finish == phase = "stopping" /\ Close(error)

Harness ==
    \/ Starts("observer", "worker") \/ Starts("worker", "mover")
    \/ Starts("mover", "ready")
    \/ AwaitReady(Services, "ready", IF WarmupTasks = 0 THEN "producer" ELSE "warmup")
    \/ Starts("warmup", "warmup ready")
    \/ AwaitReady(Role("warmup"), "warmup ready", "warmup exit")
    \/ AwaitExit(Role("warmup"), "warmup exit", "warm")
    \/ AwaitWarmup
    \/ Starts("producer", "producer ready")
    \/ AwaitReady(Role("producer"), "producer ready", "producer exit")
    \/ AwaitExit(Role("producer"), "producer exit", "accounting")
    \/ AwaitDrain
    \/ Finish

RoleStep(p) ==
    \/ Ready(p)
    \/ p \in ProducerRoles /\ (Enqueue(p) \/ EnqueueSucceeds(p))
    \/ p \in Role("worker") /\
          \/ \E t \in Tasks, k \in Attempts : HandlerStarts(p, t, k)
          \/ HandlerReturns(p) \/ Settles(p)
    \/ p \in Role("observer") /\ \E t \in Tasks : Observe(p, t)

\* What happens once the run has failed, or the harness has exited, is of no
\* more interest.
LoadNext ==
    \/ Harness
    \/ TimeOut
    \/ /\ phase # "done" /\ error = "none"
       /\ \/ \E p \in Processes : RoleStep(p) \/ Crash(p) \/ Drain(p)
          \/ \E p \in ProducerRoles : Exit(p) \/ EnqueueFails(p)
          \/ \E p \in Role("worker") : SettlementLost(p)

\* The run goes on as long as a role, a reader or the harness has a step
\* to make, in whatever order; a timeout need not expire.
LoadFairness ==
    WF_loadVars(\/ Harness
                \/ \E p \in Processes : RoleStep(p) \/ Drain(p)
                \/ \E p \in ProducerRoles : Exit(p))

LoadSpec == LoadInit /\ [][LoadNext]_loadVars

FairLoad == LoadSpec /\ LoadFairness

-----------------------------------------------------------------------------
(* Properties                                                              *)

LoadTypeOK ==
    /\ TypeOK
    /\ phase \in {"observer", "worker", "mover", "ready", "warmup", "warmup ready",
                  "warmup exit", "warm", "producer", "producer ready",
                  "producer exit", "accounting", "stopping", "done"}
    /\ error \in {"none", "spawn", "exited before ready", "timeout"}
    /\ status \in -1..1 /\ managed \subseteq Processes
    /\ proc \in [Processes -> {"absent", "starting", "running", "exited", "crashed"}]
    /\ \A p \in Processes : \A e \in EventsOf(p) :
          \/ e = <<"ready">>
          \/ e[1] \in {"enqueued", "enqueue_error", "completed", "dead"} /\ e[2] \in Tasks
    /\ \A p \in ProducerRoles : \A i \in DOMAIN left[p] : left[p][i] \in Tasks
    /\ written \subseteq ProducerRoles
    /\ \A p \in Role("worker") :
          handling[p] = None \/ handling[p] \in Tasks \X Attempts \X {"handler", "settle"}

\* A run that the harness calls drained is: every id of the workload was
\* enqueued or failed to be, and each one whose producer got its id completed,
\* or was dead-lettered, in this run (recap 0002: accounting requires every
\* produced workload id to resolve).
DrainIsReal ==
    phase \in {"stopping", "done"} /\ error = "none" =>
        /\ \A p \in Role("producer") : left[p] = <<>>
        /\ known \cap WorkloadIDs \subseteq completed \cup dead

\* The recount of write_results, on all that was read until the last process
\* had gone, agrees with the count that ended the run.
VerdictIsFinal == phase = "done" => (status = 0 <=> error = "none")

\* No process outlives the harness, but those of a batch of which another one
\* could not be started.
NoProcessIsLeftBehind ==
    phase = "done" /\ error # "spawn" => \A p \in Processes : ~Live(p)

\* No task of the workload is enqueued before the share group has proved usable:
\* every warm-up task was executed, and not only enqueued.
WorkloadMeetsAWarmGroup ==
    (\E t \in WorkloadIDs : started[t] # {}) => WarmupIDs \subseteq completed

\* A run ends with status 0 whatever enqueues and tasks fail, and though every
\* lost acknowledgement ends a worker, as long as one is left, unless it is cut
\* short: by a timeout, by a process that crashes or is found gone before ready,
\* or by a warm-up task that was never written, for which the warm-up waits in
\* vain.
EveryRunDrains ==
    <>(\/ status = 0
       \/ error # "none"
       \/ phase # "done" /\ \A p \in Role("worker") : proc[p] = "exited"
       \/ \E p \in Processes : proc[p] = "crashed"
       \/ phase = "warm" /\ \E t \in WarmupIDs : started[t] = {})

\* Dead letters an earlier run left on the topic make no task of this run count
\* as resolved: a claim of account's comment, which holds only when there is
\* none of the same id.
StaleDeadLettersMaskNothing ==
    phase \in {"stopping", "done"} /\ error = "none" =>
        known \cap WorkloadIDs \subseteq completed \cup dead

=============================================================================
