--------------------------- MODULE LoadRun_proofs ---------------------------
(***************************************************************************)
(* Theorems about LoadRun, for any topology, workload and number of        *)
(* mishaps: a run the harness calls drained has accounted for every task,  *)
(* its verdict stands, it leaves no process behind, and it puts no task of *)
(* the workload to a share group that has not executed the warm-up.  The   *)
(* queue under load is TaskLifecycle's, whose theorems carry over.         *)
(***************************************************************************)
EXTENDS LoadRun, TaskLifecycle_proofs, SequenceTheorems

EventNames == {"enqueued", "enqueue_error", "completed", "dead"}

Event == {<<"ready">>} \cup (EventNames \X Tasks)

Phases ==
    {"observer", "worker", "mover", "ready", "warmup", "warmup ready",
     "warmup exit", "warm", "producer", "producer ready", "producer exit",
     "accounting", "stopping", "done"}

ProcStates == {"absent", "starting", "running", "exited", "crashed"}

HarnessOK ==
    /\ phase \in Phases
    /\ error \in {"none", "spawn", "exited before ready", "timeout"}
    /\ status \in -1..1 /\ managed \subseteq Processes
    /\ proc \in [Processes -> ProcStates]

StdoutOK ==
    /\ pipe \in [Processes -> Seq(Event)]
    /\ seen \in [Processes -> SUBSET Event]

RolesOK ==
    /\ left \in [ProducerRoles -> Seq(Tasks)]
    /\ written \subseteq ProducerRoles
    /\ handling \in [Role("worker") ->
                        {None} \cup (Tasks \X Attempts \X {"handler", "settle"})]

Shapes == TypeOK /\ HarnessOK /\ StdoutOK /\ RolesOK

-----------------------------------------------------------------------------
(* The ids of the producers.                                               *)

LEMMA RolesAreProcesses ==
    /\ Role("worker") \subseteq Processes
    /\ Role("observer") \subseteq Processes
    /\ Role("producer") \subseteq ProducerRoles /\ Role("warmup") \subseteq ProducerRoles
    /\ ProducerRoles \subseteq Processes
    /\ Services \subseteq Processes
    /\ \A p \in Processes : p \in Role(p[1])
    /\ \A r : \A p \in Role(r) : p[1] = r
    /\ \A p \in ProducerRoles : p \in Role("producer") \/ p \in Role("warmup")
  BY DEF Role, Services, ProducerRoles, Processes

\* A producer stays within the workload, and two of them never meet.
LEMMA ProducerIds ==
    ASSUME NEW p \in Role("producer")
    PROVE  /\ IdsOf(p) \in Seq(WorkloadIDs)
           /\ p[2] \in 0..(Producers - 1)
           /\ \A i \in DOMAIN IdsOf(p) : IdsOf(p)[i] = p[2] + (i - 1) * Producers
<1> DEFINE index == p[2]
           n == (TotalTasks - index + Producers - 1) \div Producers
<1> USE LoadRunAssumption
<1>1. p = <<"producer", index>> /\ index \in 0..(Producers - 1)
  BY DEF Role, Count
<1>2. /\ TotalTasks \in Nat /\ Producers \in Nat /\ Producers > 0
      /\ TotalTasks - index + Producers - 1 \in Nat
  BY <1>1
<1>3. IdsOf(p) = [i \in 1..n |-> index + (i - 1) * Producers]
  BY <1>1 DEF IdsOf
<1>4. n \in Nat /\ Producers * n <= TotalTasks - index + Producers - 1
  <2>1. ASSUME NEW a \in Nat, NEW c \in Nat, c > 0
        PROVE  a \div c \in Nat /\ c * (a \div c) <= a
    BY <2>1, SMT
  <2> QED
    BY <1>2, <2>1
<1> HIDE DEF n, index
<1>5. ASSUME NEW i \in 1..n
      PROVE  index + (i - 1) * Producers \in WorkloadIDs
  <2>1. Producers * i <= Producers * n
    BY <1>2, <1>4
  <2>2. (i - 1) * Producers = Producers * i - Producers /\ (i - 1) * Producers >= 0
    BY <1>2, <1>4
  <2>3. index \in Nat
    BY <1>1, <1>2
  <2> QED
    BY <1>2, <1>4, <2>1, <2>2, <2>3 DEF WorkloadIDs
<1>6. IdsOf(p) \in Seq(WorkloadIDs)
  BY <1>3, <1>4, <1>5
<1>7. DOMAIN IdsOf(p) = 1..n
  BY <1>3
<1>8. p[2] = index
  BY DEF index
<1> QED
  BY <1>1, <1>3, <1>6, <1>7, <1>8

LEMMA WarmupIds ==
    ASSUME NEW p \in Role("warmup")
    PROVE  /\ IdsOf(p) \in Seq(WarmupIDs)
           /\ p = <<"warmup", 0>>
           /\ \A i \in DOMAIN IdsOf(p) : IdsOf(p)[i] = IDBase + i - 1
<1> USE LoadRunAssumption
<1>1. p = <<"warmup", 0>>
  BY DEF Role, Count
<1>2. IdsOf(p) = [i \in 1..WarmupTasks |-> IDBase + i - 1]
  BY <1>1 DEF IdsOf
<1>3. \A i \in 1..WarmupTasks : IDBase + i - 1 \in WarmupIDs
  BY DEF WarmupIDs
<1>4. WarmupTasks \in Nat
  OBVIOUS
<1> QED
  BY <1>1, <1>2, <1>3, <1>4

LEMMA ProducersDoNotMeet ==
    ASSUME NEW a \in Nat, NEW b \in Nat, NEW i \in Nat, NEW j \in Nat,
           NEW n \in Nat, a < n, b < n, a + i * n = b + j * n
    PROVE  i = j /\ a = b
<1>1. ASSUME NEW k \in Nat, NEW l \in Nat, k < l PROVE l * n >= k * n + n
  <2>1. (l - k - 1) * n >= 0
    BY <1>1
  <2>2. (l - k - 1) * n = l * n - k * n - n
    OBVIOUS
  <2> QED
    BY <2>1, <2>2
<1>2. i * n \in Int /\ j * n \in Int
  OBVIOUS
<1>3. ~(i < j)
  BY <1>1, <1>2
<1>4. ~(j < i)
  BY <1>1, <1>2
<1> QED
  BY <1>3, <1>4

LEMMA IdsAreDistinct ==
    ASSUME TotalTasks <= IDBase,
           NEW p \in ProducerRoles, NEW q \in ProducerRoles,
           NEW i \in DOMAIN IdsOf(p), NEW j \in DOMAIN IdsOf(q),
           IdsOf(p)[i] = IdsOf(q)[j]
    PROVE  p = q /\ i = j
<1> USE LoadRunAssumption
<1>0. i \in Nat /\ j \in Nat /\ i > 0 /\ j > 0
  <2>1. IdsOf(p) \in Seq(WorkloadIDs) \/ IdsOf(p) \in Seq(WarmupIDs)
    BY RolesAreProcesses, ProducerIds, WarmupIds
  <2>2. IdsOf(q) \in Seq(WorkloadIDs) \/ IdsOf(q) \in Seq(WarmupIDs)
    BY RolesAreProcesses, ProducerIds, WarmupIds
  <2> QED
    BY <2>1, <2>2
<1>1. CASE p \in Role("producer") /\ q \in Role("producer")
  <2>1. p[2] + (i - 1) * Producers = q[2] + (j - 1) * Producers
    BY <1>1, ProducerIds
  <2>2. p[2] \in 0..(Producers - 1) /\ q[2] \in 0..(Producers - 1)
    BY <1>1, ProducerIds
  <2>3. i - 1 = j - 1 /\ p[2] = q[2]
    <3>1. p[2] \in Nat /\ q[2] \in Nat /\ i - 1 \in Nat /\ j - 1 \in Nat
          /\ p[2] < Producers /\ q[2] < Producers /\ Producers \in Nat
      BY <1>0, <2>2
    <3> QED
      BY <2>1, <3>1, ProducersDoNotMeet
  <2>4. p = <<"producer", p[2]>> /\ q = <<"producer", q[2]>>
    BY <1>1 DEF Role
  <2> QED
    BY <1>0, <2>3, <2>4
<1>2. CASE p \in Role("warmup") /\ q \in Role("warmup")
  <2>1. p = q
    BY <1>2, WarmupIds
  <2>2. IDBase + i - 1 = IDBase + j - 1
    BY <1>2, WarmupIds, Zenon
  <2>3. i = j
    BY <1>0, <2>2
  <2> QED
    BY <2>1, <2>3
<1>3. WorkloadIDs \cap WarmupIDs = {}
  BY DEF WorkloadIDs, WarmupIDs
<1>4. \A r \in Role("producer") : \A k \in DOMAIN IdsOf(r) : IdsOf(r)[k] \in WorkloadIDs
  BY ProducerIds, ElementOfSeq
<1>5. \A r \in Role("warmup") : \A k \in DOMAIN IdsOf(r) : IdsOf(r)[k] \in WarmupIDs
  BY WarmupIds, ElementOfSeq
<1> QED
  BY <1>1, <1>2, <1>3, <1>4, <1>5, RolesAreProcesses

LEMMA IdsAreTasks ==
    ASSUME NEW p \in ProducerRoles
    PROVE  IdsOf(p) \in Seq(Tasks)
<1>1. WorkloadIDs \subseteq Tasks /\ WarmupIDs \subseteq Tasks
  BY LoadRunAssumption
<1>2. CASE p \in Role("producer")
  BY <1>1, <1>2, ProducerIds
<1>3. CASE p \in Role("warmup")
  BY <1>1, <1>3, WarmupIds
<1> QED
  BY <1>2, <1>3, RolesAreProcesses

-----------------------------------------------------------------------------
(* Sequences of events and of ids.                                         *)

LEMMA TailIsSeq ==
    ASSUME NEW S, NEW s \in Seq(S), s # <<>>
    PROVE  /\ Head(s) \in S /\ Tail(s) \in Seq(S)
           /\ Len(s) \in Nat /\ Len(s) > 0 /\ Len(Tail(s)) = Len(s) - 1
           /\ Head(s) = s[1]
           /\ \A i \in 1..(Len(s) - 1) : Tail(s)[i] = s[i + 1]
<1>1. Len(s) \in Nat /\ Len(s) # 0
  BY EmptySeq
<1> QED
  BY <1>1, HeadTailProperties

LEMMA WriteShape ==
    ASSUME StdoutOK, NEW p \in Processes, NEW e \in Event, Write(p, e)
    PROVE  /\ StdoutOK' /\ seen' = seen
           /\ \A q \in Processes :
                 EventsOf(q)' \subseteq EventsOf(q) \cup (IF q = p THEN {e} ELSE {})
<1>1. /\ pipe[p] \in Seq(Event) /\ seen' = seen
      /\ pipe' = [pipe EXCEPT ![p] = Append(pipe[p], e)]
  BY DEF StdoutOK, Write
<1>2. /\ Append(pipe[p], e) \in Seq(Event)
      /\ DOMAIN Append(pipe[p], e) = 1..(Len(pipe[p]) + 1)
      /\ DOMAIN pipe[p] = 1..Len(pipe[p])
      /\ Len(pipe[p]) \in Nat
      /\ \A i \in 1..Len(pipe[p]) : Append(pipe[p], e)[i] = pipe[p][i]
      /\ Append(pipe[p], e)[Len(pipe[p]) + 1] = e
  BY <1>1, AppendProperties
<1>3. StdoutOK'
  BY <1>1, <1>2 DEF StdoutOK
<1>4. {Append(pipe[p], e)[i] : i \in DOMAIN Append(pipe[p], e)} \subseteq
        {pipe[p][i] : i \in DOMAIN pipe[p]} \cup {e}
  BY <1>2
<1>5. /\ pipe'[p] = Append(pipe[p], e)
      /\ \A q \in Processes : q # p => pipe'[q] = pipe[q]
  BY <1>1 DEF StdoutOK
<1>6. \A q \in Processes :
        EventsOf(q)' \subseteq EventsOf(q) \cup (IF q = p THEN {e} ELSE {})
  <2> TAKE q \in Processes
  <2>1. CASE q = p
    BY <1>1, <1>4, <1>5, <2>1 DEF EventsOf
  <2>2. CASE q # p
    BY <1>1, <1>5, <2>2 DEF EventsOf
  <2> QED
    BY <2>1, <2>2
<1> QED
  BY <1>1, <1>3, <1>6

LEMMA DrainShape ==
    ASSUME StdoutOK, NEW p \in Processes, Drain(p)
    PROVE  /\ StdoutOK'
           /\ \A q \in Processes :
                 seen[q] \subseteq seen'[q] /\ EventsOf(q)' \subseteq EventsOf(q)
<1> DEFINE s == pipe[p]
<1>1. s \in Seq(Event) /\ s # <<>>
  BY DEF StdoutOK, Drain
<1>2. /\ Head(s) \in Event /\ Tail(s) \in Seq(Event)
      /\ Len(s) \in Nat /\ Len(s) > 0 /\ Len(Tail(s)) = Len(s) - 1
      /\ Head(s) = s[1]
      /\ \A i \in 1..(Len(s) - 1) : Tail(s)[i] = s[i + 1]
  BY <1>1, TailIsSeq
<1>3. /\ seen' = [seen EXCEPT ![p] = seen[p] \cup {Head(s)}]
      /\ pipe' = [pipe EXCEPT ![p] = Tail(s)]
  BY DEF Drain
<1>4. StdoutOK' /\ \A q \in Processes : seen[q] \subseteq seen'[q]
  BY <1>2, <1>3 DEF StdoutOK
<1>5. DOMAIN s = 1..Len(s) /\ DOMAIN Tail(s) = 1..Len(Tail(s))
  BY <1>1, <1>2
<1>6. /\ Head(s) \in {s[i] : i \in DOMAIN s}
      /\ {Tail(s)[i] : i \in DOMAIN Tail(s)} \subseteq {s[i] : i \in DOMAIN s}
  BY <1>2, <1>5
<1>7. /\ pipe'[p] = Tail(s) /\ seen'[p] = seen[p] \cup {Head(s)}
      /\ \A q \in Processes : q # p => pipe'[q] = pipe[q] /\ seen'[q] = seen[q]
  BY <1>3 DEF StdoutOK
<1>8. \A q \in Processes : EventsOf(q)' \subseteq EventsOf(q)
  <2> TAKE q \in Processes
  <2>1. CASE q = p
    <3>1. EventsOf(q) = seen[p] \cup {s[i] : i \in DOMAIN s}
      BY <2>1 DEF EventsOf
    <3>2. EventsOf(q)' =
            seen[p] \cup {Head(s)} \cup {Tail(s)[i] : i \in DOMAIN Tail(s)}
      BY <1>7, <2>1 DEF EventsOf
    <3> HIDE DEF s
    <3> QED
      BY <1>6, <3>1, <3>2
  <2>2. CASE q # p
    BY <1>7, <2>2 DEF EventsOf
  <2> QED
    BY <2>1, <2>2
<1> QED
  BY <1>4, <1>8

LEMMA CrashShape ==
    ASSUME StdoutOK, NEW p \in Processes, Crash(p)
    PROVE  /\ StdoutOK' /\ seen' = seen
           /\ \A q \in Processes : EventsOf(q)' \subseteq EventsOf(q)
<1>1. PICK n \in 0..Len(pipe[p]) : pipe' = [pipe EXCEPT ![p] = SubSeq(pipe[p], 1, n)]
  BY DEF Crash
<1>2. pipe[p] \in Seq(Event) /\ Len(pipe[p]) \in Nat /\ n \in Nat
  BY <1>1 DEF StdoutOK
<1>3. /\ SubSeq(pipe[p], 1, n) \in Seq(Event)
      /\ Len(SubSeq(pipe[p], 1, n)) = n
      /\ \A i \in 1..n : SubSeq(pipe[p], 1, n)[i] = pipe[p][i]
  BY <1>1, <1>2, SubSeqProperties
<1>4. seen' = seen
  BY DEF Crash
<1>5. StdoutOK'
  BY <1>1, <1>3, <1>4 DEF StdoutOK
<1>6. DOMAIN pipe[p] = 1..Len(pipe[p]) /\ DOMAIN SubSeq(pipe[p], 1, n) = 1..n
  BY <1>2, <1>3
<1>7. {SubSeq(pipe[p], 1, n)[i] : i \in DOMAIN SubSeq(pipe[p], 1, n)} \subseteq
        {pipe[p][i] : i \in DOMAIN pipe[p]}
  BY <1>1, <1>2, <1>3, <1>6
<1>8. /\ pipe'[p] = SubSeq(pipe[p], 1, n)
      /\ \A q \in Processes : q # p => pipe'[q] = pipe[q]
  BY <1>1 DEF StdoutOK
<1>9. \A q \in Processes : EventsOf(q)' \subseteq EventsOf(q)
  <2> TAKE q \in Processes
  <2>1. CASE q = p
    BY <1>4, <1>7, <1>8, <2>1 DEF EventsOf
  <2>2. CASE q # p
    BY <1>4, <1>8, <2>2 DEF EventsOf
  <2> QED
    BY <2>1, <2>2
<1> QED
  BY <1>4, <1>5, <1>9

-----------------------------------------------------------------------------
(* What the steps of roles and readers have in common.                     *)

\* Nothing is reported but what has happened, and no task changes hands.
Quiet ==
    /\ left' = left /\ known' = known
    /\ \A q \in Processes :
          EventsOf(q)' \subseteq EventsOf(q)
              \cup {<<"ready">>} \cup ({"completed"} \X completed')
              \cup ({"dead"} \X (dead \cup StaleDead))

Waning ==
    /\ proc' \in [Processes -> ProcStates]
    /\ \A q \in Processes :
          /\ proc'[q] \in {"starting", "running"} => Live(q)
          /\ proc'[q] = "absent" <=> proc[q] = "absent"

Growing ==
    /\ completed \subseteq completed' /\ dead \subseteq dead'
    /\ \A q \in Processes : seen[q] \subseteq seen'[q]

Reporting ==
    Quiet \/ \E p \in ProducerRoles : EnqueueSucceeds(p) \/ EnqueueFails(p)

Starting ==
    \A t \in Tasks :
        started'[t] # {} =>
            \/ started[t] # {}
            \/ \E p \in ProducerRoles : Enqueue(p) /\ t = Head(left[p])

Effect ==
    /\ UNCHANGED harness /\ [Next]_lifecycle
    /\ StdoutOK' /\ RolesOK'
    /\ Waning /\ Growing /\ Reporting /\ Starting

LEMMA PutShape ==
    ASSUME HarnessOK, NEW p \in Processes, NEW state \in ProcStates, Put(p, state),
           proc[p] # "absent", state # "absent",
           state \in {"starting", "running"} => Live(p)
    PROVE  Waning
  BY DEF HarnessOK, Put, Waning, Live, ProcStates

LEMMA SameProcs ==
    ASSUME HarnessOK, proc' = proc
    PROVE  Waning
  BY DEF HarnessOK, Waning, Live, ProcStates

LEMMA EventsSame ==
    ASSUME NEW q, UNCHANGED stdout
    PROVE  EventsOf(q)' = EventsOf(q)
  BY DEF stdout, EventsOf

LEMMA ReadyEffect ==
    ASSUME Shapes, NEW p \in Processes, Ready(p)
    PROVE  Effect
<1> USE DEF Shapes
<1>1. Waning
  BY PutShape DEF Ready, ProcStates, Live
<1>2. <<"ready">> \in Event /\ Write(p, <<"ready">>)
  BY DEF Event, Ready
<1>3. /\ StdoutOK' /\ seen' = seen
      /\ \A q \in Processes : EventsOf(q)' \subseteq EventsOf(q) \cup {<<"ready">>}
  BY <1>2, WriteShape
<1>4. UNCHANGED <<lifecycle, harness, roles>>
  BY DEF Ready
<1>5. Quiet
  BY <1>3, <1>4 DEF Quiet, lifecycle, tasks, roles
<1>6. RolesOK'
  BY <1>4 DEF RolesOK, roles
<1>7. Growing /\ Starting
  BY <1>3, <1>4 DEF Growing, Starting, lifecycle, tasks
<1> QED
  BY <1>1, <1>3, <1>4, <1>5, <1>6, <1>7 DEF Effect, Reporting

LEMMA ExitEffect ==
    ASSUME Shapes, NEW p \in ProducerRoles, Exit(p)
    PROVE  Effect
<1> USE DEF Shapes
<1>1. Waning
  BY PutShape, RolesAreProcesses DEF Exit, ProcStates, Live
<1>2. UNCHANGED <<lifecycle, harness, stdout, roles>>
  BY DEF Exit
<1>3. Quiet
  BY <1>2, EventsSame DEF Quiet, lifecycle, tasks, roles
<1>4. StdoutOK' /\ RolesOK'
  BY <1>2 DEF StdoutOK, RolesOK, roles, stdout
<1>5. Growing /\ Starting
  BY <1>2 DEF Growing, Starting, lifecycle, tasks, stdout
<1> QED
  BY <1>1, <1>2, <1>3, <1>4, <1>5 DEF Effect, Reporting

LEMMA CrashEffect ==
    ASSUME Shapes, NEW p \in Processes, Crash(p)
    PROVE  Effect
<1> USE DEF Shapes
<1>1. Waning
  BY PutShape DEF Crash, ProcStates, Live
<1>2. /\ UNCHANGED <<tasks, harness, seen, roles>>
      /\ mishaps' = mishaps + 1
  BY DEF Crash, Mishap
<1>3. /\ StdoutOK'
      /\ \A q \in Processes : EventsOf(q)' \subseteq EventsOf(q)
  BY CrashShape
<1>4. Quiet
  BY <1>2, <1>3 DEF Quiet, tasks, roles
<1>5. RolesOK' /\ Growing /\ Starting
  BY <1>2 DEF RolesOK, roles, Growing, Starting, tasks
<1>6. Next
  BY <1>2 DEF Next
<1> QED
  BY <1>1, <1>2, <1>3, <1>4, <1>5, <1>6 DEF Effect, Reporting

LEMMA DrainEffect ==
    ASSUME Shapes, NEW p \in Processes, Drain(p)
    PROVE  Effect
<1> USE DEF Shapes
<1>1. UNCHANGED <<lifecycle, harness, proc, roles>>
  BY DEF Drain
<1>2. /\ StdoutOK'
      /\ \A q \in Processes :
            seen[q] \subseteq seen'[q] /\ EventsOf(q)' \subseteq EventsOf(q)
  BY DrainShape
<1>3. Quiet
  BY <1>1, <1>2 DEF Quiet, lifecycle, tasks, roles
<1>4. RolesOK' /\ Growing /\ Starting
  BY <1>1, <1>2 DEF RolesOK, roles, Growing, Starting, lifecycle, tasks
<1> QED
  BY <1>1, <1>2, <1>3, <1>4, SameProcs DEF Effect, Reporting

LEMMA ObserveEffect ==
    ASSUME Shapes, NEW p \in Processes, NEW t \in Tasks, Observe(p, t)
    PROVE  Effect
<1> USE DEF Shapes
<1>1. UNCHANGED <<lifecycle, harness, proc, roles>> /\ t \in dead \cup StaleDead
  BY DEF Observe
<1>2. <<"dead", t>> \in Event /\ Write(p, <<"dead", t>>)
  BY DEF Event, EventNames, Observe
<1>3. /\ StdoutOK' /\ seen' = seen
      /\ \A q \in Processes : EventsOf(q)' \subseteq EventsOf(q) \cup {<<"dead", t>>}
  BY <1>2, WriteShape
<1>4. Quiet
  BY <1>1, <1>3 DEF Quiet, lifecycle, tasks, roles
<1>5. RolesOK' /\ Growing /\ Starting
  BY <1>1, <1>3 DEF RolesOK, roles, Growing, Starting, lifecycle, tasks
<1> QED
  BY <1>1, <1>3, <1>4, <1>5, SameProcs DEF Effect, Reporting

-----------------------------------------------------------------------------

LEMMA EnqueueEffect ==
    ASSUME Shapes, NEW p \in ProducerRoles, Enqueue(p)
    PROVE  Effect
<1> USE DEF Shapes
<1>1. /\ UNCHANGED <<mishaps, harness, proc, stdout, left, handling>>
      /\ Accept(Head(left[p])) /\ written' = written \cup {p} /\ left[p] # <<>>
  BY DEF Enqueue, Enqueuing
<1>2. Head(left[p]) \in Tasks
  BY <1>1, TailIsSeq DEF RolesOK
<1>3. Next
  BY <1>1, <1>2 DEF Next
<1>4. UNCHANGED <<known, completed, dead>>
  BY <1>1 DEF Accept
<1>5. Quiet
  BY <1>1, <1>4, EventsSame DEF Quiet
<1>6. StdoutOK' /\ RolesOK'
  BY <1>1 DEF StdoutOK, RolesOK, stdout
<1>7. Starting
  <2> SUFFICES ASSUME NEW t \in Tasks, started'[t] # {}
               PROVE  started[t] # {} \/ t = Head(left[p])
    BY DEF Starting
  <2> QED
    BY <1>1, <1>2 DEF Accept, Begin, TypeOK
<1>8. Growing
  BY <1>1, <1>4 DEF Growing, stdout
<1> QED
  BY <1>1, <1>3, <1>5, <1>6, <1>7, <1>8, SameProcs DEF Effect, Reporting

LEMMA NextJobShape ==
    ASSUME RolesOK, NEW p \in ProducerRoles, NextJob(p), left[p] # <<>>
    PROVE  RolesOK' /\ left' = [left EXCEPT ![p] = Tail(left[p])]
<1>1. Tail(left[p]) \in Seq(Tasks)
  BY TailIsSeq DEF RolesOK
<1> QED
  BY <1>1 DEF RolesOK, NextJob

LEMMA EnqueueSucceedsEffect ==
    ASSUME Shapes, NEW p \in ProducerRoles, EnqueueSucceeds(p)
    PROVE  Effect
<1> USE DEF Shapes
<1> DEFINE t == Head(left[p])
<1>1. /\ left[p] # <<>> /\ NextJob(p) /\ Confirm(t) /\ mishaps' = mishaps
      /\ Write(p, <<"enqueued", t>>)
  BY DEF EnqueueSucceeds, Enqueuing
<1>2. t \in Tasks
  BY <1>1, TailIsSeq DEF RolesOK
<1>3. Next
  BY <1>1, <1>2 DEF Next
<1>4. <<"enqueued", t>> \in Event /\ p \in Processes
  BY <1>2, RolesAreProcesses DEF Event, EventNames
<1>5. StdoutOK' /\ seen' = seen
  BY <1>1, <1>4, WriteShape
<1>6. RolesOK'
  BY <1>1, NextJobShape
<1>7. UNCHANGED <<started, completed, dead>> /\ UNCHANGED <<harness, proc>>
  BY <1>1 DEF Confirm, NextJob
<1>8. Growing /\ Starting
  BY <1>5, <1>7 DEF Growing, Starting
<1> QED
  BY <1>3, <1>5, <1>6, <1>7, <1>8, SameProcs DEF Effect, Reporting

LEMMA EnqueueFailsEffect ==
    ASSUME Shapes, NEW p \in ProducerRoles, EnqueueFails(p)
    PROVE  Effect
<1> USE DEF Shapes
<1> DEFINE t == Head(left[p])
<1>1. /\ left[p] # <<>> /\ NextJob(p) /\ UNCHANGED tasks
      /\ mishaps' = mishaps + 1
      /\ Write(p, <<"enqueue_error", t>>)
  BY DEF EnqueueFails, Enqueuing, Mishap
<1>2. t \in Tasks
  BY <1>1, TailIsSeq DEF RolesOK
<1>3. Next
  BY <1>1 DEF Next
<1>4. <<"enqueue_error", t>> \in Event /\ p \in Processes
  BY <1>2, RolesAreProcesses DEF Event, EventNames
<1>5. StdoutOK' /\ seen' = seen
  BY <1>1, <1>4, WriteShape
<1>6. RolesOK'
  BY <1>1, NextJobShape
<1>7. UNCHANGED <<harness, proc>>
  BY <1>1 DEF NextJob
<1>8. Growing /\ Starting
  BY <1>1, <1>5 DEF Growing, Starting, tasks
<1> QED
  BY <1>3, <1>5, <1>6, <1>7, <1>8, SameProcs DEF Effect, Reporting

-----------------------------------------------------------------------------

\* What a worker has in hand, and what it may take.
LEMMA HandShape ==
    ASSUME RolesOK, NEW p \in Role("worker"), NEW delivery,
           delivery \in {None} \cup (Tasks \X Attempts \X {"handler", "settle"}),
           Hand(p, delivery)
    PROVE  RolesOK' /\ UNCHANGED <<harness, proc, left>>
  BY DEF RolesOK, Hand

LEMMA InHandShape ==
    ASSUME RolesOK, NEW p \in Role("worker"), NEW stage, InHand(p, stage)
    PROVE  handling[p][1] \in Tasks /\ handling[p][2] \in Attempts
<1>1. handling[p] \in Tasks \X Attempts \X {"handler", "settle"}
  BY DEF RolesOK, InHand
<1> QED
  BY <1>1

LEMMA HandlerStartsEffect ==
    ASSUME Shapes, NEW p \in Role("worker"), NEW t \in Tasks, NEW k \in Attempts,
           HandlerStarts(p, t, k)
    PROVE  Effect
<1> USE DEF Shapes
<1>1. Hand(p, <<t, k, "handler">>) /\ UNCHANGED <<lifecycle, stdout>>
  BY DEF HandlerStarts
<1>2. RolesOK' /\ UNCHANGED <<harness, proc, left>>
  BY <1>1, HandShape
<1>3. Quiet
  BY <1>1, <1>2, EventsSame DEF Quiet, lifecycle, tasks
<1>4. StdoutOK' /\ Growing /\ Starting
  BY <1>1 DEF StdoutOK, stdout, Growing, Starting, lifecycle, tasks
<1> QED
  BY <1>1, <1>2, <1>3, <1>4, SameProcs DEF Effect, Reporting

\* A retry is no first attempt.
LEMMA ReturnStarts ==
    ASSUME TypeOK, NEW t \in Tasks, NEW k \in Attempts,
           Complete(t, k) \/ Retry(t, k) \/ Bury(t, k)
    PROVE  Starting /\ UNCHANGED known /\ completed \subseteq completed' /\ dead \subseteq dead'
<1>1. UNCHANGED known /\ completed \subseteq completed' /\ dead \subseteq dead'
  BY DEF Complete, Retry, Bury
<1>2. k \in started[t]
  BY DEF Complete, Retry, Bury
<1>3. CASE Retry(t, k)
  BY <1>1, <1>2, <1>3 DEF Starting, Retry, Begin, TypeOK
<1>4. CASE Complete(t, k) \/ Bury(t, k)
  BY <1>1, <1>4 DEF Starting, Complete, Bury
<1> QED
  BY <1>1, <1>3, <1>4

LEMMA HandlerReturnsEffect ==
    ASSUME Shapes, NEW p \in Role("worker"), HandlerReturns(p)
    PROVE  Effect
<1> USE DEF Shapes
<1> DEFINE t == handling[p][1]
           k == handling[p][2]
<1>1. t \in Tasks /\ k \in Attempts
  BY InHandShape DEF HandlerReturns
<1>2. /\ Hand(p, <<t, k, "settle">>) /\ UNCHANGED mishaps
      /\ Succeeds(p) \/ FailsOver(p)
  BY DEF HandlerReturns
<1>3. <<t, k, "settle">> \in {None} \cup (Tasks \X Attempts \X {"handler", "settle"})
  BY <1>1
<1>4. RolesOK' /\ UNCHANGED <<harness, proc, left>>
  BY <1>2, <1>3, HandShape
<1>5. CASE Succeeds(p)
  <2>1. Complete(t, k) /\ Write(p, <<"completed", t>>)
    BY <1>5 DEF Succeeds
  <2>2. <<"completed", t>> \in Event /\ p \in Processes
    BY <1>1, RolesAreProcesses DEF Event, EventNames
  <2>3. /\ StdoutOK' /\ seen' = seen
        /\ \A q \in Processes :
              EventsOf(q)' \subseteq EventsOf(q) \cup {<<"completed", t>>}
    BY <2>1, <2>2, WriteShape
  <2>4. /\ Starting /\ UNCHANGED known
        /\ completed \subseteq completed' /\ dead \subseteq dead'
    BY <1>1, <2>1, ReturnStarts
  <2>5. t \in completed'
    BY <2>1 DEF Complete
  <2> HIDE DEF t, k
  <2>6. Quiet
    BY <1>4, <2>3, <2>4, <2>5 DEF Quiet
  <2>7. Next
    BY <1>1, <1>2, <2>1 DEF Next
  <2> QED
    BY <1>4, <2>3, <2>4, <2>6, <2>7, SameProcs DEF Effect, Reporting, Growing
<1>6. CASE FailsOver(p)
  <2>1. (Retry(t, k) \/ Bury(t, k)) /\ UNCHANGED stdout
    BY <1>6 DEF FailsOver
  <2>2. /\ Starting /\ UNCHANGED known
        /\ completed \subseteq completed' /\ dead \subseteq dead'
    BY <1>1, <2>1, ReturnStarts
  <2> HIDE DEF t, k
  <2>3. Quiet
    BY <1>4, <2>1, <2>2, EventsSame DEF Quiet
  <2>4. Next
    BY <1>1, <1>2, <2>1 DEF Next
  <2>5. StdoutOK' /\ Growing
    BY <2>1, <2>2 DEF StdoutOK, stdout, Growing
  <2> QED
    BY <1>4, <2>2, <2>3, <2>4, <2>5, SameProcs DEF Effect, Reporting
<1> QED
  BY <1>2, <1>5, <1>6

LEMMA SettlesEffect ==
    ASSUME Shapes, NEW p \in Role("worker"), Settles(p) \/ SettlementLost(p)
    PROVE  Effect
<1> USE DEF Shapes
<1> DEFINE t == handling[p][1]
           k == handling[p][2]
<1>1. t \in Tasks /\ k \in Attempts
  BY InHandShape DEF Settles, SettlementLost
<1>2. /\ UNCHANGED stdout
      /\ Settle(t, k) \/ UNCHANGED tasks
      /\ mishaps' = mishaps \/ mishaps' = mishaps + 1
  BY DEF Settles, SettlementLost, Archive, Mishap
<1>3. RolesOK' /\ UNCHANGED <<harness, left>> /\ Waning
  <2>1. CASE Settles(p)
    <3>1. Hand(p, None)
      BY <2>1 DEF Settles
    <3> QED
      BY <3>1, HandShape, SameProcs
  <2>2. CASE SettlementLost(p)
    <3>1. UNCHANGED <<harness, roles>>
      BY <2>2 DEF SettlementLost
    <3>2. Put(p, "exited") /\ proc[p] = "running" /\ p \in Processes
      BY <2>2, RolesAreProcesses DEF SettlementLost, InHand
    <3>3. Waning
      BY <3>2, PutShape DEF ProcStates
    <3> QED
      BY <3>1, <3>3 DEF RolesOK, roles
  <2> QED
    BY <2>1, <2>2
<1> HIDE DEF t, k
<1>4. UNCHANGED <<known, started, completed, dead>>
  BY <1>2 DEF Settle, tasks
<1>5. Quiet
  BY <1>2, <1>3, <1>4, EventsSame DEF Quiet
<1>6. Next
  BY <1>1, <1>2 DEF Next
<1>7. StdoutOK' /\ Growing /\ Starting
  BY <1>2, <1>4 DEF StdoutOK, stdout, Growing, Starting
<1> QED
  BY <1>3, <1>5, <1>6, <1>7 DEF Effect, Reporting

-----------------------------------------------------------------------------
(* The steps of a run.                                                     *)

Over == phase \in {"stopping", "done"}

\* The harness starts a batch, goes on, or closes.
Continues(next) ==
    /\ ~Over /\ Stays /\ Go(next)
    /\ next \in Phases \ {"done"}
    /\ next = "producer" => WarmupTasks = 0 \/ WarmedUp
    /\ next = "stopping" => Drained

Closes(cause) ==
    /\ Close(cause)
    /\ \/ phase = "stopping" /\ cause = error
       \/ ~Over /\ cause \in {"timeout", "exited before ready"}

Launches(role, next) ==
    /\ ~Over /\ Starts(role, next)
    /\ role \in {"observer", "worker", "mover", "warmup", "producer"}
    /\ next \in Phases \ {"stopping", "done", "producer"}
    /\ role = "producer" => phase = "producer"

LEMMA HarnessKinds ==
    ASSUME Harness \/ TimeOut
    PROVE  \/ \E role, next : Launches(role, next)
           \/ \E next : Continues(next)
           \/ \E cause : Closes(cause)
<1>1. ASSUME NEW role, NEW next, Starts(role, next),
             role \in {"observer", "worker", "mover", "warmup", "producer"},
             next \in Phases \ {"stopping", "done", "producer"}
      PROVE  Launches(role, next)
  BY <1>1 DEF Launches, Starts, Over
<1>2. ASSUME NEW ps, NEW now, NEW next, AwaitReady(ps, now, next),
             now \in Phases \ {"stopping", "done"},
             next \in Phases \ {"stopping", "done"},
             next = "producer" => WarmupTasks = 0
      PROVE  Continues(next) \/ Closes("exited before ready")
  BY <1>2 DEF AwaitReady, Continues, Closes, Over
<1>3. ASSUME NEW ps, NEW now, NEW next, AwaitExit(ps, now, next),
             now \in Phases \ {"stopping", "done"},
             next \in Phases \ {"stopping", "done", "producer"}
      PROVE  Continues(next)
  BY <1>3 DEF AwaitExit, Continues, Over
<1>4. AwaitWarmup => Continues("producer")
  BY DEF AwaitWarmup, Continues, Over, Phases
<1>5. AwaitDrain => Continues("stopping")
  BY DEF AwaitDrain, Continues, Over, Phases
<1>6. Finish => Closes(error)
  BY DEF Finish, Closes
<1>7. TimeOut => Closes("timeout")
  BY DEF TimeOut, Closes, Over
<1>8. CASE \/ Starts("observer", "worker") \/ Starts("worker", "mover")
           \/ Starts("mover", "ready") \/ Starts("warmup", "warmup ready")
           \/ Starts("producer", "producer ready")
  BY <1>1, <1>8 DEF Phases
<1>9. CASE \/ AwaitReady(Services, "ready", IF WarmupTasks = 0 THEN "producer" ELSE "warmup")
           \/ AwaitReady(Role("warmup"), "warmup ready", "warmup exit")
           \/ AwaitReady(Role("producer"), "producer ready", "producer exit")
  BY <1>2, <1>9 DEF Phases
<1>10. CASE \/ AwaitExit(Role("warmup"), "warmup exit", "warm")
            \/ AwaitExit(Role("producer"), "producer exit", "accounting")
  BY <1>3, <1>10 DEF Phases
<1> QED
  BY <1>4, <1>5, <1>6, <1>7, <1>8, <1>9, <1>10 DEF Harness

LEMMA HarnessFrame ==
    ASSUME Harness \/ TimeOut
    PROVE  UNCHANGED <<lifecycle, stdout, roles>>
<1>1. \A role, next : Launches(role, next) => UNCHANGED <<lifecycle, stdout, roles>>
  BY DEF Launches, Starts
<1>2. \A next : Continues(next) => UNCHANGED <<lifecycle, stdout, roles>>
  BY DEF Continues, Stays
<1>3. \A cause : Closes(cause) => UNCHANGED <<lifecycle, stdout, roles>>
  BY DEF Closes, Close
<1> QED
  BY <1>1, <1>2, <1>3, HarnessKinds

LEMMA HarnessShape ==
    ASSUME HarnessOK, Harness \/ TimeOut
    PROVE  HarnessOK' /\ managed \subseteq managed'
<1>1. ASSUME NEW role, NEW next, Launches(role, next)
      PROVE  HarnessOK' /\ managed \subseteq managed'
  <2>1. Starts(role, next) /\ next \in Phases /\ phase = role
    BY <1>1 DEF Launches, Starts
  <2>2. PICK n \in 0..Count(role) :
          /\ proc' = [p \in Processes |->
                IF p[1] = role /\ p[2] < n THEN "starting" ELSE proc[p]]
          /\ IF n = Count(role)
             THEN managed' = managed \cup Role(role)
             ELSE UNCHANGED managed
    BY <2>1 DEF Starts, StartRole
  <2>3. Role(role) \subseteq Processes \/ managed' = managed
    BY <1>1 DEF Launches, Processes, Services, ProducerRoles
  <2> QED
    BY <2>1, <2>2, <2>3 DEF HarnessOK, ProcStates, Starts, Go, Phases
<1>2. ASSUME NEW next, Continues(next)
      PROVE  HarnessOK' /\ managed \subseteq managed'
  BY <1>2 DEF Continues, Stays, Go, HarnessOK
<1>3. ASSUME NEW cause, Closes(cause)
      PROVE  HarnessOK' /\ managed \subseteq managed'
  <2>1. cause \in {"none", "spawn", "exited before ready", "timeout"}
    BY <1>3 DEF Closes, HarnessOK
  <2>2. Close(cause)
    BY <1>3 DEF Closes
  <2>3. status' \in -1..1 /\ managed' = managed /\ phase' = "done" /\ error' = cause
    BY <2>2 DEF Close
  <2>4. proc' \in [Processes -> ProcStates]
    BY <2>2 DEF Close, HarnessOK, ProcStates
  <2> QED
    BY <2>1, <2>3, <2>4 DEF HarnessOK, Phases
<1> QED
  BY <1>1, <1>2, <1>3, HarnessKinds

LEMMA ActorSteps ==
    ASSUME Shapes, LoadNext, ~(Harness \/ TimeOut)
    PROVE  phase # "done" /\ error = "none" /\ Effect
<1>1. phase # "done" /\ error = "none"
  BY DEF LoadNext
<1>2. ASSUME NEW p \in Processes, RoleStep(p) \/ Crash(p) \/ Drain(p)
      PROVE  Effect
  <2>1. CASE Ready(p) \/ Crash(p) \/ Drain(p)
    BY <2>1, ReadyEffect, CrashEffect, DrainEffect
  <2>2. CASE p \in ProducerRoles /\ (Enqueue(p) \/ EnqueueSucceeds(p))
    BY <2>2, EnqueueEffect, EnqueueSucceedsEffect
  <2>3. CASE /\ p \in Role("worker")
             /\ \/ \E t \in Tasks, k \in Attempts : HandlerStarts(p, t, k)
                \/ HandlerReturns(p) \/ Settles(p)
    BY <2>3, HandlerStartsEffect, HandlerReturnsEffect, SettlesEffect
  <2>4. CASE p \in Role("observer") /\ \E t \in Tasks : Observe(p, t)
    BY <2>4, ObserveEffect
  <2> QED
    BY <1>2, <2>1, <2>2, <2>3, <2>4 DEF RoleStep
<1>3. ASSUME NEW p \in ProducerRoles, Exit(p) \/ EnqueueFails(p)
      PROVE  Effect
  BY <1>3, ExitEffect, EnqueueFailsEffect
<1>4. ASSUME NEW p \in Role("worker"), SettlementLost(p)
      PROVE  Effect
  BY <1>4, SettlesEffect
<1> QED
  BY <1>1, <1>2, <1>3, <1>4 DEF LoadNext

\* The queue under load is that of TaskLifecycle.
LEMMA LoadStepsAreLifecycleSteps ==
    ASSUME Shapes, [LoadNext]_loadVars
    PROVE  [Next]_lifecycle
<1>1. CASE Harness \/ TimeOut
  BY <1>1, HarnessFrame
<1>2. CASE LoadNext /\ ~(Harness \/ TimeOut)
  BY <1>2, ActorSteps DEF Effect
<1>3. CASE UNCHANGED loadVars
  BY <1>3 DEF loadVars
<1> QED
  BY <1>1, <1>2, <1>3

LEMMA ShapesInductive ==
    ASSUME Shapes, [LoadNext]_loadVars
    PROVE  Shapes'
<1>1. TypeOK'
  BY LoadStepsAreLifecycleSteps, TypeInductive DEF Shapes
<1>2. CASE Harness \/ TimeOut
  BY <1>1, <1>2, HarnessFrame, HarnessShape
  DEF Shapes, StdoutOK, RolesOK, stdout, roles
<1>3. CASE LoadNext /\ ~(Harness \/ TimeOut)
  <2>1. Effect
    BY <1>3, ActorSteps
  <2>2. HarnessOK'
    BY <2>1 DEF Effect, Waning, harness, Shapes, HarnessOK
  <2> QED
    BY <1>1, <2>1, <2>2 DEF Effect, Shapes
<1>4. CASE UNCHANGED loadVars
  BY <1>1, <1>4
  DEF loadVars, harness, stdout, roles, Shapes, HarnessOK, StdoutOK, RolesOK
<1> QED
  BY <1>2, <1>3, <1>4

LEMMA ShapesInitial == LoadInit => Shapes
<1> SUFFICES ASSUME LoadInit
             PROVE  Shapes
  OBVIOUS
<1>1. TypeOK
  BY InvInitial DEF LoadInit, IInv
<1>2. HarnessOK
  BY DEF LoadInit, HarnessOK, Phases, ProcStates
<1>3. StdoutOK
  BY DEF LoadInit, StdoutOK
<1>4. RolesOK
  BY IdsAreTasks DEF LoadInit, RolesOK
<1> QED
  BY <1>1, <1>2, <1>3, <1>4 DEF Shapes

-----------------------------------------------------------------------------
(* The inductive invariant.                                                *)

Ids(p) == {IdsOf(p)[i] : i \in DOMAIN IdsOf(p)}

Left(p) == {left[p][i] : i \in DOMAIN left[p]}

\* A producer has each of its ids before it once, or behind it; the ids a
\* client knows are behind.
ProducersAdvance ==
    \A p \in ProducerRoles :
        /\ Left(p) \subseteq Ids(p)
        /\ \A i, j \in DOMAIN left[p] : left[p][i] = left[p][j] => i = j
        /\ Left(p) \cap known = {}

Reports(p, t) == {<<"enqueued", t>>, <<"enqueue_error", t>>} \cap EventsOf(p) # {}

\* What was reported is true, and an enqueue is reported once.
ReportsAreTrue ==
    \A p \in Processes, t \in Tasks :
        /\ <<"completed", t>> \in EventsOf(p) => t \in completed
        /\ <<"dead", t>> \in EventsOf(p) => t \in dead \cup StaleDead
        /\ <<"enqueued", t>> \in EventsOf(p) => t \in known
        /\ <<"enqueue_error", t>> \in EventsOf(p) => t \notin known
        /\ Reports(p, t) => p \in ProducerRoles /\ t \in Ids(p) \ Left(p)

\* The harness knows every live process, unless a batch could not be started.
LiveAreManaged ==
    /\ ~Over => error = "none"
    /\ error # "spawn" =>
          \A p \in Processes : Live(p) => p \in managed /\ phase # "done"

\* The producers of the workload come after the warm-up.
WarmupComesFirst ==
    /\ phase = "producer" => WarmupIDs \subseteq completed
    /\ \A p \in Role("producer") : proc[p] # "absent" => WarmupIDs \subseteq completed
    /\ \A t \in WorkloadIDs : started[t] # {} => WarmupIDs \subseteq completed

AllAttempted ==
    \A t \in WorkloadIDs : \E p \in managed :
        {<<"enqueued", t>>, <<"enqueue_error", t>>} \cap seen[p] # {}

\* The harness ends a run well when all was attempted and resolved; its status
\* says which runs it ended well.
EndsAreSound ==
    /\ Over /\ error = "none" => AllAttempted /\ Unresolved = {}
    /\ VerdictIsFinal

LoadInv ==
    Shapes /\ ProducersAdvance /\ ReportsAreTrue /\ LiveAreManaged
    /\ WarmupComesFirst /\ EndsAreSound

-----------------------------------------------------------------------------

LEMMA IdSetsAreDisjoint ==
    ASSUME TotalTasks <= IDBase, NEW p \in ProducerRoles, NEW q \in ProducerRoles,
           NEW t \in Ids(p), t \in Ids(q)
    PROVE  p = q
  BY IdsAreDistinct DEF Ids

LEMMA IdSets ==
    /\ \A p \in Role("producer") : Ids(p) \subseteq WorkloadIDs
    /\ \A p \in Role("warmup") : Ids(p) \subseteq WarmupIDs
  BY ProducerIds, WarmupIds, ElementOfSeq DEF Ids

LEMMA RangesAreDisjoint ==
    ASSUME TotalTasks <= IDBase
    PROVE  WorkloadIDs \cap WarmupIDs = {} /\ Tasks \ WarmupIDs = WorkloadIDs
<1>1. WorkloadIDs \cap WarmupIDs = {}
  BY LoadRunAssumption DEF WorkloadIDs, WarmupIDs
<1> QED
  BY <1>1, LoadRunAssumption

LEMMA EventsDiffer ==
    ASSUME NEW t, NEW u
    PROVE  /\ <<"enqueued", t>> # <<"enqueue_error", u>>
           /\ <<"enqueued", t>> # <<"completed", u>>
           /\ <<"enqueued", t>> # <<"dead", u>>
           /\ <<"enqueue_error", t>> # <<"completed", u>>
           /\ <<"enqueue_error", t>> # <<"dead", u>>
           /\ <<"completed", t>> # <<"dead", u>>
           /\ <<"enqueued", t>> # <<"ready">> /\ <<"enqueue_error", t>> # <<"ready">>
           /\ <<"completed", t>> # <<"ready">> /\ <<"dead", t>> # <<"ready">>
<1>1. Len(<<"ready">>) = 1
  OBVIOUS
<1>2. \A a : Len(<<a, t>>) = 2
  OBVIOUS
<1>3. \A a : <<a, t>> # <<"ready">>
  <2> SUFFICES ASSUME NEW a, <<a, t>> = <<"ready">>
               PROVE  FALSE
    OBVIOUS
  <2>1. Len(<<a, t>>) = Len(<<"ready">>)
    BY Zenon
  <2> QED
    BY <1>1, <1>2, <2>1
<1> QED
  BY <1>3

\* The head of what is left goes, and comes no more.
LEMMA HeadGoes ==
    ASSUME Shapes, ProducersAdvance, NEW p \in ProducerRoles,
           left[p] # <<>>, left' = [left EXCEPT ![p] = Tail(left[p])]
    PROVE  /\ Head(left[p]) \in Left(p)
           /\ Left(p)' = Left(p) \ {Head(left[p])}
           /\ \A i, j \in DOMAIN left'[p] : left'[p][i] = left'[p][j] => i = j
           /\ \A q \in ProducerRoles : q # p => left'[q] = left[q]
<1> DEFINE s == left[p]
<1>1. s \in Seq(Tasks) /\ left'[p] = Tail(s)
      /\ \A q \in ProducerRoles : q # p => left'[q] = left[q]
  BY DEF Shapes, RolesOK
<1>2. /\ Tail(s) \in Seq(Tasks)
      /\ Len(s) \in Nat /\ Len(s) > 0 /\ Len(Tail(s)) = Len(s) - 1
      /\ Head(s) = s[1]
      /\ \A i \in 1..(Len(s) - 1) : Tail(s)[i] = s[i + 1]
  BY <1>1, TailIsSeq
<1>3. DOMAIN s = 1..Len(s) /\ DOMAIN Tail(s) = 1..(Len(s) - 1)
  BY <1>1, <1>2
<1>4. \A i, j \in DOMAIN s : s[i] = s[j] => i = j
  BY DEF ProducersAdvance
<1>5. Left(p) = {s[i] : i \in DOMAIN s}
  BY DEF Left
<1>6. Left(p)' = {Tail(s)[i] : i \in DOMAIN Tail(s)}
  BY <1>1 DEF Left
<1> HIDE DEF s
<1>7. Head(s) \in Left(p)
  BY <1>2, <1>3, <1>5
<1>8. {Tail(s)[i] : i \in DOMAIN Tail(s)} = {s[i] : i \in DOMAIN s} \ {Head(s)}
  <2>1. ASSUME NEW i \in DOMAIN Tail(s)
        PROVE  Tail(s)[i] \in {s[j] : j \in DOMAIN s} \ {Head(s)}
    <3>1. i + 1 \in DOMAIN s /\ 1 \in DOMAIN s /\ Tail(s)[i] = s[i + 1]
      BY <1>2, <1>3
    <3>2. s[i + 1] # s[1]
      BY <1>3, <1>4, <3>1
    <3> QED
      BY <1>2, <3>1, <3>2
  <2>2. ASSUME NEW j \in DOMAIN s, s[j] # Head(s)
        PROVE  s[j] \in {Tail(s)[i] : i \in DOMAIN Tail(s)}
    <3>1. j - 1 \in DOMAIN Tail(s) /\ Tail(s)[j - 1] = s[j]
      BY <1>2, <1>3, <2>2
    <3> QED
      BY <3>1
  <2> QED
    BY <2>1, <2>2
<1>9. \A i, j \in DOMAIN Tail(s) : Tail(s)[i] = Tail(s)[j] => i = j
  BY <1>2, <1>3, <1>4
<1> QED
  BY <1>1, <1>5, <1>6, <1>7, <1>8, <1>9 DEF s

-----------------------------------------------------------------------------
(* Producers and reports.                                                  *)

LEMMA QuietKeepsBooks ==
    ASSUME ProducersAdvance, ReportsAreTrue, Quiet, Growing
    PROVE  ProducersAdvance' /\ ReportsAreTrue'
<1>1. ProducersAdvance'
  BY DEF Quiet, ProducersAdvance, Left
<1>2. \A p : Left(p)' = Left(p)
  BY DEF Quiet, Left
<1>3. ASSUME NEW p \in Processes, NEW t \in Tasks
      PROVE  /\ <<"enqueued", t>> \in EventsOf(p)' => <<"enqueued", t>> \in EventsOf(p)
             /\ <<"enqueue_error", t>> \in EventsOf(p)' =>
                    <<"enqueue_error", t>> \in EventsOf(p)
             /\ <<"completed", t>> \in EventsOf(p)' =>
                    <<"completed", t>> \in EventsOf(p) \/ t \in completed'
             /\ <<"dead", t>> \in EventsOf(p)' =>
                    <<"dead", t>> \in EventsOf(p) \/ t \in dead \cup StaleDead
  <2>1. /\ \A u : <<"enqueued", t>> # <<"completed", u>>
        /\ \A u : <<"enqueued", t>> # <<"dead", u>>
        /\ \A u : <<"enqueue_error", t>> # <<"completed", u>>
        /\ \A u : <<"enqueue_error", t>> # <<"dead", u>>
        /\ \A u : <<"completed", t>> # <<"dead", u>>
        /\ \A u : <<"dead", t>> # <<"completed", u>>
        /\ <<"enqueued", t>> # <<"ready">> /\ <<"enqueue_error", t>> # <<"ready">>
        /\ <<"completed", t>> # <<"ready">> /\ <<"dead", t>> # <<"ready">>
    BY EventsDiffer
  <2>2. \A e \in EventsOf(p)' :
          \/ e \in EventsOf(p) \/ e = <<"ready">>
          \/ \E u \in completed' : e = <<"completed", u>>
          \/ \E u \in dead \cup StaleDead : e = <<"dead", u>>
    BY DEF Quiet
  <2>3. \A u : <<"completed", t>> = <<"completed", u>> => t = u
    OBVIOUS
  <2>4. \A u : <<"dead", t>> = <<"dead", u>> => t = u
    OBVIOUS
  <2> QED
    BY <2>1, <2>2, <2>3, <2>4, Zenon
<1>4. ReportsAreTrue'
  <2> SUFFICES ASSUME NEW p \in Processes, NEW t \in Tasks
      PROVE  /\ <<"completed", t>> \in EventsOf(p)' => t \in completed'
             /\ <<"dead", t>> \in EventsOf(p)' => t \in dead' \cup StaleDead
             /\ <<"enqueued", t>> \in EventsOf(p)' => t \in known'
             /\ <<"enqueue_error", t>> \in EventsOf(p)' => t \notin known'
             /\ {<<"enqueued", t>>, <<"enqueue_error", t>>} \cap EventsOf(p)' # {} =>
                    p \in ProducerRoles /\ t \in Ids(p) \ Left(p)'
    BY DEF ReportsAreTrue, Reports, Ids, IdsOf
  <2>1. known' = known /\ completed \subseteq completed' /\ dead \subseteq dead'
    BY DEF Quiet, Growing
  <2> QED
    BY <1>2, <1>3, <2>1 DEF ReportsAreTrue, Reports
<1> QED
  BY <1>1, <1>4

\* A producer reports an id, as enqueued or not, and goes on to the next one.
LEMMA ReportKeepsBooks ==
    ASSUME TotalTasks <= IDBase, Shapes, ProducersAdvance, ReportsAreTrue,
           NEW p \in ProducerRoles, left[p] # <<>>,
           left' = [left EXCEPT ![p] = Tail(left[p])],
           completed' = completed, dead' = dead,
           NEW type \in {"enqueued", "enqueue_error"},
           known' = IF type = "enqueued" THEN known \cup {Head(left[p])} ELSE known,
           \A q \in Processes :
               EventsOf(q)' \subseteq
                   EventsOf(q) \cup (IF q = p THEN {<<type, Head(left[p])>>} ELSE {})
    PROVE  ProducersAdvance' /\ ReportsAreTrue'
<1> DEFINE h == Head(left[p])
<1>1. /\ h \in Left(p) /\ Left(p)' = Left(p) \ {h}
      /\ \A i, j \in DOMAIN left'[p] : left'[p][i] = left'[p][j] => i = j
      /\ \A q \in ProducerRoles : q # p => left'[q] = left[q]
  BY HeadGoes
<1>2. \A q \in ProducerRoles : q # p => Left(q)' = Left(q)
  BY <1>1 DEF Left
<1>3. h \in Ids(p) /\ h \notin known
  BY <1>1 DEF ProducersAdvance
<1>4. known' \subseteq known \cup {h} /\ known \subseteq known'
  BY DEF h
<1>5. \A q \in ProducerRoles : h \in Ids(q) => q = p
  BY <1>3, IdSetsAreDisjoint
<1>6. ASSUME NEW q \in Processes, NEW e \in EventsOf(q)'
      PROVE  e \in EventsOf(q) \/ (q = p /\ e = <<type, h>>)
  BY <1>6
<1>a. type = "enqueued" => h \in known'
  OBVIOUS
<1>b. type # "enqueued" => known' = known
  OBVIOUS
<1> HIDE DEF h
<1>7. ProducersAdvance'
  <2> SUFFICES ASSUME NEW q \in ProducerRoles
      PROVE  /\ Left(q)' \subseteq Ids(q)
             /\ \A i, j \in DOMAIN left'[q] : left'[q][i] = left'[q][j] => i = j
             /\ Left(q)' \cap known' = {}
    BY DEF ProducersAdvance, Ids, IdsOf
  <2>1. /\ Left(q) \subseteq Ids(q) /\ Left(q) \cap known = {}
        /\ \A i, j \in DOMAIN left[q] : left[q][i] = left[q][j] => i = j
    BY DEF ProducersAdvance
  <2>2. CASE q = p
    BY <1>1, <1>4, <2>1, <2>2
  <2>3. CASE q # p
    BY <1>1, <1>2, <1>4, <1>5, <2>1, <2>3
  <2> QED
    BY <2>2, <2>3
<1>8. ReportsAreTrue'
  <2> SUFFICES ASSUME NEW q \in Processes, NEW t \in Tasks
      PROVE  /\ <<"completed", t>> \in EventsOf(q)' => t \in completed'
             /\ <<"dead", t>> \in EventsOf(q)' => t \in dead' \cup StaleDead
             /\ <<"enqueued", t>> \in EventsOf(q)' => t \in known'
             /\ <<"enqueue_error", t>> \in EventsOf(q)' => t \notin known'
             /\ {<<"enqueued", t>>, <<"enqueue_error", t>>} \cap EventsOf(q)' # {} =>
                    q \in ProducerRoles /\ t \in Ids(q) \ Left(q)'
    BY DEF ReportsAreTrue, Reports, Ids, IdsOf
  <2>1. /\ <<"completed", t>> \in EventsOf(q) => t \in completed
        /\ <<"dead", t>> \in EventsOf(q) => t \in dead \cup StaleDead
        /\ <<"enqueued", t>> \in EventsOf(q) => t \in known
        /\ <<"enqueue_error", t>> \in EventsOf(q) => t \notin known
        /\ <<"enqueued", t>> \in EventsOf(q) \/ <<"enqueue_error", t>> \in EventsOf(q) =>
              q \in ProducerRoles /\ t \in Ids(q) /\ t \notin Left(q)
    BY DEF ReportsAreTrue, Reports
  <2>2. /\ <<"completed", t>> # <<type, h>> /\ <<"dead", t>> # <<type, h>>
        /\ <<"enqueued", t>> = <<type, h>> => t = h /\ type = "enqueued"
        /\ <<"enqueue_error", t>> = <<type, h>> => t = h /\ type = "enqueue_error"
    OBVIOUS
  <2>3. /\ <<"completed", t>> \in EventsOf(q)' => <<"completed", t>> \in EventsOf(q)
        /\ <<"dead", t>> \in EventsOf(q)' => <<"dead", t>> \in EventsOf(q)
        /\ <<"enqueued", t>> \in EventsOf(q)' =>
              \/ <<"enqueued", t>> \in EventsOf(q)
              \/ q = p /\ t = h /\ type = "enqueued"
        /\ <<"enqueue_error", t>> \in EventsOf(q)' =>
              \/ <<"enqueue_error", t>> \in EventsOf(q)
              \/ q = p /\ t = h /\ type = "enqueue_error"
    BY <1>6, <2>2
  <2>4. q \in ProducerRoles => Left(q)' \subseteq Left(q)
    BY <1>1, <1>2
  <2>5. <<"enqueue_error", t>> \in EventsOf(q) => t # h
    BY <1>1, <1>5, <2>1
  <2>6. <<"enqueued", t>> \in EventsOf(q)' => t \in known'
    BY <1>a, <1>4, <2>1, <2>3
  <2>7. <<"enqueue_error", t>> \in EventsOf(q)' => t \notin known'
    <3>1. type = "enqueue_error" => h \notin known'
      BY <1>3, <1>b
    <3> QED
      BY <1>4, <2>1, <2>3, <2>5, <3>1
  <2>8. <<"enqueued", t>> \in EventsOf(q)' \/ <<"enqueue_error", t>> \in EventsOf(q)' =>
            q \in ProducerRoles /\ t \in Ids(q) /\ t \notin Left(q)'
    <3>1. CASE <<"enqueued", t>> \in EventsOf(q) \/ <<"enqueue_error", t>> \in EventsOf(q)
      BY <2>1, <2>4, <3>1
    <3>2. CASE q = p /\ t = h
      BY <1>1, <1>3, <3>2
    <3> QED
      BY <2>3, <3>1, <3>2
  <2> QED
    BY <2>1, <2>3, <2>6, <2>7, <2>8
<1> QED
  BY <1>7, <1>8

LEMMA BooksInductive ==
    ASSUME TotalTasks <= IDBase, Shapes, ProducersAdvance, ReportsAreTrue,
           [LoadNext]_loadVars
    PROVE  ProducersAdvance' /\ ReportsAreTrue'
<1>1. CASE UNCHANGED <<lifecycle, stdout, roles>>
  <2>1. Quiet /\ Growing
    BY <1>1, EventsSame DEF Quiet, Growing, lifecycle, tasks, stdout, roles
  <2> QED
    BY <2>1, QuietKeepsBooks
<1>2. CASE UNCHANGED loadVars
  BY <1>1, <1>2 DEF loadVars
<1>3. CASE LoadNext /\ ~(Harness \/ TimeOut)
  <2>1. Effect
    BY <1>3, ActorSteps
  <2>2. CASE Quiet
    BY <2>1, <2>2, QuietKeepsBooks DEF Effect
  <2>3. ASSUME NEW p \in ProducerRoles, EnqueueSucceeds(p)
        PROVE  ProducersAdvance' /\ ReportsAreTrue'
    <3>1. /\ left[p] # <<>> /\ NextJob(p) /\ Confirm(Head(left[p]))
          /\ Write(p, <<"enqueued", Head(left[p])>>)
      BY <2>3 DEF EnqueueSucceeds, Enqueuing
    <3>2. Head(left[p]) \in Tasks
      BY <3>1, TailIsSeq DEF Shapes, RolesOK
    <3>3. <<"enqueued", Head(left[p])>> \in Event /\ p \in Processes
      BY <3>2, RolesAreProcesses DEF Event, EventNames
    <3>4. \A q \in Processes :
            EventsOf(q)' \subseteq
                EventsOf(q) \cup (IF q = p THEN {<<"enqueued", Head(left[p])>>} ELSE {})
      BY <3>1, <3>3, WriteShape DEF Shapes
    <3>5. /\ left' = [left EXCEPT ![p] = Tail(left[p])]
          /\ completed' = completed /\ dead' = dead
          /\ known' = known \cup {Head(left[p])}
      BY <3>1 DEF NextJob, Confirm
    <3> QED
      BY <3>1, <3>4, <3>5, ReportKeepsBooks
  <2>4. ASSUME NEW p \in ProducerRoles, EnqueueFails(p)
        PROVE  ProducersAdvance' /\ ReportsAreTrue'
    <3>1. /\ left[p] # <<>> /\ NextJob(p) /\ UNCHANGED tasks
          /\ Write(p, <<"enqueue_error", Head(left[p])>>)
      BY <2>4 DEF EnqueueFails, Enqueuing
    <3>2. Head(left[p]) \in Tasks
      BY <3>1, TailIsSeq DEF Shapes, RolesOK
    <3>3. <<"enqueue_error", Head(left[p])>> \in Event /\ p \in Processes
      BY <3>2, RolesAreProcesses DEF Event, EventNames
    <3>4. \A q \in Processes :
            EventsOf(q)' \subseteq
                EventsOf(q) \cup (IF q = p THEN {<<"enqueue_error", Head(left[p])>>} ELSE {})
      BY <3>1, <3>3, WriteShape DEF Shapes
    <3>5. /\ left' = [left EXCEPT ![p] = Tail(left[p])]
          /\ completed' = completed /\ dead' = dead /\ known' = known
      BY <3>1 DEF NextJob, tasks
    <3> QED
      BY <3>1, <3>4, <3>5, ReportKeepsBooks
  <2> QED
    BY <2>1, <2>2, <2>3, <2>4 DEF Effect, Reporting
<1> QED
  BY <1>1, <1>2, <1>3, HarnessFrame

-----------------------------------------------------------------------------
(* The harness and its processes.                                          *)

LEMMA LiveInductive ==
    ASSUME Shapes, LiveAreManaged, [LoadNext]_loadVars
    PROVE  LiveAreManaged'
<1> USE DEF Live
<1>1. ASSUME NEW role, NEW next, Launches(role, next)
      PROVE  LiveAreManaged'
  <2>1. error = "none" /\ phase # "done" /\ managed \subseteq Processes
    BY <1>1 DEF LiveAreManaged, Launches, Over, Shapes, HarnessOK
  <2>2. CASE phase' = "stopping" /\ error' = "spawn"
    BY <2>2 DEF LiveAreManaged, Over
  <2>3. CASE Role(role) \subseteq managed' /\ Go(next)
    <3>1. PICK n \in 0..Count(role) :
            /\ proc' = [p \in Processes |->
                  IF p[1] = role /\ p[2] < n THEN "starting" ELSE proc[p]]
            /\ IF n = Count(role)
               THEN managed' = managed \cup Role(role)
               ELSE UNCHANGED managed
      BY <1>1 DEF Launches, Starts, StartRole
    <3>2. \A p \in Processes : Live(p)' => p \in managed'
      <4> SUFFICES ASSUME NEW p \in Processes, proc'[p] \in {"starting", "running"}
                   PROVE  p \in managed'
        OBVIOUS
      <4>1. CASE p[1] = role
        BY <2>3, <4>1, RolesAreProcesses
      <4>2. CASE p[1] # role
        <5>1. proc'[p] = proc[p]
          BY <3>1, <4>2
        <5>2. p \in managed
          BY <2>1, <5>1 DEF LiveAreManaged
        <5> QED
          BY <3>1, <5>2
      <4> QED
        BY <4>1, <4>2
    <3>3. error' = "none" /\ phase' = next /\ next \notin {"stopping", "done"}
      BY <1>1, <2>1, <2>3 DEF Go, Launches
    <3> QED
      BY <3>2, <3>3 DEF LiveAreManaged, Over
  <2> QED
    BY <1>1, <2>2, <2>3 DEF Launches, Starts
<1>2. ASSUME NEW next, Continues(next)
      PROVE  LiveAreManaged'
  BY <1>2 DEF Continues, Stays, Go, LiveAreManaged, Over
<1>3. ASSUME NEW cause, Closes(cause)
      PROVE  LiveAreManaged'
  <2>1. cause # "spawn" => error # "spawn"
    BY <1>3 DEF Closes, LiveAreManaged
  <2>2. /\ phase' = "done" /\ error' = cause
        /\ proc' = [p \in Processes |->
              IF p \in managed /\ Live(p) THEN "exited" ELSE proc[p]]
    BY <1>3 DEF Closes, Close
  <2>3. ASSUME cause # "spawn", NEW p \in Processes
        PROVE  ~Live(p)'
    <3>1. Live(p) => p \in managed
      BY <2>1, <2>3 DEF LiveAreManaged
    <3> QED
      BY <2>2, <3>1
  <2> QED
    BY <2>2, <2>3 DEF LiveAreManaged, Over
<1>4. CASE LoadNext /\ ~(Harness \/ TimeOut)
  <2>1. phase # "done" /\ error = "none" /\ Waning /\ UNCHANGED harness
    BY <1>4, ActorSteps DEF Effect
  <2> QED
    BY <2>1 DEF Waning, harness, LiveAreManaged, Over
<1>5. CASE UNCHANGED loadVars
  BY <1>5 DEF loadVars, harness, LiveAreManaged, Over
<1> QED
  BY <1>1, <1>2, <1>3, <1>4, <1>5, HarnessKinds

LEMMA WarmupInductive ==
    ASSUME TotalTasks <= IDBase, Shapes, ProducersAdvance, ReportsAreTrue,
           WarmupComesFirst, [LoadNext]_loadVars
    PROVE  WarmupComesFirst'
<1> DEFINE Warm == WarmupIDs \subseteq completed
<1>0. Role("producer") \subseteq Processes
  BY RolesAreProcesses
<1>1. ASSUME NEW role, NEW next, Launches(role, next)
      PROVE  WarmupComesFirst'
  <2>1. UNCHANGED <<started, completed>> /\ phase' # "producer"
    BY <1>1 DEF Launches, Starts, Go, lifecycle, tasks
  <2>2. PICK n \in 0..Count(role) :
          proc' = [p \in Processes |->
              IF p[1] = role /\ p[2] < n THEN "starting" ELSE proc[p]]
    BY <1>1 DEF Launches, Starts, StartRole
  <2>3. ASSUME NEW p \in Role("producer"), proc'[p] # "absent"
        PROVE  Warm
    <3>1. CASE p[1] = role
      <4>1. p[1] = "producer"
        BY RolesAreProcesses
      <4>2. phase = "producer"
        BY <1>1, <3>1, <4>1 DEF Launches
      <4> QED
        BY <4>2 DEF WarmupComesFirst
    <3>2. CASE p[1] # role
      BY <1>0, <2>2, <2>3, <3>2 DEF WarmupComesFirst
    <3> QED
      BY <3>1, <3>2
  <2> QED
    BY <2>1, <2>3 DEF WarmupComesFirst, WorkloadIDs, WarmupIDs
<1>2. ASSUME NEW next, Continues(next)
      PROVE  WarmupComesFirst'
  <2>1. UNCHANGED <<started, completed, proc>> /\ phase' = next
    BY <1>2 DEF Continues, Stays, Go, lifecycle, tasks
  <2>2. next = "producer" => Warm
    <3>1. CASE WarmupTasks = 0
      BY <3>1, LoadRunAssumption DEF WarmupIDs
    <3>2. CASE WarmedUp
      <4> SUFFICES ASSUME NEW t \in WarmupIDs
                   PROVE  t \in completed
        OBVIOUS
      <4>1. PICK p \in managed : <<"completed", t>> \in seen[p]
        BY <3>2 DEF WarmedUp
      <4>2. p \in Processes /\ t \in Tasks /\ <<"completed", t>> \in EventsOf(p)
        BY <4>1, LoadRunAssumption DEF Shapes, HarnessOK, EventsOf
      <4> QED
        BY <4>2 DEF ReportsAreTrue
    <3> QED
      BY <1>2, <3>1, <3>2 DEF Continues
  <2> QED
    BY <2>1, <2>2 DEF WarmupComesFirst, WorkloadIDs, WarmupIDs
<1>3. ASSUME NEW cause, Closes(cause)
      PROVE  WarmupComesFirst'
  <2>1. UNCHANGED <<started, completed>> /\ phase' = "done"
    BY <1>3 DEF Closes, Close, lifecycle, tasks
  <2>2. \A p \in Processes : proc'[p] # "absent" => proc[p] # "absent"
    BY <1>3 DEF Closes, Close, Live
  <2> QED
    BY <1>0, <2>1, <2>2 DEF WarmupComesFirst, WorkloadIDs, WarmupIDs
<1>4. CASE LoadNext /\ ~(Harness \/ TimeOut)
  <2>1. Waning /\ Growing /\ Starting /\ UNCHANGED harness
    BY <1>4, ActorSteps DEF Effect
  <2>2. Warm => Warm'
    BY <2>1 DEF Growing, WarmupIDs
  <2>3. ASSUME NEW t \in WorkloadIDs, started'[t] # {}
        PROVE  Warm
    <3>1. t \in Tasks
      BY LoadRunAssumption
    <3>2. CASE started[t] # {}
      BY <3>2 DEF WarmupComesFirst
    <3>3. ASSUME NEW p \in ProducerRoles, Enqueue(p), t = Head(left[p])
          PROVE  Warm
      <4>1. left[p] # <<>> /\ proc[p] = "running"
        BY <3>3 DEF Enqueue, Enqueuing
      <4>2. Head(left[p]) \in Left(p)
        <5>1. left[p] \in Seq(Tasks)
          BY DEF Shapes, RolesOK
        <5>2. Head(left[p]) = left[p][1] /\ 1 \in DOMAIN left[p]
          BY <4>1, <5>1, TailIsSeq
        <5> QED
          BY <5>2 DEF Left
      <4>3. t \in Ids(p)
        BY <3>3, <4>2 DEF ProducersAdvance
      <4>4. p \in Role("producer")
        BY <4>3, IdSets, RangesAreDisjoint, RolesAreProcesses
      <4> QED
        BY <4>1, <4>4 DEF WarmupComesFirst
    <3> QED
      BY <2>1, <2>3, <3>1, <3>2, <3>3 DEF Starting
  <2>4. WorkloadIDs' = WorkloadIDs /\ phase' = phase
    BY <2>1 DEF WorkloadIDs, harness
  <2>5. \A p \in Role("producer") : proc'[p] # "absent" => proc[p] # "absent"
    BY <1>0, <2>1 DEF Waning
  <2> QED
    BY <2>2, <2>3, <2>4, <2>5 DEF WarmupComesFirst
<1>5. CASE UNCHANGED loadVars
  BY <1>5 DEF loadVars, lifecycle, tasks, harness, WarmupComesFirst, WorkloadIDs, WarmupIDs
<1> QED
  BY <1>1, <1>2, <1>3, <1>4, <1>5, HarnessKinds

-----------------------------------------------------------------------------
(* The accounting.                                                         *)

\* As many attempts as ids, none reported twice: all ids were attempted.
LEMMA DrainedMeansAttempted ==
    ASSUME TotalTasks <= IDBase, Shapes, ReportsAreTrue, Drained
    PROVE  AllAttempted
<1> DEFINE Errors == {e[2] : e \in EnqueueErrors}
           idOf == [e \in EnqueueErrors |-> e[2]]
<1>1. Tasks \ Excluded = WorkloadIDs /\ WorkloadIDs \subseteq Tasks
  BY RangesAreDisjoint, LoadRunAssumption DEF Excluded
<1>2. Produced \subseteq WorkloadIDs /\ Errors \subseteq WorkloadIDs
  BY <1>1 DEF Produced, IdsWith, EnqueueErrors
<1>3. \A t \in Produced : \E p \in managed : <<"enqueued", t>> \in seen[p]
  BY DEF Produced, IdsWith, Events
<1>4. \A e \in EnqueueErrors :
        /\ e = <<e[1], e[2]>> /\ e[1] \in managed /\ e[2] \in WorkloadIDs
        /\ <<"enqueue_error", e[2]>> \in seen[e[1]]
  BY <1>1 DEF EnqueueErrors
<1>5. managed \subseteq Processes /\ \A p \in Processes : seen[p] \subseteq EventsOf(p)
  BY DEF Shapes, HarnessOK, EventsOf
<1>6. Produced \cap Errors = {}
  <2> SUFFICES ASSUME NEW t \in Produced, NEW e \in EnqueueErrors, t = e[2]
               PROVE  FALSE
    OBVIOUS
  <2>1. PICK p \in managed : <<"enqueued", t>> \in seen[p]
    BY <1>3
  <2>2. t \in known
    BY <1>1, <1>2, <1>5, <2>1 DEF ReportsAreTrue
  <2>3. t \notin known
    <3>1. <<"enqueue_error", t>> \in EventsOf(e[1]) /\ e[1] \in Processes
      BY <1>4, <1>5
    <3> QED
      BY <1>1, <1>2, <3>1 DEF ReportsAreTrue
  <2> QED
    BY <2>2, <2>3
<1>7. \A e, f \in EnqueueErrors : e[2] = f[2] => e = f
  <2> SUFFICES ASSUME NEW e \in EnqueueErrors, NEW f \in EnqueueErrors, e[2] = f[2]
               PROVE  e[1] = f[1]
    BY <1>4
  <2>1. /\ e[1] \in ProducerRoles /\ e[2] \in Ids(e[1])
        /\ f[1] \in ProducerRoles /\ f[2] \in Ids(f[1])
    <3>1. \A g \in EnqueueErrors : Reports(g[1], g[2])
      BY <1>4, <1>5 DEF Reports
    <3> QED
      BY <1>1, <1>4, <1>5, <3>1 DEF ReportsAreTrue
  <2> QED
    BY <2>1, IdSetsAreDisjoint
<1>8. WorkloadIDs = 0..(TotalTasks - 1) /\ TotalTasks \in Nat \ {0}
  BY LoadRunAssumption DEF WorkloadIDs
<1>9. IsFiniteSet(WorkloadIDs) /\ Cardinality(WorkloadIDs) = TotalTasks
  BY <1>8, FS_Interval
<1>10. /\ IsFiniteSet(Produced) /\ Cardinality(Produced) \in Nat
       /\ IsFiniteSet(Errors) /\ Cardinality(Errors) \in Nat
  BY <1>2, <1>9, FS_Subset, FS_CardinalityType
<1>11. Cardinality(EnqueueErrors) <= Cardinality(Errors)
       /\ Cardinality(EnqueueErrors) \in Nat
  <2>1. idOf \in Injection(EnqueueErrors, Errors)
    BY <1>7 DEF Injection, IsInjective
  <2> HIDE DEF idOf, Errors
  <2>2. IsFiniteSet(EnqueueErrors) /\ Cardinality(EnqueueErrors) <= Cardinality(Errors)
    BY <1>10, <2>1, FS_Injection
  <2> QED
    BY <2>2, FS_CardinalityType
<1> HIDE DEF idOf, Errors
<1>12. Cardinality(Produced \cup Errors) = Cardinality(Produced) + Cardinality(Errors)
  <2>1. Cardinality(Produced \cap Errors) = 0
    BY <1>6, FS_EmptySet
  <2>2. IsFiniteSet(Produced) /\ IsFiniteSet(Errors)
    BY <1>10
  <2>3. Cardinality(Produced \cup Errors) =
          Cardinality(Produced) + Cardinality(Errors) - Cardinality(Produced \cap Errors)
    BY <2>2, FS_Union
  <2> QED
    BY <1>10, <2>1, <2>3
<1>13. Produced \cup Errors = WorkloadIDs
  <2>1. Produced \cup Errors \in SUBSET WorkloadIDs
    BY <1>2
  <2>2. Cardinality(Produced \cup Errors) <= TotalTasks
    BY <1>9, <2>1, FS_Subset
  <2>3. Cardinality(Produced \cup Errors) >= TotalTasks
    BY <1>8, <1>10, <1>11, <1>12 DEF Drained, Attempted
  <2>4. Cardinality(Produced \cup Errors) = TotalTasks
    BY <1>8, <1>10, <1>12, <2>2, <2>3
  <2> QED
    BY <1>9, <2>1, <2>4, FS_Subset
<1> SUFFICES ASSUME NEW t \in WorkloadIDs
             PROVE  \E p \in managed :
                       {<<"enqueued", t>>, <<"enqueue_error", t>>} \cap seen[p] # {}
  BY DEF AllAttempted
<1>14. CASE t \in Produced
  BY <1>3, <1>14
<1>15. CASE t \in Errors
  BY <1>4, <1>15 DEF Errors
<1> QED
  BY <1>13, <1>14, <1>15

\* What was read is read, and no id of a run that has ended is attempted anew.
LEMMA EndsPersist ==
    ASSUME TotalTasks <= IDBase, Shapes, ReportsAreTrue', Shapes',
           AllAttempted, Unresolved = {}, ReportsAreTrue,
           managed \subseteq managed', known \subseteq known',
           \A p \in Processes : seen[p] \subseteq seen'[p]
    PROVE  AllAttempted' /\ Unresolved' = {}
<1>1. managed \subseteq Processes /\ managed' \subseteq Processes
  BY DEF Shapes, HarnessOK
<1>2. AllAttempted'
  BY <1>1 DEF AllAttempted, WorkloadIDs
<1>3. Tasks \ Excluded = WorkloadIDs /\ WorkloadIDs \subseteq Tasks
  BY RangesAreDisjoint, LoadRunAssumption DEF Excluded
<1>4. \A type : IdsWith(type) =
          {t \in WorkloadIDs : \E p \in managed : <<type, t>> \in seen[p]}
  BY <1>3 DEF IdsWith, Events
<1>5. \A t \in WorkloadIDs :
        <<"enqueued", t>> \notin UNION {seen[p] : p \in managed} \/
            t \in IdsWith("completed") \cup IdsWith("dead")
  BY <1>4 DEF Unresolved, Produced
<1>6. \A t \in WorkloadIDs : t \in Produced' => t \in Produced
  <2> SUFFICES ASSUME NEW t \in WorkloadIDs, t \in Produced', t \notin Produced
               PROVE  FALSE
    OBVIOUS
  <2>1. PICK p \in managed' : <<"enqueued", t>> \in seen'[p]
    BY DEF Produced, IdsWith, Events
  <2>2. t \in known'
    BY <1>1, <1>3, <2>1 DEF ReportsAreTrue, EventsOf
  <2>3. PICK q \in managed : <<"enqueue_error", t>> \in seen[q]
    BY <1>4 DEF AllAttempted, Produced
  <2>4. <<"enqueue_error", t>> \in seen'[q] /\ q \in Processes
    BY <1>1, <2>3
  <2>5. t \notin known'
    BY <1>3, <2>4 DEF ReportsAreTrue, EventsOf
  <2> QED
    BY <2>2, <2>5
<1>7. \A type, t : t \in IdsWith(type) => t \in IdsWith(type)'
  BY <1>1 DEF IdsWith, Events, Excluded, WarmupIDs
<1>8. Produced' \subseteq WorkloadIDs
  BY <1>3 DEF Produced, IdsWith, Excluded, WarmupIDs
<1> QED
  BY <1>2, <1>6, <1>7, <1>8 DEF Unresolved


LEMMA SameEnds ==
    ASSUME UNCHANGED <<stdout, managed>>
    PROVE  /\ AllAttempted' <=> AllAttempted
           /\ Unresolved' = Unresolved
<1>1. seen' = seen /\ managed' = managed
  BY DEF stdout
<1>2. AllAttempted' <=> AllAttempted
  BY <1>1 DEF AllAttempted, WorkloadIDs
<1>3. \A type : IdsWith(type)' = IdsWith(type)
  BY <1>1 DEF IdsWith, Events, Excluded, WarmupIDs
<1> QED
  BY <1>2, <1>3 DEF Unresolved, Produced


LEMMA KnownGrows ==
    ASSUME [Next]_lifecycle
    PROVE  known \subseteq known'
<1>1. \A t : Accept(t) \/ Confirm(t) => known \subseteq known'
  BY DEF Accept, Confirm
<1>2. \A t, k : Complete(t, k) \/ Retry(t, k) \/ Bury(t, k) => known \subseteq known'
  BY DEF Complete, Retry, Bury
<1>3. \A t, k : Redeliver(t, k) \/ Settle(t, k) => known \subseteq known'
  BY DEF Redeliver, Settle
<1>4. UNCHANGED tasks => known \subseteq known'
  BY DEF tasks
<1> QED
  BY <1>1, <1>2, <1>3, <1>4 DEF Next, lifecycle

LEMMA EndsInductive ==
    ASSUME TotalTasks <= IDBase, Shapes, ProducersAdvance, ReportsAreTrue,
           LiveAreManaged, EndsAreSound, [LoadNext]_loadVars
    PROVE  EndsAreSound'
<1>1. ASSUME NEW role, NEW next, Launches(role, next)
      PROVE  EndsAreSound'
  BY <1>1 DEF Launches, Starts, Go, EndsAreSound, Over, VerdictIsFinal
<1>2. ASSUME NEW next, Continues(next)
      PROVE  EndsAreSound'
  <2>1. /\ UNCHANGED <<stdout, managed>> /\ phase' = next /\ next # "done"
    BY <1>2 DEF Continues, Stays, Go
  <2>2. VerdictIsFinal'
    BY <2>1 DEF VerdictIsFinal
  <2>3. CASE next = "stopping"
    <3>1. Drained
      BY <1>2, <2>3 DEF Continues
    <3>2. AllAttempted /\ Unresolved = {}
      BY <3>1, DrainedMeansAttempted DEF Drained
    <3> QED
      BY <2>1, <2>2, <3>2, SameEnds DEF EndsAreSound
  <2>4. CASE next # "stopping"
    BY <2>1, <2>2, <2>4 DEF EndsAreSound, Over
  <2> QED
    BY <2>3, <2>4
<1>3. ASSUME NEW cause, Closes(cause)
      PROVE  EndsAreSound'
  <2>1. /\ UNCHANGED <<stdout, managed>> /\ phase' = "done" /\ error' = cause
        /\ status' = IF cause = "none" /\ Unresolved = {} THEN 0 ELSE 1
    BY <1>3 DEF Closes, Close
  <2>2. cause = "none" => AllAttempted /\ Unresolved = {}
    BY <1>3 DEF Closes, EndsAreSound, Over
  <2>3. VerdictIsFinal'
    BY <2>1, <2>2 DEF VerdictIsFinal
  <2> QED
    BY <2>1, <2>2, <2>3, SameEnds DEF EndsAreSound
<1>4. CASE LoadNext /\ ~(Harness \/ TimeOut)
  <2>1. phase # "done" /\ Effect
    BY <1>4, ActorSteps
  <2>2. UNCHANGED harness /\ Growing /\ known \subseteq known'
    BY <2>1, KnownGrows DEF Effect
  <2>3. VerdictIsFinal'
    BY <2>1, <2>2 DEF VerdictIsFinal, harness
  <2>4. Shapes' /\ ReportsAreTrue'
    BY ShapesInductive, BooksInductive
  <2>5. ASSUME AllAttempted, Unresolved = {}
        PROVE  AllAttempted' /\ Unresolved' = {}
    <3>1. managed' = managed /\ \A p \in Processes : seen[p] \subseteq seen'[p]
      BY <2>2 DEF Growing, harness
    <3> QED
      BY <2>2, <2>4, <2>5, <3>1, EndsPersist
  <2> QED
    BY <2>2, <2>3, <2>5 DEF EndsAreSound, Over, harness
<1>5. CASE UNCHANGED loadVars
  <2>1. UNCHANGED <<stdout, harness>>
    BY <1>5 DEF loadVars
  <2> QED
    BY <2>1, SameEnds DEF EndsAreSound, harness, Over, VerdictIsFinal
<1> QED
  BY <1>1, <1>2, <1>3, <1>4, <1>5, HarnessKinds

LEMMA LoadInvInitial ==
    ASSUME TotalTasks <= IDBase
    PROVE  LoadInit => LoadInv
<1> SUFFICES ASSUME LoadInit
             PROVE  LoadInv
  OBVIOUS
<1>1. Shapes
  BY ShapesInitial
<1>2. ProducersAdvance
  <2> SUFFICES ASSUME NEW p \in ProducerRoles
      PROVE  /\ Left(p) \subseteq Ids(p)
             /\ \A i, j \in DOMAIN left[p] : left[p][i] = left[p][j] => i = j
             /\ Left(p) \cap known = {}
    BY DEF ProducersAdvance
  <2>1. left[p] = IdsOf(p) /\ known = {}
    BY DEF LoadInit, Init
  <2>2. \A i, j \in DOMAIN IdsOf(p) : IdsOf(p)[i] = IdsOf(p)[j] => i = j
    BY IdsAreDistinct
  <2> QED
    BY <2>1, <2>2 DEF Left, Ids
<1>3. ReportsAreTrue
  <2>1. \A p \in Processes : EventsOf(p) = {}
    BY DEF LoadInit, EventsOf
  <2> QED
    BY <2>1 DEF ReportsAreTrue, Reports
<1>4. LiveAreManaged
  BY DEF LoadInit, LiveAreManaged, Over, Live
<1>5. WarmupComesFirst
  <2>1. WorkloadIDs \subseteq Tasks /\ Role("producer") \subseteq Processes
    BY LoadRunAssumption, RolesAreProcesses
  <2> QED
    BY <2>1 DEF LoadInit, Init, WarmupComesFirst
<1>6. EndsAreSound
  BY DEF LoadInit, EndsAreSound, Over, VerdictIsFinal
<1> QED
  BY <1>1, <1>2, <1>3, <1>4, <1>5, <1>6 DEF LoadInv

LEMMA LoadInvInductive ==
    ASSUME TotalTasks <= IDBase, LoadInv, [LoadNext]_loadVars
    PROVE  LoadInv'
<1> USE DEF LoadInv
<1>1. Shapes'
  BY ShapesInductive
<1>2. ProducersAdvance' /\ ReportsAreTrue'
  BY BooksInductive
<1>3. LiveAreManaged'
  BY LiveInductive
<1>4. WarmupComesFirst'
  BY WarmupInductive
<1>5. EndsAreSound'
  BY EndsInductive
<1> QED
  BY <1>1, <1>2, <1>3, <1>4, <1>5

LEMMA LoadInvHolds ==
    ASSUME TotalTasks <= IDBase
    PROVE  LoadSpec => []LoadInv
<1>1. LoadInit => LoadInv
  BY LoadInvInitial
<1>2. LoadInv /\ [LoadNext]_loadVars => LoadInv'
  BY LoadInvInductive
<1> QED
  BY <1>1, <1>2, PTL DEF LoadSpec

LEMMA ManagedHolds == LoadSpec => [](Shapes /\ LiveAreManaged)
<1>1. LoadInit => Shapes /\ LiveAreManaged
  BY ShapesInitial DEF LoadInit, LiveAreManaged, Over, Live
<1>2. Shapes /\ LiveAreManaged /\ [LoadNext]_loadVars => Shapes' /\ LiveAreManaged'
  BY ShapesInductive, LiveInductive
<1> QED
  BY <1>1, <1>2, PTL DEF LoadSpec

-----------------------------------------------------------------------------
(* The theorems.                                                           *)

\* The queue under load, driven by producers, a worker loop, movers and an
\* observer, is that of TaskLifecycle: every step of a run is one of its steps.
THEOREM LoadImplementsLifecycle == LoadSpec => Spec
<1>1. LoadInit => Init /\ Shapes
  BY ShapesInitial DEF LoadInit
<1>2. Shapes /\ [LoadNext]_loadVars => Shapes' /\ [Next]_lifecycle
  BY ShapesInductive, LoadStepsAreLifecycleSteps
<1> QED
  BY <1>1, <1>2, PTL DEF LoadSpec, Spec

\* Every event of a run is of a known type and of a task of the workload, and
\* the harness, its processes and the roles keep to their states.
THEOREM LoadTypeCorrect == LoadSpec => []LoadTypeOK
<1>1. Shapes => LoadTypeOK
  <2> SUFFICES ASSUME Shapes
               PROVE  LoadTypeOK
    OBVIOUS
  <2>1. ASSUME NEW p \in Processes, NEW e \in EventsOf(p)
        PROVE  \/ e = <<"ready">>
               \/ e[1] \in EventNames /\ e[2] \in Tasks
    <3>1. pipe[p] \in Seq(Event) /\ seen[p] \subseteq Event
      BY DEF Shapes, StdoutOK
    <3>2. e \in Event
      BY <3>1, ElementOfSeq DEF EventsOf
    <3> QED
      BY <3>2 DEF Event
  <2>2. \A p \in ProducerRoles : \A i \in DOMAIN left[p] : left[p][i] \in Tasks
    BY ElementOfSeq DEF Shapes, RolesOK
  <2> QED
    BY <2>1, <2>2
    DEF Shapes, LoadTypeOK, HarnessOK, RolesOK, EventNames, Phases, ProcStates
<1> QED
  BY <1>1, ManagedHolds, PTL

\* run_harness leaves no process behind, unless a batch could not be started.
THEOREM RunsLeaveNoProcess == LoadSpec => []NoProcessIsLeftBehind
<1>1. LiveAreManaged => NoProcessIsLeftBehind
  BY DEF LiveAreManaged, NoProcessIsLeftBehind
<1> QED
  BY <1>1, ManagedHolds, PTL

\* When warm-up ids are above those of the workload and no earlier run has left
\* dead letters, the counts of account mean what they say: a run that it ends
\* has enqueued, or failed to enqueue, every id, and each id that a producer was
\* given has completed or is dead-lettered.
THEOREM DrainedRunsAreAccounted ==
    ASSUME TotalTasks <= IDBase, StaleDead = {}
    PROVE  LoadSpec => []DrainIsReal
<1>1. LoadInv => DrainIsReal
  <2> SUFFICES ASSUME LoadInv, Over, error = "none"
               PROVE  /\ \A p \in Role("producer") : left[p] = <<>>
                      /\ known \cap WorkloadIDs \subseteq completed \cup dead
    BY DEF DrainIsReal, Over
  <2>1. AllAttempted /\ Unresolved = {} /\ managed \subseteq Processes
    BY DEF LoadInv, EndsAreSound, Shapes, HarnessOK
  <2>2. WorkloadIDs \subseteq Tasks /\ Tasks \ Excluded = WorkloadIDs
    BY RangesAreDisjoint, LoadRunAssumption DEF Excluded
  <2>3. \A p \in managed : seen[p] \subseteq EventsOf(p) /\ p \in Processes
    BY <2>1 DEF EventsOf
  <2>4. ASSUME NEW p \in Role("producer"), left[p] # <<>>
        PROVE  FALSE
    <3>1. p \in ProducerRoles
      BY RolesAreProcesses
    <3>2. left[p] \in Seq(Tasks)
      BY <3>1 DEF LoadInv, Shapes, RolesOK
    <3>3. 1 \in DOMAIN left[p]
      BY <2>4, <3>2, TailIsSeq
    <3>4. PICK t \in Left(p) : t \in Ids(p)
      BY <3>1, <3>3 DEF LoadInv, ProducersAdvance, Left
    <3>5. t \in WorkloadIDs
      BY <3>4, IdSets
    <3>6. PICK q \in managed :
            {<<"enqueued", t>>, <<"enqueue_error", t>>} \cap seen[q] # {}
      BY <2>1, <3>5 DEF AllAttempted
    <3>7. q \in ProducerRoles /\ t \in Ids(q) \ Left(q)
      BY <2>2, <2>3, <3>5, <3>6 DEF LoadInv, ReportsAreTrue, Reports
    <3>8. q = p
      BY <3>1, <3>4, <3>7, IdSetsAreDisjoint
    <3> QED
      BY <3>4, <3>7, <3>8
  <2>5. ASSUME NEW t \in known \cap WorkloadIDs
        PROVE  t \in completed \cup dead
    <3>1. PICK q \in managed :
            {<<"enqueued", t>>, <<"enqueue_error", t>>} \cap seen[q] # {}
      BY <2>1 DEF AllAttempted
    <3>2. <<"enqueued", t>> \in seen[q]
      BY <2>2, <2>3, <3>1 DEF LoadInv, ReportsAreTrue
    <3>3. t \in Produced
      BY <2>2, <3>2 DEF Produced, IdsWith, Events
    <3>4. t \in IdsWith("completed") \cup IdsWith("dead")
      BY <2>1, <3>3 DEF Unresolved
    <3>5. \E p \in managed : <<"completed", t>> \in seen[p] \/ <<"dead", t>> \in seen[p]
      BY <3>4 DEF IdsWith, Events
    <3> QED
      BY <2>2, <2>3, <3>5 DEF LoadInv, ReportsAreTrue
  <2> QED
    BY <2>4, <2>5
<1> QED
  BY <1>1, LoadInvHolds, PTL

\* When warm-up ids are above those of the workload, the recount of
\* write_results never disagrees with the count that ended the run.
THEOREM VerdictsAreFinal ==
    ASSUME TotalTasks <= IDBase
    PROVE  LoadSpec => []VerdictIsFinal
<1>1. LoadInv => VerdictIsFinal
  BY DEF LoadInv, EndsAreSound
<1> QED
  BY <1>1, LoadInvHolds, PTL

\* When warm-up ids are above those of the workload, no task of the workload is
\* put before a share group that has not executed the whole warm-up.
THEOREM WorkloadFollowsWarmup ==
    ASSUME TotalTasks <= IDBase
    PROVE  LoadSpec => []WorkloadMeetsAWarmGroup
<1>1. LoadInv => WorkloadMeetsAWarmGroup
  BY DEF LoadInv, WarmupComesFirst, WorkloadMeetsAWarmGroup
<1> QED
  BY <1>1, LoadInvHolds, PTL

\* A task whose enqueue a run confirmed is not lost: some attempt of it is still
\* to be delivered until it has completed or is dead-lettered.
COROLLARY LoadLosesNothing == LoadSpec => []NothingIsLost
  BY LoadImplementsLifecycle, NoTaskIsLost, PTL

=============================================================================
