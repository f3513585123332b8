---------------------------- MODULE TaskLifecycle ----------------------------
(***************************************************************************)
(* What a queue promises about its tasks, whatever clients, workers,       *)
(* movers and topics it is made of: delivery at least once.  An accepted   *)
(* task is owed its attempt 0; an attempt that was started may be made,    *)
(* and made again, by whoever has it; it ends in success, in the next      *)
(* attempt, or, being the last, in the dead-letter queue; only an attempt  *)
(* that has ended in one of these ways stops being owed, unless so much    *)
(* has gone wrong that it is given up.                                     *)
(***************************************************************************)
EXTENDS Integers

CONSTANTS
    Tasks,          \* task identities
    MaxRetries,     \* the retries a client stamps on its tasks
    Patience        \* the mishaps after which an attempt may be given up

ASSUME LifecycleAssumption == MaxRetries \in Nat /\ Patience \in Nat

VARIABLES
    known,          \* tasks whose client has been told their id
    started,        \* started[t]: the attempts of t that were ever to be made
    owed,           \* owed[t]: those that are still to be delivered
    ended,          \* ended[t]: those that have ended at least once
    completed,      \* tasks whose handler has returned nil
    dead,           \* tasks of the dead-letter queue
    mishaps         \* crashes, lost answers and the like so far

tasks == <<known, started, owed, ended, completed, dead>>
lifecycle == <<tasks, mishaps>>

Attempts == 0..MaxRetries

Init ==
    /\ known = {} /\ completed = {} /\ dead = {}
    /\ started = [t \in Tasks |-> {}]
    /\ owed = [t \in Tasks |-> {}]
    /\ ended = [t \in Tasks |-> {}]
    /\ mishaps = 0

Begin(t, k) ==
    /\ started' = [started EXCEPT ![t] = @ \cup {k}]
    /\ owed' = [owed EXCEPT ![t] = @ \cup {k}]

End(t, k) == ended' = [ended EXCEPT ![t] = @ \cup {k}]

Accept(t) ==
    /\ started[t] = {}
    /\ Begin(t, 0)
    /\ UNCHANGED <<known, ended, completed, dead>>

\* The client learns the id only of an accepted task.
Confirm(t) ==
    /\ started[t] # {}
    /\ known' = known \cup {t}
    /\ UNCHANGED <<started, owed, ended, completed, dead>>

Complete(t, k) ==
    /\ k \in started[t]
    /\ End(t, k)
    /\ completed' = completed \cup {t}
    /\ UNCHANGED <<known, started, owed, dead>>

Retry(t, k) ==
    /\ k \in started[t] /\ k < MaxRetries
    /\ End(t, k)
    /\ Begin(t, k + 1)
    /\ UNCHANGED <<known, completed, dead>>

Bury(t, k) ==
    /\ k \in started[t] /\ k = MaxRetries
    /\ End(t, k)
    /\ dead' = dead \cup {t}
    /\ UNCHANGED <<known, started, owed, completed>>

Redeliver(t, k) ==
    /\ k \in started[t]
    /\ Begin(t, k)
    /\ UNCHANGED <<known, ended, completed, dead>>

\* An attempt that has ended is delivered no more; one that has not is given
\* up only when too much has gone wrong.
Settle(t, k) ==
    /\ k \in owed[t]
    /\ k \in ended[t] \/ mishaps >= Patience
    /\ owed' = [owed EXCEPT ![t] = @ \ {k}]
    /\ UNCHANGED <<known, started, ended, completed, dead>>

\* Any step may go wrong on the way, and a mishap need not change anything.
Next ==
    /\ \/ UNCHANGED tasks
       \/ \E t \in Tasks :
             \/ Accept(t) \/ Confirm(t)
             \/ \E k \in Attempts :
                   \/ Complete(t, k) \/ Retry(t, k) \/ Bury(t, k)
                   \/ Redeliver(t, k) \/ Settle(t, k)
    /\ mishaps' \in {mishaps, mishaps + 1}

Spec == Init /\ [][Next]_lifecycle

-----------------------------------------------------------------------------
(* Properties                                                              *)

TypeOK ==
    /\ known \subseteq Tasks /\ completed \subseteq Tasks /\ dead \subseteq Tasks
    /\ started \in [Tasks -> SUBSET Attempts]
    /\ owed \in [Tasks -> SUBSET Attempts]
    /\ ended \in [Tasks -> SUBSET Attempts]
    /\ mishaps \in Nat

\* No accepted task is ever lost: until it has completed or is dead-lettered,
\* some attempt of it is still to be delivered (plan 0001: the system
\* prioritizes preventing task loss).
NothingIsLost ==
    mishaps < Patience =>
        \A t \in Tasks :
            started[t] # {} => owed[t] # {} \/ t \in completed \/ t \in dead

\* A dead-lettered task has had every attempt its client allowed, and no
\* attempt is started before the one before it has ended.
EveryAttemptIsMade ==
    \A t \in Tasks :
        /\ \A k \in started[t] : 0..(k - 1) \subseteq ended[t]
        /\ t \in dead => ended[t] = Attempts

=============================================================================
