------------------------ MODULE TaskLifecycle_proofs ------------------------
(***************************************************************************)
(* What TaskLifecycle promises holds of every system that implements it:   *)
(* no task is lost while fewer mishaps than Patience have happened, and    *)
(* attempts are made one after the other, up to the last one before a task *)
(* is buried.                                                              *)
(***************************************************************************)
EXTENDS TaskLifecycle, FiniteSets, FiniteSetTheorems, WellFoundedInduction, TLAPS

\* A started attempt is owed or has ended: only Settle drops one.
StartedAreOwedOrEnded ==
    mishaps < Patience =>
        \A t \in Tasks : started[t] \subseteq owed[t] \cup ended[t]

\* An attempt ends with the task or in the next attempt.
EndsLeadOn ==
    \A t \in Tasks : \A k \in ended[t] :
        t \in completed \/ t \in dead \/ k + 1 \in started[t]

IInv == TypeOK /\ StartedAreOwedOrEnded /\ EndsLeadOn /\ EveryAttemptIsMade

-----------------------------------------------------------------------------

LEMMA TypeInductive == TypeOK /\ [Next]_lifecycle => TypeOK'
<1> SUFFICES ASSUME TypeOK, [Next]_lifecycle
             PROVE  TypeOK'
  OBVIOUS
<1> USE LifecycleAssumption
<1>1. mishaps' \in Nat
  BY DEF TypeOK, Next, lifecycle
<1>2. CASE UNCHANGED tasks
  BY <1>1, <1>2 DEF TypeOK, tasks
<1>3. ASSUME NEW t \in Tasks, Accept(t)
      PROVE  TypeOK'
  BY <1>1, <1>3 DEF TypeOK, Accept, Begin, Attempts
<1>4. ASSUME NEW t \in Tasks, Confirm(t)
      PROVE  TypeOK'
  BY <1>1, <1>4 DEF TypeOK, Confirm
<1>5. ASSUME NEW t \in Tasks, NEW k \in Attempts,
             \/ Complete(t, k) \/ Retry(t, k) \/ Bury(t, k)
             \/ Redeliver(t, k) \/ Settle(t, k)
      PROVE  TypeOK'
  <2>1. k + 1 \in Attempts \/ ~Retry(t, k)
    BY DEF Attempts, Retry
  <2>2. CASE Complete(t, k)
    BY <1>1, <2>2 DEF TypeOK, Complete, End
  <2>3. CASE Retry(t, k)
    BY <1>1, <2>1, <2>3 DEF TypeOK, Retry, Begin, End
  <2>4. CASE Bury(t, k)
    BY <1>1, <2>4 DEF TypeOK, Bury, End
  <2>5. CASE Redeliver(t, k)
    BY <1>1, <2>5 DEF TypeOK, Redeliver, Begin
  <2>6. CASE Settle(t, k)
    BY <1>1, <2>6 DEF TypeOK, Settle
  <2> QED
    BY <1>5, <2>2, <2>3, <2>4, <2>5, <2>6
<1> QED
  BY <1>2, <1>3, <1>4, <1>5 DEF Next, lifecycle, tasks

\* The order of the attempts needs nothing but itself.
LEMMA AttemptsStayInOrder ==
    ASSUME TypeOK, EveryAttemptIsMade, [Next]_lifecycle
    PROVE  EveryAttemptIsMade'
<1> USE LifecycleAssumption
<1>1. CASE UNCHANGED tasks
  BY <1>1 DEF tasks, EveryAttemptIsMade
<1>2. ASSUME NEW t \in Tasks, Accept(t) \/ Confirm(t)
      PROVE  EveryAttemptIsMade'
  BY <1>2 DEF TypeOK, Accept, Confirm, Begin, EveryAttemptIsMade, Attempts
<1>3. ASSUME NEW t \in Tasks, NEW k \in Attempts, Complete(t, k)
      PROVE  EveryAttemptIsMade'
  BY <1>3 DEF TypeOK, Complete, End, EveryAttemptIsMade
<1>4. ASSUME NEW t \in Tasks, NEW k \in Attempts, Retry(t, k)
      PROVE  EveryAttemptIsMade'
  <2>1. 0..(k + 1 - 1) = 0..(k - 1) \cup {k}
    BY DEF Attempts
  <2> QED
    BY <1>4, <2>1 DEF TypeOK, Retry, Begin, End, EveryAttemptIsMade
<1>5. ASSUME NEW t \in Tasks, NEW k \in Attempts, Bury(t, k)
      PROVE  EveryAttemptIsMade'
  <2>1. Attempts = 0..(k - 1) \cup {k}
    BY <1>5 DEF Attempts, Bury
  <2>2. ended'[t] = Attempts
    BY <1>5, <2>1 DEF TypeOK, Bury, End, EveryAttemptIsMade
  <2> QED
    BY <1>5, <2>2 DEF TypeOK, Bury, End, EveryAttemptIsMade
<1>6. ASSUME NEW t \in Tasks, NEW k \in Attempts, Redeliver(t, k)
      PROVE  EveryAttemptIsMade'
  BY <1>6 DEF TypeOK, Redeliver, Begin, EveryAttemptIsMade
<1>7. ASSUME NEW t \in Tasks, NEW k \in Attempts, Settle(t, k)
      PROVE  EveryAttemptIsMade'
  BY <1>7 DEF Settle, EveryAttemptIsMade
<1> QED
  BY <1>1, <1>2, <1>3, <1>4, <1>5, <1>6, <1>7 DEF Next, lifecycle, tasks

\* What keeps a task from being lost: what is not owed has ended, and led on.
LEMMA NothingIsForgotten ==
    ASSUME IInv, [Next]_lifecycle
    PROVE  (StartedAreOwedOrEnded /\ EndsLeadOn)'
<1> USE LifecycleAssumption DEF IInv, StartedAreOwedOrEnded, EndsLeadOn
<1>0. TypeOK' /\ (mishaps' < Patience => mishaps < Patience)
  BY TypeInductive DEF TypeOK, Next, lifecycle
<1>1. CASE UNCHANGED tasks
  BY <1>0, <1>1 DEF tasks
<1>2. ASSUME NEW t \in Tasks, Accept(t) \/ Confirm(t)
      PROVE  (StartedAreOwedOrEnded /\ EndsLeadOn)'
  BY <1>0, <1>2 DEF TypeOK, Accept, Confirm, Begin
<1>3. ASSUME NEW t \in Tasks, NEW k \in Attempts, Complete(t, k)
      PROVE  (StartedAreOwedOrEnded /\ EndsLeadOn)'
  BY <1>0, <1>3 DEF TypeOK, Complete, End
<1>4. ASSUME NEW t \in Tasks, NEW k \in Attempts, Retry(t, k)
      PROVE  (StartedAreOwedOrEnded /\ EndsLeadOn)'
  BY <1>0, <1>4 DEF TypeOK, Retry, Begin, End, Attempts
<1>5. ASSUME NEW t \in Tasks, NEW k \in Attempts, Bury(t, k)
      PROVE  (StartedAreOwedOrEnded /\ EndsLeadOn)'
  BY <1>0, <1>5 DEF TypeOK, Bury, End
<1>6. ASSUME NEW t \in Tasks, NEW k \in Attempts, Redeliver(t, k)
      PROVE  (StartedAreOwedOrEnded /\ EndsLeadOn)'
  <2>1. started' = started
    BY <1>6 DEF TypeOK, Redeliver, Begin
  <2> QED
    BY <1>0, <1>6, <2>1 DEF TypeOK, Redeliver, Begin
<1>7. ASSUME NEW t \in Tasks, NEW k \in Attempts, Settle(t, k)
      PROVE  (StartedAreOwedOrEnded /\ EndsLeadOn)'
  BY <1>0, <1>7 DEF TypeOK, Settle, Next, lifecycle
<1> QED
  BY <1>1, <1>2, <1>3, <1>4, <1>5, <1>6, <1>7 DEF Next, lifecycle, tasks

LEMMA InvInductive == IInv /\ [Next]_lifecycle => IInv'
  BY TypeInductive, NothingIsForgotten, AttemptsStayInOrder DEF IInv

LEMMA InvInitial == Init => IInv
  BY LifecycleAssumption
  DEF Init, IInv, TypeOK, StartedAreOwedOrEnded, EndsLeadOn, EveryAttemptIsMade, Attempts

LEMMA InvHolds == Spec => []IInv
  BY InvInitial, InvInductive, PTL DEF Spec

-----------------------------------------------------------------------------

\* The last attempt that was started is owed, or the task has ended: if it is
\* not owed it has ended, and no later one was started.
LEMMA InvImpliesNothingIsLost == IInv => NothingIsLost
<1> SUFFICES ASSUME IInv, mishaps < Patience,
                    NEW t \in Tasks, started[t] # {}, owed[t] = {},
                    t \notin completed, t \notin dead
             PROVE  FALSE
  BY DEF NothingIsLost
<1> DEFINE Rest(k) == k..MaxRetries
           Rests == {Rest(k) : k \in started[t]}
<1>1. started[t] \subseteq 0..MaxRetries /\ started[t] \subseteq ended[t]
  BY DEF IInv, TypeOK, Attempts, StartedAreOwedOrEnded
<1>2. Rests # {} /\ Rests \subseteq FiniteSubsetsOf(Nat)
  <2>1. ASSUME NEW k \in started[t]
        PROVE  Rest(k) \subseteq Nat /\ IsFiniteSet(Rest(k))
    <3>1. MaxRetries \in Int /\ k \in Int /\ k \in Nat
      BY <1>1, LifecycleAssumption
    <3>2. IsFiniteSet(k..MaxRetries)
      BY <3>1, FS_Interval
    <3> QED
      BY <3>1, <3>2
  <2> QED
    BY <2>1 DEF FiniteSubsetsOf
<1>3. PICK s \in Rests : \A r \in Rests : <<r, s>> \notin StrictSubsetOrdering(Nat)
  <2>1. IsWellFoundedOn(StrictSubsetOrdering(Nat), FiniteSubsetsOf(Nat))
    BY FS_StrictSubsetOrderingWellFounded
  <2> HIDE DEF Rests
  <2> QED
    BY <1>2, <2>1, WFMin
<1>4. PICK k \in started[t] : s = Rest(k)
  BY <1>3
<1>5. k + 1 \in started[t]
  BY <1>1, <1>4 DEF IInv, EndsLeadOn
<1>6. <<Rest(k + 1), Rest(k)>> \in StrictSubsetOrdering(Nat)
  <2>1. k \in Rest(k) /\ k \notin Rest(k + 1) /\ Rest(k + 1) \subseteq Rest(k)
        /\ Rest(k) \subseteq Nat
    BY <1>1, <1>4, LifecycleAssumption
  <2> QED
    BY <2>1 DEF StrictSubsetOrdering
<1> QED
  BY <1>3, <1>4, <1>5, <1>6

\* Type correctness of the abstract queue.
THEOREM TypeCorrect == Spec => []TypeOK
<1>1. IInv => TypeOK
  BY DEF IInv
<1> QED
  BY <1>1, InvHolds, PTL

\* An accepted task is owed an attempt, completed or buried, in every behaviour
\* of the abstract queue with fewer mishaps than Patience, for any number of
\* tasks and retries.
THEOREM NoTaskIsLost == Spec => []NothingIsLost
  BY InvHolds, InvImpliesNothingIsLost, PTL

\* No attempt is started before the one before it has ended, and a buried task
\* has had all of them.
THEOREM AttemptsAreInOrder == Spec => []EveryAttemptIsMade
<1>1. IInv => EveryAttemptIsMade
  BY DEF IInv
<1> QED
  BY <1>1, InvHolds, PTL

=============================================================================
