------------------------- MODULE EventWriter_proofs -------------------------
(***************************************************************************)
(* Proofs about EventWriter: for any number of writers and callers of      *)
(* Close and any buffer, nothing is sent on the closed channel and Close   *)
(* drains it.                                                              *)
(***************************************************************************)
EXTENDS EventWriter, TLAPS

\* Whoever has passed closeOnce is alone, and holds off the readers.
LockIsExclusive ==
    /\ \A c \in Closers : close[c] \in {"lock", "closing", "unlock"} => once = "running"
    /\ \A c, d \in Closers :
          /\ close[c] \in {"lock", "closing", "unlock"}
          /\ close[d] \in {"lock", "closing", "unlock"}
          => c = d
    /\ \A c \in Closers : close[c] \in {"closing", "unlock"} => Readers = {}

\* closed is what a writer may conclude the channel's end from.
ClosedTellsEnded ==
    /\ closed = ended
    /\ once = "new" => ~ended
    /\ \A c \in Closers : close[c] \in {"lock", "closing"} => ~ended

\* run ends only when the channel is closed and drained.
DoneIsDrained == run = "done" => ended /\ events = <<>> /\ event = <<>>

OkIsDone == \A c \in Closers : close[c] = "ok" => run = "done" /\ ~err

IInv ==
    /\ TypeOK /\ NothingIsLost /\ NoSendAfterClose
    /\ LockIsExclusive /\ ClosedTellsEnded /\ DoneIsDrained /\ OkIsDone

-----------------------------------------------------------------------------
(* Sequences.                                                              *)

LEMMA EmptyIsRightNeutral ==
    ASSUME NEW S, NEW s \in Seq(S)
    PROVE  s \o <<>> = s
  OBVIOUS

LEMMA EmptyIsLeftNeutral ==
    ASSUME NEW S, NEW s \in Seq(S)
    PROVE  <<>> \o s = s
  OBVIOUS

LEMMA ConcatAssociates ==
    ASSUME NEW S, NEW s \in Seq(S), NEW t \in Seq(S), NEW u \in Seq(S)
    PROVE  s \o (t \o u) = (s \o t) \o u
  OBVIOUS

LEMMA AppendIsConcat ==
    ASSUME NEW S, NEW s \in Seq(S), NEW e \in S
    PROVE  Append(s, e) = s \o <<e>>
  OBVIOUS

LEMMA AppendShifts ==
    \A s, t, u \in Seq(Events), e \in Events :
        Append(s \o (t \o u), e) = s \o (t \o Append(u, e))
<1> SUFFICES ASSUME NEW s \in Seq(Events), NEW t \in Seq(Events),
                    NEW u \in Seq(Events), NEW e \in Events
             PROVE  Append(s \o (t \o u), e) = s \o (t \o Append(u, e))
  OBVIOUS
<1>1. t \o u \in Seq(Events) /\ <<e>> \in Seq(Events)
  OBVIOUS
<1>2. Append(u, e) = u \o <<e>>
  BY AppendIsConcat
<1>3. t \o (u \o <<e>>) = (t \o u) \o <<e>>
  BY <1>1, ConcatAssociates
<1>4. s \o ((t \o u) \o <<e>>) = (s \o (t \o u)) \o <<e>>
  BY <1>1, ConcatAssociates
<1>5. s \o (t \o u) \in Seq(Events)
  BY <1>1
<1>6. (s \o (t \o u)) \o <<e>> = Append(s \o (t \o u), e)
  BY <1>5, AppendIsConcat
<1> QED
  BY <1>2, <1>3, <1>4, <1>6, Zenon

LEMMA HeadAndTail ==
    ASSUME NEW S, NEW s \in Seq(S), s # <<>>
    PROVE  /\ Head(s) \in S /\ Tail(s) \in Seq(S)
           /\ s = <<Head(s)>> \o Tail(s)
  OBVIOUS

-----------------------------------------------------------------------------
(* The invariant.                                                          *)

LEMMA InitEstablishesIInv == Init => IInv
<1> SUFFICES ASSUME Init PROVE IInv
  OBVIOUS
<1>1. TypeOK
  <2>1. <<>> \in Seq(Events)
    OBVIOUS
  <2> QED
    BY <2>1 DEF Init, TypeOK
<1>2. NothingIsLost
  <2>1. accepted = <<>> /\ output = <<>> /\ Pending = <<>> \o <<>>
    BY DEF Init, Pending
  <2>2. <<>> \in Seq(Events)
    OBVIOUS
  <2>3. output \o Pending = <<>>
    BY <2>1, <2>2, EmptyIsRightNeutral
  <2> QED
    BY <2>1, <2>3 DEF NothingIsLost
<1>3. NoSendAfterClose /\ LockIsExclusive /\ ClosedTellsEnded
      /\ DoneIsDrained /\ OkIsDone
  BY DEF Init, NoSendAfterClose, LockIsExclusive, ClosedTellsEnded,
         DoneIsDrained, OkIsDone
<1> QED
  BY <1>1, <1>2, <1>3 DEF IInv

LEMMA TypeStep == IInv /\ [Next]_vars => TypeOK'
<1> SUFFICES ASSUME IInv, [Next]_vars PROVE TypeOK'
  OBVIOUS
<1>0. TypeOK
  BY DEF IInv
<1> USE DEF callers, lock, channel, runner
<1>1. ASSUME NEW g \in Writers, CallWrite(g) PROVE TypeOK'
  BY <1>0, <1>1 DEF TypeOK, CallWrite, WriteAt
<1>2. ASSUME NEW g \in Writers, RLock(g) PROVE TypeOK'
  BY <1>0, <1>2 DEF TypeOK, RLock, WriteAt
<1>3. ASSUME NEW g \in Writers, CheckClosed(g) PROVE TypeOK'
  BY <1>0, <1>3 DEF TypeOK, CheckClosed, WriteAt
<1>4. ASSUME NEW g \in Writers, Send(g) PROVE TypeOK'
  <2>1. <<g, sent[g] + 1>> \in Events
    BY <1>0 DEF TypeOK, Events
  <2>2. events' \in Seq(Events) /\ accepted' \in Seq(Events)
    BY <1>0, <1>4, <2>1 DEF TypeOK, Send
  <2> QED
    BY <1>0, <1>4, <2>2 DEF TypeOK, Send, WriteAt
<1>5. ASSUME NEW c \in Closers, CallClose(c) PROVE TypeOK'
  BY <1>0, <1>5 DEF TypeOK, CallClose, CloseAt
<1>6. ASSUME NEW c \in Closers, EnterOnce(c) PROVE TypeOK'
  BY <1>0, <1>6 DEF TypeOK, EnterOnce, CloseAt
<1>7. ASSUME NEW c \in Closers, Lock(c) PROVE TypeOK'
  BY <1>0, <1>7 DEF TypeOK, Lock, CloseAt
<1>8. ASSUME NEW c \in Closers, CloseEvents(c) PROVE TypeOK'
  BY <1>0, <1>8 DEF TypeOK, CloseEvents, CloseAt
<1>9. ASSUME NEW c \in Closers, Unlock(c) PROVE TypeOK'
  BY <1>0, <1>9 DEF TypeOK, Unlock, CloseAt
<1>10. ASSUME NEW c \in Closers, AwaitDone(c) PROVE TypeOK'
  BY <1>0, <1>10 DEF TypeOK, AwaitDone, CloseAt
<1>11. CASE Receive
  <2>1. Head(events) \in Events /\ Tail(events) \in Seq(Events)
    BY <1>0, <1>11, HeadAndTail DEF TypeOK, Receive
  <2>2. Head(events) # <<>>
    BY <2>1 DEF Events
  <2>3. event' = Head(events) /\ events' = Tail(events) /\ run' = "encode"
        /\ UNCHANGED <<callers, lock, ended, err, output, accepted>>
    BY <1>11 DEF Receive
  <2> QED
    BY <1>0, <2>1, <2>2, <2>3 DEF TypeOK
<1>12. CASE Encode
  <2>1. output' \in Seq(Events)
    <3>1. CASE output' = output
      BY <1>0, <3>1 DEF TypeOK
    <3>2. CASE output' = Append(output, event)
      <4>1. event \in Events /\ output \in Seq(Events)
        BY <1>0, <1>12 DEF TypeOK, Encode
      <4> QED
        BY <3>2, <4>1
    <3> QED
      BY <1>12, <3>1, <3>2 DEF Encode
  <2> QED
    BY <1>0, <1>12, <2>1 DEF TypeOK, Encode
<1>13. CASE End
  BY <1>0, <1>13 DEF TypeOK, End
<1>14. CASE UNCHANGED vars
  BY <1>0, <1>14 DEF TypeOK, vars
<1> QED
  BY <1>1, <1>2, <1>3, <1>4, <1>5, <1>6, <1>7, <1>8, <1>9, <1>10, <1>11,
     <1>12, <1>13, <1>14 DEF Next, Writing, Closing, Running

LEMMA NothingIsLostStep == IInv /\ [Next]_vars => NothingIsLost'
<1> SUFFICES ASSUME IInv, [Next]_vars, ~err' PROVE (accepted = output \o Pending)'
  BY DEF NothingIsLost
<1> DEFINE inHand == IF event = <<>> THEN <<>> ELSE <<event>>
<1>0. TypeOK
  BY DEF IInv
<1>1. inHand \in Seq(Events) /\ events \in Seq(Events) /\ output \in Seq(Events)
      /\ Pending = inHand \o events
  BY <1>0 DEF TypeOK, Pending
<1>2. CASE UNCHANGED <<events, event, err, output, accepted>>
  <2>1. Pending' = Pending
    BY <1>2 DEF Pending
  <2> QED
    BY <1>2, <2>1 DEF NothingIsLost, IInv
<1>3. ASSUME NEW g \in Writers, Send(g) PROVE (accepted = output \o Pending)'
  <2> DEFINE e == <<g, sent[g] + 1>>
  <2>1. e \in Events
    BY <1>0 DEF TypeOK, Events
  <2>2. accepted = output \o (inHand \o events)
    BY <1>1, <1>3 DEF Send, runner, NothingIsLost, IInv
  <2>3. Append(output \o (inHand \o events), e) = output \o (inHand \o Append(events, e))
    <3> HIDE DEF inHand, e
    <3> QED
      BY <1>1, <2>1, AppendShifts, Zenon
  <2>4. accepted' = Append(accepted, e) /\ events' = Append(events, e)
        /\ output' = output /\ event' = event
    BY <1>3 DEF Send, runner
  <2>5. Pending' = inHand \o Append(events, e)
    BY <2>4 DEF Pending
  <2> QED
    BY <2>2, <2>3, <2>4, <2>5
<1>4. CASE Receive
  <2>1. event = <<>>
    BY <1>0, <1>4 DEF TypeOK, Receive
  <2>2. accepted = output \o events
    <3>1. Pending = <<>> \o events
      BY <2>1 DEF Pending
    <3>2. Pending = events
      BY <1>1, <3>1, EmptyIsLeftNeutral
    <3> QED
      BY <1>4, <3>2 DEF Receive, NothingIsLost, IInv
  <2>3. Head(events) \in Events /\ events = <<Head(events)>> \o Tail(events)
    BY <1>1, <1>4, HeadAndTail DEF Receive
  <2>4. Head(events) # <<>>
    BY <2>3 DEF Events
  <2>5. Pending' = <<Head(events)>> \o Tail(events)
    BY <1>4, <2>4 DEF Receive, Pending
  <2> QED
    BY <1>4, <2>2, <2>3, <2>5 DEF Receive
<1>5. CASE Encode
  <2>1. ~err /\ event # <<>> /\ event \in Events
    BY <1>0, <1>5 DEF TypeOK, Encode
  <2>2. output' = Append(output, event) /\ event' = <<>> /\ events' = events
        /\ accepted' = accepted
    BY <1>5, <2>1 DEF Encode, channel
  <2>3. accepted = output \o (<<event>> \o events)
    BY <2>1 DEF NothingIsLost, IInv, Pending
  <2>4. accepted = (output \o <<event>>) \o events
    <3>1. <<event>> \in Seq(Events)
      BY <2>1
    <3> QED
      BY <1>1, <2>3, <3>1, ConcatAssociates
  <2>5. output \o <<event>> = output'
    BY <1>1, <2>1, <2>2, AppendIsConcat
  <2>6. Pending' = <<>> \o events
    BY <2>2 DEF Pending
  <2>7. Pending' = events
    BY <1>1, <2>6, EmptyIsLeftNeutral
  <2> QED
    BY <2>2, <2>4, <2>5, <2>7
<1>6. \/ UNCHANGED <<events, event, err, output, accepted>>
      \/ \E g \in Writers : Send(g)
      \/ Receive \/ Encode
  BY DEF Next, Writing, Closing, Running, CallWrite, RLock, CheckClosed,
         CallClose, EnterOnce, Lock, CloseEvents, Unlock, AwaitDone, End,
         channel, runner, vars
<1> QED
  BY <1>2, <1>3, <1>4, <1>5, <1>6

LEMMA LockStep == IInv /\ [Next]_vars => LockIsExclusive'
<1> SUFFICES ASSUME IInv, [Next]_vars PROVE LockIsExclusive'
  OBVIOUS
<1>0. TypeOK /\ LockIsExclusive
  BY DEF IInv
<1> DEFINE Inside(c) == close[c] \in {"lock", "closing", "unlock"}
<1>1. ASSUME NEW g \in Writers,
             RLock(g) PROVE LockIsExclusive'
  BY <1>0, <1>1 DEF RLock, LockWanted, LockIsExclusive, Readers, TypeOK, lock,
         WriteAt
<1>2. ASSUME NEW g \in Writers, CallWrite(g) \/ CheckClosed(g) \/ Send(g)
      PROVE  LockIsExclusive'
  <2>1. Readers' \subseteq Readers \cup (IF CheckClosed(g) THEN {g} ELSE {})
    BY <1>0, <1>2 DEF CallWrite, CheckClosed, Send, WriteAt, Readers, TypeOK
  <2>2. CheckClosed(g) => g \in Readers
    BY DEF CheckClosed, Readers
  <2>3. UNCHANGED <<close, once>>
    BY <1>2 DEF CallWrite, CheckClosed, Send, lock
  <2> QED
    BY <1>0, <2>1, <2>2, <2>3 DEF LockIsExclusive
<1>3. ASSUME NEW c \in Closers, Closing(c) \/ CallClose(c)
      PROVE  LockIsExclusive'
  <2>1. Readers' = Readers
    BY <1>3 DEF Closing, CallClose, EnterOnce, Lock, CloseEvents, Unlock,
           AwaitDone, Readers
  <2>2. \A d \in Closers : d # c => close'[d] = close[d]
    BY <1>0, <1>3 DEF Closing, CallClose, EnterOnce, Lock, CloseEvents, Unlock,
           AwaitDone, CloseAt, TypeOK
  <2>3. CASE CallClose(c) \/ AwaitDone(c)
    <3>1. close'[c] \in {"once", "ok", "failed"} /\ once' = once
      BY <1>0, <2>3 DEF CallClose, AwaitDone, CloseAt, TypeOK, lock
    <3> QED
      BY <1>0, <2>1, <2>2, <3>1 DEF LockIsExclusive
  <2>4. CASE EnterOnce(c)
    <3>1. \/ once = "new" /\ once' = "running" /\ close'[c] = "lock"
          \/ once' = once /\ close'[c] = "wait"
      BY <1>0, <2>4 DEF EnterOnce, CloseAt, TypeOK
    <3>2. once = "new" => \A d \in Closers : ~Inside(d)
      BY <1>0 DEF LockIsExclusive
    <3> QED
      BY <1>0, <2>1, <2>2, <3>1, <3>2 DEF LockIsExclusive
  <2>5. CASE Lock(c) \/ CloseEvents(c)
    <3>1. Inside(c) /\ close'[c] \in {"closing", "unlock"} /\ once' = once
          /\ Readers = {}
      BY <1>0, <2>5 DEF Lock, CloseEvents, CloseAt, TypeOK, lock, LockIsExclusive
    <3> QED
      BY <1>0, <2>1, <2>2, <3>1 DEF LockIsExclusive
  <2>6. CASE Unlock(c)
    <3>1. Inside(c) /\ close'[c] = "wait"
      BY <1>0, <2>6 DEF Unlock, CloseAt, TypeOK
    <3>2. \A d \in Closers : d # c => ~Inside(d)
      BY <1>0, <3>1 DEF LockIsExclusive
    <3> QED
      BY <1>0, <2>1, <2>2, <3>1, <3>2 DEF LockIsExclusive
  <2> QED
    BY <1>3, <2>3, <2>4, <2>5, <2>6 DEF Closing
<1>4. CASE Running \/ UNCHANGED vars
  <2>1. UNCHANGED <<write, close, once>>
    BY <1>4 DEF Running, Receive, Encode, End, vars, callers, lock
  <2> QED
    BY <1>0, <2>1 DEF LockIsExclusive, Readers
<1> QED
  BY <1>1, <1>2, <1>3, <1>4 DEF Next, Writing

LEMMA ClosedStep == IInv /\ [Next]_vars => NoSendAfterClose' /\ ClosedTellsEnded'
<1> SUFFICES ASSUME IInv, [Next]_vars
             PROVE  NoSendAfterClose' /\ ClosedTellsEnded'
  OBVIOUS
<1>0. TypeOK /\ LockIsExclusive /\ ClosedTellsEnded /\ NoSendAfterClose
  BY DEF IInv
<1>1. ASSUME NEW g \in Writers, CallWrite(g) \/ Writing(g)
      PROVE  NoSendAfterClose' /\ ClosedTellsEnded'
  <2>1. UNCHANGED <<close, once, closed, ended>>
    BY <1>1 DEF CallWrite, Writing, RLock, CheckClosed, Send, lock, channel
  <2>2. \A h \in Writers : write'[h] = "send" =>
           write[h] = "send" \/ ~closed
    BY <1>0, <1>1 DEF CallWrite, Writing, RLock, CheckClosed, Send, WriteAt, TypeOK
  <2> QED
    BY <1>0, <2>1, <2>2 DEF NoSendAfterClose, ClosedTellsEnded
<1>2. ASSUME NEW c \in Closers, CallClose(c) \/ Closing(c)
      PROVE  NoSendAfterClose' /\ ClosedTellsEnded'
  <2>1. UNCHANGED write
    BY <1>2 DEF CallClose, Closing, EnterOnce, Lock, CloseEvents, Unlock, AwaitDone
  <2>2. \A d \in Closers : d # c => close'[d] = close[d]
    BY <1>0, <1>2 DEF Closing, CallClose, EnterOnce, Lock, CloseEvents, Unlock,
           AwaitDone, CloseAt, TypeOK
  <2>3. CASE CloseEvents(c)
    <3>1. closed' /\ ended' /\ once' = once /\ once = "running"
          /\ close'[c] = "unlock" /\ Readers = {}
      BY <1>0, <2>3 DEF CloseEvents, CloseAt, TypeOK, LockIsExclusive
    <3>2. \A d \in Closers : close'[d] \notin {"lock", "closing"}
      BY <1>0, <2>2, <2>3, <3>1 DEF CloseEvents, LockIsExclusive
    <3>3. \A g \in Writers : write[g] # "send"
      BY <3>1 DEF Readers
    <3> QED
      BY <2>1, <3>1, <3>2, <3>3 DEF NoSendAfterClose, ClosedTellsEnded
  <2>4. CASE EnterOnce(c)
    <3>1. UNCHANGED <<closed, ended>>
      BY <2>4 DEF EnterOnce, channel
    <3>2. \/ once = "new" /\ once' = "running" /\ close'[c] = "lock"
          \/ once' = once /\ close'[c] = "wait"
      BY <1>0, <2>4 DEF EnterOnce, CloseAt, TypeOK
    <3> QED
      BY <1>0, <2>1, <2>2, <3>1, <3>2 DEF NoSendAfterClose, ClosedTellsEnded
  <2>5. CASE Lock(c)
    <3>1. UNCHANGED <<once, closed, ended>> /\ close[c] = "lock"
          /\ close'[c] = "closing"
      BY <1>0, <2>5 DEF Lock, channel, lock, CloseAt, TypeOK
    <3> QED
      BY <1>0, <2>1, <2>2, <3>1 DEF NoSendAfterClose, ClosedTellsEnded
  <2>6. CASE CallClose(c) \/ Unlock(c) \/ AwaitDone(c)
    <3>1. UNCHANGED <<closed, ended>> /\ close'[c] \notin {"lock", "closing"}
          /\ (once' = "new" => once = "new")
      BY <1>0, <2>6 DEF CallClose, Unlock, AwaitDone, channel, lock, CloseAt, TypeOK
    <3> QED
      BY <1>0, <2>1, <2>2, <3>1 DEF NoSendAfterClose, ClosedTellsEnded
  <2> QED
    BY <1>2, <2>3, <2>4, <2>5, <2>6 DEF Closing
<1>3. CASE Running \/ UNCHANGED vars
  <2>1. UNCHANGED <<write, close, once, closed, ended>>
    BY <1>3 DEF Running, Receive, Encode, End, vars, callers, lock, channel
  <2> QED
    BY <1>0, <2>1 DEF NoSendAfterClose, ClosedTellsEnded
<1> QED
  BY <1>1, <1>2, <1>3 DEF Next

LEMMA DoneStep == IInv /\ [Next]_vars => DoneIsDrained' /\ OkIsDone'
<1> SUFFICES ASSUME IInv, [Next]_vars PROVE DoneIsDrained' /\ OkIsDone'
  OBVIOUS
<1>0. TypeOK /\ NoSendAfterClose /\ ClosedTellsEnded /\ DoneIsDrained /\ OkIsDone
  BY DEF IInv
<1>1. ASSUME NEW g \in Writers, CallWrite(g) \/ RLock(g) \/ CheckClosed(g)
      PROVE  DoneIsDrained' /\ OkIsDone'
  BY <1>0, <1>1 DEF CallWrite, RLock, CheckClosed, channel, runner,
         DoneIsDrained, OkIsDone
<1>2. ASSUME NEW g \in Writers, Send(g) PROVE DoneIsDrained' /\ OkIsDone'
  BY <1>0, <1>2 DEF Send, runner, DoneIsDrained, OkIsDone
<1>3. ASSUME NEW c \in Closers, CallClose(c) \/ Closing(c)
      PROVE  DoneIsDrained' /\ OkIsDone'
  <2>1. UNCHANGED <<run, err, event, events>> /\ (ended => ended')
    BY <1>3 DEF CallClose, Closing, EnterOnce, Lock, CloseEvents, Unlock,
           AwaitDone, channel, runner
  <2>2. \A d \in Closers : close'[d] = "ok" =>
           close[d] = "ok" \/ (run = "done" /\ ~err)
    BY <1>0, <1>3 DEF CallClose, Closing, EnterOnce, Lock, CloseEvents, Unlock,
           AwaitDone, CloseAt, TypeOK
  <2> QED
    BY <1>0, <2>1, <2>2 DEF DoneIsDrained, OkIsDone
<1>4. CASE Receive \/ Encode
  <2>1. run # "done" /\ run' # "done" /\ close' = close
    BY <1>4 DEF Receive, Encode, callers
  <2> QED
    BY <1>0, <2>1 DEF DoneIsDrained, OkIsDone
<1>5. CASE End
  <2>1. event = <<>>
    BY <1>0, <1>5 DEF End, TypeOK
  <2> QED
    BY <1>0, <1>5, <2>1 DEF End, DoneIsDrained, OkIsDone, callers, channel
<1>6. CASE UNCHANGED vars
  BY <1>0, <1>6 DEF vars, callers, channel, runner, DoneIsDrained, OkIsDone
<1> QED
  BY <1>1, <1>2, <1>3, <1>4, <1>5, <1>6 DEF Next, Writing, Running

LEMMA Invariance == Spec => []IInv
<1>1. IInv /\ [Next]_vars => IInv'
  BY TypeStep, NothingIsLostStep, LockStep, ClosedStep, DoneStep DEF IInv
<1> QED
  BY InitEstablishesIInv, <1>1, PTL DEF Spec

-----------------------------------------------------------------------------
(* The theorems.                                                           *)

\* Type correctness of the event writer.
THEOREM TypeCorrect == Spec => []TypeOK
<1>1. IInv => TypeOK
  BY DEF IInv
<1> QED
  BY Invariance, <1>1, PTL

\* Write never sends on the closed channel: the write lock that closes it is
\* taken only when nobody is between the look at closed and the send.
THEOREM NeverSendsOnClosedChannel == Spec => []NoSendAfterClose
<1>1. IInv => NoSendAfterClose
  BY DEF IInv
<1> QED
  BY Invariance, <1>1, PTL

\* Until the output fails the accepted events are the written ones followed by
\* those in the encoder's hand and in the buffer, in that order.
THEOREM NoEventIsLost == Spec => []NothingIsLost
<1>1. IInv => NothingIsLost
  BY DEF IInv
<1> QED
  BY Invariance, <1>1, PTL

\* A Close that returns nil leaves every accepted event in the output.
THEOREM CloseAlwaysDrains == Spec => []CloseDrains
<1>1. IInv => CloseDrains
  <2> SUFFICES ASSUME IInv, NEW c \in Closers, close[c] = "ok"
               PROVE  output = accepted
    BY DEF CloseDrains
  <2>1. ~err /\ events = <<>> /\ event = <<>>
    BY DEF IInv, OkIsDone, DoneIsDrained
  <2>2. accepted = output \o (<<>> \o <<>>)
    BY <2>1 DEF IInv, NothingIsLost, Pending
  <2>3. <<>> \o <<>> = <<>>
    OBVIOUS
  <2>4. output \in Seq(Events)
    BY DEF IInv, TypeOK
  <2> QED
    BY <2>2, <2>3, <2>4, EmptyIsRightNeutral
<1> QED
  BY Invariance, <1>1, PTL

=============================================================================
