----------------------------- MODULE EventWriter -----------------------------
(***************************************************************************)
(* The benchmark's event writer: goroutines of a role process write events *)
(* through a bounded channel to one goroutine that encodes them, until     *)
(* Close.  The channel is guarded by a RWMutex: Write sends while it holds *)
(* the read lock, Close closes the channel under the write lock.           *)
(*                                                                         *)
(* As in package sync, a Lock that waits keeps new readers out.  An event  *)
(* is named by the goroutine that writes it and a number.                  *)
(***************************************************************************)
EXTENDS Naturals, Sequences

CONSTANTS
    Writers,        \* goroutines that call Write
    Closers,        \* goroutines that call Close
    BufferSize,     \* writerBufferSize
    MaxWrites,      \* bound: calls of Write by one goroutine
    MayFail         \* whether the output may fail

ASSUME EventWriterAssumption ==
    /\ BufferSize \in Nat \ {0} /\ MaxWrites \in Nat
    /\ MayFail \in BOOLEAN

VARIABLES
    write,          \* write[g]: where g's call of Write is
    sent,           \* sent[g]: how many events g has had accepted
    calls,          \* calls[g]: how often g has called Write
    close,          \* close[c]: where c's call of Close is
    once,           \* closeOnce
    closed,         \* Writer.closed
    events,         \* Writer.events: a sequence of events
    ended,          \* the channel is closed
    run,            \* where the goroutine of run is
    event,          \* the event it has received, or <<>>
    err,            \* Writer.err is not nil
    output,         \* the events encoded
    accepted        \* the events for which Write returns nil, in their order

callers == <<write, sent, calls, close>>
lock == <<once, closed>>
channel == <<events, ended>>
runner == <<run, event, err, output>>
vars == <<callers, lock, channel, runner, accepted>>

Events == Writers \X Nat

-----------------------------------------------------------------------------
Init ==
    /\ write = [g \in Writers |-> "idle"]
    /\ sent = [g \in Writers |-> 0] /\ calls = [g \in Writers |-> 0]
    /\ close = [c \in Closers |-> "idle"]
    /\ once = "new" /\ closed = FALSE
    /\ events = <<>> /\ ended = FALSE
    /\ run = "receive" /\ event = <<>> /\ err = FALSE
    /\ output = <<>> /\ accepted = <<>>

\* The RWMutex: who holds it, and who waits for the write lock.
Readers == {g \in Writers : write[g] \in {"check", "send"}}

LockWanted == \E c \in Closers : close[c] \in {"lock", "closing", "unlock"}

-----------------------------------------------------------------------------
(* Write.                                                                  *)

WriteAt(g, to) == write' = [write EXCEPT ![g] = to]

CallWrite(g) ==
    /\ write[g] = "idle" /\ calls[g] < MaxWrites
    /\ WriteAt(g, "rlock")
    /\ calls' = [calls EXCEPT ![g] = @ + 1]
    /\ UNCHANGED <<sent, close, lock, channel, runner, accepted>>

RLock(g) ==
    /\ write[g] = "rlock" /\ ~LockWanted
    /\ WriteAt(g, "check")
    /\ UNCHANGED <<sent, calls, close, lock, channel, runner, accepted>>

\* Write returns errWriterClosed, or goes on to send.
CheckClosed(g) ==
    /\ write[g] = "check"
    /\ WriteAt(g, IF closed THEN "idle" ELSE "send")
    /\ UNCHANGED <<sent, calls, close, lock, channel, runner, accepted>>

\* A faulty variant drops the event when the buffer is full.
FaultySend(g) ==
    /\ write[g] = "send" /\ ~ended
    /\ sent' = [sent EXCEPT ![g] = @ + 1]
    /\ events' = IF Len(events) < BufferSize
                 THEN Append(events, <<g, sent[g] + 1>>)
                 ELSE events
    /\ accepted' = Append(accepted, <<g, sent[g] + 1>>)
    /\ WriteAt(g, "idle")
    /\ UNCHANGED <<calls, close, lock, ended, runner>>

Send(g) ==
    /\ write[g] = "send" /\ ~ended
    /\ Len(events) < BufferSize
    /\ sent' = [sent EXCEPT ![g] = @ + 1]
    /\ events' = Append(events, <<g, sent[g] + 1>>)
    /\ accepted' = Append(accepted, <<g, sent[g] + 1>>)
    /\ WriteAt(g, "idle")
    /\ UNCHANGED <<calls, close, lock, ended, runner>>

-----------------------------------------------------------------------------
(* Close.                                                                  *)

CloseAt(c, to) == close' = [close EXCEPT ![c] = to]

CallClose(c) ==
    /\ close[c] = "idle"
    /\ CloseAt(c, "once")
    /\ UNCHANGED <<write, sent, calls, lock, channel, runner, accepted>>

\* closeOnce.Do: the first caller runs the function, the others wait for it.
EnterOnce(c) ==
    /\ close[c] = "once"
    /\ \/ once = "new" /\ once' = "running" /\ CloseAt(c, "lock")
       \/ once = "done" /\ UNCHANGED once /\ CloseAt(c, "wait")
    /\ UNCHANGED <<write, sent, calls, closed, channel, runner, accepted>>

\* Lock waits for the readers.  A faulty variant does not.
FaultyLock(c) ==
    /\ close[c] = "lock"
    /\ CloseAt(c, "closing")
    /\ UNCHANGED <<write, sent, calls, lock, channel, runner, accepted>>

Lock(c) ==
    /\ close[c] = "lock" /\ Readers = {}
    /\ CloseAt(c, "closing")
    /\ UNCHANGED <<write, sent, calls, lock, channel, runner, accepted>>

CloseEvents(c) ==
    /\ close[c] = "closing"
    /\ closed' = TRUE /\ ended' = TRUE
    /\ CloseAt(c, "unlock")
    /\ UNCHANGED <<write, sent, calls, once, events, runner, accepted>>

Unlock(c) ==
    /\ close[c] = "unlock"
    /\ once' = "done"
    /\ CloseAt(c, "wait")
    /\ UNCHANGED <<write, sent, calls, closed, channel, runner, accepted>>

\* Receive from done, and return err.
AwaitDone(c) ==
    /\ close[c] = "wait" /\ run = "done"
    /\ CloseAt(c, IF err THEN "failed" ELSE "ok")
    /\ UNCHANGED <<write, sent, calls, lock, channel, runner, accepted>>

-----------------------------------------------------------------------------
(* run.                                                                    *)

\* A faulty variant takes what a closed channel yields for an event.
FaultyReceive ==
    /\ run = "receive" /\ (events # <<>> \/ ended)
    /\ event' = IF events = <<>> THEN <<>> ELSE Head(events)
    /\ events' = IF events = <<>> THEN <<>> ELSE Tail(events)
    /\ run' = "encode"
    /\ UNCHANGED <<callers, lock, ended, err, output, accepted>>

Receive ==
    /\ run = "receive" /\ events # <<>>
    /\ event' = Head(events) /\ events' = Tail(events)
    /\ run' = "encode"
    /\ UNCHANGED <<callers, lock, ended, err, output, accepted>>

\* Once the output has failed, events are received and dropped.  A faulty
\* variant stops receiving.
FaultyEncode ==
    /\ run = "encode" /\ ~err
    /\ \/ output' = Append(output, event) /\ UNCHANGED err
       \/ MayFail /\ err' = TRUE /\ UNCHANGED output
    /\ run' = "receive" /\ event' = <<>>
    /\ UNCHANGED <<callers, lock, channel, accepted>>

Encode ==
    /\ run = "encode"
    /\ \/ ~err /\ output' = Append(output, event) /\ UNCHANGED err
       \/ ~err /\ MayFail /\ err' = TRUE /\ UNCHANGED output
       \/ err /\ UNCHANGED <<err, output>>
    /\ run' = "receive" /\ event' = <<>>
    /\ UNCHANGED <<callers, lock, channel, accepted>>

\* The channel is closed and empty.  A faulty variant leaves what is buffered.
FaultyEnd ==
    /\ run = "receive" /\ ended
    /\ run' = "done"
    /\ UNCHANGED <<callers, lock, channel, event, err, output, accepted>>

End ==
    /\ run = "receive" /\ ended /\ events = <<>>
    /\ run' = "done"
    /\ UNCHANGED <<callers, lock, channel, event, err, output, accepted>>

-----------------------------------------------------------------------------
Writing(g) == RLock(g) \/ CheckClosed(g) \/ Send(g)

Closing(c) ==
    EnterOnce(c) \/ Lock(c) \/ CloseEvents(c) \/ Unlock(c) \/ AwaitDone(c)

Running == Receive \/ Encode \/ End

Next ==
    \/ \E g \in Writers : CallWrite(g) \/ Writing(g)
    \/ \E c \in Closers : CallClose(c) \/ Closing(c)
    \/ Running

Spec == Init /\ [][Next]_vars

\* Goroutines are scheduled, and the output is read by somebody.  Nobody has
\* to call Write or Close.
Fairness ==
    /\ \A g \in Writers : WF_vars(Writing(g))
    /\ \A c \in Closers : WF_vars(Closing(c))
    /\ WF_vars(Running)

FairSpec == Spec /\ Fairness

-----------------------------------------------------------------------------
(* Properties                                                              *)

TypeOK ==
    /\ write \in [Writers -> {"idle", "rlock", "check", "send"}]
    /\ sent \in [Writers -> Nat] /\ calls \in [Writers -> Nat]
    /\ close \in [Closers -> {"idle", "once", "lock", "closing", "unlock",
                              "wait", "ok", "failed"}]
    /\ once \in {"new", "running", "done"} /\ closed \in BOOLEAN
    /\ events \in Seq(Events) /\ ended \in BOOLEAN
    /\ run \in {"receive", "encode", "done"} /\ event \in {<<>>} \cup Events
    /\ run = "encode" <=> event # <<>>
    /\ err \in BOOLEAN
    /\ output \in Seq(Events) /\ accepted \in Seq(Events)

\* Write never sends on the closed channel, which would panic: the read lock
\* is held from the look at closed until the event is sent.
NoSendAfterClose == ended => \A g \in Writers : write[g] # "send"

\* What the encoder has in hand, and what still waits in the channel.
Pending == (IF event = <<>> THEN <<>> ELSE <<event>>) \o events

\* Close drains the writer: when it has returned nil, every event for which
\* Write returned nil is in the output, in the order of their acceptance.
CloseDrains ==
    (\E c \in Closers : close[c] = "ok") => output = accepted

\* Until the output fails no event is lost, repeated or overtaken.
NothingIsLost == ~err => accepted = output \o Pending

\* Every call of Write and of Close returns, also with a full buffer, a failed
\* output or several callers of Close.
EveryWriteReturns == \A g \in Writers : write[g] = "rlock" ~> write[g] = "idle"

EveryCloseReturns ==
    \A c \in Closers : close[c] = "once" ~> close[c] \in {"ok", "failed"}

=============================================================================
