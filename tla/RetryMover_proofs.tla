------------------------- MODULE RetryMover_proofs -------------------------
(***************************************************************************)
(* Safety of RetryMover, for any number of movers, partitions, records,    *)
(* rebalances and faults and for any valid grid: what the group commits    *)
(* has been moved, and the movers implement RetryQueue.  Both hold where   *)
(* Run is not called again after it has returned (~RunsAgain).             *)
(*                                                                         *)
(* A commit stands for a whole prefix of a partition.  The invariant       *)
(* accounts for every record of the prefix: those before the record in     *)
(* move are moved; those before a held record are moved or held in front   *)
(* of it; those a running mover has polled are moved, held or in move.     *)
(***************************************************************************)
EXTENDS RetryMover, RetryGrid_proofs, SequenceTheorems

-----------------------------------------------------------------------------
(* The inductive invariant.                                                *)

\* The client's offsets lie within the log.
PositionsExist(m) ==
    \A b \in RetryBuckets :
        position[m][b] <= fetched[m][b] /\ fetched[m][b] <= Len(log[b])

\* What a held record waits behind is held before it or has been moved.
HeldInOrder(m) ==
    \A b \in RetryBuckets : \A k \in DOMAIN held[m][b] :
        LET i == held[m][b][k]
        IN  /\ i \in DOMAIN log[b] /\ log[b][i].decodes
            /\ \A j \in 1..(i - 1) :
                  Moved(b, j) \/ \E l \in 1..(k - 1) : held[m][b][l] = j

\* Until its Run returns, a mover accounts for all it has polled.
PolledAreKnown(m) ==
    ret[m] = "none" =>
        \A b \in RetryBuckets : \A i \in 1..position[m][b] :
            \/ Moved(b, i)
            \/ \E k \in DOMAIN held[m][b] : held[m][b][k] = i
            \/ moving[m] = <<b, i>>

\* The record in move is due, is the first of its partition that has not been
\* moved, and is the front of held if its partition holds any.
MoveIsNext(m) ==
    \A b \in RetryBuckets, i \in Nat :
        moving[m] = <<b, i>> =>
            /\ i \in DOMAIN log[b] /\ log[b][i].decodes /\ Due(b, i)
            /\ \A j \in 1..(i - 1) : Moved(b, j)
            /\ held[m][b] # <<>> => Head(held[m][b]) = i
            /\ pc[m] = "commit" => Moved(b, i)

RunHasNotReturned(m) == pc[m] \notin {"down", "idle"} => ret[m] = "none"

MoverInv(m) ==
    /\ PositionsExist(m) /\ HeldInOrder(m) /\ PolledAreKnown(m)
    /\ MoveIsNext(m) /\ RunHasNotReturned(m)

IInv ==
    /\ TypeOK /\ CommittedAreMoved
    /\ \A m \in Movers : MoverInv(m)

LEMMA InitEstablishesIInv == Init => IInv
<1> SUFFICES ASSUME Init PROVE IInv
  OBVIOUS
<1>1. TypeOK
  <2>1. <<>> \in Seq(Retry) /\ <<>> \in Seq(Nat) /\ Len(<<>>) = 0
    OBVIOUS
  <2>2. log \in [RetryBuckets -> Seq(Retry)] /\ moves \in [RetryBuckets -> Seq(Nat)]
        /\ now \in Nat /\ \A b \in RetryBuckets : Len(moves[b]) = Len(log[b])
    BY <2>1 DEF Init, QueueInit
  <2>3. \A m \in Movers : ~(pc[m] \in {"produce", "commit"}) /\ moving[m] = <<>>
    BY DEF Init
  <2>4. held \in [Movers -> [RetryBuckets -> Seq(Nat)]]
    BY <2>1 DEF Init
  <2> QED
    BY <2>2, <2>3, <2>4 DEF Init, TypeOK, Empty
<1>2. CommittedAreMoved
  BY DEF Init, Empty, CommittedAreMoved
<1>3. ASSUME NEW m \in Movers PROVE MoverInv(m)
  <2>1. \A b \in RetryBuckets : position[m][b] = 0 /\ fetched[m][b] = 0
           /\ log[b] = <<>> /\ held[m][b] = <<>>
    BY DEF Init, QueueInit, Empty
  <2>2. moving[m] = <<>> /\ pc[m] = "down"
    BY DEF Init
  <2>3. \A b, i : <<b, i>> # <<>>
    OBVIOUS
  <2> QED
    BY <2>1, <2>2, <2>3 DEF MoverInv, PositionsExist, HeldInOrder, PolledAreKnown,
           MoveIsNext, RunHasNotReturned
<1> QED
  BY <1>1, <1>2, <1>3 DEF IInv

-----------------------------------------------------------------------------
(* The queue only grows.                                                   *)

QueueGrows ==
    /\ now <= now'
    /\ \A b \in RetryBuckets :
          /\ Len(log[b]) <= Len(log'[b])
          /\ \A i \in DOMAIN log[b] :
                i \in DOMAIN log'[b] /\ log'[b][i] = log[b][i]
          /\ \A i \in Nat : Moved(b, i) => Moved(b, i)'

\* The record in move.
LEMMA RecordInMove ==
    ASSUME TypeOK, NEW m \in Movers, pc[m] \in {"produce", "commit"}
    PROVE  \E b \in RetryBuckets, i \in Nat :
              moving[m] = <<b, i>> /\ moving[m][1] = b /\ moving[m][2] = i
<1>1. moving[m] # <<>>
  BY DEF TypeOK
<1>2. moving[m] \in {<<>>} \cup (RetryBuckets \X Nat)
  BY Zenon DEF TypeOK
<1>3. moving[m] \in RetryBuckets \X Nat
  BY <1>1, <1>2
<1> QED
  BY <1>3

LEMMA AppendStaysIn ==
    ASSUME NEW S, NEW T, NEW f \in [S -> Seq(T)], NEW e \in T, NEW b
    PROVE  [f EXCEPT ![b] = Append(@, e)] \in [S -> Seq(T)]
<1>1. \A c \in S : Append(f[c], e) \in Seq(T)
  OBVIOUS
<1> QED
  BY <1>1

LEMMA AppendRetryGrows ==
    ASSUME TypeOK, NEW d \in Delays, NEW decodes \in BOOLEAN,
           AppendRetry(d, decodes)
    PROVE  /\ QueueGrows
           /\ log' \in [RetryBuckets -> Seq(Retry)]
           /\ moves' \in [RetryBuckets -> Seq(Nat)]
           /\ \A b \in RetryBuckets : Len(moves'[b]) = Len(log'[b])
<1> DEFINE b == Bucket(Boundaries, Partitions, d)
           e == [at |-> now, delay |-> d, decodes |-> decodes]
<1>1. e \in Retry
  BY QueueAssumption DEF TypeOK, Retry
<1>2. /\ log' = [log EXCEPT ![b] = Append(@, e)]
      /\ moves' = [moves EXCEPT ![b] = Append(@, 0)]
      /\ now' = now
  BY DEF AppendRetry
<1> HIDE DEF b, e
<1>3. log' \in [RetryBuckets -> Seq(Retry)] /\ moves' \in [RetryBuckets -> Seq(Nat)]
  <2>1. log \in [RetryBuckets -> Seq(Retry)] /\ moves \in [RetryBuckets -> Seq(Nat)]
    BY DEF TypeOK
  <2>2. [log EXCEPT ![b] = Append(@, e)] \in [RetryBuckets -> Seq(Retry)]
    BY <1>1, <2>1, AppendStaysIn
  <2>3. [moves EXCEPT ![b] = Append(@, 0)] \in [RetryBuckets -> Seq(Nat)]
    BY <2>1, AppendStaysIn
  <2> QED
    BY <1>2, <2>2, <2>3
<1>4. ASSUME NEW c \in RetryBuckets
      PROVE  /\ Len(log[c]) <= Len(log'[c])
             /\ Len(moves'[c]) = Len(log'[c])
             /\ \A i \in DOMAIN log[c] :
                   i \in DOMAIN log'[c] /\ log'[c][i] = log[c][i]
             /\ \A i \in Nat : Moved(c, i) => Moved(c, i)'
  <2>1. log[c] \in Seq(Retry) /\ moves[c] \in Seq(Nat) /\ Len(moves[c]) = Len(log[c])
    BY DEF TypeOK
  <2>2. CASE c = b
    <3>1. log'[c] = Append(log[c], e) /\ moves'[c] = Append(moves[c], 0)
      BY <1>2, <2>2 DEF TypeOK
    <3>2. Len(log'[c]) = Len(log[c]) + 1 /\ Len(moves'[c]) = Len(moves[c]) + 1
          /\ \A i \in DOMAIN log[c] :
                i \in DOMAIN log'[c] /\ log'[c][i] = log[c][i] /\ moves'[c][i] = moves[c][i]
      BY <1>1, <2>1, <3>1
    <3> QED
      BY <2>1, <3>1, <3>2 DEF Moved
  <2>3. CASE c # b
    <3>1. log'[c] = log[c] /\ moves'[c] = moves[c]
      BY <1>2, <2>3 DEF TypeOK
    <3> QED
      BY <2>1, <3>1 DEF Moved
  <2> QED
    BY <2>2, <2>3
<1>5. now <= now'
  BY <1>2 DEF TypeOK
<1> QED
  BY <1>3, <1>4, <1>5 DEF QueueGrows

LEMMA WrittenGrows ==
    ASSUME TypeOK, NEW m \in Movers, MoveIsNext(m), Written(m),
           NEW b \in RetryBuckets, NEW i \in Nat, moving[m] = <<b, i>>
    PROVE  /\ QueueGrows
           /\ log' \in [RetryBuckets -> Seq(Retry)]
           /\ moves' \in [RetryBuckets -> Seq(Nat)]
           /\ \A c \in RetryBuckets : Len(moves'[c]) = Len(log'[c])
           /\ Moved(b, i)'
           /\ now' = now
<1>2. i \in DOMAIN log[b]
  BY DEF MoveIsNext
<1>3. log' = log /\ now' = now /\ moves' = [moves EXCEPT ![b][i] = @ + 1]
  BY DEF Written
<1>4. i \in DOMAIN moves[b] /\ moves[b] \in Seq(Nat) /\ log[b] \in Seq(Retry)
  BY <1>2 DEF TypeOK
<1>5. /\ moves'[b] = [moves[b] EXCEPT ![i] = @ + 1]
      /\ \A c \in RetryBuckets : c # b => moves'[c] = moves[c]
      /\ moves' = [moves EXCEPT ![b] = [moves[b] EXCEPT ![i] = @ + 1]]
  BY <1>3 DEF TypeOK
<1>6. moves'[b] \in Seq(Nat) /\ Len(moves'[b]) = Len(moves[b])
      /\ DOMAIN moves'[b] = DOMAIN moves[b]
      /\ moves'[b][i] = moves[b][i] + 1
      /\ \A j \in DOMAIN moves[b] : j # i => moves'[b][j] = moves[b][j]
  BY <1>4, <1>5
<1>7. moves' \in [RetryBuckets -> Seq(Nat)]
  BY <1>5, <1>6 DEF TypeOK
<1>8. \A c \in RetryBuckets : Len(moves'[c]) = Len(log'[c])
  BY <1>3, <1>5, <1>6 DEF TypeOK
<1>9. Moved(b, i)'
  <2>1. moves[b][i] \in Nat
    BY <1>4
  <2> QED
    BY <1>2, <1>3, <1>6, <2>1 DEF Moved
<1>10. ASSUME NEW c \in RetryBuckets, NEW j \in Nat, Moved(c, j) PROVE Moved(c, j)'
  <2>1. CASE c = b /\ j = i
    BY <1>9, <2>1
  <2>2. CASE c = b /\ j # i
    <3>1. j \in DOMAIN moves[b]
      BY <1>10, <2>2 DEF Moved, TypeOK
    <3>2. moves'[b][j] = moves[b][j]
      BY <1>6, <2>2, <3>1
    <3> QED
      BY <1>3, <1>10, <2>2, <3>2 DEF Moved
  <2>3. CASE c # b
    BY <1>3, <1>5, <1>10, <2>3 DEF Moved
  <2> QED
    BY <2>1, <2>2, <2>3
<1>11. QueueGrows
  <2>1. now <= now' /\ \A c \in RetryBuckets : Len(log[c]) <= Len(log'[c])
    BY <1>3 DEF TypeOK
  <2> QED
    BY <1>3, <1>10, <2>1 DEF QueueGrows
<1> QED
  BY <1>3, <1>7, <1>8, <1>9, <1>11 DEF TypeOK

-----------------------------------------------------------------------------
(* A mover that does nothing keeps its part of the invariant.              *)

MoverKept(m) ==
    /\ pc'[m] = pc[m] /\ ret'[m] = ret[m]
    /\ held'[m] = held[m] /\ moving'[m] = moving[m]
    /\ position'[m] = position[m] /\ fetched'[m] = fetched[m]

LEMMA HeldStaysInOrder ==
    ASSUME TypeOK, NEW m \in Movers, HeldInOrder(m), QueueGrows, held'[m] = held[m]
    PROVE  HeldInOrder(m)'
<1> SUFFICES ASSUME NEW b \in RetryBuckets, NEW k \in DOMAIN held[m][b]
             PROVE  LET i == held[m][b][k]
                    IN  /\ i \in DOMAIN log'[b] /\ log'[b][i].decodes
                        /\ \A j \in 1..(i - 1) :
                              Moved(b, j)' \/ \E l \in 1..(k - 1) : held[m][b][l] = j
  BY DEF HeldInOrder
<1> DEFINE i == held[m][b][k]
<1>1. /\ i \in DOMAIN log[b] /\ log[b][i].decodes
      /\ \A j \in 1..(i - 1) :
            Moved(b, j) \/ \E l \in 1..(k - 1) : held[m][b][l] = j
  BY DEF HeldInOrder
<1>2. i \in DOMAIN log'[b] /\ log'[b][i] = log[b][i]
  BY <1>1 DEF QueueGrows
<1>3. \A j \in 1..(i - 1) : Moved(b, j) => Moved(b, j)'
  BY DEF QueueGrows
<1> QED
  BY <1>1, <1>2, <1>3

LEMMA PositionsStay ==
    ASSUME TypeOK, NEW m \in Movers, PositionsExist(m), QueueGrows,
           log' \in [RetryBuckets -> Seq(Retry)],
           position'[m] = position[m], fetched'[m] = fetched[m]
    PROVE  PositionsExist(m)'
<1>1. \A b \in RetryBuckets : Len(log[b]) <= Len(log'[b]) /\ Len(log[b]) \in Nat
         /\ Len(log'[b]) \in Nat /\ fetched[m][b] \in Nat
  BY DEF QueueGrows, TypeOK
<1> QED
  BY <1>1 DEF PositionsExist

\* A step that leaves what a mover holds, moves and has polled alone, starts no
\* Run after one that has returned, and commits nothing that is not moved.
LEMMA QuietStep ==
    ASSUME TypeOK, NEW m \in Movers, MoverInv(m), QueueGrows,
           log' \in [RetryBuckets -> Seq(Retry)], now' \in Nat,
           held'[m] = held[m], moving'[m] = moving[m],
           position'[m] = position[m], fetched'[m] = fetched[m],
           ret'[m] = "none" => ret[m] = "none",
           pc'[m] \notin {"down", "idle"} => ret'[m] = "none",
           \A b \in RetryBuckets, i \in Nat :
              moving[m] = <<b, i>> /\ pc'[m] = "commit"
                => pc[m] = "commit" \/ Moved(b, i)'
    PROVE  MoverInv(m)'
<1>1. PositionsExist(m)' /\ HeldInOrder(m)'
  BY PositionsStay, HeldStaysInOrder DEF MoverInv
<1>2. PolledAreKnown(m)'
  <2>1. \A b \in RetryBuckets, i \in Nat : Moved(b, i) => Moved(b, i)'
    BY DEF QueueGrows
  <2>2. \A b \in RetryBuckets : position[m][b] \in Nat
    BY DEF TypeOK
  <2>3. \A b \in RetryBuckets : \A i \in 1..position[m][b] : i \in Nat
    BY <2>2
  <2> QED
    BY <2>1, <2>3 DEF PolledAreKnown, MoverInv
<1>3. MoveIsNext(m)'
  <2> SUFFICES ASSUME NEW b \in RetryBuckets, NEW i \in Nat, moving[m] = <<b, i>>
               PROVE  /\ i \in DOMAIN log'[b] /\ log'[b][i].decodes /\ Due(b, i)'
                      /\ \A j \in 1..(i - 1) : Moved(b, j)'
                      /\ held[m][b] # <<>> => Head(held[m][b]) = i
                      /\ pc'[m] = "commit" => Moved(b, i)'
    BY DEF MoveIsNext
  <2>1. /\ i \in DOMAIN log[b] /\ log[b][i].decodes /\ Due(b, i)
        /\ \A j \in 1..(i - 1) : Moved(b, j)
        /\ held[m][b] # <<>> => Head(held[m][b]) = i
        /\ pc[m] = "commit" => Moved(b, i)
    BY DEF MoverInv, MoveIsNext
  <2>2. i \in DOMAIN log'[b] /\ log'[b][i] = log[b][i] /\ now <= now'
    BY <2>1 DEF QueueGrows
  <2>3. Due(b, i)'
    <3>0. log[b] \in Seq(Retry) /\ now \in Nat
      BY DEF TypeOK
    <3>1. log[b][i] \in Retry
      BY <2>1, <3>0
    <3>2. log[b][i].at \in Nat /\ log[b][i].delay \in Nat
      BY <3>1 DEF Retry
    <3> QED
      BY <2>1, <2>2, <3>0, <3>2 DEF Due, DueAt
  <2>4. \A j \in Nat : Moved(b, j) => Moved(b, j)'
    BY DEF QueueGrows
  <2> QED
    BY <2>1, <2>2, <2>3, <2>4
<1>4. RunHasNotReturned(m)'
  BY DEF RunHasNotReturned
<1> QED
  BY <1>1, <1>2, <1>3, <1>4 DEF MoverInv

LEMMA KeptMoverStays ==
    ASSUME TypeOK, NEW m \in Movers, MoverInv(m), QueueGrows,
           log' \in [RetryBuckets -> Seq(Retry)], now' \in Nat, MoverKept(m)
    PROVE  MoverInv(m)'
<1>1. RunHasNotReturned(m)
  BY DEF MoverInv
<1>2. pc'[m] \notin {"down", "idle"} => ret'[m] = "none"
  BY <1>1 DEF RunHasNotReturned, MoverKept
<1> QED
  BY <1>2, QuietStep DEF MoverKept

-----------------------------------------------------------------------------
(* Types.                                                                  *)

\* The part of TypeOK that is about movers.
MoversAreTyped ==
    /\ pc \in [Movers -> {"down", "idle", "due", "poll", "produce", "commit"}]
    /\ held \in [Movers -> [RetryBuckets -> Seq(Nat)]]
    /\ moving \in [Movers -> {<<>>} \cup (RetryBuckets \X Nat)]
    /\ \A m \in Movers : pc[m] \in {"produce", "commit"} <=> moving[m] # <<>>
    /\ pollErr \in [Movers -> BOOLEAN]
    /\ paused \in [Movers -> SUBSET RetryBuckets]
    /\ position \in [Movers -> [RetryBuckets -> Nat]]
    /\ fetched \in [Movers -> [RetryBuckets -> Nat]]
    /\ cancelled \in [Movers -> BOOLEAN] /\ closed \in [Movers -> BOOLEAN]
    /\ ret \in [Movers -> {"none", "nil", "error"}]

LEMMA ReturnIsTyped ==
    ASSUME MoversAreTyped, NEW m \in Movers, NEW v \in {"nil", "error"}, Return(m, v),
           held' \in [Movers -> [RetryBuckets -> Seq(Nat)]],
           paused' \in [Movers -> SUBSET RetryBuckets],
           position' \in [Movers -> [RetryBuckets -> Nat]], UNCHANGED fetched
    PROVE  MoversAreTyped'
<1>1. moving' \in [Movers -> {<<>>} \cup (RetryBuckets \X Nat)]
  BY DEF Return, MoversAreTyped
<1>2. \A u \in Movers : pc'[u] \in {"produce", "commit"} <=> moving'[u] # <<>>
  BY DEF Return, MoversAreTyped
<1> QED
  BY <1>1, <1>2 DEF Return, MoversAreTyped

LEMMA VanishIsTyped ==
    ASSUME MoversAreTyped, NEW m \in Movers, Vanish(m)
    PROVE  MoversAreTyped'
<1>1. <<>> \in Seq(Nat)
  OBVIOUS
<1>2. moving' \in [Movers -> {<<>>} \cup (RetryBuckets \X Nat)]
  BY DEF Vanish, MoversAreTyped
<1>3. \A u \in Movers : pc'[u] \in {"produce", "commit"} <=> moving'[u] # <<>>
  BY DEF Vanish, MoversAreTyped
<1>4. held' \in [Movers -> [RetryBuckets -> Seq(Nat)]]
  BY <1>1 DEF Vanish, MoversAreTyped
<1> QED
  BY <1>2, <1>3, <1>4 DEF Vanish, MoversAreTyped, Empty

\* A record goes into move.
LEMMA MovingIsTyped ==
    ASSUME MoversAreTyped, NEW m \in Movers, NEW b \in RetryBuckets, NEW i \in Nat,
           moving' = [moving EXCEPT ![m] = <<b, i>>],
           pc' = [pc EXCEPT ![m] = "produce"]
    PROVE  /\ moving' \in [Movers -> {<<>>} \cup (RetryBuckets \X Nat)]
           /\ pc' \in [Movers -> {"down", "idle", "due", "poll", "produce", "commit"}]
           /\ \A u \in Movers : pc'[u] \in {"produce", "commit"} <=> moving'[u] # <<>>
<1>1. <<b, i>> \in {<<>>} \cup (RetryBuckets \X Nat) /\ <<b, i>> # <<>>
  OBVIOUS
<1>2. moving' \in [Movers -> {<<>>} \cup (RetryBuckets \X Nat)]
  BY <1>1 DEF MoversAreTyped
<1>3. \A u \in Movers : pc'[u] \in {"produce", "commit"} <=> moving'[u] # <<>>
  BY <1>1 DEF MoversAreTyped
<1> QED
  BY <1>2, <1>3 DEF MoversAreTyped

LEMMA AssignStaysIn ==
    ASSUME NEW S, NEW T, NEW U, NEW f \in [S -> [T -> U]], NEW x \in S, NEW y \in T,
           NEW v \in U
    PROVE  [f EXCEPT ![x][y] = v] \in [S -> [T -> U]]
  OBVIOUS

LEMMA MoversStayTyped ==
    ASSUME IInv, NEW m \in Movers, MoverStep(m)
    PROVE  MoversAreTyped'
<1>0. MoversAreTyped
  BY DEF IInv, TypeOK, MoversAreTyped
<1> USE DEF client, control, bounds, group
<1>1. CASE NewRetryMover(m) \/ Run(m) \/ Cancel(m) \/ Close(m) \/ NoDueRecord(m)
           \/ PollWakes(m)
  <2>1. UNCHANGED <<held, moving, pollErr, paused, position, fetched>>
    BY <1>1 DEF NewRetryMover, Run, Cancel, Close, NoDueRecord, PollWakes
  <2>2. \E at \in {"idle", "due", "poll"} :
           pc' = pc \/ (pc[m] \notin {"produce", "commit"} /\ pc' = [pc EXCEPT ![m] = at])
    BY <1>1 DEF NewRetryMover, Run, Cancel, Close, NoDueRecord, PollWakes
  <2>3. /\ cancelled' \in [Movers -> BOOLEAN] /\ closed' \in [Movers -> BOOLEAN]
        /\ ret' \in [Movers -> {"none", "nil", "error"}]
    <3>1. /\ cancelled' = cancelled \/ cancelled' = [cancelled EXCEPT ![m] = TRUE]
          /\ closed' = closed \/ closed' = [closed EXCEPT ![m] = TRUE]
          /\ ret' = ret \/ ret' = [ret EXCEPT ![m] = "none"]
      BY <1>1 DEF NewRetryMover, Run, Cancel, Close, NoDueRecord, PollWakes
    <3> QED
      BY <1>0, <3>1 DEF MoversAreTyped
  <2>4. /\ pc' \in [Movers -> {"down", "idle", "due", "poll", "produce", "commit"}]
        /\ \A u \in Movers : pc'[u] \in {"produce", "commit"} <=> moving'[u] # <<>>
    BY <1>0, <2>1, <2>2 DEF MoversAreTyped
  <2> QED
    BY <1>0, <2>1, <2>3, <2>4 DEF MoversAreTyped
<1>2. CASE Exit(m) \/ Crash(m)
  BY <1>0, <1>2, VanishIsTyped DEF Exit, Crash
<1>3. ASSUME NEW b \in RetryBuckets, Assign(m, b) \/ Fetch(m, b) PROVE MoversAreTyped'
  <2>1. committed[b] \in Nat /\ Len(log[b]) \in Nat
    BY DEF IInv, TypeOK
  <2>2. CASE Assign(m, b)
    <3>1. position' = [position EXCEPT ![m][b] = committed[b]]
          /\ fetched' = [fetched EXCEPT ![m][b] = committed[b]]
          /\ UNCHANGED <<pc, held, moving, pollErr, paused, control>>
      BY <2>2 DEF Assign, StartOf
    <3>2. position' \in [Movers -> [RetryBuckets -> Nat]]
      BY <1>0, <2>1, <3>1, AssignStaysIn DEF MoversAreTyped
    <3>3. fetched' \in [Movers -> [RetryBuckets -> Nat]]
      BY <1>0, <2>1, <3>1, AssignStaysIn DEF MoversAreTyped
    <3> QED
      BY <1>0, <3>1, <3>2, <3>3 DEF MoversAreTyped
  <2>3. CASE Fetch(m, b)
    <3>1. fetched' = [fetched EXCEPT ![m][b] = Len(log[b])]
          /\ UNCHANGED <<pc, held, moving, pollErr, paused, position, control>>
      BY <2>3 DEF Fetch
    <3>2. fetched' \in [Movers -> [RetryBuckets -> Nat]]
      BY <1>0, <2>1, <3>1, AssignStaysIn DEF MoversAreTyped
    <3> QED
      BY <1>0, <3>1, <3>2 DEF MoversAreTyped
  <2> QED
    BY <1>3, <2>2, <2>3
<1>4. ASSUME NEW b \in RetryBuckets, MoveDueRecord(m, b) PROVE MoversAreTyped'
  <2>1. held[m][b] \in Seq(Nat) /\ held[m][b] # <<>>
    BY <1>0, <1>4 DEF MoveDueRecord, DueFronts, Holding, MoversAreTyped
  <2>2. Head(held[m][b]) \in Nat
    BY <2>1
  <2> QED
    BY <1>0, <1>4, <2>2, MovingIsTyped DEF MoveDueRecord, MoversAreTyped
<1>5. CASE Produce(m)
  <2>1. pc[m] = "produce" /\ pc' = [pc EXCEPT ![m] = "commit"]
        /\ UNCHANGED <<held, moving, pollErr, client, control>>
    BY <1>5 DEF Produce
  <2>2. /\ pc' \in [Movers -> {"down", "idle", "due", "poll", "produce", "commit"}]
        /\ \A u \in Movers : pc'[u] \in {"produce", "commit"} <=> moving'[u] # <<>>
    BY <1>0, <2>1 DEF MoversAreTyped
  <2> QED
    BY <1>0, <2>1, <2>2 DEF MoversAreTyped
<1>6. CASE ProduceFails(m) \/ CommitFails(m) \/ PollStops(m) \/ PollFails(m)
  <2>1. (Return(m, "nil") \/ Return(m, "error")) /\ UNCHANGED <<held, client>>
    BY <1>6 DEF ProduceFails, CommitFails, PollStops, PollFails
  <2> QED
    BY <1>0, <2>1, ReturnIsTyped DEF MoversAreTyped
<1>7. CASE Commit(m)
  <2>1. PICK b \in RetryBuckets, i \in Nat :
           moving[m] = <<b, i>> /\ moving[m][1] = b /\ moving[m][2] = i
    BY <1>7, RecordInMove DEF Commit, IInv
  <2>2. /\ held' \in [Movers -> [RetryBuckets -> Seq(Nat)]]
        /\ paused' \in [Movers -> SUBSET RetryBuckets]
    <3>1. CASE UNCHANGED <<held, paused>>
      BY <1>0, <3>1 DEF MoversAreTyped
    <3>2. CASE held[m][b] # <<>> /\ DropFront(m, b)
      <4>1. Tail(held[m][b]) \in Seq(Nat)
        BY <1>0, <3>2 DEF MoversAreTyped
      <4> QED
        BY <1>0, <3>2, <4>1 DEF DropFront, MoversAreTyped
    <3> QED
      BY <1>7, <2>1, <3>1, <3>2 DEF Commit
  <2>3. UNCHANGED <<position, fetched>>
    BY <1>7 DEF Commit
  <2>4. CASE Return(m, "error")
    BY <1>0, <2>2, <2>3, <2>4, ReturnIsTyped DEF MoversAreTyped
  <2>5. CASE /\ pc' = [pc EXCEPT ![m] = "due"]
             /\ moving' = [moving EXCEPT ![m] = <<>>]
             /\ UNCHANGED <<pollErr, control>>
    <3>1. /\ moving' \in [Movers -> {<<>>} \cup (RetryBuckets \X Nat)]
          /\ pc' \in [Movers -> {"down", "idle", "due", "poll", "produce", "commit"}]
          /\ \A u \in Movers : pc'[u] \in {"produce", "commit"} <=> moving'[u] # <<>>
      BY <1>0, <2>5 DEF MoversAreTyped
    <3> QED
      BY <1>0, <2>2, <2>3, <2>5, <3>1 DEF MoversAreTyped
  <2> QED
    BY <1>7, <2>4, <2>5 DEF Commit
<1>8. ASSUME NEW b \in RetryBuckets,
             HoldRecord(m, b) \/ MoveRecord(m, b) \/ RejectRecord(m, b)
      PROVE  MoversAreTyped'
  <2>1. position[m][b] + 1 \in Nat /\ held[m][b] \in Seq(Nat)
    BY <1>0 DEF MoversAreTyped
  <2>2. position' \in [Movers -> [RetryBuckets -> Nat]] /\ UNCHANGED fetched
    <3>1. Polled(m, b)
      BY <1>8 DEF HoldRecord, MoveRecord, RejectRecord
    <3> QED
      BY <1>0, <2>1, <3>1 DEF Polled, MoversAreTyped
  <2>3. CASE HoldRecord(m, b)
    <3>1. Append(held[m][b], position[m][b] + 1) \in Seq(Nat)
      BY <2>1
    <3>2. /\ held' \in [Movers -> [RetryBuckets -> Seq(Nat)]]
          /\ paused' \in [Movers -> SUBSET RetryBuckets]
      BY <1>0, <2>3, <3>1 DEF HoldRecord, HeldWith, MoversAreTyped
    <3>3. CASE Return(m, "error")
      BY <1>0, <2>2, <3>2, <3>3, ReturnIsTyped DEF MoversAreTyped
    <3>4. CASE pc' = [pc EXCEPT ![m] = "due"] /\ UNCHANGED <<moving, pollErr, control>>
      <4>1. pc[m] = "poll"
        BY <2>3 DEF HoldRecord, Polled
      <4>2. /\ pc' \in [Movers -> {"down", "idle", "due", "poll", "produce", "commit"}]
            /\ \A u \in Movers : pc'[u] \in {"produce", "commit"} <=> moving'[u] # <<>>
        BY <1>0, <3>4, <4>1 DEF MoversAreTyped
      <4> QED
        BY <1>0, <2>2, <3>2, <3>4, <4>2 DEF MoversAreTyped
    <3> QED
      BY <2>3, <3>3, <3>4 DEF HoldRecord
  <2>4. CASE MoveRecord(m, b)
    <3>1. /\ moving' = [moving EXCEPT ![m] = <<b, position[m][b] + 1>>]
          /\ pc' = [pc EXCEPT ![m] = "produce"]
          /\ UNCHANGED <<held, paused, control>>
      BY <2>4 DEF MoveRecord
    <3>2. pollErr' \in [Movers -> BOOLEAN]
      BY <1>0, <2>4 DEF MoveRecord, PollResult, MoversAreTyped
    <3>3. /\ moving' \in [Movers -> {<<>>} \cup (RetryBuckets \X Nat)]
          /\ pc' \in [Movers -> {"down", "idle", "due", "poll", "produce", "commit"}]
          /\ \A u \in Movers : pc'[u] \in {"produce", "commit"} <=> moving'[u] # <<>>
      BY <1>0, <2>1, <3>1, MovingIsTyped
    <3> QED
      BY <1>0, <2>2, <3>1, <3>2, <3>3 DEF MoversAreTyped
  <2>5. CASE RejectRecord(m, b)
    <3>1. Return(m, "error") /\ UNCHANGED <<held, paused>>
      BY <2>5 DEF RejectRecord
    <3> QED
      BY <1>0, <2>2, <3>1, ReturnIsTyped DEF MoversAreTyped
  <2> QED
    BY <1>8, <2>3, <2>4, <2>5
<1> QED
  BY <1>1, <1>2, <1>3, <1>4, <1>5, <1>6, <1>7, <1>8 DEF MoverStep

QueueIsTyped ==
    /\ log \in [RetryBuckets -> Seq(Retry)]
    /\ moves \in [RetryBuckets -> Seq(Nat)] /\ now \in Nat
    /\ \A b \in RetryBuckets : Len(moves[b]) = Len(log[b])

LEMMA UnchangedQueueGrows ==
    ASSUME TypeOK, UNCHANGED queue
    PROVE  QueueGrows /\ QueueIsTyped'
<1>1. UNCHANGED <<log, moves, now>>
  BY DEF queue
<1>2. QueueIsTyped'
  BY <1>1 DEF QueueIsTyped, TypeOK
<1>3. now <= now' /\ \A b \in RetryBuckets : Len(log[b]) <= Len(log'[b])
  BY <1>1 DEF TypeOK
<1>4. \A b \in RetryBuckets, i \in Nat : Moved(b, i) => Moved(b, i)'
  BY <1>1 DEF Moved
<1> QED
  BY <1>1, <1>2, <1>3, <1>4 DEF QueueGrows

\* A mover changes the queue only by writing the record in move.
LEMMA MoverStepWrites ==
    ASSUME NEW m \in Movers, MoverStep(m)
    PROVE  UNCHANGED queue \/ (pc[m] = "produce" /\ Written(m))
<1>1. CASE NewRetryMover(m) \/ Run(m) \/ Cancel(m) \/ Close(m) \/ Exit(m) \/ Crash(m)
  BY <1>1 DEF NewRetryMover, Run, Cancel, Close, Exit, Crash, Vanish
<1>2. CASE NoDueRecord(m) \/ Commit(m) \/ CommitFails(m) \/ PollStops(m)
           \/ PollWakes(m) \/ PollFails(m)
  BY <1>2 DEF NoDueRecord, Commit, CommitFails, PollStops, PollWakes, PollFails
<1>3. CASE Produce(m) \/ ProduceFails(m)
  BY <1>3 DEF Produce, ProduceFails
<1>4. ASSUME NEW b \in RetryBuckets,
             \/ Assign(m, b) \/ Fetch(m, b) \/ MoveDueRecord(m, b)
             \/ HoldRecord(m, b) \/ MoveRecord(m, b) \/ RejectRecord(m, b)
      PROVE  UNCHANGED queue
  BY <1>4 DEF Assign, Fetch, MoveDueRecord, HoldRecord, MoveRecord, RejectRecord, Polled
<1> QED
  BY <1>1, <1>2, <1>3, <1>4 DEF MoverStep

LEMMA MoverStepGrows ==
    ASSUME IInv, NEW m \in Movers, MoverStep(m)
    PROVE  QueueGrows /\ QueueIsTyped'
<1>0. TypeOK /\ MoveIsNext(m)
  BY DEF IInv, MoverInv
<1>1. CASE UNCHANGED queue
  BY <1>0, <1>1, UnchangedQueueGrows
<1>2. CASE pc[m] = "produce" /\ Written(m)
  <2>1. PICK b \in RetryBuckets, i \in Nat : moving[m] = <<b, i>>
    BY <1>0, <1>2, RecordInMove
  <2>2. /\ QueueGrows /\ now' = now
        /\ log' \in [RetryBuckets -> Seq(Retry)]
        /\ moves' \in [RetryBuckets -> Seq(Nat)]
        /\ \A c \in RetryBuckets : Len(moves'[c]) = Len(log'[c])
    BY <1>0, <1>2, <2>1, WrittenGrows
  <2> QED
    BY <1>0, <2>2 DEF QueueIsTyped, TypeOK
<1> QED
  BY <1>1, <1>2, MoverStepWrites

\* A mover commits the record in move and nothing else.
LEMMA MoverStepCommits ==
    ASSUME NEW m \in Movers, MoverStep(m)
    PROVE  \/ UNCHANGED committed
           \/ /\ pc[m] = "commit"
              /\ committed' = [committed EXCEPT ![moving[m][1]] = moving[m][2]]
<1> USE DEF group
<1>1. CASE NewRetryMover(m) \/ Run(m) \/ Cancel(m) \/ Close(m) \/ Exit(m) \/ Crash(m)
  BY <1>1 DEF NewRetryMover, Run, Cancel, Close, Exit, Crash, Vanish
<1>2. CASE NoDueRecord(m) \/ PollStops(m) \/ PollWakes(m) \/ PollFails(m)
           \/ Produce(m) \/ ProduceFails(m)
  BY <1>2 DEF NoDueRecord, PollStops, PollWakes, PollFails, Produce, ProduceFails
<1>3. CASE Commit(m) \/ CommitFails(m)
  BY <1>3 DEF Commit, CommitFails
<1>4. ASSUME NEW b \in RetryBuckets,
             \/ Assign(m, b) \/ Fetch(m, b) \/ MoveDueRecord(m, b)
             \/ HoldRecord(m, b) \/ MoveRecord(m, b) \/ RejectRecord(m, b)
      PROVE  UNCHANGED committed
  BY <1>4 DEF Assign, Fetch, MoveDueRecord, HoldRecord, MoveRecord, RejectRecord, Polled
<1> QED
  BY <1>1, <1>2, <1>3, <1>4 DEF MoverStep

BoundsCount ==
    /\ rebalances' = rebalances \/ rebalances' = rebalances + 1
    /\ faults' = faults \/ faults' = faults + 1

LEMMA BoundsOnlyCount ==
    ASSUME NEW m \in Movers, MoverStep(m)
    PROVE  BoundsCount
<1> USE DEF bounds, Fault, BoundsCount
<1>1. CASE NewRetryMover(m) \/ Run(m) \/ Cancel(m) \/ Close(m) \/ Exit(m) \/ Crash(m)
  BY <1>1 DEF NewRetryMover, Run, Cancel, Close, Exit, Crash, Vanish
<1>2. CASE NoDueRecord(m) \/ PollStops(m) \/ PollWakes(m) \/ PollFails(m)
           \/ Produce(m) \/ ProduceFails(m)
  BY <1>2 DEF NoDueRecord, PollStops, PollWakes, PollFails, Produce, ProduceFails
<1>3. CASE Commit(m) \/ CommitFails(m)
  BY <1>3 DEF Commit, CommitFails
<1>4. ASSUME NEW b \in RetryBuckets,
             \/ Assign(m, b) \/ Fetch(m, b) \/ MoveDueRecord(m, b)
             \/ RejectRecord(m, b)
      PROVE  BoundsCount
  BY <1>4 DEF Assign, Fetch, MoveDueRecord, RejectRecord, Polled
<1>5. ASSUME NEW b \in RetryBuckets, HoldRecord(m, b) \/ MoveRecord(m, b)
      PROVE  BoundsCount
  BY <1>5 DEF HoldRecord, MoveRecord, Polled, PollResult
<1> QED
  BY <1>1, <1>2, <1>3, <1>4, <1>5 DEF MoverStep

LEMMA GroupStaysTyped ==
    ASSUME IInv, NEW m \in Movers, MoverStep(m)
    PROVE  /\ committed' \in [RetryBuckets -> Nat]
           /\ owner' \in [RetryBuckets -> Movers \cup {NoMover}]
           /\ rebalances' \in Nat /\ faults' \in Nat
<1>0. TypeOK
  BY DEF IInv
<1>1. committed' \in [RetryBuckets -> Nat]
  <2>1. CASE UNCHANGED committed
    BY <1>0, <2>1 DEF TypeOK
  <2>2. CASE /\ pc[m] = "commit"
             /\ committed' = [committed EXCEPT ![moving[m][1]] = moving[m][2]]
    <3>1. PICK b \in RetryBuckets, i \in Nat :
             moving[m] = <<b, i>> /\ moving[m][1] = b /\ moving[m][2] = i
      BY <1>0, <2>2, RecordInMove
    <3>2. committed' = [committed EXCEPT ![b] = i]
      BY <2>2, <3>1
    <3> QED
      BY <1>0, <3>2 DEF TypeOK
  <2> QED
    BY <2>1, <2>2, MoverStepCommits
<1>2. \/ UNCHANGED owner
      \/ owner' = [b \in RetryBuckets |-> IF owner[b] = m THEN NoMover ELSE owner[b]]
      \/ \E b \in RetryBuckets : owner' = [owner EXCEPT ![b] = m]
  <2> USE DEF group
  <2>1. CASE NewRetryMover(m) \/ Run(m) \/ Cancel(m) \/ Close(m) \/ Exit(m) \/ Crash(m)
    BY <2>1 DEF NewRetryMover, Run, Cancel, Close, Exit, Crash, Vanish
  <2>2. CASE NoDueRecord(m) \/ PollStops(m) \/ PollWakes(m) \/ PollFails(m)
             \/ Produce(m) \/ ProduceFails(m) \/ Commit(m) \/ CommitFails(m)
    BY <2>2 DEF NoDueRecord, PollStops, PollWakes, PollFails, Produce, ProduceFails,
           Commit, CommitFails
  <2>3. ASSUME NEW b \in RetryBuckets, Assign(m, b)
        PROVE  owner' = [owner EXCEPT ![b] = m]
    BY <2>3 DEF Assign
  <2>4. ASSUME NEW b \in RetryBuckets,
               \/ Fetch(m, b) \/ MoveDueRecord(m, b)
               \/ HoldRecord(m, b) \/ MoveRecord(m, b) \/ RejectRecord(m, b)
        PROVE  UNCHANGED owner
    BY <2>4 DEF Fetch, MoveDueRecord, HoldRecord, MoveRecord, RejectRecord, Polled
  <2> QED
    BY <2>1, <2>2, <2>3, <2>4 DEF MoverStep
<1>3. owner' \in [RetryBuckets -> Movers \cup {NoMover}]
  BY <1>0, <1>2 DEF TypeOK
<1>4. BoundsCount
  BY BoundsOnlyCount
<1> QED
  BY <1>0, <1>1, <1>3, <1>4 DEF TypeOK, BoundsCount

LEMMA MoverStepTypeOK ==
    ASSUME IInv, NEW m \in Movers, MoverStep(m)
    PROVE  TypeOK'
  BY MoversStayTyped, MoverStepGrows, GroupStaysTyped
     DEF MoversAreTyped, QueueIsTyped, TypeOK

-----------------------------------------------------------------------------
(* One step of a mover and the invariant.                                  *)

LEMMA OthersAreKept ==
    ASSUME TypeOK, NEW m \in Movers, NEW v \in Movers, v # m, MoverStep(m)
    PROVE  MoverKept(v)
<1> USE DEF client, control
<1>1. CASE NewRetryMover(m) \/ Run(m) \/ Cancel(m) \/ Close(m)
  BY <1>1 DEF NewRetryMover, Run, Cancel, Close, MoverKept, TypeOK
<1>2. CASE Exit(m) \/ Crash(m)
  BY <1>2 DEF Exit, Crash, Vanish, MoverKept, TypeOK
<1>3. CASE NoDueRecord(m) \/ PollStops(m) \/ PollWakes(m) \/ PollFails(m)
           \/ Produce(m) \/ ProduceFails(m) \/ CommitFails(m)
  BY <1>3 DEF NoDueRecord, PollStops, PollWakes, PollFails, Produce, ProduceFails,
         CommitFails, Return, MoverKept, TypeOK
<1>4. CASE Commit(m)
  BY <1>4 DEF Commit, DropFront, Return, MoverKept, TypeOK
<1>5. ASSUME NEW b \in RetryBuckets,
             \/ Assign(m, b) \/ Fetch(m, b) \/ MoveDueRecord(m, b)
             \/ RejectRecord(m, b)
      PROVE  MoverKept(v)
  BY <1>5 DEF Assign, Fetch, MoveDueRecord, RejectRecord, Polled, Return, MoverKept,
         TypeOK
<1>6. ASSUME NEW b \in RetryBuckets, HoldRecord(m, b) \/ MoveRecord(m, b)
      PROVE  MoverKept(v)
  BY <1>6 DEF HoldRecord, MoveRecord, Polled, Return, MoverKept, TypeOK
<1> QED
  BY <1>1, <1>2, <1>3, <1>4, <1>5, <1>6 DEF MoverStep

\* Run, Cancel and the steps that only change pc.
LEMMA QuietStepsKeepMover ==
    ASSUME ~RunsAgain, IInv, NEW m \in Movers,
           \/ NewRetryMover(m) \/ Run(m) \/ Cancel(m) \/ Close(m)
           \/ NoDueRecord(m) \/ PollWakes(m) \/ Produce(m)
    PROVE  MoverInv(m)'
<1> USE DEF client, control
<1>0. TypeOK /\ MoverInv(m)
  BY DEF IInv
<1>1. QueueGrows /\ QueueIsTyped'
  BY MoverStepGrows DEF MoverStep
<1>2. /\ held'[m] = held[m] /\ moving'[m] = moving[m]
      /\ position'[m] = position[m] /\ fetched'[m] = fetched[m]
  BY DEF NewRetryMover, Run, Cancel, Close, NoDueRecord, PollWakes, Produce
<1>3. ret'[m] = "none" => ret[m] = "none"
  BY DEF NewRetryMover, Run, Cancel, Close, NoDueRecord, PollWakes, Produce
<1>4. pc'[m] \notin {"down", "idle"} => ret'[m] = "none"
  <2>1. CASE Run(m)
    BY <1>0, <2>1 DEF Run, TypeOK
  <2>2. CASE NewRetryMover(m)
    BY <1>0, <2>2 DEF NewRetryMover, TypeOK
  <2>3. CASE Cancel(m) \/ Close(m) \/ NoDueRecord(m) \/ PollWakes(m) \/ Produce(m)
    <3>1. ret' = ret /\ (pc' = pc \/ pc[m] \notin {"down", "idle"})
      BY <2>3 DEF Cancel, Close, NoDueRecord, PollWakes, Produce
    <3> QED
      BY <1>0, <3>1 DEF MoverInv, RunHasNotReturned
  <2> QED
    BY <2>1, <2>2, <2>3
<1>5. ASSUME NEW b \in RetryBuckets, NEW i \in Nat, moving[m] = <<b, i>>,
             pc'[m] = "commit"
      PROVE  pc[m] = "commit" \/ Moved(b, i)'
  <2>1. CASE Produce(m)
    <3>1. pc[m] = "produce" /\ Written(m) /\ MoveIsNext(m)
      BY <1>0, <2>1 DEF Produce, MoverInv
    <3> QED
      BY <1>0, <1>5, <3>1, WrittenGrows
  <2>2. CASE ~Produce(m)
    BY <1>0, <1>5, <2>2 DEF NewRetryMover, Run, Cancel, Close, NoDueRecord, PollWakes,
           TypeOK
  <2> QED
    BY <2>1, <2>2
<1> QED
  BY <1>0, <1>1, <1>2, <1>3, <1>4, <1>5, QuietStep DEF QueueIsTyped

\* A Run that returns.
LEMMA ReturnKeepsMover ==
    ASSUME TypeOK, NEW m \in Movers, NEW value \in {"nil", "error"}, Return(m, value),
           PositionsExist(m)', HeldInOrder(m)'
    PROVE  MoverInv(m)'
<1>1. pc'[m] = "idle" /\ ret'[m] = value /\ moving'[m] = <<>>
  BY DEF Return, TypeOK
<1>2. \A b, i : <<b, i>> # <<>>
  OBVIOUS
<1> QED
  BY <1>1, <1>2 DEF MoverInv, PolledAreKnown, MoveIsNext, RunHasNotReturned

LEMMA FailuresKeepMover ==
    ASSUME IInv, NEW m \in Movers,
           PollStops(m) \/ PollFails(m) \/ ProduceFails(m) \/ CommitFails(m)
    PROVE  MoverInv(m)'
<1>0. TypeOK /\ MoverInv(m)
  BY DEF IInv
<1>1. QueueGrows /\ QueueIsTyped'
  BY MoverStepGrows DEF MoverStep
<1>2. (Return(m, "nil") \/ Return(m, "error")) /\ UNCHANGED <<held, client>>
  BY DEF PollStops, PollFails, ProduceFails, CommitFails
<1>3. PositionsExist(m)' /\ HeldInOrder(m)'
  BY <1>0, <1>1, <1>2, PositionsStay, HeldStaysInOrder
     DEF MoverInv, client, QueueIsTyped
<1> QED
  BY <1>0, <1>2, <1>3, ReturnKeepsMover

LEMMA RejectKeepsMover ==
    ASSUME IInv, NEW m \in Movers, NEW b \in RetryBuckets, RejectRecord(m, b)
    PROVE  MoverInv(m)'
<1>0. TypeOK /\ MoverInv(m)
  BY DEF IInv
<1>1. QueueGrows /\ log' = log
  <2>1. UNCHANGED queue
    BY DEF RejectRecord, Polled
  <2> QED
    BY <2>1, UnchangedQueueGrows DEF IInv, queue
<1>2. Return(m, "error") /\ held' = held /\ fetched' = fetched
      /\ position[m][b] < fetched[m][b] /\ position' = [position EXCEPT ![m][b] = @ + 1]
  BY DEF RejectRecord, Polled
<1>3. PositionsExist(m)'
  <2>1. \A c \in RetryBuckets : position'[m][c] = position[m][c]
           \/ (c = b /\ position'[m][c] = position[m][c] + 1)
    BY <1>0, <1>2 DEF TypeOK
  <2>2. \A c \in RetryBuckets : position[m][c] \in Nat /\ fetched[m][c] \in Nat
    BY <1>0 DEF TypeOK
  <2> QED
    BY <1>0, <1>1, <1>2, <2>1, <2>2 DEF PositionsExist, MoverInv
<1>4. HeldInOrder(m)'
  BY <1>0, <1>1, <1>2, HeldStaysInOrder DEF MoverInv
<1> QED
  BY <1>0, <1>2, <1>3, <1>4, ReturnKeepsMover

LEMMA VanishKeepsMover ==
    ASSUME IInv, NEW m \in Movers, Vanish(m)
    PROVE  MoverInv(m)'
<1>0. TypeOK
  BY DEF IInv
<1>1. /\ pc'[m] = "down" /\ moving'[m] = <<>>
      /\ \A b \in RetryBuckets : held'[m][b] = <<>> /\ position'[m][b] = 0
            /\ fetched'[m][b] = 0
  BY <1>0 DEF Vanish, Empty, TypeOK
<1>2. UNCHANGED queue
  BY DEF Vanish
<1>3. \A b, i : <<b, i>> # <<>>
  OBVIOUS
<1>4. PositionsExist(m)'
  <2>1. \A b \in RetryBuckets : log'[b] \in Seq(Retry)
    BY <1>0, <1>2 DEF queue, TypeOK
  <2> QED
    BY <1>1, <2>1 DEF PositionsExist
<1>5. HeldInOrder(m)' /\ PolledAreKnown(m)'
  BY <1>1 DEF HeldInOrder, PolledAreKnown
<1> QED
  BY <1>1, <1>3, <1>4, <1>5 DEF MoverInv, MoveIsNext, RunHasNotReturned

\* A partition is assigned at a committed offset: all before it is moved.
LEMMA AssignKeepsMover ==
    ASSUME IInv, NEW m \in Movers, NEW b \in RetryBuckets, Assign(m, b)
    PROVE  MoverInv(m)'
<1> USE DEF control
<1>0. TypeOK /\ MoverInv(m) /\ CommittedAreMoved
  BY DEF IInv
<1>1. QueueGrows /\ log' = log /\ moves' = moves /\ now' = now
  <2>1. UNCHANGED queue
    BY DEF Assign
  <2> QED
    BY <2>1, UnchangedQueueGrows DEF IInv, queue
<1>2. pc' = pc /\ held' = held /\ moving' = moving /\ ret' = ret
  BY DEF Assign
<1>3. \A c \in RetryBuckets :
         \/ c = b /\ position'[m][c] = committed[c] /\ fetched'[m][c] = committed[c]
         \/ position'[m][c] = position[m][c] /\ fetched'[m][c] = fetched[m][c]
  BY <1>0 DEF Assign, StartOf, TypeOK
<1>4. committed[b] \in Nat /\ committed[b] <= Len(log[b])
  <2>1. committed[b] \in Nat /\ log[b] \in Seq(Retry)
    BY <1>0 DEF TypeOK
  <2>2. committed[b] = 0 \/ committed[b] \in 1..committed[b]
    BY <2>1
  <2>3. committed[b] = 0 \/ committed[b] \in DOMAIN log[b]
    BY <1>0, <2>2 DEF CommittedAreMoved, Moved
  <2> QED
    BY <2>1, <2>3
<1>5. PositionsExist(m)'
  BY <1>0, <1>1, <1>3, <1>4 DEF PositionsExist, MoverInv
<1>6. HeldInOrder(m)'
  BY <1>0, <1>1, <1>2, HeldStaysInOrder DEF MoverInv
<1>7. PolledAreKnown(m)'
  <2> SUFFICES ASSUME ret[m] = "none", NEW c \in RetryBuckets,
                      NEW i \in 1..position'[m][c]
               PROVE  \/ Moved(c, i)
                      \/ \E k \in DOMAIN held[m][c] : held[m][c][k] = i
                      \/ moving[m] = <<c, i>>
    BY <1>1, <1>2 DEF PolledAreKnown, Moved
  <2>1. CASE position'[m][c] = position[m][c]
    BY <1>0, <2>1 DEF MoverInv, PolledAreKnown
  <2>2. CASE position'[m][c] = committed[c]
    BY <1>0, <2>2 DEF CommittedAreMoved
  <2> QED
    BY <1>3, <2>1, <2>2
<1>8. MoveIsNext(m)'
  BY <1>0, <1>1, <1>2 DEF MoverInv, MoveIsNext, Moved, Due, DueAt
<1>9. RunHasNotReturned(m)'
  BY <1>0, <1>2 DEF MoverInv, RunHasNotReturned
<1> QED
  BY <1>5, <1>6, <1>7, <1>8, <1>9 DEF MoverInv

LEMMA FetchKeepsMover ==
    ASSUME IInv, NEW m \in Movers, NEW b \in RetryBuckets, Fetch(m, b)
    PROVE  MoverInv(m)'
<1> USE DEF control
<1>0. TypeOK /\ MoverInv(m)
  BY DEF IInv
<1>1. QueueGrows /\ log' = log /\ moves' = moves /\ now' = now
  <2>1. UNCHANGED queue
    BY DEF Fetch
  <2> QED
    BY <2>1, UnchangedQueueGrows DEF IInv, queue
<1>2. pc' = pc /\ held' = held /\ moving' = moving /\ ret' = ret /\ position' = position
  BY DEF Fetch
<1>3. PositionsExist(m)'
  <2>1. \A c \in RetryBuckets : log[c] \in Seq(Retry) /\ position[m][c] \in Nat
           /\ fetched[m][c] \in Nat
    BY <1>0 DEF TypeOK
  <2>2. \A c \in RetryBuckets :
           \/ c = b /\ fetched[m][c] < Len(log[c]) /\ fetched'[m][c] = Len(log[c])
           \/ fetched'[m][c] = fetched[m][c]
    BY <1>0 DEF Fetch, TypeOK
  <2> QED
    BY <1>0, <1>1, <1>2, <2>1, <2>2 DEF PositionsExist, MoverInv
<1>4. HeldInOrder(m)'
  BY <1>0, <1>1, <1>2, HeldStaysInOrder DEF MoverInv
<1>5. PolledAreKnown(m)' /\ MoveIsNext(m)' /\ RunHasNotReturned(m)'
  BY <1>0, <1>1, <1>2 DEF MoverInv, PolledAreKnown, MoveIsNext, RunHasNotReturned,
         Moved, Due, DueAt
<1> QED
  BY <1>3, <1>4, <1>5 DEF MoverInv

\* The front of a held partition waits behind nothing.
LEMMA FrontIsNext ==
    ASSUME TypeOK, NEW m \in Movers, NEW b \in RetryBuckets, HeldInOrder(m),
           held[m][b] # <<>>
    PROVE  /\ Head(held[m][b]) \in DOMAIN log[b] /\ Head(held[m][b]) \in Nat
           /\ log[b][Head(held[m][b])].decodes
           /\ \A j \in 1..(Head(held[m][b]) - 1) : Moved(b, j)
<1>1. held[m][b] \in Seq(Nat)
  BY DEF TypeOK
<1>2. 1 \in DOMAIN held[m][b] /\ Head(held[m][b]) = held[m][b][1]
      /\ held[m][b][1] \in Nat
  BY <1>1
<1>3. 1..(1 - 1) = {}
  OBVIOUS
<1> QED
  BY <1>2, <1>3 DEF HeldInOrder

LEMMA MoveDueKeepsMover ==
    ASSUME IInv, NEW m \in Movers, NEW b \in RetryBuckets, MoveDueRecord(m, b)
    PROVE  MoverInv(m)'
<1> USE DEF client, control
<1>0. TypeOK /\ MoverInv(m)
  BY DEF IInv
<1>1. QueueGrows /\ log' = log /\ moves' = moves /\ now' = now
  <2>1. UNCHANGED queue
    BY DEF MoveDueRecord
  <2> QED
    BY <2>1, UnchangedQueueGrows DEF IInv, queue
<1>2. /\ pc[m] = "due" /\ held' = held /\ ret' = ret /\ position' = position
      /\ fetched' = fetched
      /\ held[m][b] # <<>> /\ Due(b, Head(held[m][b]))
      /\ moving' = [moving EXCEPT ![m] = <<b, Head(held[m][b])>>]
      /\ pc' = [pc EXCEPT ![m] = "produce"]
  BY DEF MoveDueRecord, DueFronts, Holding
<1>3. moving[m] = <<>> /\ moving'[m] = <<b, Head(held[m][b])>> /\ pc'[m] = "produce"
  BY <1>0, <1>2 DEF TypeOK
<1>4. PositionsExist(m)' /\ HeldInOrder(m)'
  BY <1>0, <1>1, <1>2, HeldStaysInOrder DEF MoverInv, PositionsExist
<1>5. PolledAreKnown(m)'
  <2>1. \A c, i : <<c, i>> # <<>>
    OBVIOUS
  <2> QED
    BY <1>0, <1>1, <1>2, <1>3, <2>1 DEF MoverInv, PolledAreKnown, Moved
<1>6. MoveIsNext(m)'
  <2> SUFFICES ASSUME NEW c \in RetryBuckets, NEW i \in Nat, moving'[m] = <<c, i>>
               PROVE  /\ i \in DOMAIN log[c] /\ log[c][i].decodes /\ Due(c, i)
                      /\ \A j \in 1..(i - 1) : Moved(c, j)
                      /\ held[m][c] # <<>> => Head(held[m][c]) = i
    BY <1>1, <1>2, <1>3 DEF MoveIsNext, Moved, Due, DueAt
  <2>1. c = b /\ i = Head(held[m][b])
    BY <1>3
  <2> QED
    BY <1>0, <1>2, <2>1, FrontIsNext DEF MoverInv
<1>7. RunHasNotReturned(m)'
  BY <1>0, <1>2 DEF MoverInv, RunHasNotReturned
<1> QED
  BY <1>4, <1>5, <1>6, <1>7 DEF MoverInv

\* A polled record is in the log, and with nothing in move all before it is
\* moved or held.
LEMMA PolledIsNext ==
    ASSUME IInv, NEW m \in Movers, NEW b \in RetryBuckets, Polled(m, b)
    PROVE  /\ moving[m] = <<>> /\ ret[m] = "none"
           /\ position[m][b] \in Nat /\ position[m][b] + 1 \in DOMAIN log[b]
           /\ \A j \in 1..position[m][b] :
                 Moved(b, j) \/ \E k \in DOMAIN held[m][b] : held[m][b][k] = j
           /\ PositionsExist(m)'
           /\ position'[m][b] = position[m][b] + 1
           /\ \A c \in RetryBuckets : c # b => position'[m][c] = position[m][c]
           /\ QueueGrows /\ log' = log /\ moves' = moves /\ now' = now
<1>0. TypeOK /\ MoverInv(m)
  BY DEF IInv
<1>1. QueueGrows /\ log' = log /\ moves' = moves /\ now' = now
  <2>1. UNCHANGED queue
    BY DEF Polled
  <2> QED
    BY <2>1, UnchangedQueueGrows DEF IInv, queue
<1>2. pc[m] = "poll" /\ position[m][b] < fetched[m][b] /\ fetched' = fetched
      /\ position' = [position EXCEPT ![m][b] = @ + 1]
  BY DEF Polled
<1>3. moving[m] = <<>> /\ ret[m] = "none"
  BY <1>0, <1>2 DEF MoverInv, RunHasNotReturned, TypeOK
<1>4. \A c \in RetryBuckets : position[m][c] \in Nat /\ fetched[m][c] \in Nat
         /\ log[c] \in Seq(Retry)
  BY <1>0 DEF TypeOK
<1>5. position'[m][b] = position[m][b] + 1
      /\ \A c \in RetryBuckets : c # b => position'[m][c] = position[m][c]
  BY <1>0, <1>2 DEF TypeOK
<1>6. PositionsExist(m)' /\ position[m][b] + 1 \in DOMAIN log[b]
  BY <1>0, <1>1, <1>2, <1>4, <1>5 DEF PositionsExist, MoverInv
<1>7. \A j \in 1..position[m][b] :
         Moved(b, j) \/ \E k \in DOMAIN held[m][b] : held[m][b][k] = j
  <2>1. \A c, i : <<c, i>> # <<>>
    OBVIOUS
  <2> QED
    BY <1>0, <1>3, <2>1 DEF MoverInv, PolledAreKnown
<1> QED
  BY <1>1, <1>3, <1>4, <1>5, <1>6, <1>7

LEMMA MoveRecordKeepsMover ==
    ASSUME IInv, NEW m \in Movers, NEW b \in RetryBuckets, MoveRecord(m, b)
    PROVE  MoverInv(m)'
<1> USE DEF control
<1> DEFINE p == position[m][b]
<1>0. TypeOK /\ MoverInv(m)
  BY DEF IInv
<1>1. Polled(m, b)
  BY DEF MoveRecord
<1>2. /\ moving[m] = <<>> /\ ret[m] = "none"
      /\ p \in Nat /\ p + 1 \in DOMAIN log[b]
      /\ \A j \in 1..p :
            Moved(b, j) \/ \E k \in DOMAIN held[m][b] : held[m][b][k] = j
      /\ PositionsExist(m)'
      /\ position'[m][b] = p + 1
      /\ \A c \in RetryBuckets : c # b => position'[m][c] = position[m][c]
      /\ QueueGrows /\ log' = log /\ moves' = moves /\ now' = now
  BY <1>1, PolledIsNext
<1>3. /\ log[b][p + 1].decodes /\ held[m][b] = <<>> /\ Due(b, p + 1)
      /\ moving' = [moving EXCEPT ![m] = <<b, p + 1>>]
      /\ pc' = [pc EXCEPT ![m] = "produce"]
      /\ held' = held /\ ret' = ret
  BY DEF MoveRecord, MustHold
<1> HIDE DEF p
<1>4. moving'[m] = <<b, p + 1>> /\ pc'[m] = "produce"
  BY <1>0, <1>3 DEF TypeOK
<1>5. HeldInOrder(m)'
  BY <1>0, <1>2, <1>3, HeldStaysInOrder DEF MoverInv
<1>6. DOMAIN held[m][b] = {}
  BY <1>3
<1>7. \A j \in 1..p : Moved(b, j)
  BY <1>2, <1>6
<1>8. PolledAreKnown(m)'
  <2> SUFFICES ASSUME NEW c \in RetryBuckets, NEW i \in 1..position'[m][c]
               PROVE  \/ Moved(c, i)
                      \/ \E k \in DOMAIN held[m][c] : held[m][c][k] = i
                      \/ moving'[m] = <<c, i>>
    BY <1>2, <1>3 DEF PolledAreKnown, Moved
  <2>1. CASE c = b
    <3>1. i \in 1..p \/ i = p + 1
      BY <1>2, <2>1
    <3> QED
      BY <1>4, <1>7, <2>1, <3>1
  <2>2. CASE c # b
    <3>1. i \in 1..position[m][c]
      BY <1>2, <2>2
    <3>2. moving[m] # <<c, i>>
      BY <1>2
    <3> QED
      BY <1>0, <1>2, <3>1, <3>2 DEF MoverInv, PolledAreKnown
  <2> QED
    BY <2>1, <2>2
<1>9. MoveIsNext(m)'
  <2> SUFFICES ASSUME NEW c \in RetryBuckets, NEW i \in Nat, moving'[m] = <<c, i>>
               PROVE  /\ i \in DOMAIN log[c] /\ log[c][i].decodes /\ Due(c, i)
                      /\ \A j \in 1..(i - 1) : Moved(c, j)
                      /\ held[m][c] # <<>> => Head(held[m][c]) = i
    BY <1>2, <1>3, <1>4 DEF MoveIsNext, Moved, Due, DueAt
  <2>1. c = b /\ i = p + 1 /\ i - 1 = p
    BY <1>2, <1>4
  <2> QED
    BY <1>2, <1>3, <1>7, <2>1
<1>10. RunHasNotReturned(m)'
  BY <1>2, <1>3 DEF RunHasNotReturned
<1> QED
  BY <1>2, <1>5, <1>8, <1>9, <1>10 DEF MoverInv

LEMMA AppendFacts ==
    ASSUME NEW s \in Seq(Nat), NEW e \in Nat
    PROVE  /\ DOMAIN s \subseteq DOMAIN Append(s, e)
           /\ \A k \in DOMAIN s : Append(s, e)[k] = s[k] /\ k \in 1..(Len(s) + 1 - 1)
           /\ Len(s) + 1 \in DOMAIN Append(s, e) /\ Append(s, e)[Len(s) + 1] = e
           /\ \A k \in DOMAIN Append(s, e) : k \in DOMAIN s \/ k = Len(s) + 1
  OBVIOUS

LEMMA HoldRecordKeepsMover ==
    ASSUME IInv, NEW m \in Movers, NEW b \in RetryBuckets, HoldRecord(m, b)
    PROVE  MoverInv(m)'
<1> USE DEF control
<1> DEFINE p == position[m][b]
           h == held[m][b]
           n == Len(h) + 1
<1>0. TypeOK /\ MoverInv(m)
  BY DEF IInv
<1>1. Polled(m, b)
  BY DEF HoldRecord
<1>2. /\ moving[m] = <<>> /\ ret[m] = "none"
      /\ p \in Nat /\ p + 1 \in DOMAIN log[b]
      /\ \A j \in 1..p : Moved(b, j) \/ \E k \in DOMAIN h : h[k] = j
      /\ PositionsExist(m)'
      /\ position'[m][b] = p + 1
      /\ \A c \in RetryBuckets : c # b => position'[m][c] = position[m][c]
      /\ QueueGrows /\ log' = log /\ moves' = moves /\ now' = now
  BY <1>1, PolledIsNext
<1>3. log[b][p + 1].decodes /\ held' = [held EXCEPT ![m][b] = Append(held[m][b], p + 1)]
  BY DEF HoldRecord, HeldWith
<1>4. /\ held'[m][b] = Append(h, p + 1)
      /\ \A c \in RetryBuckets : c # b => held'[m][c] = held[m][c]
  BY <1>0, <1>3 DEF TypeOK
<1>5. h \in Seq(Nat)
  BY <1>0 DEF TypeOK
<1>6. /\ DOMAIN h \subseteq DOMAIN held'[m][b]
      /\ \A k \in DOMAIN h : held'[m][b][k] = h[k] /\ k \in 1..(n - 1)
      /\ n \in DOMAIN held'[m][b] /\ held'[m][b][n] = p + 1
      /\ \A k \in DOMAIN held'[m][b] : k \in DOMAIN h \/ k = n
  BY <1>2, <1>4, <1>5, AppendFacts
<1>7. n \in Nat /\ \A k \in DOMAIN h : k \in Nat /\ k < n
  BY <1>5
<1> HIDE DEF p, n
<1>8. HeldInOrder(m)'
  <2> SUFFICES ASSUME NEW c \in RetryBuckets, NEW k \in DOMAIN held'[m][c]
               PROVE  LET i == held'[m][c][k]
                      IN  /\ i \in DOMAIN log[c] /\ log[c][i].decodes
                          /\ \A j \in 1..(i - 1) :
                                Moved(c, j) \/ \E l \in 1..(k - 1) : held'[m][c][l] = j
    BY <1>2 DEF HeldInOrder, Moved
  <2>1. CASE c # b
    <3>1. held'[m][c] = held[m][c]
      BY <1>4, <2>1
    <3> QED
      BY <1>0, <3>1 DEF MoverInv, HeldInOrder
  <2>2. CASE c = b /\ k = n
    <3>1. held'[m][b][n] = p + 1 /\ (p + 1) - 1 = p
      BY <1>2, <1>6
    <3>2. \A j \in 1..p : Moved(b, j) \/ \E l \in 1..(n - 1) : held'[m][b][l] = j
      BY <1>2, <1>6
    <3> QED
      BY <1>2, <1>3, <2>2, <3>1, <3>2
  <2>3. CASE c = b /\ k \in DOMAIN h
    <3>1. held'[m][b][k] = h[k]
      BY <1>6, <2>3
    <3>2. /\ h[k] \in DOMAIN log[b] /\ log[b][h[k]].decodes
          /\ \A j \in 1..(h[k] - 1) : Moved(b, j) \/ \E l \in 1..(k - 1) : h[l] = j
      BY <1>0, <2>3 DEF MoverInv, HeldInOrder
    <3>3. \A l \in 1..(k - 1) : held'[m][b][l] = h[l]
      <4>1. 1..(k - 1) \subseteq DOMAIN h
        BY <1>5, <2>3
      <4> QED
        BY <1>6, <4>1
    <3> QED
      BY <2>3, <3>1, <3>2, <3>3
  <2> QED
    BY <1>6, <2>1, <2>2, <2>3
<1>9. PolledAreKnown(m)'
  <2> SUFFICES ASSUME NEW c \in RetryBuckets, NEW i \in 1..position'[m][c]
               PROVE  \/ Moved(c, i)
                      \/ \E k \in DOMAIN held'[m][c] : held'[m][c][k] = i
    BY <1>2 DEF PolledAreKnown, Moved
  <2>1. CASE c = b
    <3>1. i \in 1..p \/ i = p + 1
      BY <1>2, <2>1
    <3>2. CASE i = p + 1
      BY <1>6, <2>1, <3>2
    <3>3. CASE i \in 1..p
      BY <1>2, <1>6, <2>1, <3>3
    <3> QED
      BY <3>1, <3>2, <3>3
  <2>2. CASE c # b
    <3>1. i \in 1..position[m][c] /\ held'[m][c] = held[m][c]
      BY <1>2, <1>4, <2>2
    <3>2. moving[m] # <<c, i>>
      BY <1>2
    <3> QED
      BY <1>0, <1>2, <3>1, <3>2 DEF MoverInv, PolledAreKnown
  <2> QED
    BY <2>1, <2>2
<1>10. moving'[m] = <<>> /\ (pc'[m] \notin {"down", "idle"} => ret'[m] = "none")
  BY <1>0, <1>2 DEF HoldRecord, Return, TypeOK
<1>11. MoveIsNext(m)' /\ RunHasNotReturned(m)'
  <2>1. \A c, i : <<c, i>> # <<>>
    OBVIOUS
  <2> QED
    BY <1>10, <2>1 DEF MoveIsNext, RunHasNotReturned
<1> QED
  BY <1>2, <1>8, <1>9, <1>11 DEF MoverInv

LEMMA TailFacts ==
    ASSUME NEW s \in Seq(Nat), s # <<>>
    PROVE  /\ s[1] = Head(s) /\ s[1] \in Nat
           /\ \A k \in DOMAIN Tail(s) :
                 k + 1 \in DOMAIN s /\ Tail(s)[k] = s[k + 1] /\ k \in Nat
           /\ \A k \in DOMAIN s :
                 k = 1 \/ (k - 1 \in DOMAIN Tail(s) /\ Tail(s)[k - 1] = s[k])
           /\ \A k \in DOMAIN Tail(s) : \A l \in 1..k :
                 l = 1 \/ (l - 1 \in 1..(k - 1) /\ Tail(s)[l - 1] = s[l])
  OBVIOUS

LEMMA CommitKeepsMover ==
    ASSUME IInv, NEW m \in Movers, Commit(m)
    PROVE  MoverInv(m)'
<1> USE DEF control
<1>0. TypeOK /\ MoverInv(m)
  BY DEF IInv
<1>1. QueueGrows /\ log' = log /\ moves' = moves /\ now' = now
  <2>1. UNCHANGED queue
    BY DEF Commit
  <2> QED
    BY <2>1, UnchangedQueueGrows DEF IInv, queue
<1>2. PICK b \in RetryBuckets, i \in Nat :
         moving[m] = <<b, i>> /\ moving[m][1] = b /\ moving[m][2] = i
  BY <1>0, RecordInMove DEF Commit
<1>3. /\ Moved(b, i)
      /\ held[m][b] # <<>> => Head(held[m][b]) = i
  BY <1>0, <1>2 DEF Commit, MoverInv, MoveIsNext
<1>4. position' = position /\ fetched' = fetched
  BY DEF Commit
<1>5. moving'[m] = <<>> /\ (ret'[m] = "none" => ret[m] = "none")
      /\ (pc'[m] \notin {"down", "idle"} => ret'[m] = "none")
  <2>1. pc[m] = "commit" /\ ret[m] = "none"
    BY <1>0 DEF Commit, MoverInv, RunHasNotReturned
  <2>2. CASE Return(m, "error")
    BY <1>0, <2>1, <2>2 DEF Return, TypeOK
  <2>3. CASE moving' = [moving EXCEPT ![m] = <<>>] /\ UNCHANGED control
    BY <1>0, <2>1, <2>3 DEF TypeOK
  <2> QED
    BY <2>2, <2>3 DEF Commit
<1>6. PositionsExist(m)'
  BY <1>0, <1>1, <1>4 DEF MoverInv, PositionsExist
<1>7. \A c, j : <<c, j>> # <<>>
  OBVIOUS
<1>8. MoveIsNext(m)' /\ RunHasNotReturned(m)'
  BY <1>5, <1>7 DEF MoveIsNext, RunHasNotReturned
<1>9. CASE held[m][b] = <<>>
  <2>1. held' = held
    BY <1>2, <1>9 DEF Commit
  <2>2. HeldInOrder(m)'
    BY <1>0, <1>1, <2>1, HeldStaysInOrder DEF MoverInv
  <2>3. PolledAreKnown(m)'
    <3> SUFFICES ASSUME ret[m] = "none", NEW c \in RetryBuckets,
                        NEW j \in 1..position[m][c]
                 PROVE  \/ Moved(c, j)
                        \/ \E k \in DOMAIN held[m][c] : held[m][c][k] = j
      BY <1>1, <1>4, <1>5, <2>1 DEF PolledAreKnown, Moved
    <3>1. moving[m] = <<c, j>> => c = b /\ j = i
      BY <1>2
    <3> QED
      BY <1>0, <1>3, <3>1 DEF MoverInv, PolledAreKnown
  <2> QED
    BY <1>6, <1>8, <2>2, <2>3 DEF MoverInv
<1>10. CASE held[m][b] # <<>>
  <2> DEFINE h == held[m][b]
             t == Tail(held[m][b])
  <2>1. held' = [held EXCEPT ![m][b] = Tail(held[m][b])]
    BY <1>2, <1>10 DEF Commit, DropFront
  <2>2. /\ held'[m][b] = t
        /\ \A c \in RetryBuckets : c # b => held'[m][c] = held[m][c]
    BY <1>0, <2>1 DEF TypeOK
  <2>3. h \in Seq(Nat)
    BY <1>0 DEF TypeOK
  <2>4. /\ h[1] = i
        /\ \A k \in DOMAIN t : k + 1 \in DOMAIN h /\ t[k] = h[k + 1] /\ k \in Nat
        /\ \A k \in DOMAIN h : k = 1 \/ (k - 1 \in DOMAIN t /\ t[k - 1] = h[k])
        /\ \A k \in DOMAIN t : \A l \in 1..k :
              l = 1 \/ (l - 1 \in 1..(k - 1) /\ t[l - 1] = h[l])
    BY <1>3, <1>10, <2>3, TailFacts
  <2> HIDE DEF h, t
  <2>5. \A k \in DOMAIN h :
           /\ h[k] \in DOMAIN log[b] /\ log[b][h[k]].decodes
           /\ \A j \in 1..(h[k] - 1) : Moved(b, j) \/ \E l \in 1..(k - 1) : h[l] = j
    BY <1>0 DEF h, MoverInv, HeldInOrder
  <2>6. ASSUME NEW k \in DOMAIN t
        PROVE  /\ t[k] \in DOMAIN log[b] /\ log[b][t[k]].decodes
               /\ \A j \in 1..(t[k] - 1) : Moved(b, j) \/ \E l \in 1..(k - 1) : t[l] = j
    <3>1. k + 1 \in DOMAIN h /\ t[k] = h[k + 1] /\ (k + 1) - 1 = k
      BY <2>4
    <3>2. /\ t[k] \in DOMAIN log[b] /\ log[b][t[k]].decodes
          /\ \A j \in 1..(t[k] - 1) : Moved(b, j) \/ \E l \in 1..k : h[l] = j
      BY <2>5, <3>1
    <3>3. ASSUME NEW j \in 1..(t[k] - 1), NEW l \in 1..k, h[l] = j
          PROVE  Moved(b, j) \/ \E q \in 1..(k - 1) : t[q] = j
      BY <1>3, <2>4, <3>3
    <3> QED
      BY <3>2, <3>3
  <2>7. HeldInOrder(m)'
    <3> SUFFICES ASSUME NEW c \in RetryBuckets, NEW k \in DOMAIN held'[m][c]
                 PROVE  LET e == held'[m][c][k]
                        IN  /\ e \in DOMAIN log[c] /\ log[c][e].decodes
                            /\ \A j \in 1..(e - 1) :
                                  Moved(c, j) \/ \E l \in 1..(k - 1) : held'[m][c][l] = j
      BY <1>1 DEF HeldInOrder, Moved
    <3>1. CASE c = b
      BY <2>2, <2>6, <3>1
    <3>2. CASE c # b
      <4>1. held'[m][c] = held[m][c]
        BY <2>2, <3>2
      <4> QED
        BY <1>0, <4>1 DEF MoverInv, HeldInOrder
    <3> QED
      BY <3>1, <3>2
  <2>8. PolledAreKnown(m)'
    <3> SUFFICES ASSUME ret[m] = "none", NEW c \in RetryBuckets,
                        NEW j \in 1..position[m][c]
                 PROVE  \/ Moved(c, j)
                        \/ \E k \in DOMAIN held'[m][c] : held'[m][c][k] = j
      BY <1>1, <1>4, <1>5 DEF PolledAreKnown, Moved
    <3>1. \/ Moved(c, j)
          \/ \E k \in DOMAIN held[m][c] : held[m][c][k] = j
          \/ moving[m] = <<c, j>>
      BY <1>0 DEF MoverInv, PolledAreKnown
    <3>2. moving[m] = <<c, j>> => Moved(c, j)
      BY <1>2, <1>3
    <3>3. CASE c # b
      BY <2>2, <3>1, <3>2, <3>3
    <3>4. ASSUME c = b, NEW k \in DOMAIN h, h[k] = j
          PROVE  Moved(c, j) \/ \E q \in DOMAIN t : t[q] = j
      BY <1>3, <2>4, <3>4
    <3> QED
      BY <2>2, <3>1, <3>2, <3>3, <3>4 DEF h
  <2> QED
    BY <1>6, <1>8, <2>7, <2>8 DEF MoverInv
<1> QED
  BY <1>9, <1>10

\* A commit stands for a prefix whose records are all moved.
LEMMA MoverStepCommitsMoved ==
    ASSUME IInv, NEW m \in Movers, MoverStep(m)
    PROVE  CommittedAreMoved'
<1>0. TypeOK /\ MoverInv(m) /\ CommittedAreMoved
  BY DEF IInv
<1>1. \A b \in RetryBuckets, i \in Nat : Moved(b, i) => Moved(b, i)'
  BY MoverStepGrows DEF QueueGrows
<1>2. \A b \in RetryBuckets : committed[b] \in Nat
  BY <1>0 DEF TypeOK
<1>3. CASE UNCHANGED committed
  <2>1. \A b \in RetryBuckets : \A i \in 1..committed[b] : i \in Nat /\ Moved(b, i)
    BY <1>0, <1>2 DEF CommittedAreMoved
  <2> QED
    BY <1>1, <1>3, <2>1 DEF CommittedAreMoved
<1>4. CASE /\ pc[m] = "commit"
           /\ committed' = [committed EXCEPT ![moving[m][1]] = moving[m][2]]
  <2>1. PICK b \in RetryBuckets, i \in Nat :
           moving[m] = <<b, i>> /\ moving[m][1] = b /\ moving[m][2] = i
    BY <1>0, <1>4, RecordInMove
  <2>2. Moved(b, i) /\ \A j \in 1..(i - 1) : Moved(b, j)
    BY <1>0, <1>4, <2>1 DEF MoverInv, MoveIsNext
  <2>3. \A j \in 1..i : j \in Nat /\ Moved(b, j)
    BY <2>2
  <2>4. committed'[b] = i
        /\ \A c \in RetryBuckets : c # b => committed'[c] = committed[c]
    BY <1>0, <1>4, <2>1 DEF TypeOK
  <2>5. \A c \in RetryBuckets : \A j \in 1..committed'[c] : j \in Nat /\ Moved(c, j)
    BY <1>0, <1>2, <2>3, <2>4 DEF CommittedAreMoved
  <2> QED
    BY <1>1, <2>5 DEF CommittedAreMoved
<1> QED
  BY <1>3, <1>4, MoverStepCommits

LEMMA MoverStepKeepsIInv ==
    ASSUME ~RunsAgain, IInv, NEW m \in Movers, MoverStep(m)
    PROVE  IInv'
<1>1. TypeOK' /\ CommittedAreMoved'
  BY MoverStepTypeOK, MoverStepGrows, MoverStepCommitsMoved
<1>2. MoverInv(m)'
  <2>1. CASE \/ NewRetryMover(m) \/ Run(m) \/ Cancel(m) \/ Close(m)
             \/ NoDueRecord(m) \/ PollWakes(m) \/ Produce(m)
    BY <2>1, QuietStepsKeepMover
  <2>2. CASE Exit(m) \/ Crash(m)
    BY <2>2, VanishKeepsMover DEF Exit, Crash
  <2>3. CASE PollStops(m) \/ PollFails(m) \/ ProduceFails(m) \/ CommitFails(m)
    BY <2>3, FailuresKeepMover
  <2>4. CASE Commit(m)
    BY <2>4, CommitKeepsMover
  <2>5. ASSUME NEW b \in RetryBuckets,
               \/ Assign(m, b) \/ Fetch(m, b) \/ MoveDueRecord(m, b)
               \/ HoldRecord(m, b) \/ MoveRecord(m, b) \/ RejectRecord(m, b)
        PROVE  MoverInv(m)'
    BY <2>5, AssignKeepsMover, FetchKeepsMover, MoveDueKeepsMover,
       HoldRecordKeepsMover, MoveRecordKeepsMover, RejectKeepsMover
  <2> QED
    BY <2>1, <2>2, <2>3, <2>4, <2>5 DEF MoverStep
<1>3. ASSUME NEW v \in Movers, v # m PROVE MoverInv(v)'
  <2>1. MoverKept(v)
    BY <1>3, OthersAreKept DEF IInv
  <2> QED
    BY <2>1, MoverStepGrows, KeptMoverStays DEF IInv, QueueIsTyped
<1> QED
  BY <1>1, <1>2, <1>3 DEF IInv

\* Steps of the queue alone.
LEMMA QueueStepKeepsIInv ==
    ASSUME IInv, QueueGrows, QueueIsTyped',
           UNCHANGED <<group, pc, held, moving, pollErr, client, control, bounds>>
    PROVE  IInv'
<1> USE DEF group, client, control, bounds
<1>0. TypeOK /\ CommittedAreMoved
  BY DEF IInv
<1>1. TypeOK'
  BY <1>0 DEF TypeOK, QueueIsTyped
<1>2. CommittedAreMoved'
  <2>1. \A b \in RetryBuckets : committed[b] \in Nat
    BY <1>0 DEF TypeOK
  <2>2. \A b \in RetryBuckets : \A i \in 1..committed[b] : i \in Nat /\ Moved(b, i)
    BY <1>0, <2>1 DEF CommittedAreMoved
  <2> QED
    BY <2>2 DEF CommittedAreMoved, QueueGrows
<1>3. ASSUME NEW m \in Movers PROVE MoverInv(m)'
  <2>1. MoverKept(m)
    BY DEF MoverKept
  <2> QED
    BY <2>1, KeptMoverStays DEF IInv, QueueIsTyped
<1> QED
  BY <1>1, <1>2, <1>3 DEF IInv

LEMMA NextKeepsIInv == ~RunsAgain /\ IInv /\ [Next]_vars => IInv'
<1> SUFFICES ASSUME ~RunsAgain, IInv, [Next]_vars PROVE IInv'
  OBVIOUS
<1>0. TypeOK
  BY DEF IInv
<1>1. ASSUME NEW m \in Movers, MoverStep(m) PROVE IInv'
  BY <1>1, MoverStepKeepsIInv
<1>2. ASSUME NEW d \in Delays, NEW decodes \in BOOLEAN, Arrive(d, decodes) PROVE IInv'
  <2>1. AppendRetry(d, decodes)
        /\ UNCHANGED <<group, pc, held, moving, pollErr, client, control, bounds>>
    BY <1>2 DEF Arrive
  <2>2. /\ QueueGrows
        /\ log' \in [RetryBuckets -> Seq(Retry)]
        /\ moves' \in [RetryBuckets -> Seq(Nat)]
        /\ \A b \in RetryBuckets : Len(moves'[b]) = Len(log'[b])
    BY <1>0, <2>1, AppendRetryGrows
  <2>3. now' \in Nat
    BY <1>0, <2>1 DEF AppendRetry, TypeOK
  <2> QED
    BY <2>1, <2>2, <2>3, QueueStepKeepsIInv DEF QueueIsTyped
<1>3. CASE Pass
  <2>1. now \in Nat /\ now' = now + 1 /\ log' = log /\ moves' = moves
        /\ UNCHANGED <<group, pc, held, moving, pollErr, client, control, bounds>>
    BY <1>0, <1>3 DEF Pass, Tick, TypeOK
  <2>2. \A b \in RetryBuckets : log[b] \in Seq(Retry)
    BY <1>0 DEF TypeOK
  <2>3. QueueGrows
    BY <2>1, <2>2 DEF QueueGrows, Moved
  <2>4. QueueIsTyped'
    BY <1>0, <2>1 DEF QueueIsTyped, TypeOK
  <2> QED
    BY <2>1, <2>3, <2>4, QueueStepKeepsIInv
<1>4. CASE UNCHANGED vars
  <2>1. UNCHANGED queue
        /\ UNCHANGED <<group, pc, held, moving, pollErr, client, control, bounds>>
    BY <1>4 DEF vars
  <2> QED
    BY <1>0, <2>1, UnchangedQueueGrows, QueueStepKeepsIInv
<1> QED
  BY <1>1, <1>2, <1>3, <1>4 DEF Next

-----------------------------------------------------------------------------
(* The theorems.                                                           *)

LEMMA IInvIsInvariant == ASSUME ~RunsAgain PROVE Spec => []IInv
<1>1. IInv /\ [Next]_vars => IInv'
  BY NextKeepsIInv
<1> QED
  BY <1>1, InitEstablishesIInv, PTL DEF Spec

\* Every variable keeps to what its comment says: a record is in move exactly
\* between the decision to move it and the answer to its commit.
THEOREM TypeCorrect == ASSUME ~RunsAgain PROVE Spec => []TypeOK
<1>1. Spec => []IInv
  BY IInvIsInvariant
<1>2. IInv => TypeOK
  BY DEF IInv
<1> QED
  BY <1>1, <1>2, PTL

\* moveDueRecord and handleRecord commit nothing that is not on the ready
\* topic, whatever produces, commits, polls and processes fail and however the
\* partitions go round.
THEOREM NoRetryIsLost == ASSUME ~RunsAgain PROVE Spec => []CommittedAreMoved
<1>1. Spec => []IInv
  BY IInvIsInvariant
<1>2. IInv => CommittedAreMoved
  BY DEF IInv
<1> QED
  BY <1>1, <1>2, PTL

\* A record is written to the ready topic when it is due and all before it in
\* its partition have been.
LEMMA WrittenIsDelivered ==
    ASSUME IInv, NEW m \in Movers, pc[m] = "produce", Written(m)
    PROVE  QueueNext
<1>0. TypeOK /\ MoverInv(m)
  BY DEF IInv
<1>1. PICK b \in RetryBuckets, i \in Nat :
         moving[m] = <<b, i>> /\ moving[m][1] = b /\ moving[m][2] = i
  BY <1>0, RecordInMove
<1>2. /\ i \in DOMAIN log[b] /\ log[b][i].decodes /\ DueAt(b, i) <= now
      /\ \A j \in 1..(i - 1) : Moved(b, j)
  BY <1>0, <1>1 DEF MoverInv, MoveIsNext, Due
<1>3. moves' = [moves EXCEPT ![b][i] = @ + 1] /\ UNCHANGED <<log, now>>
  BY <1>1 DEF Written
<1>4. Deliver(b, i)
  BY <1>2, <1>3 DEF Deliver
<1> QED
  BY <1>2, <1>4 DEF QueueNext

LEMMA NextImplementsQueue == IInv /\ [Next]_vars => [QueueNext]_queue
<1> SUFFICES ASSUME IInv, [Next]_vars PROVE [QueueNext]_queue
  OBVIOUS
<1>1. ASSUME NEW m \in Movers, MoverStep(m) PROVE [QueueNext]_queue
  BY <1>1, MoverStepWrites, WrittenIsDelivered
<1>2. ASSUME NEW d \in Delays, NEW decodes \in BOOLEAN, Arrive(d, decodes)
      PROVE  QueueNext
  BY <1>2 DEF Arrive, QueueNext
<1>3. CASE Pass
  BY <1>3 DEF Pass, QueueNext
<1>4. CASE UNCHANGED vars
  BY <1>4 DEF vars
<1> QED
  BY <1>1, <1>2, <1>3, <1>4 DEF Next

\* Any number of movers, restarted, failing and handing their partitions
\* over, deliver each retry no earlier than its delay and in order.
THEOREM MoversImplementQueue == ASSUME ~RunsAgain PROVE Spec => QueueSpec
<1>1. Spec => []IInv
  BY IInvIsInvariant
<1>2. Init => QueueInit
  BY DEF Init
<1> QED
  BY <1>1, <1>2, NextImplementsQueue, PTL DEF Spec, QueueSpec

-----------------------------------------------------------------------------
(* What is paused.                                                         *)

LEMMA PushAndPop ==
    /\ \A s \in Seq(Nat) : s # <<>> => (Tail(s) = <<>> <=> Len(s) = 1)
    /\ \A s \in Seq(Nat), e \in Nat : Append(s, e) # <<>>
<1>1. ASSUME NEW s \in Seq(Nat), s # <<>> PROVE Tail(s) = <<>> <=> Len(s) = 1
  <2>1. Tail(s) \in Seq(Nat) /\ Len(Tail(s)) = Len(s) - 1 /\ Len(s) \in Nat
    BY <1>1
  <2>2. Tail(s) = <<>> <=> Len(Tail(s)) = 0
    BY <2>1, EmptySeq
  <2> QED
    BY <2>1, <2>2
<1>2. ASSUME NEW s \in Seq(Nat), NEW e \in Nat PROVE Append(s, e) # <<>>
  <2>1. Len(Append(s, e)) = Len(s) + 1 /\ Len(s) \in Nat /\ Len(<<>>) = 0
    OBVIOUS
  <2> QED
    BY <2>1
<1> QED
  BY <1>1, <1>2

\* PausedWhileHeld, partition by partition.
LEMMA PausedPointwise ==
    ASSUME paused \in [Movers -> SUBSET RetryBuckets]
    PROVE  PausedWhileHeld <=>
             \A v \in Movers, c \in RetryBuckets : c \in paused[v] <=> held[v][c] # <<>>
<1>1. ASSUME NEW v \in Movers
      PROVE  paused[v] = Holding(v)
               <=> \A c \in RetryBuckets : c \in paused[v] <=> held[v][c] # <<>>
  BY DEF Holding
<1> QED
  BY <1>1 DEF PausedWhileHeld

LEMMA MoverStepPauses ==
    ASSUME TypeOK, NEW m \in Movers, MoverStep(m), PausedWhileHeld
    PROVE  PausedWhileHeld'
<1> USE DEF client, control
<1>0. /\ held \in [Movers -> [RetryBuckets -> Seq(Nat)]]
      /\ paused \in [Movers -> SUBSET RetryBuckets]
  BY DEF TypeOK
<1>1. CASE UNCHANGED <<held, paused>>
  BY <1>1 DEF PausedWhileHeld, Holding
<1>2. CASE NewRetryMover(m) \/ Run(m) \/ Cancel(m) \/ Close(m)
           \/ NoDueRecord(m) \/ Produce(m) \/ ProduceFails(m) \/ CommitFails(m)
           \/ PollStops(m) \/ PollWakes(m) \/ PollFails(m)
  BY <1>1, <1>2 DEF NewRetryMover, Run, Cancel, Close, NoDueRecord, Produce,
         ProduceFails, CommitFails, PollStops, PollWakes, PollFails
<1>3. CASE Exit(m) \/ Crash(m)
  <2>1. /\ held' = [held EXCEPT ![m] = [b \in RetryBuckets |-> <<>>]]
        /\ paused' = [paused EXCEPT ![m] = {}]
    BY <1>3 DEF Exit, Crash, Vanish
  <2> QED
    BY <1>0, <2>1 DEF PausedWhileHeld, Holding
<1>4. ASSUME NEW b \in RetryBuckets, held[m][b] # <<>>, DropFront(m, b)
      PROVE  PausedWhileHeld'
  <2>1. held[m][b] \in Seq(Nat)
    BY <1>0
  <2>2. Tail(held[m][b]) = <<>> <=> Len(held[m][b]) = 1
    BY <1>4, <2>1, PushAndPop
  <2>3. /\ held'[m][b] = Tail(held[m][b])
        /\ \A v \in Movers, c \in RetryBuckets :
              (v # m \/ c # b) => held'[v][c] = held[v][c]
    BY <1>0, <1>4 DEF DropFront
  <2>4. /\ paused'[m] = IF Len(held[m][b]) = 1 THEN paused[m] \ {b} ELSE paused[m]
        /\ \A v \in Movers : v # m => paused'[v] = paused[v]
    BY <1>0, <1>4 DEF DropFront
  <2>5. \A v \in Movers, c \in RetryBuckets : c \in paused[v] <=> held[v][c] # <<>>
    BY <1>0, PausedPointwise
  <2>6. \A v \in Movers, c \in RetryBuckets : c \in paused'[v] <=> held'[v][c] # <<>>
    <3>1. b \in paused'[m] <=> held'[m][b] # <<>>
      BY <1>4, <2>2, <2>3, <2>4, <2>5
    <3>2. ASSUME NEW c \in RetryBuckets, c # b
          PROVE  c \in paused'[m] <=> held'[m][c] # <<>>
      BY <2>3, <2>4, <2>5, <3>2
    <3>3. ASSUME NEW v \in Movers, v # m, NEW c \in RetryBuckets
          PROVE  c \in paused'[v] <=> held'[v][c] # <<>>
      BY <2>3, <2>4, <2>5, <3>3
    <3> QED
      BY <3>1, <3>2, <3>3
  <2>7. \A v \in Movers : paused'[v] \subseteq RetryBuckets
    BY <1>0, <2>4
  <2> QED
    BY <2>6, <2>7 DEF PausedWhileHeld, Holding
<1>5. CASE Commit(m)
  <2>1. PICK b \in RetryBuckets : moving[m][1] = b
    BY <1>5, RecordInMove DEF Commit
  <2> QED
    BY <1>1, <1>4, <1>5, <2>1 DEF Commit
<1>6. ASSUME NEW b \in RetryBuckets,
             \/ Assign(m, b) \/ Fetch(m, b) \/ MoveDueRecord(m, b)
             \/ MoveRecord(m, b) \/ RejectRecord(m, b)
      PROVE  PausedWhileHeld'
  BY <1>1, <1>6 DEF Assign, Fetch, MoveDueRecord, MoveRecord, RejectRecord
<1>7. ASSUME NEW b \in RetryBuckets, HoldRecord(m, b) PROVE PausedWhileHeld'
  <2> DEFINE e == position[m][b] + 1
  <2>1. /\ held' = [held EXCEPT ![m][b] = Append(held[m][b], e)]
        /\ paused' = IF held[m][b] = <<>>
                     THEN [paused EXCEPT ![m] = @ \cup {b}]
                     ELSE paused
    BY <1>7 DEF HoldRecord, HeldWith
  <2>2. e \in Nat /\ held[m][b] \in Seq(Nat)
    BY DEF TypeOK
  <2> HIDE DEF e
  <2>3. Append(held[m][b], e) # <<>>
    BY <2>2, PushAndPop
  <2>4. /\ held'[m][b] # <<>>
        /\ \A v \in Movers, c \in RetryBuckets :
              (v # m \/ c # b) => held'[v][c] = held[v][c]
    BY <1>0, <2>1, <2>3
  <2>5. \A v \in Movers, c \in RetryBuckets : c \in paused[v] <=> held[v][c] # <<>>
    BY <1>0, PausedPointwise
  <2>6. /\ paused'[m] = paused[m] \cup {b}
        /\ \A v \in Movers : v # m => paused'[v] = paused[v]
    BY <1>0, <2>1, <2>5
  <2>7. \A v \in Movers, c \in RetryBuckets : c \in paused'[v] <=> held'[v][c] # <<>>
    BY <2>4, <2>5, <2>6
  <2>8. \A v \in Movers : paused'[v] \subseteq RetryBuckets
    BY <1>0, <2>6
  <2> QED
    BY <2>7, <2>8 DEF PausedWhileHeld, Holding
<1> QED
  BY <1>2, <1>3, <1>5, <1>6, <1>7 DEF MoverStep

\* A partition stays paused exactly as long as its records are held, over
\* failed moves, ended Runs, cancellations and lost partitions.
THEOREM PausesFollowHolds == ASSUME ~RunsAgain PROVE Spec => []PausedWhileHeld
<1>1. Spec => []TypeOK
  BY TypeCorrect
<1>2. Init => PausedWhileHeld
  BY DEF Init, PausedWhileHeld, Holding
<1>3. TypeOK /\ PausedWhileHeld /\ [Next]_vars => PausedWhileHeld'
  <2> SUFFICES ASSUME TypeOK, PausedWhileHeld, [Next]_vars PROVE PausedWhileHeld'
    OBVIOUS
  <2>1. ASSUME NEW m \in Movers, MoverStep(m) PROVE PausedWhileHeld'
    BY <2>1, MoverStepPauses
  <2>2. CASE ~\E m \in Movers : MoverStep(m)
    <3>1. UNCHANGED <<held, paused>>
      BY <2>2 DEF Next, Arrive, Pass, vars, client
    <3> QED
      BY <3>1 DEF PausedWhileHeld, Holding
  <2> QED
    BY <2>1, <2>2
<1> QED
  BY <1>1, <1>2, <1>3, PTL DEF Spec

-----------------------------------------------------------------------------
(* How long a held record waits.                                           *)

\* The records of a partition were appended in the order of their offsets, and
\* their delays do not exceed the upper bound of its bucket.
LogInOrder ==
    \A b \in RetryBuckets : \A i \in DOMAIN log[b] :
        /\ log[b][i].at <= now
        /\ log[b][i].delay <= UpperBound(Boundaries, Partitions, b)
        /\ \A j \in 1..i : log[b][j].at <= log[b][i].at

LEMMA UpperBoundIsInt ==
    ASSUME NEW b \in RetryBuckets
    PROVE  UpperBound(Boundaries, Partitions, b) \in Int
<1>1. b[1] \in Bands(Boundaries) /\ b[2] \in Int
  BY QueueAssumption DEF RetryBuckets, Buckets
<1>2. BandWidth(Boundaries, Partitions, b[1]) \in Int
  BY <1>1, BandIsCut, QueueAssumption
<1>3. Boundaries[b[1]] \in Int
  BY <1>1, QueueAssumption DEF Bands
<1> QED
  BY <1>1, <1>2, <1>3 DEF UpperBound

LEMMA QueueStepKeepsOrder ==
    ASSUME TypeOK, LogInOrder, [QueueNext]_queue
    PROVE  LogInOrder'
<1>0. \A b \in RetryBuckets : log[b] \in Seq(Retry) /\ now \in Nat
  BY DEF TypeOK
<1>1. ASSUME log' = log, now <= now', now' \in Nat PROVE LogInOrder'
  <2> SUFFICES ASSUME NEW b \in RetryBuckets, NEW i \in DOMAIN log[b]
               PROVE  /\ log[b][i].at <= now'
                      /\ log[b][i].delay <= UpperBound(Boundaries, Partitions, b)
                      /\ \A j \in 1..i : log[b][j].at <= log[b][i].at
    BY <1>1 DEF LogInOrder
  <2>1. log[b][i] \in Retry
    BY <1>0
  <2> QED
    BY <1>0, <1>1, <2>1 DEF LogInOrder, Retry
<1>2. ASSUME NEW d \in Delays, NEW decodes \in BOOLEAN, AppendRetry(d, decodes)
      PROVE  LogInOrder'
  <2> DEFINE b == Bucket(Boundaries, Partitions, d)
             e == [at |-> now, delay |-> d, decodes |-> decodes]
             bound == UpperBound(Boundaries, Partitions, b)
  <2>1. d \in Nat /\ b \in RetryBuckets /\ d <= bound
    BY QueueAssumption, BucketHoldsDelay DEF RetryBuckets
  <2>2. log' = [log EXCEPT ![b] = Append(@, e)] /\ now' = now
    BY <1>2 DEF AppendRetry
  <2>3. e \in Retry /\ e.at = now /\ e.delay = d
    BY <1>0, <2>1 DEF Retry
  <2> HIDE DEF b, e
  <2>4. ASSUME NEW c \in RetryBuckets, c # b, NEW i \in DOMAIN log'[c]
        PROVE  /\ log'[c][i].at <= now'
               /\ log'[c][i].delay <= UpperBound(Boundaries, Partitions, c)
               /\ \A j \in 1..i : log'[c][j].at <= log'[c][i].at
    <3>1. log'[c] = log[c]
      BY <2>2, <2>4 DEF TypeOK
    <3> QED
      BY <2>2, <2>4, <3>1 DEF LogInOrder
  <2>5. ASSUME NEW i \in DOMAIN log'[b]
        PROVE  /\ log'[b][i].at <= now'
               /\ log'[b][i].delay <= bound
               /\ \A j \in 1..i : log'[b][j].at <= log'[b][i].at
    <3>1. log[b] \in Seq(Retry) /\ log'[b] = Append(log[b], e)
      BY <1>0, <2>1, <2>2 DEF TypeOK
    <3>2. /\ \A k \in DOMAIN log[b] : log'[b][k] = log[b][k] /\ log[b][k] \in Retry
          /\ log'[b][Len(log[b]) + 1] = e
          /\ i \in DOMAIN log[b] \/ i = Len(log[b]) + 1
          /\ \A j \in 1..i : j \in DOMAIN log[b] \/ j = i
      BY <2>3, <3>1
    <3>3. \A k \in DOMAIN log[b] : log[b][k].at <= now /\ log[b][k].delay <= bound
      BY <2>1 DEF LogInOrder
    <3>4. CASE i \in DOMAIN log[b]
      <4>1. \A j \in 1..i : j \in DOMAIN log[b]
        BY <3>1, <3>4
      <4>2. \A j \in 1..i : log[b][j].at <= log[b][i].at
        BY <2>1, <3>4 DEF LogInOrder
      <4> QED
        BY <2>2, <3>2, <3>3, <3>4, <4>1, <4>2
    <3>5. CASE i = Len(log[b]) + 1
      BY <1>0, <2>1, <2>2, <2>3, <3>2, <3>3, <3>5
    <3> QED
      BY <3>2, <3>4, <3>5
  <2> QED
    BY <2>4, <2>5 DEF LogInOrder
<1>3. ASSUME NEW b \in RetryBuckets, NEW i \in DOMAIN log[b], Deliver(b, i)
      PROVE  LogInOrder'
  BY <1>0, <1>1, <1>3 DEF Deliver, TypeOK
<1>4. CASE Tick
  <2>1. log' = log /\ now' = now + 1 /\ now \in Nat
    BY <1>4 DEF Tick, TypeOK
  <2> QED
    BY <1>1, <2>1
<1>5. CASE UNCHANGED queue
  <2>1. log' = log /\ now' = now /\ now \in Nat
    BY <1>5 DEF queue, TypeOK
  <2> QED
    BY <1>1, <2>1
<1> QED
  BY <1>2, <1>3, <1>4, <1>5 DEF QueueNext

\* The front of a held partition is no younger than any record behind it that
\* has not been moved, and no delay is beyond the bucket's bound.
LEMMA FrontIsDueInTime == IInv /\ LogInOrder => WaitIsBounded
<1> SUFFICES ASSUME IInv, LogInOrder, NEW m \in Movers, NEW b \in RetryBuckets,
                    NEW k \in DOMAIN held[m][b],
                    ~Moved(b, held[m][b][k]),
                    log[b][held[m][b][k]].at + UpperBound(Boundaries, Partitions, b)
                        <= now
             PROVE  Due(b, Head(held[m][b]))
  BY DEF WaitIsBounded
<1> DEFINE i == held[m][b][k]
           f == Head(held[m][b])
           bound == UpperBound(Boundaries, Partitions, b)
<1>1. TypeOK /\ HeldInOrder(m)
  BY DEF IInv, MoverInv
<1>2. held[m][b] \in Seq(Nat) /\ log[b] \in Seq(Retry) /\ now \in Nat
  BY <1>1 DEF TypeOK
<1>3. held[m][b] # <<>> /\ i \in Nat
  BY <1>2
<1>4. /\ f \in DOMAIN log[b] /\ f \in Nat
      /\ \A j \in 1..(f - 1) : Moved(b, j)
  BY <1>1, <1>3, FrontIsNext
<1>5. i \in DOMAIN log[b]
  BY <1>1 DEF HeldInOrder
<1>6. f \in 1..i
  BY <1>2, <1>4, <1>5
<1>7. log[b][f].at <= log[b][i].at /\ log[b][f].delay <= bound
  BY <1>4, <1>5, <1>6 DEF LogInOrder
<1>8. log[b][f] \in Retry /\ log[b][i] \in Retry
  BY <1>2, <1>4, <1>5
<1>9. bound \in Int
  BY UpperBoundIsInt
<1> HIDE DEF i, f, bound
<1>10. log[b][i].at + bound <= now
  BY DEF i, bound
<1>11. log[b][f].at + log[b][f].delay <= now
  <2>1. /\ log[b][f].at \in Nat /\ log[b][f].delay \in Nat
        /\ log[b][i].at \in Nat
    BY <1>8 DEF Retry
  <2>2. \A x, d, y, u, t \in Int :
           x <= y /\ d <= u /\ y + u <= t => x + d <= t
    OBVIOUS
  <2>3. now \in Int /\ log[b][f].at \in Int /\ log[b][f].delay \in Int
        /\ log[b][i].at \in Int
    BY <1>2, <2>1
  <2> QED
    BY <1>7, <1>9, <1>10, <2>2, <2>3, Zenon
<1> QED
  BY <1>11 DEF Due, DueAt, f

\* scheduleRetry's choice of a bucket, moveDueRecord's look at fronts only and
\* the order of held together: nobody waits behind a longer delay than the
\* greatest of its partition, whatever the movers go through.
THEOREM NobodyWaitsLong == ASSUME ~RunsAgain PROVE Spec => []WaitIsBounded
<1>1. Spec => []IInv
  BY IInvIsInvariant
<1>2. Init => LogInOrder
  BY DEF Init, QueueInit, LogInOrder
<1>3. IInv /\ LogInOrder /\ [Next]_vars => LogInOrder'
  BY NextImplementsQueue, QueueStepKeepsOrder DEF IInv
<1> QED
  BY <1>1, <1>2, <1>3, FrontIsDueInTime, PTL DEF Spec

-----------------------------------------------------------------------------
(* Who moves a record.                                                     *)
(*                                                                         *)
(* Without a fault or a rebalance a partition passes to another mover only *)
(* when its owner has been closed.  Until then the owner moves only records*)
(* beyond the commit, the held ones in ascending order, and nobody else    *)
(* has any record of the partition.                                        *)

Quiet == faults = 0 /\ rebalances = 0

InCommit(b, i) == \E m \in Movers : pc[m] = "commit" /\ moving[m] = <<b, i>>

MovedOnce ==
    \A b \in RetryBuckets : \A i \in DOMAIN moves[b] :
        moves[b][i] = 0
          \/ (moves[b][i] = 1 /\ (i <= committed[b] \/ InCommit(b, i)))

\* What m has of a partition it owns.
BeyondTheCommit(m, b) ==
    /\ committed[b] <= position[m][b]
    /\ \A k \in DOMAIN held[m][b] :
          /\ committed[b] < held[m][b][k] /\ held[m][b][k] <= position[m][b]
          /\ \A l \in DOMAIN held[m][b] : k < l => held[m][b][k] < held[m][b][l]
    /\ \A i \in Nat :
          moving[m] = <<b, i>> => committed[b] < i /\ i <= position[m][b]

HasNothingOf(m, b) == held[m][b] = <<>> /\ \A i \in Nat : moving[m] # <<b, i>>

OwnerInv(m) ==
    /\ ~cancelled[m] /\ (closed[m] => pc[m] = "idle")
    /\ \A b \in RetryBuckets : owner[b] = m => pc[m] # "down"
    /\ ~closed[m] => \A b \in RetryBuckets :
          IF owner[b] = m THEN BeyondTheCommit(m, b) ELSE HasNothingOf(m, b)

OneMover == Quiet => MovedOnce /\ \A m \in Movers : OwnerInv(m)

LEMMA NoFaultWhenQuiet ==
    ASSUME TypeOK, Quiet'
    PROVE  /\ BoundsCount => Quiet
           /\ ~Fault
  BY DEF TypeOK, Quiet, BoundsCount, Fault

\* The record in move is in its owner's hands.
LEMMA OwnerMoves ==
    ASSUME TypeOK, NEW m \in Movers, OwnerInv(m), pc[m] \in {"produce", "commit"}
    PROVE  \E b \in RetryBuckets, i \in Nat :
              /\ moving[m] = <<b, i>> /\ moving[m][1] = b /\ moving[m][2] = i
              /\ owner[b] = m /\ BeyondTheCommit(m, b)
              /\ committed[b] < i /\ i <= position[m][b]
<1>1. PICK b \in RetryBuckets, i \in Nat :
         moving[m] = <<b, i>> /\ moving[m][1] = b /\ moving[m][2] = i
  BY RecordInMove
<1>2. ~closed[m]
  BY DEF OwnerInv
<1>3. owner[b] = m
  BY <1>1, <1>2 DEF OwnerInv, HasNothingOf
<1>4. BeyondTheCommit(m, b)
  BY <1>2, <1>3 DEF OwnerInv
<1>5. committed[b] < i /\ i <= position[m][b]
  BY <1>1, <1>4 DEF BeyondTheCommit
<1> QED
  BY <1>1, <1>3, <1>4, <1>5

\* No fault, so no failure: what fails without one is told to stop, or has
\* lost its partition.
LEMMA NothingFails ==
    ASSUME TypeOK, Quiet', NEW m \in Movers, OwnerInv(m)
    PROVE  /\ ~Cancel(m) /\ ~Crash(m) /\ ~ProduceFails(m) /\ ~CommitFails(m)
           /\ ~PollStops(m) /\ ~PollFails(m)
           /\ Close(m) => pc[m] = "idle"
<1>1. ~Fault
  BY NoFaultWhenQuiet
<1>2. ~cancelled[m] /\ (pc[m] # "idle" => ~closed[m])
  BY DEF OwnerInv
<1>3. ~CommitFails(m)
  <2>1. SUFFICES ASSUME CommitFails(m) PROVE FALSE
    OBVIOUS
  <2>2. owner[moving[m][1]] = m
    BY <2>1, OwnerMoves DEF CommitFails
  <2> QED
    BY <1>1, <1>2, <2>1, <2>2 DEF CommitFails
<1>4. ~ProduceFails(m) /\ ~PollStops(m) /\ ~PollFails(m)
  BY <1>1, <1>2 DEF ProduceFails, PollStops, PollFails
<1> QED
  BY <1>1, <1>3, <1>4 DEF Cancel, Crash, Close

\* A step that gives m nothing, moves no ownership and commits nothing.
LEMMA OwnerGoesOn ==
    ASSUME TypeOK, NEW m \in Movers, OwnerInv(m), ~cancelled'[m],
           closed[m] => closed'[m], closed'[m] => pc'[m] = "idle",
           pc'[m] = "down" => pc[m] = "down",
           owner' = owner, committed' = committed,
           held'[m] = held[m], moving'[m] \in {moving[m], <<>>},
           \A b \in RetryBuckets : position'[m][b] >= position[m][b],
           \A b \in RetryBuckets : position'[m][b] \in Nat
    PROVE  OwnerInv(m)'
<1>1. \A b \in RetryBuckets, i \in Nat : moving'[m] = <<b, i>> => moving[m] = <<b, i>>
  OBVIOUS
<1>2. \A b \in RetryBuckets : HasNothingOf(m, b) => HasNothingOf(m, b)'
  BY <1>1 DEF HasNothingOf
<1>3. ASSUME NEW b \in RetryBuckets, BeyondTheCommit(m, b)
      PROVE  BeyondTheCommit(m, b)'
  <2>1. /\ position[m][b] \in Nat /\ committed[b] \in Nat /\ position'[m][b] \in Nat
        /\ held[m][b] \in Seq(Nat)
        /\ \A k \in DOMAIN held[m][b] : held[m][b][k] \in Nat
    BY DEF TypeOK
  <2>2. committed'[b] <= position'[m][b]
    BY <1>3, <2>1 DEF BeyondTheCommit
  <2>3. \A k \in DOMAIN held'[m][b] :
          /\ committed'[b] < held'[m][b][k] /\ held'[m][b][k] <= position'[m][b]
          /\ \A l \in DOMAIN held'[m][b] : k < l => held'[m][b][k] < held'[m][b][l]
    BY <1>3, <2>1 DEF BeyondTheCommit
  <2>4. \A i \in Nat :
          moving'[m] = <<b, i>> => committed'[b] < i /\ i <= position'[m][b]
    BY <1>1, <1>3, <2>1 DEF BeyondTheCommit
  <2> QED
    BY <2>2, <2>3, <2>4 DEF BeyondTheCommit
<1> QED
  BY <1>2, <1>3 DEF OwnerInv

LEMMA CommittingOwnerGoesOn ==
    ASSUME IInv, NEW m \in Movers, OwnerInv(m), Commit(m), Quiet'
    PROVE  OwnerInv(m)'
<1>0. TypeOK /\ MoverInv(m)
  BY DEF IInv
<1>1. PICK b \in RetryBuckets, i \in Nat :
         /\ moving[m] = <<b, i>> /\ moving[m][1] = b /\ moving[m][2] = i
         /\ owner[b] = m /\ BeyondTheCommit(m, b)
         /\ committed[b] < i /\ i <= position[m][b]
  BY <1>0, OwnerMoves DEF Commit
<1>2. held[m][b] # <<>> => Head(held[m][b]) = i
  BY <1>0, <1>1 DEF MoverInv, MoveIsNext
<1>3. /\ committed' = [committed EXCEPT ![b] = i]
      /\ owner' = owner /\ position' = position
  BY <1>1 DEF Commit
<1>4. /\ moving'[m] = <<>> /\ pc'[m] \in {"idle", "due"}
      /\ ~cancelled'[m] /\ closed'[m] = closed[m] /\ ~closed[m]
  <2>1. ~closed[m] /\ ~cancelled[m]
    BY DEF Commit, OwnerInv
  <2>2. CASE Return(m, "error")
    BY <1>0, <2>1, <2>2 DEF Return, TypeOK
  <2>3. CASE /\ pc' = [pc EXCEPT ![m] = "due"]
             /\ moving' = [moving EXCEPT ![m] = <<>>] /\ UNCHANGED control
    BY <1>0, <2>1, <2>3 DEF control, TypeOK
  <2> QED
    BY <2>2, <2>3 DEF Commit
<1>5. /\ held'[m][b] = IF held[m][b] # <<>> THEN Tail(held[m][b]) ELSE <<>>
      /\ \A c \in RetryBuckets : c # b => held'[m][c] = held[m][c]
  <2>1. \/ held[m][b] # <<>> /\ held' = [held EXCEPT ![m][b] = Tail(@)]
        \/ held[m][b] = <<>> /\ held' = held
    BY <1>1 DEF Commit, DropFront
  <2>2. held \in [Movers -> [RetryBuckets -> Seq(Nat)]]
    BY <1>0 DEF TypeOK
  <2>3. CASE held[m][b] = <<>> /\ held' = held
    BY <2>3
  <2>4. CASE held[m][b] # <<>> /\ held' = [held EXCEPT ![m][b] = Tail(@)]
    <3>1. held'[m] = [held[m] EXCEPT ![b] = Tail(held[m][b])]
      BY <2>2, <2>4
    <3> QED
      BY <2>2, <2>4, <3>1
  <2> QED
    BY <2>1, <2>3, <2>4
<1>6. \A c \in RetryBuckets, j \in Nat : moving'[m] # <<c, j>>
  BY <1>4
<1>7. BeyondTheCommit(m, b)'
  <2>1. committed'[b] = i /\ position'[m][b] = position[m][b]
    BY <1>0, <1>3 DEF TypeOK
  <2>2. held[m][b] \in Seq(Nat) /\ position[m][b] \in Nat
    BY <1>0 DEF TypeOK
  <2>3. CASE held[m][b] = <<>>
    BY <1>1, <1>5, <1>6, <2>1, <2>3 DEF BeyondTheCommit
  <2>4. CASE held[m][b] # <<>>
    <3> DEFINE s == held[m][b]
    <3>1. s \in Seq(Nat) /\ s # <<>> /\ s[1] = i /\ 1 \in DOMAIN s
      BY <1>2, <2>2, <2>4
    <3>2. /\ \A k \in DOMAIN s : s[k] <= position[m][b]
          /\ \A k, l \in DOMAIN s : k < l => s[k] < s[l]
      BY <1>1 DEF BeyondTheCommit
    <3> HIDE DEF s
    <3>3. \A k \in DOMAIN Tail(s) :
             k + 1 \in DOMAIN s /\ Tail(s)[k] = s[k + 1] /\ k \in Nat
      BY <3>1, TailFacts
    <3>4. \A k \in DOMAIN Tail(s) : k >= 1
      BY <3>1
    <3>5. ASSUME NEW k \in DOMAIN Tail(s)
          PROVE  /\ i < Tail(s)[k] /\ Tail(s)[k] <= position[m][b]
                 /\ \A l \in DOMAIN Tail(s) : k < l => Tail(s)[k] < Tail(s)[l]
      <4>1. 1 < k + 1
        BY <3>3, <3>4
      <4>2. i < Tail(s)[k] /\ Tail(s)[k] <= position[m][b]
        BY <3>1, <3>2, <3>3, <4>1
      <4>3. ASSUME NEW l \in DOMAIN Tail(s), k < l PROVE Tail(s)[k] < Tail(s)[l]
        <5>1. k + 1 < l + 1
          BY <3>3, <4>3
        <5> QED
          BY <3>2, <3>3, <5>1
      <4> QED
        BY <4>2, <4>3
    <3>6. held'[m][b] = Tail(s)
      BY <1>5, <2>4 DEF s
    <3> QED
      BY <1>1, <1>6, <2>1, <3>5, <3>6 DEF BeyondTheCommit
  <2> QED
    BY <2>3, <2>4
<1>8. ASSUME NEW c \in RetryBuckets, c # b
      PROVE  IF owner'[c] = m THEN BeyondTheCommit(m, c)' ELSE HasNothingOf(m, c)'
  <2>1. committed'[c] = committed[c] /\ held'[m][c] = held[m][c]
        /\ position'[m][c] = position[m][c]
    BY <1>0, <1>3, <1>5, <1>8 DEF TypeOK
  <2>2. CASE owner[c] = m
    <3>1. BeyondTheCommit(m, c)
      BY <1>4, <2>2 DEF OwnerInv
    <3> QED
      BY <1>3, <1>6, <2>1, <2>2, <3>1 DEF BeyondTheCommit
  <2>3. CASE owner[c] # m
    <3>1. HasNothingOf(m, c)
      BY <1>4, <2>3 DEF OwnerInv
    <3> QED
      BY <1>3, <1>6, <2>1, <2>3, <3>1 DEF HasNothingOf
  <2> QED
    BY <2>2, <2>3
<1> QED
  BY <1>1, <1>3, <1>4, <1>7, <1>8 DEF OwnerInv

LEMMA PollingOwnerGoesOn ==
    ASSUME IInv, NEW m \in Movers, NEW b \in RetryBuckets, OwnerInv(m), Quiet',
           \/ HoldRecord(m, b) \/ MoveRecord(m, b) \/ RejectRecord(m, b)
    PROVE  OwnerInv(m)'
<1>0. TypeOK /\ ~Fault
  BY NoFaultWhenQuiet DEF IInv
<1>1. Polled(m, b)
  BY DEF HoldRecord, MoveRecord, RejectRecord
<1> DEFINE i == position[m][b] + 1
<1>2. /\ owner[b] = m /\ ~closed[m] /\ ~cancelled[m] /\ pc[m] = "poll"
      /\ owner' = owner /\ committed' = committed
      /\ position' = [position EXCEPT ![m][b] = i]
      /\ BeyondTheCommit(m, b)
  BY <1>1 DEF Polled, OwnerInv, group
<1>3. /\ position[m][b] \in Nat /\ committed[b] \in Nat /\ i \in Nat
      /\ held[m][b] \in Seq(Nat) /\ moving[m] = <<>>
  <2>1. moving[m] = <<>>
    BY <1>0, <1>2 DEF TypeOK
  <2>2. position[m][b] \in Nat /\ committed[b] \in Nat /\ held[m][b] \in Seq(Nat)
    BY <1>0 DEF TypeOK
  <2> QED
    BY <2>1, <2>2
<1>4. /\ position'[m][b] = i
      /\ \A c \in RetryBuckets : c # b => position'[m][c] = position[m][c]
  <2>1. position \in [Movers -> [RetryBuckets -> Nat]]
    BY <1>0 DEF TypeOK
  <2> HIDE DEF i
  <2> QED
    BY <1>2, <2>1
<1>5. committed[b] < i /\ position[m][b] < i
  BY <1>2, <1>3 DEF BeyondTheCommit
<1> HIDE DEF i
<1>6. CASE RejectRecord(m, b)
  <2>1. /\ held' = held /\ moving'[m] = <<>> /\ ~cancelled'[m]
        /\ closed' = closed /\ pc'[m] = "idle"
    BY <1>0, <1>6 DEF RejectRecord, Return, TypeOK
  <2>2. \A c \in RetryBuckets :
          position'[m][c] >= position[m][c] /\ position'[m][c] \in Nat
    <3>1. \A c \in RetryBuckets : position[m][c] \in Nat
      BY <1>0 DEF TypeOK
    <3> QED
      BY <1>3, <1>4, <1>5, <3>1
  <2> QED
    BY <1>0, <1>2, <2>1, <2>2, OwnerGoesOn
<1>7. CASE MoveRecord(m, b)
  <2>1. /\ held' = held /\ moving' = [moving EXCEPT ![m] = <<b, i>>]
        /\ cancelled' = cancelled /\ closed' = closed
        /\ pc' = [pc EXCEPT ![m] = "produce"]
    BY <1>7 DEF MoveRecord, control, i
  <2>2. moving'[m] = <<b, i>> /\ pc'[m] = "produce"
    BY <1>0, <2>1 DEF TypeOK
  <2>3. held[m][b] = <<>>
    BY <1>7 DEF MoveRecord, MustHold
  <2>4. BeyondTheCommit(m, b)'
    <3>1. \A j \in Nat : moving'[m] = <<b, j>> => j = i
      BY <2>2
    <3>2. held'[m][b] = <<>> /\ DOMAIN <<>> = {}
      BY <2>1, <2>3
    <3> QED
      BY <1>2, <1>3, <1>4, <1>5, <3>1, <3>2 DEF BeyondTheCommit
  <2>5. ASSUME NEW c \in RetryBuckets, c # b
        PROVE  IF owner'[c] = m THEN BeyondTheCommit(m, c)' ELSE HasNothingOf(m, c)'
    <3>1. \A j \in Nat : moving'[m] # <<c, j>>
      BY <2>2, <2>5
    <3>2. /\ owner[c] = m => BeyondTheCommit(m, c)
          /\ owner[c] # m => HasNothingOf(m, c)
      BY <1>2 DEF OwnerInv
    <3>3. owner[c] = m => BeyondTheCommit(m, c)'
      BY <1>2, <1>4, <2>1, <2>5, <3>1, <3>2 DEF BeyondTheCommit
    <3>4. owner[c] # m => HasNothingOf(m, c)'
      BY <2>1, <3>1, <3>2 DEF HasNothingOf
    <3> QED
      BY <1>2, <3>3, <3>4
  <2> QED
    BY <1>2, <2>1, <2>2, <2>4, <2>5 DEF OwnerInv
<1>8. CASE HoldRecord(m, b)
  <2>1. /\ held' = [held EXCEPT ![m][b] = Append(held[m][b], i)]
        /\ moving' = moving /\ cancelled' = cancelled /\ closed' = closed
        /\ pc' = [pc EXCEPT ![m] = "due"]
    BY <1>0, <1>8 DEF HoldRecord, HeldWith, control, i
  <2>2. /\ pc'[m] = "due" /\ held'[m][b] = Append(held[m][b], i)
        /\ \A c \in RetryBuckets : c # b => held'[m][c] = held[m][c]
    BY <1>0, <2>1 DEF TypeOK
  <2>3. \A c \in RetryBuckets, j \in Nat : moving'[m] # <<c, j>>
    <3>1. moving'[m] = <<>>
      BY <1>3, <2>1
    <3> QED
      BY <3>1
  <2>4. BeyondTheCommit(m, b)'
    <3> DEFINE s == held[m][b]
    <3>1. /\ \A k \in DOMAIN s :
                /\ committed[b] < s[k] /\ s[k] <= position[m][b] /\ s[k] \in Nat
                /\ \A l \in DOMAIN s : k < l => s[k] < s[l]
          /\ committed[b] <= position[m][b]
      BY <1>2, <1>3 DEF BeyondTheCommit
    <3>2. s \in Seq(Nat)
      BY <1>3
    <3> HIDE DEF s
    <3>3. /\ \A k \in DOMAIN Append(s, i) :
                k \in DOMAIN s \/ (k = Len(s) + 1 /\ Append(s, i)[k] = i)
          /\ \A k \in DOMAIN s : Append(s, i)[k] = s[k] /\ k <= Len(s) /\ k \in Nat
          /\ Len(s) \in Nat
      BY <1>3, <3>2
    <3>4. ASSUME NEW k \in DOMAIN Append(s, i)
          PROVE  /\ committed[b] < Append(s, i)[k] /\ Append(s, i)[k] <= i
                 /\ \A l \in DOMAIN Append(s, i) :
                       k < l => Append(s, i)[k] < Append(s, i)[l]
      <4>1. CASE k \in DOMAIN s
        <5>1. /\ Append(s, i)[k] = s[k] /\ s[k] \in Nat
              /\ committed[b] < s[k] /\ s[k] <= position[m][b]
          BY <3>1, <3>3, <4>1
        <5>2. s[k] < i
          BY <1>3, <1>5, <5>1
        <5>3. ASSUME NEW l \in DOMAIN Append(s, i), k < l
              PROVE  Append(s, i)[k] < Append(s, i)[l]
          <6>1. CASE l \in DOMAIN s
            BY <3>1, <3>3, <4>1, <5>3, <6>1
          <6>2. CASE l = Len(s) + 1 /\ Append(s, i)[l] = i
            BY <5>1, <5>2, <6>2
          <6> QED
            BY <3>3, <6>1, <6>2
        <5> QED
          BY <1>3, <5>1, <5>2, <5>3
      <4>2. CASE k = Len(s) + 1 /\ Append(s, i)[k] = i
        <5>1. \A l \in DOMAIN Append(s, i) : ~(k < l)
          BY <3>3, <4>2
        <5> QED
          BY <1>3, <1>5, <4>2, <5>1
      <4> QED
        BY <3>3, <4>1, <4>2
    <3>5. held'[m][b] = Append(s, i)
      BY <2>2 DEF s
    <3>6. committed'[b] <= position'[m][b]
      BY <1>2, <1>3, <1>4, <1>5
    <3> QED
      BY <1>2, <1>4, <2>3, <3>4, <3>5, <3>6 DEF BeyondTheCommit
  <2>5. ASSUME NEW c \in RetryBuckets, c # b
        PROVE  IF owner'[c] = m THEN BeyondTheCommit(m, c)' ELSE HasNothingOf(m, c)'
    <3>1. /\ owner[c] = m => BeyondTheCommit(m, c)
          /\ owner[c] # m => HasNothingOf(m, c)
      BY <1>2 DEF OwnerInv
    <3>2. owner[c] = m => BeyondTheCommit(m, c)'
      BY <1>2, <1>4, <2>2, <2>3, <2>5, <3>1 DEF BeyondTheCommit
    <3>3. owner[c] # m => HasNothingOf(m, c)'
      BY <2>2, <2>3, <2>5, <3>1 DEF HasNothingOf
    <3> QED
      BY <1>2, <3>2, <3>3
  <2> QED
    BY <1>2, <2>1, <2>2, <2>4, <2>5 DEF OwnerInv
<1> QED
  BY <1>6, <1>7, <1>8

LEMMA OwnStepKeepsOwner ==
    ASSUME IInv, NEW m \in Movers, MoverStep(m), OwnerInv(m), Quiet'
    PROVE  OwnerInv(m)'
<1> USE DEF client, control, group
<1>0. TypeOK /\ ~Fault
  BY NoFaultWhenQuiet DEF IInv
<1>1. /\ ~cancelled[m] /\ (closed[m] => pc[m] = "idle")
      /\ \A b \in RetryBuckets : owner[b] = m => pc[m] # "down"
  BY DEF OwnerInv
<1>2. \A b \in RetryBuckets : position[m][b] \in Nat /\ position[m][b] >= position[m][b]
  BY <1>0 DEF TypeOK
<1>3. CASE NewRetryMover(m) \/ Run(m) \/ NoDueRecord(m) \/ PollWakes(m) \/ Produce(m)
  <2>1. /\ UNCHANGED <<owner, committed, held, moving, position, cancelled, closed>>
        /\ ~closed[m] /\ pc'[m] # "down"
    BY <1>0, <1>1, <1>3 DEF NewRetryMover, Run, NoDueRecord, PollWakes, Produce, TypeOK
  <2> QED
    BY <1>0, <1>1, <1>2, <2>1, OwnerGoesOn
<1>4. CASE Close(m)
  <2>1. /\ UNCHANGED <<owner, committed, held, moving, position, cancelled, pc>>
        /\ pc[m] = "idle" /\ closed'[m]
    BY <1>0, <1>4, NothingFails DEF Close, TypeOK
  <2> QED
    BY <1>0, <1>1, <1>2, <2>1, OwnerGoesOn
<1>5. CASE Exit(m)
  <2>1. /\ ~cancelled'[m] /\ ~closed'[m] /\ moving'[m] = <<>>
        /\ \A b \in RetryBuckets : held'[m][b] = <<>>
    BY <1>0, <1>5 DEF Exit, Vanish, TypeOK
  <2>2. \A b \in RetryBuckets : owner'[b] # m
    BY <1>5, MoverAssumption DEF Exit, Vanish
  <2>3. \A b \in RetryBuckets, i \in Nat : moving'[m] # <<b, i>>
    BY <2>1
  <2> QED
    BY <2>1, <2>2, <2>3 DEF OwnerInv, HasNothingOf
<1>6. ASSUME NEW b \in RetryBuckets, Fetch(m, b) PROVE OwnerInv(m)'
  <2>1. /\ UNCHANGED <<owner, committed, held, moving, position, cancelled, closed, pc>>
    BY <1>6 DEF Fetch
  <2> QED
    BY <1>0, <1>1, <1>2, <2>1, OwnerGoesOn
<1>7. ASSUME NEW b \in RetryBuckets, Assign(m, b) PROVE OwnerInv(m)'
  <2>1. /\ UNCHANGED <<committed, held, moving, cancelled, closed, pc>>
        /\ owner[b] # m /\ pc[m] # "down" /\ ~closed[m]
        /\ owner' = [owner EXCEPT ![b] = m]
        /\ position' = [position EXCEPT ![m][b] = committed[b]]
    BY <1>7 DEF Assign, Member, StartOf
  <2>2. /\ owner'[b] = m /\ \A c \in RetryBuckets : c # b => owner'[c] = owner[c]
    BY <1>0, <2>1 DEF TypeOK
  <2>3. /\ position'[m][b] = committed[b] /\ committed[b] \in Nat
        /\ \A c \in RetryBuckets : c # b => position'[m][c] = position[m][c]
    <3>1. position \in [Movers -> [RetryBuckets -> Nat]] /\ committed[b] \in Nat
      BY <1>0 DEF TypeOK
    <3> QED
      BY <2>1, <3>1
  <2>4. BeyondTheCommit(m, b)'
    <3>1. HasNothingOf(m, b)
      BY <2>1 DEF OwnerInv
    <3>2. DOMAIN <<>> = {}
      OBVIOUS
    <3> QED
      BY <2>1, <2>3, <3>1, <3>2 DEF BeyondTheCommit, HasNothingOf
  <2>5. ASSUME NEW c \in RetryBuckets, c # b
        PROVE  IF owner'[c] = m THEN BeyondTheCommit(m, c)' ELSE HasNothingOf(m, c)'
    <3>1. /\ owner[c] = m => BeyondTheCommit(m, c)
          /\ owner[c] # m => HasNothingOf(m, c)
      BY <2>1 DEF OwnerInv
    <3>2. owner[c] = m => BeyondTheCommit(m, c)'
      BY <2>1, <2>3, <2>5, <3>1 DEF BeyondTheCommit
    <3>3. owner[c] # m => HasNothingOf(m, c)'
      BY <2>1, <3>1 DEF HasNothingOf
    <3> QED
      BY <2>2, <2>5, <3>2, <3>3
  <2> QED
    BY <1>1, <2>1, <2>2, <2>4, <2>5 DEF OwnerInv
<1>8. ASSUME NEW b \in RetryBuckets, MoveDueRecord(m, b) PROVE OwnerInv(m)'
  <2> DEFINE i == Head(held[m][b])
  <2>1. /\ UNCHANGED <<owner, committed, held, position, cancelled, closed>>
        /\ pc[m] = "due" /\ pc' = [pc EXCEPT ![m] = "produce"] /\ held[m][b] # <<>>
        /\ moving' = [moving EXCEPT ![m] = <<b, i>>]
    BY <1>8 DEF MoveDueRecord, DueFronts, Holding
  <2>2. moving'[m] = <<b, i>> /\ pc'[m] = "produce"
    BY <1>0, <2>1 DEF TypeOK
  <2>3. ~closed[m] /\ owner[b] = m /\ BeyondTheCommit(m, b)
    BY <1>1, <2>1 DEF OwnerInv, HasNothingOf
  <2>4. 1 \in DOMAIN held[m][b] /\ i = held[m][b][1]
    <3>1. held[m][b] \in Seq(Nat)
      BY <1>0 DEF TypeOK
    <3> QED
      BY <2>1, <3>1
  <2> HIDE DEF i
  <2>5. BeyondTheCommit(m, b)'
    <3>1. committed[b] < i /\ i <= position[m][b]
      BY <2>3, <2>4 DEF BeyondTheCommit
    <3>2. \A j \in Nat : moving'[m] = <<b, j>> => j = i
      BY <2>2
    <3> QED
      BY <2>1, <2>3, <3>1, <3>2 DEF BeyondTheCommit
  <2>6. ASSUME NEW c \in RetryBuckets, c # b
        PROVE  IF owner'[c] = m THEN BeyondTheCommit(m, c)' ELSE HasNothingOf(m, c)'
    <3>1. \A j \in Nat : moving'[m] # <<c, j>>
      BY <2>2, <2>6
    <3>2. /\ owner[c] = m => BeyondTheCommit(m, c)
          /\ owner[c] # m => HasNothingOf(m, c)
      BY <2>3 DEF OwnerInv
    <3>3. owner[c] = m => BeyondTheCommit(m, c)'
      BY <2>1, <3>1, <3>2 DEF BeyondTheCommit
    <3>4. owner[c] # m => HasNothingOf(m, c)'
      BY <2>1, <3>1, <3>2 DEF HasNothingOf
    <3> QED
      BY <2>1, <3>3, <3>4
  <2> QED
    BY <1>1, <2>1, <2>2, <2>3, <2>5, <2>6 DEF OwnerInv
<1>9. CASE Commit(m)
  BY <1>9, CommittingOwnerGoesOn
<1>10. ASSUME NEW b \in RetryBuckets,
              HoldRecord(m, b) \/ MoveRecord(m, b) \/ RejectRecord(m, b)
       PROVE  OwnerInv(m)'
  BY <1>10, PollingOwnerGoesOn
<1> QED
  BY <1>0, <1>3, <1>4, <1>5, <1>6, <1>7, <1>8, <1>9, <1>10, NothingFails DEF MoverStep

\* What m does concerns nobody else: a partition changes hands only when its
\* owner has been closed, and m commits only where it is the owner.
LEMMA OthersKeepTheirs ==
    ASSUME IInv, NEW m \in Movers, MoverStep(m), OwnerInv(m), Quiet',
           NEW v \in Movers, v # m, OwnerInv(v)
    PROVE  OwnerInv(v)'
<1>0. TypeOK /\ ~Fault /\ MoverKept(v)
  BY NoFaultWhenQuiet, OthersAreKept DEF IInv
<1>1. cancelled'[v] = cancelled[v] /\ closed'[v] = closed[v]
  <2> USE DEF control
  <2>1. CASE NewRetryMover(m) \/ Run(m) \/ Cancel(m) \/ Close(m)
    BY <1>0, <2>1 DEF NewRetryMover, Run, Cancel, Close, TypeOK
  <2>2. CASE Exit(m) \/ Crash(m)
    BY <1>0, <2>2 DEF Exit, Crash, Vanish, TypeOK
  <2>3. CASE NoDueRecord(m) \/ PollStops(m) \/ PollWakes(m) \/ PollFails(m)
             \/ Produce(m) \/ ProduceFails(m) \/ CommitFails(m) \/ Commit(m)
    BY <1>0, <2>3 DEF NoDueRecord, PollStops, PollWakes, PollFails, Produce, ProduceFails,
           CommitFails, Commit, Return, TypeOK
  <2>4. ASSUME NEW b \in RetryBuckets,
               \/ Assign(m, b) \/ Fetch(m, b) \/ MoveDueRecord(m, b)
               \/ RejectRecord(m, b) \/ HoldRecord(m, b) \/ MoveRecord(m, b)
        PROVE  cancelled'[v] = cancelled[v] /\ closed'[v] = closed[v]
    BY <1>0, <2>4 DEF Assign, Fetch, MoveDueRecord, RejectRecord, HoldRecord, MoveRecord,
           Return, TypeOK
  <2> QED
    BY <2>1, <2>2, <2>3, <2>4 DEF MoverStep
<1>2. ASSUME NEW b \in RetryBuckets
      PROVE  /\ owner'[b] = v => owner[b] = v
             /\ owner[b] = v => owner'[b] = v \/ closed[v]
             /\ owner[b] = v => committed'[b] = committed[b]
  <2>1. /\ owner'[b] = v => owner[b] = v
        /\ owner[b] = v => owner'[b] = v \/ closed[v]
    <3> USE DEF group
    <3>1. CASE \/ NewRetryMover(m) \/ Run(m) \/ Cancel(m) \/ Close(m)
               \/ NoDueRecord(m) \/ PollStops(m) \/ PollWakes(m) \/ PollFails(m)
               \/ Produce(m) \/ ProduceFails(m) \/ CommitFails(m) \/ Commit(m)
      <4>1. owner' = owner
        BY <3>1 DEF NewRetryMover, Run, Cancel, Close, NoDueRecord, PollStops, PollWakes,
               PollFails, Produce, ProduceFails, CommitFails, Commit
      <4> QED
        BY <4>1
    <3>2. CASE Exit(m) \/ Crash(m)
      <4>1. owner' = [c \in RetryBuckets |-> IF owner[c] = m THEN NoMover ELSE owner[c]]
        BY <3>2 DEF Exit, Crash, Vanish
      <4>2. v # NoMover
        BY MoverAssumption
      <4> QED
        BY <4>1, <4>2
    <3>3. ASSUME NEW c \in RetryBuckets, Assign(m, c)
          PROVE  /\ owner'[b] = v => owner[b] = v
                 /\ owner[b] = v => owner'[b] = v \/ closed[v]
      <4>1. owner' = [owner EXCEPT ![c] = m]
        BY <3>3 DEF Assign
      <4>2. owner'[b] = IF b = c THEN m ELSE owner[b]
        BY <1>0, <4>1 DEF TypeOK
      <4>3. owner[c] = v => closed[v]
        <5>1. SUFFICES ASSUME owner[c] = v, ~closed[v] PROVE FALSE
          OBVIOUS
        <5>2. Member(v)
          BY <5>1 DEF Member, OwnerInv
        <5>3. rebalances' = rebalances + 1
          BY <3>3, <5>1, <5>2 DEF Assign
        <5> QED
          BY <1>0, <5>3 DEF Quiet, TypeOK
      <4> QED
        BY <4>2, <4>3
    <3>4. ASSUME NEW c \in RetryBuckets,
                 \/ Fetch(m, c) \/ MoveDueRecord(m, c)
                 \/ RejectRecord(m, c) \/ HoldRecord(m, c) \/ MoveRecord(m, c)
          PROVE  owner' = owner
      BY <3>4 DEF Fetch, MoveDueRecord, RejectRecord, HoldRecord, MoveRecord, Polled
    <3> QED
      BY <3>1, <3>2, <3>3, <3>4 DEF MoverStep
  <2>2. owner[b] = v => committed'[b] = committed[b]
    <3>1. CASE UNCHANGED committed
      BY <3>1
    <3>2. CASE /\ pc[m] = "commit"
               /\ committed' = [committed EXCEPT ![moving[m][1]] = moving[m][2]]
      <4>1. owner[moving[m][1]] = m
        BY <1>0, <3>2, OwnerMoves
      <4> QED
        BY <1>0, <3>2, <4>1 DEF TypeOK
    <3> QED
      BY <3>1, <3>2, MoverStepCommits
  <2> QED
    BY <2>1, <2>2
<1>3. /\ pc'[v] = pc[v] /\ held'[v] = held[v] /\ moving'[v] = moving[v]
      /\ position'[v] = position[v]
  BY <1>0 DEF MoverKept
<1>4. /\ ~cancelled'[v] /\ (closed'[v] => pc'[v] = "idle")
      /\ \A b \in RetryBuckets : owner'[b] = v => pc'[v] # "down"
  BY <1>1, <1>2, <1>3 DEF OwnerInv
<1>5. ASSUME ~closed[v], NEW b \in RetryBuckets
      PROVE  IF owner'[b] = v THEN BeyondTheCommit(v, b)' ELSE HasNothingOf(v, b)'
  <2>1. CASE owner[b] = v
    <3>1. BeyondTheCommit(v, b) /\ owner'[b] = v /\ committed'[b] = committed[b]
      BY <1>2, <1>5, <2>1 DEF OwnerInv
    <3> QED
      BY <1>3, <3>1 DEF BeyondTheCommit
  <2>2. CASE owner[b] # v
    <3>1. HasNothingOf(v, b) /\ owner'[b] # v
      BY <1>2, <1>5, <2>2 DEF OwnerInv
    <3> QED
      BY <1>3, <3>1 DEF HasNothingOf
  <2> QED
    BY <2>1, <2>2
<1> QED
  BY <1>1, <1>4, <1>5 DEF OwnerInv

\* A commit in progress stays one until it is answered.
LEMMA CommitsGoOn ==
    ASSUME IInv, NEW m \in Movers, MoverStep(m), OwnerInv(m), Quiet', ~Commit(m),
           NEW b \in RetryBuckets, NEW i \in Nat, InCommit(b, i)
    PROVE  InCommit(b, i)'
<1>0. TypeOK
  BY DEF IInv
<1>1. PICK v \in Movers : pc[v] = "commit" /\ moving[v] = <<b, i>>
  BY DEF InCommit
<1>2. CASE v # m
  <2>1. MoverKept(v)
    BY <1>0, <1>2, OthersAreKept
  <2> QED
    BY <1>1, <2>1 DEF MoverKept, InCommit
<1>3. CASE v = m
  <2>1. /\ ~Cancel(m) /\ ~Crash(m) /\ ~ProduceFails(m) /\ ~CommitFails(m)
        /\ ~PollStops(m) /\ ~PollFails(m) /\ ~Close(m)
    BY <1>0, <1>1, <1>3, NothingFails
  <2>2. /\ ~NewRetryMover(m) /\ ~Run(m) /\ ~Exit(m) /\ ~NoDueRecord(m) /\ ~Produce(m)
        /\ ~PollWakes(m)
        /\ \A c \in RetryBuckets :
              /\ ~MoveDueRecord(m, c) /\ ~HoldRecord(m, c) /\ ~MoveRecord(m, c)
              /\ ~RejectRecord(m, c)
    BY <1>1, <1>3 DEF NewRetryMover, Run, Exit, NoDueRecord, Produce, PollWakes,
           MoveDueRecord, HoldRecord, MoveRecord, RejectRecord, Polled
  <2>3. PICK c \in RetryBuckets : Assign(m, c) \/ Fetch(m, c)
    BY <2>1, <2>2 DEF MoverStep
  <2>4. pc' = pc /\ moving' = moving
    BY <2>3 DEF Assign, Fetch
  <2> QED
    BY <1>1, <2>4 DEF InCommit
<1> QED
  BY <1>2, <1>3

\* Only the owner writes, and only beyond the commit; no commit of the same
\* record is in progress, since it would be the owner's.
LEMMA MoverStepMovesOnce ==
    ASSUME IInv, NEW m \in Movers, MoverStep(m), Quiet', MovedOnce,
           \A v \in Movers : OwnerInv(v)
    PROVE  MovedOnce'
<1>0. /\ TypeOK /\ TypeOK'
      /\ \A b \in RetryBuckets : moves[b] \in Seq(Nat) /\ committed[b] \in Nat
  BY MoverStepTypeOK DEF IInv, TypeOK
<1>1. CASE Produce(m)
  <2>1. PICK b \in RetryBuckets, i \in Nat :
           /\ moving[m] = <<b, i>> /\ moving[m][1] = b /\ moving[m][2] = i
           /\ owner[b] = m /\ committed[b] < i
    BY <1>0, <1>1, OwnerMoves DEF Produce
  <2>2. /\ moves' = [moves EXCEPT ![b][i] = @ + 1] /\ committed' = committed
        /\ pc' = [pc EXCEPT ![m] = "commit"] /\ moving' = moving
    BY <1>1, <2>1 DEF Produce, Written, group
  <2>3. i \in DOMAIN moves[b]
    <3>1. MoveIsNext(m)
      BY DEF IInv, MoverInv
    <3>2. i \in DOMAIN log[b]
      BY <2>1, <3>1 DEF MoveIsNext
    <3> QED
      BY <1>0, <3>2 DEF TypeOK
  <2>4. moves[b][i] = 0
    <3>1. ASSUME InCommit(b, i) PROVE FALSE
      <4>1. PICK v \in Movers : pc[v] = "commit" /\ moving[v] = <<b, i>>
        BY <3>1 DEF InCommit
      <4>2. ~closed[v]
        BY <4>1 DEF OwnerInv
      <4>3. owner[b] = v
        BY <4>1, <4>2 DEF OwnerInv, HasNothingOf
      <4> QED
        BY <1>1, <2>1, <4>1, <4>3 DEF Produce
    <3>2. ~(i <= committed[b])
      BY <1>0, <2>1
    <3> QED
      BY <2>3, <3>1, <3>2 DEF MovedOnce
  <2>5. /\ DOMAIN moves'[b] = DOMAIN moves[b] /\ moves'[b][i] = 1
        /\ \A j \in DOMAIN moves[b] : j # i => moves'[b][j] = moves[b][j]
        /\ \A c \in RetryBuckets : c # b => moves'[c] = moves[c]
    <3>1. moves \in [RetryBuckets -> Seq(Nat)]
      BY <1>0 DEF TypeOK
    <3>2. /\ moves'[b] = [moves[b] EXCEPT ![i] = @ + 1]
          /\ \A c \in RetryBuckets : c # b => moves'[c] = moves[c]
      BY <2>2, <3>1
    <3> QED
      BY <1>0, <2>3, <2>4, <3>2
  <2>6. InCommit(b, i)'
    <3>1. pc'[m] = "commit"
      BY <1>0, <2>2 DEF TypeOK
    <3> QED
      BY <2>1, <2>2, <3>1 DEF InCommit
  <2>7. \A c \in RetryBuckets, j \in Nat : InCommit(c, j) => InCommit(c, j)'
    <3>1. ~Commit(m)
      BY <1>1 DEF Produce, Commit
    <3> QED
      BY <3>1, CommitsGoOn
  <2>8. ASSUME NEW c \in RetryBuckets, NEW j \in DOMAIN moves'[c]
        PROVE  moves'[c][j] = 0
                 \/ (moves'[c][j] = 1 /\ (j <= committed'[c] \/ InCommit(c, j)'))
    <3>1. CASE c = b /\ j = i
      BY <2>5, <2>6, <3>1
    <3>2. CASE ~(c = b /\ j = i)
      <4>1. j \in DOMAIN moves[c] /\ moves'[c][j] = moves[c][j]
        BY <2>5, <2>8, <3>2
      <4>2. j \in Nat
        BY <1>0, <4>1
      <4> QED
        BY <2>2, <2>7, <4>1, <4>2 DEF MovedOnce
    <3> QED
      BY <3>1, <3>2
  <2> QED
    BY <2>8, Zenon DEF MovedOnce
<1>2. CASE Commit(m)
  <2>1. PICK b \in RetryBuckets, i \in Nat :
           /\ moving[m] = <<b, i>> /\ moving[m][1] = b /\ moving[m][2] = i
           /\ owner[b] = m /\ committed[b] < i
    BY <1>0, <1>2, OwnerMoves DEF Commit
  <2>2. moves' = moves /\ committed' = [committed EXCEPT ![b] = i]
    BY <1>2, <2>1 DEF Commit, queue
  <2>3. committed'[b] = i /\ \A c \in RetryBuckets : c # b => committed'[c] = committed[c]
    BY <1>0, <2>2 DEF TypeOK
  <2>4. ASSUME NEW c \in RetryBuckets, NEW j \in Nat, InCommit(c, j)
        PROVE  j <= committed'[c] \/ InCommit(c, j)'
    <3>1. PICK v \in Movers : pc[v] = "commit" /\ moving[v] = <<c, j>>
      BY <2>4 DEF InCommit
    <3>2. CASE v = m
      BY <2>1, <2>3, <3>1, <3>2
    <3>3. CASE v # m
      <4>1. MoverKept(v)
        BY <1>0, <3>3, OthersAreKept
      <4> QED
        BY <3>1, <4>1 DEF MoverKept, InCommit
    <3> QED
      BY <3>2, <3>3
  <2>5. ASSUME NEW c \in RetryBuckets, NEW j \in DOMAIN moves[c], j <= committed[c]
        PROVE  j <= committed'[c]
    <3>1. j \in Nat /\ committed[c] \in Nat
      BY <1>0
    <3> QED
      BY <2>1, <2>3, <2>5, <3>1
  <2>6. \A c \in RetryBuckets : \A j \in DOMAIN moves[c] : j \in Nat
    BY <1>0
  <2> QED
    BY <2>2, <2>4, <2>5, <2>6 DEF MovedOnce
<1>3. CASE ~Produce(m) /\ ~Commit(m)
  <2>1. ~ProduceFails(m) /\ ~CommitFails(m)
    BY <1>0, NothingFails
  <2>2. moves' = moves /\ committed' = committed
    <3> USE DEF group, queue
    <3>1. CASE NewRetryMover(m) \/ Run(m) \/ Cancel(m) \/ Close(m) \/ Exit(m) \/ Crash(m)
      BY <3>1 DEF NewRetryMover, Run, Cancel, Close, Exit, Crash, Vanish
    <3>2. CASE NoDueRecord(m) \/ PollStops(m) \/ PollWakes(m) \/ PollFails(m)
      BY <3>2 DEF NoDueRecord, PollStops, PollWakes, PollFails
    <3>3. ASSUME NEW c \in RetryBuckets,
                 \/ Assign(m, c) \/ Fetch(m, c) \/ MoveDueRecord(m, c)
                 \/ HoldRecord(m, c) \/ MoveRecord(m, c) \/ RejectRecord(m, c)
          PROVE  moves' = moves /\ committed' = committed
      BY <3>3 DEF Assign, Fetch, MoveDueRecord, HoldRecord, MoveRecord, RejectRecord,
             Polled
    <3> QED
      BY <1>3, <2>1, <3>1, <3>2, <3>3 DEF MoverStep
  <2>3. \A c \in RetryBuckets, j \in Nat : InCommit(c, j) => InCommit(c, j)'
    BY <1>3, CommitsGoOn
  <2>4. \A c \in RetryBuckets : \A j \in DOMAIN moves[c] : j \in Nat
    BY <1>0
  <2> QED
    BY <2>2, <2>3, <2>4 DEF MovedOnce
<1> QED
  BY <1>1, <1>2, <1>3

LEMMA InitEstablishesOneMover == Init => OneMover
<1> SUFFICES ASSUME Init PROVE OneMover
  OBVIOUS
<1>1. MovedOnce
  <2>1. \A b \in RetryBuckets : DOMAIN moves[b] = {}
    BY DEF Init, QueueInit
  <2> QED
    BY <2>1 DEF MovedOnce
<1>2. ASSUME NEW m \in Movers PROVE OwnerInv(m)
  <2>1. /\ ~cancelled[m] /\ ~closed[m] /\ moving[m] = <<>>
        /\ \A b \in RetryBuckets : held[m][b] = <<>> /\ owner[b] # m
    BY MoverAssumption DEF Init
  <2>2. \A b \in RetryBuckets, i \in Nat : moving[m] # <<b, i>>
    BY <2>1
  <2> QED
    BY <2>1, <2>2 DEF OwnerInv, HasNothingOf
<1> QED
  BY <1>1, <1>2 DEF OneMover

\* Appending, and time, take nothing from an owner.
LEMMA QueueStepKeepsOneMover ==
    ASSUME TypeOK, OneMover,
           UNCHANGED <<group, pc, held, moving, pollErr, client, control, bounds>>,
           \A b \in RetryBuckets : \A i \in DOMAIN moves'[b] :
              moves'[b][i] = 0 \/ (i \in DOMAIN moves[b] /\ moves'[b][i] = moves[b][i])
    PROVE  OneMover'
<1> USE DEF group, client, control, bounds
<1>1. \A b, i : InCommit(b, i) => InCommit(b, i)'
  BY DEF InCommit
<1>2. Quiet' => Quiet
  BY DEF Quiet
<1>3. ASSUME MovedOnce, NEW b \in RetryBuckets, NEW i \in DOMAIN moves'[b]
      PROVE  moves'[b][i] = 0
               \/ (moves'[b][i] = 1 /\ (i <= committed'[b] \/ InCommit(b, i)'))
  <2>1. CASE i \in DOMAIN moves[b] /\ moves'[b][i] = moves[b][i]
    BY <1>1, <1>3, <2>1 DEF MovedOnce
  <2>2. CASE moves'[b][i] = 0
    BY <2>2
  <2> QED
    BY <1>3, <2>1, <2>2
<1>4. MovedOnce => MovedOnce'
  BY <1>3, Zenon DEF MovedOnce
<1>5. ASSUME NEW m \in Movers, OwnerInv(m) PROVE OwnerInv(m)'
  <2>1. \A b \in RetryBuckets :
          /\ BeyondTheCommit(m, b) => BeyondTheCommit(m, b)'
          /\ HasNothingOf(m, b) => HasNothingOf(m, b)'
    BY DEF BeyondTheCommit, HasNothingOf
  <2> QED
    BY <1>5, <2>1 DEF OwnerInv
<1> QED
  BY <1>2, <1>4, <1>5 DEF OneMover

LEMMA NextKeepsOneMover == IInv /\ OneMover /\ [Next]_vars => OneMover'
<1> SUFFICES ASSUME IInv, OneMover, [Next]_vars PROVE OneMover'
  OBVIOUS
<1>0. TypeOK
  BY DEF IInv
<1>1. ASSUME NEW m \in Movers, MoverStep(m) PROVE OneMover'
  <2> SUFFICES ASSUME Quiet' PROVE MovedOnce' /\ \A v \in Movers : OwnerInv(v)'
    BY DEF OneMover
  <2>1. Quiet
    BY <1>0, <1>1, BoundsOnlyCount, NoFaultWhenQuiet
  <2>2. MovedOnce /\ \A v \in Movers : OwnerInv(v)
    BY <2>1 DEF OneMover
  <2>3. OwnerInv(m)'
    BY <1>1, <2>2, OwnStepKeepsOwner
  <2>4. ASSUME NEW v \in Movers, v # m PROVE OwnerInv(v)'
    BY <1>1, <2>2, <2>4, OthersKeepTheirs
  <2> QED
    BY <1>1, <2>2, <2>3, <2>4, MoverStepMovesOnce
<1>2. ASSUME NEW d \in Delays, NEW decodes \in BOOLEAN, Arrive(d, decodes)
      PROVE  OneMover'
  <2> DEFINE b == Bucket(Boundaries, Partitions, d)
  <2>1. /\ UNCHANGED <<group, pc, held, moving, pollErr, client, control, bounds>>
        /\ moves' = [moves EXCEPT ![b] = Append(@, 0)]
    BY <1>2 DEF Arrive, AppendRetry
  <2> HIDE DEF b
  <2>2. moves \in [RetryBuckets -> Seq(Nat)]
    BY <1>0 DEF TypeOK
  <2>3. ASSUME NEW c \in RetryBuckets, NEW i \in DOMAIN moves'[c]
        PROVE  moves'[c][i] = 0 \/ (i \in DOMAIN moves[c] /\ moves'[c][i] = moves[c][i])
    <3>1. CASE c = b
      <4>1. moves'[c] = Append(moves[c], 0) /\ moves[c] \in Seq(Nat)
        BY <2>1, <2>2, <3>1
      <4>2. i \in DOMAIN moves[c] \/ i = Len(moves[c]) + 1
        BY <2>3, <4>1, AppendFacts
      <4> QED
        BY <4>1, <4>2, AppendFacts
    <3>2. CASE c # b
      BY <2>1, <2>2, <2>3, <3>2
    <3> QED
      BY <3>1, <3>2
  <2> QED
    BY <1>0, <2>1, <2>3, QueueStepKeepsOneMover
<1>3. CASE Pass
  BY <1>0, <1>3, QueueStepKeepsOneMover DEF Pass, Tick
<1>4. CASE UNCHANGED vars
  BY <1>0, <1>4, QueueStepKeepsOneMover DEF vars, queue
<1> QED
  BY <1>1, <1>2, <1>3, <1>4 DEF Next

\* The consumer group gives each partition to one mover at a time; while none
\* fails and no live mover loses a partition, a closed mover leaves nothing to
\* its successor that it has written and not committed.
THEOREM RecordsMoveOnce == ASSUME ~RunsAgain PROVE Spec => []MovedByOneMover
<1>1. Spec => []IInv
  BY IInvIsInvariant
<1>2. IInv /\ OneMover => MovedByOneMover
  BY DEF OneMover, Quiet, MovedOnce, MovedByOneMover
<1> QED
  BY <1>1, <1>2, InitEstablishesOneMover, NextKeepsOneMover, PTL DEF Spec

=============================================================================
