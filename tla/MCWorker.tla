------------------------------ MODULE MCWorker ------------------------------
(***************************************************************************)
(* Small instances of Worker.  The grid has two bands of two partitions; a *)
(* task's first retry waits in one band and its second in the other.       *)
(***************************************************************************)
EXTENDS Worker, TLC

CONSTANTS w1, w2, t1, t2

\* Two seconds, and a band of one more second in each partition.
MCBoundaries == <<0, 4, 8>>

MCRetryDelay == [r \in (1..MaxRetries) \X Tasks |-> IF r[1] = 1 THEN 3 ELSE 8]

Fresh(t, retries) ==
    [id |-> t, retries |-> retries, retried |-> 0, after |-> 0,
     wellFormed |-> TRUE]

\* As the retry mover delivers it.
Again(t, retries, retried) ==
    [Fresh(t, retries) EXCEPT !.retried = retried,
                              !.after = MCRetryDelay[<<retried, t>>]]

\* Not an envelope.
Garbage == [Fresh(t1, 0) EXCEPT !.wellFormed = FALSE]

\* A task with a retry left, and one at its last attempt.
MixedArrivals == {Fresh(t1, 1), Again(t2, 1, 1)}

AllArrivals == MixedArrivals \cup {Garbage}

OneTask == {Fresh(t1, 1)}

\* A client that allows three retries, before workers that allow two.
BeyondPolicy == {Again(t1, 3, 2)}

Symmetry == Permutations(Workers)

=============================================================================
