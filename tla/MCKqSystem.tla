----------------------------- MODULE MCKqSystem -----------------------------
(***************************************************************************)
(* Small instances of KqSystem: a band of two partitions of one unit each, *)
(* and a first retry that waits a unit.                                    *)
(***************************************************************************)
EXTENDS KqSystem, TLC

CONSTANTS w1, w2, t1, t2

MCBoundaries == <<0, 2>>

MCRetryDelay == [r \in (1..MaxRetries) \X Tasks |-> r[1]]

Symmetry == Permutations(Workers)

=============================================================================
