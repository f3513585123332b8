---------------------------- MODULE MCRetryMover ----------------------------
(***************************************************************************)
(* Small instances of RetryMover: one band of one or two partitions, of    *)
(* two units of time each.                                                 *)
(***************************************************************************)
EXTENDS RetryMover, TLC

CONSTANTS m1, m2

MCBoundaries == <<0, 4>>

OnePartition == <<0, 2>>

Symmetry == Permutations(Movers)

=============================================================================
