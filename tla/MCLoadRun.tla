------------------------------ MODULE MCLoadRun ------------------------------
(***************************************************************************)
(* Small runs of two ids and one warm-up task, with a mover and the        *)
(* observer: one producer and two workers, or the other way round.         *)
(***************************************************************************)
EXTENDS LoadRun

MCTasks == WorkloadIDs \cup WarmupIDs

=============================================================================
