---------------------------- MODULE MCEventWriter ----------------------------
(***************************************************************************)
(* A small instance of EventWriter: two writers and two callers of Close   *)
(* around a buffer of one event.                                           *)
(***************************************************************************)
EXTENDS EventWriter

CONSTANTS g1, g2, c1, c2

=============================================================================
