---------------------------- MODULE MCEventLedger ----------------------------
(***************************************************************************)
(* EventLedger on small instances, and what is checked of it.              *)
(***************************************************************************)
EXTENDS EventLedger, TLC

Symmetry == Permutations(Recorder) \cup Permutations(Event \ Orphan)
=============================================================================
