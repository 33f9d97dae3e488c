---------------------------- MODULE MCStageChange ----------------------------
(* Instances of StageChange for TLC. *)
EXTENDS StageChange, TLC

\* Calls, keys and applications differ in name only: Init gives every intent.
Interchangeable ==
  Permutations(Caller) \cup Permutations(Key) \cup Permutations(Application)
=============================================================================
