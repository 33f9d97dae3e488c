---------------------------- MODULE MCWorkerLease ----------------------------
(* Instances of WorkerLease for TLC. *)
EXTENDS WorkerLease, TLC

\* Processes differ in name only; sound for the safety runs.
Interchangeable == Permutations(Process)
=============================================================================
