------------------------- MODULE MCStatusProposals -------------------------
(* Instances of StatusProposals for TLC. *)
EXTENDS StatusProposals, TLC

\* Requests differ in name only.
Interchangeable == Permutations(Call)
=============================================================================
