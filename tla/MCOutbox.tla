------------------------------ MODULE MCOutbox ------------------------------
(* Instances of Outbox for TLC. *)
EXTENDS Outbox, TLC

\* The oldest row and the newest are job matches.
MCMatch == {1, LastEvent}
=============================================================================
