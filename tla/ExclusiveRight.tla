--------------------------- MODULE ExclusiveRight ---------------------------
(***************************************************************************)
(* What a lease promises, whatever its timing: at any instant at most one  *)
(* owner, and between two owners an instant with none.                     *)
(***************************************************************************)
CONSTANT Owner      \* who may own the right
VARIABLE owners     \* who believes it owns the right now

Acquire(p) == owners = {} /\ owners' = {p}

GiveUp == owners' = {}

Init == owners = {}

Next == GiveUp \/ \E p \in Owner : Acquire(p)

Spec == Init /\ [][Next]_owners
=============================================================================
