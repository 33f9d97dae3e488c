------------------------------ MODULE StageLog ------------------------------
(***************************************************************************)
(* What the stage history promises: every command takes effect at most     *)
(* once and all at once, the log is one unbroken chain of moves for each   *)
(* application, the date of applying is that of the first move there, and  *)
(* the announcement of a move exists if and only if the move does.         *)
(***************************************************************************)
CONSTANTS
  Key,          \* idempotency keys, one per command a user means to give
  Application,
  Stage,
  Saved,        \* the stage a new application is in (_DEFAULT_STATUS)
  Applied,      \* the stage whose first visit sets date_applied
  Never         \* no move, no date, no such stage or application

VARIABLES
  intent,       \* what each key asks for: [app, to]
  stage,        \* applications.status
  from,         \* application_events: the old stage a key's event recorded
  appliedBy,    \* applications.date_applied: the move that set it
  announced     \* keys with a row in event_outbox

vars == <<intent, stage, from, appliedBy, announced>>

Init ==
  /\ intent \in [Key -> [app : Application \cup {Never}, to : Stage \cup {Never}]]
  /\ stage = [a \in Application |-> Saved]
  /\ from = [k \in Key |-> Never]
  /\ appliedBy = [a \in Application |-> Never]
  /\ announced = {}

Move(k) ==
  LET a == intent[k].app
      s == intent[k].to
  IN  /\ a \in Application /\ s \in Stage
      /\ from[k] = Never
      /\ from' = [from EXCEPT ![k] = stage[a]]
      /\ stage' = [stage EXCEPT ![a] = s]
      /\ appliedBy' = [appliedBy EXCEPT ![a] =
                         IF s = Applied /\ @ = Never THEN k ELSE @]
      /\ announced' = announced \cup {k}
      /\ UNCHANGED intent

Next == \E k \in Key : Move(k)

Spec == Init /\ [][Next]_vars
=============================================================================
