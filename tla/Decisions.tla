----------------------------- MODULE Decisions -----------------------------
(***************************************************************************)
(* What becomes of the status proposals of an application, whoever decides *)
(* on them: the checker alone moves the application only where it is sure, *)
(* for the others the person is asked first; a proposal moves it once, and *)
(* before it counts as accepted; one accepted settles its siblings; and    *)
(* what was decided stays decided.                                         *)
(***************************************************************************)
EXTENDS Naturals, Sequences

CONSTANTS Proposal, Staged, Confident

VARIABLES
  verdict,     \* "absent", "pending", "accepted" or "dismissed"
  moves,       \* proposals in the order they moved the application
  published,
  shown        \* to the person, who may decide

decisionVars == <<verdict, moves, published, shown>>

DecisionsInit ==
  /\ verdict = [p \in Proposal |-> "absent"]
  /\ moves = << >> /\ published = {} /\ shown = {}

HasMoved(p) == \E i \in 1 .. Len(moves) : moves[i] = p

Record(p) ==
  /\ verdict[p] = "absent" /\ verdict' = [verdict EXCEPT ![p] = "pending"]
  /\ UNCHANGED <<moves, published, shown>>

Publish(p) ==
  /\ verdict[p] # "absent" /\ published' = published \cup {p}
  /\ UNCHANGED <<verdict, moves, shown>>

Show(p) ==
  /\ p \in published /\ shown' = shown \cup {p}
  /\ UNCHANGED <<verdict, moves, published>>

\* It is no matter whether the proposal is pending still.
Move(p) ==
  /\ p \in Staged /\ verdict[p] # "absent" /\ ~ HasMoved(p)
  /\ p \in Confident \/ p \in shown
  /\ moves' = Append(moves, p)
  /\ UNCHANGED <<verdict, published, shown>>

Accept(p) ==
  /\ verdict[p] = "pending" /\ HasMoved(p)
  /\ verdict' = [verdict EXCEPT ![p] = "accepted"]
  /\ UNCHANGED <<moves, published, shown>>

Dismiss(p) ==
  /\ verdict[p] = "pending" /\ p \in shown
  /\ verdict' = [verdict EXCEPT ![p] = "dismissed"]
  /\ UNCHANGED <<moves, published, shown>>

Settle(p) ==
  /\ verdict[p] = "accepted"
  /\ verdict' = [q \in Proposal |-> IF verdict[q] = "pending" THEN "dismissed" ELSE verdict[q]]
  /\ UNCHANGED <<moves, published, shown>>

DecisionsNext ==
  \E p \in Proposal :
    \/ Record(p) \/ Publish(p) \/ Show(p)
    \/ Move(p) \/ Accept(p) \/ Dismiss(p) \/ Settle(p)

DecisionsSpec == DecisionsInit /\ [][DecisionsNext]_decisionVars
=============================================================================
