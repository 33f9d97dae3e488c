-------------------------- MODULE StatusProposals --------------------------
(***************************************************************************)
(* Status proposals of one application: the Gmail checker records each and *)
(* applies it or publishes it for review (_record_proposal), while the     *)
(* person accepts and dismisses them from Today items, in several tabs at  *)
(* once. change_stage is one step that happens once per key: StageChange   *)
(* shows that it is.                                                       *)
(***************************************************************************)
EXTENDS Naturals, Sequences, FiniteSets

CONSTANTS
  Proposal,     \* one per reply: unique (outreach_draft_id, source_gmail_message_id)
  Staged,       \* those whose proposed_type has a stage in STAGE_MAP
  Confident,    \* those at or above AUTO_TRACK_THRESHOLD
  Call,         \* requests of the person that may be running at once
  Nothing,      \* no proposal
  MaxFailures   \* bound: calls that fail, answers lost, processes that end

ASSUME StatusProposalsAssumption ==
  /\ Staged \subseteq Proposal /\ Confident \subseteq Proposal
  /\ Nothing \notin Proposal
  /\ MaxFailures \in Nat

VARIABLES
  status,       \* application_status_proposals.status, "absent" before the insert
  moves,        \* stage moves by proposals, in the order of their commits
  event,        \* proposals with a gmail_reply.status_proposed.v1 row
  item,         \* their Today items: "none", "open" or "dismissed"
  rec,          \* where the checker is with each proposal
  at,           \* where each request is
  about,        \* the proposal of each request
  decision,     \* what each request asks for
  failures

tableVars == <<status, moves, event, item>>
callVars  == <<at, about, decision>>
vars      == <<tableVars, rec, callVars, failures>>

Decision == {"accepted", "dismissed"}
Step     == {"moving", "resolving", "sweeping"}

TypeOK ==
  /\ status \in [Proposal -> {"absent", "pending"} \cup Decision]
  /\ moves \in Seq(Staged)
  /\ event \subseteq Proposal
  /\ item \in [Proposal -> {"none", "open", "dismissed"}]
  /\ rec \in [Proposal -> Step \cup {"none", "publishing", "done"}]
  /\ at \in [Call -> Step \cup {"idle", "reading", "retiring"}]
  /\ about \in [Call -> Proposal \cup {Nothing}]
  /\ decision \in [Call -> Decision]
  /\ failures \in Nat

-----------------------------------------------------------------------------
(* The writes the checker and the routes share. *)

Moved == {moves[i] : i \in 1 .. Len(moves)}

\* change_stage under the key status_proposal_accepted:<id>.
MovedBy(p) == IF p \in Moved THEN moves ELSE Append(moves, p)

\* resolve_status_proposal finds a row.
Resolvable(p) == status[p] = "pending"

Resolved(p, d) == [status EXCEPT ![p] = d]

\* dismiss_other_pending_proposals
Swept(p) ==
  [q \in Proposal |-> IF q # p /\ status[q] = "pending" THEN "dismissed" ELSE status[q]]

-----------------------------------------------------------------------------
(* The checker: _record_proposal. *)

Record(p, place) == rec' = [rec EXCEPT ![p] = place]

\* Mutation: what is not auto-applied for want of a stage is only recorded.
FirstStepSilent(p) == IF p \in Staged \cap Confident THEN "moving"
                      ELSE IF p \in Staged THEN "publishing" ELSE "done"

FirstStep(p) == IF p \in Staged \cap Confident THEN "moving" ELSE "publishing"

Propose(p) ==
  /\ rec[p] = "none"
  /\ status' = [status EXCEPT ![p] = "pending"]
  /\ Record(p, FirstStep(p))
  /\ UNCHANGED <<moves, event, item, callVars, failures>>

\* Mutation: the failure of change_stage goes unnoticed.
AutoMoveUnchecked(p) ==
  /\ rec[p] = "moving"
  /\ moves' \in {moves, MovedBy(p)}
  /\ Record(p, "resolving")
  /\ UNCHANGED <<status, event, item, callVars, failures>>

\* Mutation: the automatic acceptance ends with the move.
AutoMoveUnresolved(p) ==
  /\ rec[p] = "moving"
  /\ moves' = MovedBy(p)
  /\ Record(p, "publishing")
  /\ UNCHANGED <<status, event, item, callVars, failures>>

AutoMove(p) ==
  /\ rec[p] = "moving"
  /\ moves' = MovedBy(p)
  /\ Record(p, "resolving")
  /\ UNCHANGED <<status, event, item, callVars, failures>>

\* Somebody else resolved it meanwhile: StatusProposalNotFound, which falls
\* through to the review queue like any failure.
AutoResolve(p) ==
  /\ rec[p] = "resolving"
  /\ IF Resolvable(p)
       THEN status' = Resolved(p, "accepted") /\ Record(p, "sweeping")
       ELSE Record(p, "publishing") /\ UNCHANGED status
  /\ UNCHANGED <<moves, event, item, callVars, failures>>

AutoSweep(p) ==
  /\ rec[p] = "sweeping"
  /\ status' = Swept(p)
  /\ Record(p, "done")
  /\ UNCHANGED <<moves, event, item, callVars, failures>>

\* A call of the auto-apply fails, with or without its effect.
AutoFails(p) ==
  /\ rec[p] \in Step /\ failures < MaxFailures
  /\ moves' \in {moves} \cup (IF rec[p] = "moving" THEN {MovedBy(p)} ELSE {})
  /\ status' \in {status}
       \cup (IF rec[p] = "resolving" /\ Resolvable(p) THEN {Resolved(p, "accepted")} ELSE {})
       \cup (IF rec[p] = "sweeping" THEN {Swept(p)} ELSE {})
  /\ Record(p, "publishing")
  /\ failures' = failures + 1
  /\ UNCHANGED <<event, item, callVars>>

\* _publish_pending_proposal_event
Publish(p) ==
  /\ rec[p] = "publishing"
  /\ event' = event \cup {p}
  /\ Record(p, "done")
  /\ UNCHANGED <<status, moves, item, callVars, failures>>

\* The publishing fails or the process ends: contained, and the next tick finds
\* the reply below its watermark.
RecordingEnds(p) ==
  /\ rec[p] \in Step \cup {"publishing"} /\ failures < MaxFailures
  /\ Record(p, "done")
  /\ failures' = failures + 1
  /\ UNCHANGED <<tableVars, callVars>>

\* The outbox worker's part (see Outbox).
ShowItem(p) ==
  /\ p \in event /\ item[p] = "none"
  /\ item' = [item EXCEPT ![p] = "open"]
  /\ UNCHANGED <<status, moves, event, rec, callVars, failures>>

-----------------------------------------------------------------------------
(* The person: accept-proposal, dismiss-proposal and dismiss. *)

Goto(c, place) == at' = [at EXCEPT ![c] = place]

\* A button of an item, on a page that may be old.
Press(c, p, d) ==
  /\ at[c] = "idle" /\ item[p] # "none"
  /\ about' = [about EXCEPT ![c] = p]
  /\ decision' = [decision EXCEPT ![c] = d]
  /\ Goto(c, "reading")
  /\ UNCHANGED <<tableVars, rec, failures>>

\* The status is looked at: CONFLICT if it is not pending, INVALID_INPUT to
\* accept what has no stage.
ReadProposal(c) ==
  /\ at[c] = "reading"
  /\ Goto(c, IF status[about[c]] # "pending" THEN "idle"
             ELSE IF decision[c] = "dismissed" THEN "resolving"
             ELSE IF about[c] \in Staged THEN "moving" ELSE "idle")
  /\ UNCHANGED <<tableVars, rec, about, decision, failures>>

AcceptMove(c) ==
  /\ at[c] = "moving"
  /\ moves' = MovedBy(about[c])
  /\ Goto(c, "resolving")
  /\ UNCHANGED <<status, event, item, rec, about, decision, failures>>

\* A decision already taken is left alone, and the request fails.
Resolve(c) ==
  /\ at[c] = "resolving"
  /\ IF Resolvable(about[c])
       THEN /\ status' = Resolved(about[c], decision[c])
            /\ Goto(c, IF decision[c] = "accepted" THEN "sweeping" ELSE "retiring")
       ELSE Goto(c, "idle") /\ UNCHANGED status
  /\ UNCHANGED <<moves, event, item, rec, about, decision, failures>>

Sweep(c) ==
  /\ at[c] = "sweeping"
  /\ status' = Swept(about[c])
  /\ Goto(c, "retiring")
  /\ UNCHANGED <<moves, event, item, rec, about, decision, failures>>

Retire(c) ==
  /\ at[c] = "retiring"
  /\ item' = [item EXCEPT ![about[c]] = "dismissed"]
  /\ Goto(c, "idle")
  /\ UNCHANGED <<status, moves, event, rec, about, decision, failures>>

\* A call of the request fails, or its process ends.
RequestFails(c) ==
  /\ at[c] # "idle" /\ failures < MaxFailures
  /\ Goto(c, "idle")
  /\ failures' = failures + 1
  /\ UNCHANGED <<tableVars, rec, about, decision>>

\* The plain dismiss route, which leaves the proposal alone.
DismissItem(p) ==
  /\ item[p] = "open"
  /\ item' = [item EXCEPT ![p] = "dismissed"]
  /\ UNCHANGED <<status, moves, event, rec, callVars, failures>>

Init ==
  /\ status = [p \in Proposal |-> "absent"]
  /\ moves = << >>
  /\ event = {}
  /\ item = [p \in Proposal |-> "none"]
  /\ rec = [p \in Proposal |-> "none"]
  /\ at = [c \in Call |-> "idle"]
  /\ about = [c \in Call |-> Nothing]
  /\ decision = [c \in Call |-> "dismissed"]
  /\ failures = 0

Checker(p) ==
  \/ Propose(p) \/ AutoMove(p) \/ AutoResolve(p) \/ AutoSweep(p) \/ AutoFails(p)
  \/ Publish(p) \/ RecordingEnds(p)

Request(c) ==
  \/ \E p \in Proposal, d \in Decision : Press(c, p, d)
  \/ ReadProposal(c) \/ AcceptMove(c) \/ Resolve(c) \/ Sweep(c) \/ Retire(c)
  \/ RequestFails(c)

Next ==
  \/ \E p \in Proposal : Checker(p) \/ ShowItem(p) \/ DismissItem(p)
  \/ \E c \in Call : Request(c)

Spec == Init /\ [][Next]_vars

-----------------------------------------------------------------------------
(* Properties. *)

\* Pending, no event, and the checker is through with it: nobody will ever see it.
Stranded == {p \in Proposal : status[p] = "pending" /\ p \notin event /\ rec[p] = "done"}

\* It takes a failure each to strand a proposal: whatever the checker and the
\* person do at once, a proposal nobody decided on is published.
StrandedByFailure == Cardinality(Stranded) <= failures

\* It moved the application and is on offer still, and nobody is about to resolve it.
HalfAccepted ==
  {p \in Moved : /\ status[p] = "pending" /\ rec[p] # "resolving"
                 /\ ~\E c \in Call : /\ at[c] = "resolving" /\ about[c] = p
                                      /\ decision[c] = "accepted"}

\* The move and the acceptance are two calls. It takes a failure each to leave a
\* proposal between them, with the application moved and the item asking whether to
\* move it: not the checker and two tabs that overtake each other, nor a sweep.
HalfAcceptedByFailure == Cardinality(HalfAccepted) <= failures

\* What today_routes.py says of its two checks: a proposal that was dismissed
\* does not move the application any more.
DismissedNeverMoves ==
  [][\A p \in Moved' \ Moved : status[p] # "dismissed"]_vars

-----------------------------------------------------------------------------
(* What the decisions amount to. *)

\* The items the person has seen: a dismissed one has been there.
Shown == {p \in Proposal : item[p] # "none"}

TheDecisions ==
  INSTANCE Decisions WITH verdict <- status, published <- event, shown <- Shown

\* However the checker and the tabs overtake each other and wherever they fail:
\* the application moves only by a proposal the checker is sure of or the person
\* was shown, once; it has moved before the proposal counts as accepted; and what
\* was not asked for is dismissed only beside an accepted sibling.
ImplementsDecisions == TheDecisions!DecisionsSpec
=============================================================================
