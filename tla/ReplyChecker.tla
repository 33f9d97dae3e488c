---------------------------- MODULE ReplyChecker ----------------------------
(***************************************************************************)
(* The Gmail reply checker (gmail_reply_checker.py) on one outreach draft: *)
(* what a tick reads of the draft and of its thread, the two columns that  *)
(* make the watermark, and the one reply it classifies, while the person   *)
(* and the recruiter go on writing and access to Gmail comes and goes.     *)
(* Drafts share nothing but the access token, and the worker's lease keeps *)
(* ticks apart (WorkerLease), so one draft and one tick at a time suffice. *)
(***************************************************************************)
EXTENDS Naturals, Sequences

CONSTANTS
  Sent,         \* messages of the person in the thread (label SENT)
  Reply,        \* messages of the other side (label INBOX)
  Nothing,      \* no message
  MaxFaults     \* bound: revoked connections and failed calls

ASSUME ReplyCheckerAssumption ==
  /\ Sent \cap Reply = {} /\ Nothing \notin Sent \cup Reply
  /\ MaxFaults \in Nat

\* Times are positions in the thread: a moment is the number of messages that
\* have arrived by then, 0 stands for a column that is null.
VARIABLES
  thread,       \* the messages in the order of internalDate
  anchor,       \* outreach_drafts.sent_confirmed_at
  checked,      \* outreach_drafts.last_reply_checked_at
  granted,      \* Google honours the connection
  validated,    \* provider_credentials.is_validated
  at,           \* where the tick is
  draft,        \* the row as the tick selected it: [anchor, checked]
  seen,         \* how much of the thread get_thread returned
  chosen,       \* the reply being classified
  classified,   \* how often each reply was classified
  missed,       \* history: replies a fault or the gap at the mark kept unread
  faults

mailVars  == <<thread, granted>>
tableVars == <<anchor, checked, validated, classified>>
tickVars  == <<at, draft, seen, chosen>>
vars      == <<mailVars, tableVars, tickVars, missed, faults>>

Place == {"idle", "token", "thread", "flagging", "anchoring", "marking", "classifying"}
Time  == 0 .. Len(thread)

TypeOK ==
  /\ thread \in Seq(Sent \cup Reply)
  /\ anchor \in Time /\ checked \in Time /\ seen \in Time
  /\ granted \in BOOLEAN /\ validated \in BOOLEAN
  /\ at \in Place
  /\ draft \in [anchor : Time, checked : Time]
  /\ chosen \in Reply \cup {Nothing}
  /\ classified \in [Reply -> Nat]
  /\ missed \subseteq Reply
  /\ faults \in Nat

-----------------------------------------------------------------------------
(* The thread and the connection. *)

Now == Len(thread)
Arrived == {thread[i] : i \in 1 .. Now}
RepliesIn(i, j) == {thread[k] : k \in i .. j} \cap Reply
Position(m) == CHOOSE i \in 1 .. Now : thread[i] = m

\* The thread begins with the sending of the draft.
Deliver(m) ==
  /\ m \notin Arrived
  /\ m \in Reply => thread # << >>
  /\ thread' = Append(thread, m)
  /\ UNCHANGED <<granted, tableVars, tickVars, missed, faults>>

\* A refresh token expires or is revoked.
Revoke ==
  /\ granted /\ faults < MaxFaults
  /\ granted' = FALSE
  /\ faults' = faults + 1
  /\ UNCHANGED <<thread, tableVars, tickVars, missed>>

\* The person connects again: the credential is saved anew.
Reconnect ==
  /\ ~(granted /\ validated)
  /\ granted' = TRUE /\ validated' = TRUE
  /\ UNCHANGED <<thread, anchor, checked, classified, tickVars, missed, faults>>

\* A page of the same person finds out first, and flags the connection.
FlagElsewhere ==
  /\ ~granted /\ validated
  /\ validated' = FALSE
  /\ UNCHANGED <<mailVars, anchor, checked, classified, tickVars, missed, faults>>

-----------------------------------------------------------------------------
(* One tick. *)

\* The draft is due and its owner is not waiting to reconnect.
Select ==
  /\ at = "idle" /\ validated
  /\ draft' = [anchor |-> anchor, checked |-> checked]
  /\ at' = "token"
  /\ UNCHANGED <<mailVars, tableVars, seen, chosen, missed, faults>>

\* The credential is read again, and the access token refreshed.
GetToken ==
  /\ at = "token" /\ validated /\ granted
  /\ at' = "thread"
  /\ UNCHANGED <<mailVars, tableVars, draft, seen, chosen, missed, faults>>

SkipFlagged ==
  /\ at = "token" /\ ~validated
  /\ at' = "idle"
  /\ UNCHANGED <<mailVars, tableVars, draft, seen, chosen, missed, faults>>

\* Google answers that it no longer honours the connection.
Refused ==
  /\ at \in {"token", "thread"} /\ ~granted
  /\ at' = "flagging"
  /\ UNCHANGED <<mailVars, tableVars, draft, seen, chosen, missed, faults>>

\* Mutation: the draft that finds out is marked like any other failed draft.
FlagAndMark ==
  /\ at = "flagging"
  /\ validated' = FALSE
  /\ checked' = Now
  /\ at' = "idle"
  /\ UNCHANGED <<mailVars, anchor, classified, draft, seen, chosen, missed, faults>>

\* flag_reconnect_required; the draft stays unmarked. A reconnection since the
\* refusal is flagged like the old one.
Flag ==
  /\ at = "flagging"
  /\ validated' = FALSE
  /\ at' = "idle"
  /\ UNCHANGED <<mailVars, anchor, checked, classified, draft, seen, chosen, missed, faults>>

SentAmong(n) == {i \in 1 .. n : thread[i] \in Sent}

\* get_thread: all messages up to now. A first message of the person is still
\* to be recorded, if there is one and the row had none.
GetThread ==
  /\ at = "thread" /\ granted
  /\ seen' = Now
  /\ at' = IF draft.anchor = 0 /\ SentAmong(Now) # {} THEN "anchoring" ELSE "marking"
  /\ UNCHANGED <<mailVars, tableVars, draft, chosen, missed, faults>>

\* Mutation: the most recent message of the person is the anchor.
AnchorOfLatest(S) == CHOOSE i \in S : \A j \in S : j <= i

\* min(sent_messages, key=internal_date_ms)
AnchorOf(S) == CHOOSE i \in S : \A j \in S : i <= j

\* _mark_sent_confirmed
ConfirmSent ==
  /\ at = "anchoring"
  /\ anchor' = AnchorOf(SentAmong(seen))
  /\ draft' = [draft EXCEPT !.anchor = AnchorOf(SentAmong(seen))]
  /\ at' = "marking"
  /\ UNCHANGED <<mailVars, checked, validated, classified, seen, chosen, missed, faults>>

\* Mutation: the last check is left out of the watermark.
WatermarkOfSent(d) == d.anchor

Watermark(d) == IF d.anchor < d.checked THEN d.checked ELSE d.anchor

\* reply_candidates, from the thread and the row that were read; none, if the
\* person has sent nothing yet.
Candidates(n, d) ==
  {i \in 1 .. n : thread[i] \in Reply /\ i > Watermark(d) /\ SentAmong(n) # {}}

\* _mark_checked, with the time of the call and not of the reading. What has
\* arrived in between is marked too.
MarkChecked ==
  LET replies == Candidates(seen, draft)
  IN  /\ at = "marking"
      /\ checked' = Now
      /\ missed' = missed \cup RepliesIn(seen + 1, Now)
      /\ IF replies = {}
           THEN at' = "idle" /\ UNCHANGED chosen
           ELSE /\ at' = "classifying"
                /\ chosen' = thread[CHOOSE i \in replies : \A j \in replies : j <= i]
      /\ UNCHANGED <<mailVars, anchor, validated, classified, draft, seen, faults>>

\* classify_reply and the proposal (see StatusProposals for what becomes of it).
Classify ==
  /\ at = "classifying"
  /\ classified' = [classified EXCEPT ![chosen] = @ + 1]
  /\ chosen' = Nothing
  /\ at' = "idle"
  /\ UNCHANGED <<mailVars, anchor, checked, validated, draft, seen, missed, faults>>

\* A network failure or an outage of Google: _after_failed_gmail_call marks the
\* draft, whose replies since the last mark nobody has read.
TransientFailure ==
  /\ at \in {"token", "thread"} /\ faults < MaxFaults
  /\ checked' = Now
  /\ missed' = missed \cup RepliesIn(checked + 1, Now)
  /\ at' = "idle"
  /\ faults' = faults + 1
  /\ UNCHANGED <<mailVars, anchor, validated, classified, draft, seen, chosen>>

\* No model is set up, the classifier fails, a write fails or the process ends:
\* this draft's check is over, and a reply it had chosen is below the watermark.
GiveUp ==
  /\ at # "idle" /\ faults < MaxFaults
  /\ missed' = missed \cup ({chosen} \cap Reply)
  /\ chosen' = Nothing
  /\ at' = "idle"
  /\ faults' = faults + 1
  /\ UNCHANGED <<mailVars, tableVars, draft, seen>>

Init ==
  /\ thread = << >>
  /\ anchor = 0 /\ checked = 0 /\ seen = 0
  /\ granted = TRUE /\ validated = TRUE
  /\ at = "idle"
  /\ draft = [anchor |-> 0, checked |-> 0]
  /\ chosen = Nothing
  /\ classified = [m \in Reply |-> 0]
  /\ missed = {}
  /\ faults = 0

\* What the worker does as long as nothing fails.
Check ==
  \/ Select \/ GetToken \/ SkipFlagged \/ Refused \/ Flag \/ GetThread \/ ConfirmSent \/ MarkChecked \/ Classify

Next ==
  \/ \E m \in Sent \cup Reply : Deliver(m)
  \/ Revoke \/ Reconnect \/ FlagElsewhere
  \/ Check \/ TransientFailure \/ GiveUp

Spec == Init /\ [][Next]_vars

\* The worker goes on ticking, and the person reconnects when asked to.
FairSpec == Spec /\ WF_vars(Check) /\ WF_vars(Reconnect)

-----------------------------------------------------------------------------
(* Properties. *)

Handled(m) == classified[m] > 0 \/ chosen = m

\* A newer reply was classified, or missed, in this reply's place: only the
\* newest reply of a gap is classified.
Superseded(m) ==
  \E n \in Reply \cap Arrived :
    Position(m) < Position(n) /\ (Handled(n) \/ n \in missed)

PassedOver(m) == m \in Arrived /\ Position(m) <= checked /\ ~Handled(m)

\* A reply is classified once: the mark comes before the classification, so no
\* later tick spends the owner's key on the same reply again.
ClassifiedOnce == \A m \in Reply : classified[m] <= 1

\* The watermark passes over a reply nobody classified only if a newer one took
\* its place, or in the three ways missed counts: it arrived between the reading
\* and the mark, a transient failure marked it, or its own check was given up.
\* A second message of the person, a revoked connection and a reconnection,
\* whenever they happen, lose no reply.
LossesAreThese == \A m \in Reply : PassedOver(m) => Superseded(m) \/ m \in missed

\* Every reply is classified at last, but for those.
EveryReplyIsSeen ==
  \A m \in Reply :
    m \in Arrived ~>
      m \in Arrived /\ (classified[m] > 0 \/ Superseded(m) \/ m \in missed)

\* What the module docstring promises where nothing fails: a reply is fed to the
\* classifier, unless a newer one arrived in the same gap.
PassedOverOnlyForNewer == \A m \in Reply : PassedOver(m) => Superseded(m)
=============================================================================
