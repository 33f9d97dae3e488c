------------------------------- MODULE Outbox -------------------------------
(***************************************************************************)
(* The transactional outbox and the digest: rows of event_outbox, workers  *)
(* that claim them in batches (claim_and_publish_outbox_batch; the outbox  *)
(* worker takes no lease, so every process runs one), and the listener     *)
(* that turns each row of a batch into an item of the Today feed and, for  *)
(* a job match, a push to the user's channels.                             *)
(***************************************************************************)
EXTENDS Naturals, FiniteSets

CONSTANTS
  LastEvent,    \* rows are numbered by created_at
  Match,        \* the job_registry.match_found.v1 rows, which are pushed
  Worker,
  NoOne,        \* nobody holds the row's lock
  Limit,        \* p_limit
  MaxFailures   \* bound: ticks that fail for a reason outside the model

Event == 1 .. LastEvent

ASSUME OutboxAssumption ==
  /\ LastEvent \in Nat /\ Match \subseteq Event
  /\ NoOne \notin Worker
  /\ Limit \in Nat \ {0} /\ MaxFailures \in Nat

VARIABLES
  row,          \* event_outbox: "absent", "waiting" or "published" (published_at)
  lock,         \* which claim statement holds the row
  gone,         \* rows whose saved search, proposal or application was deleted
  item,         \* rows with a today_items row (source_outbox_event_id)
  pushed,       \* rows whose push reached a channel
  at,           \* where each worker is
  seen,         \* the rows the running claim statement found unpublished
  hand,         \* the batch: rows locked, then rows not handled yet
  cur,          \* the row being handled, 0 for none
  failures      \* ticks that failed

tableVars  == <<row, gone, item, pushed>>
workerVars == <<at, seen, hand, cur>>
vars       == <<tableVars, lock, workerVars, failures>>

Place == {"idle", "claiming", "answering", "listening",
          "rendering", "inserting", "pushing"}

TypeOK ==
  /\ row \in [Event -> {"absent", "waiting", "published"}]
  /\ lock \in [Event -> Worker \cup {NoOne}]
  /\ gone \subseteq Event /\ item \subseteq Event /\ pushed \subseteq Match
  /\ at \in [Worker -> Place]
  /\ seen \in [Worker -> SUBSET Event]
  /\ hand \in [Worker -> SUBSET Event]
  /\ cur \in [Worker -> Event \cup {0}]
  /\ failures \in Nat

-----------------------------------------------------------------------------
(* The other side: rows are inserted, what they are about may be deleted. *)

\* created_at is the start of the inserting transaction, so rows may appear in
\* another order than their age.
Append(e) ==
  /\ row[e] = "absent"
  /\ row' = [row EXCEPT ![e] = "waiting"]
  /\ UNCHANGED <<lock, gone, item, pushed, workerVars, failures>>

\* A user deletes a saved search, or an application goes with its proposals.
Delete(e) ==
  /\ row[e] # "absent" /\ e \notin gone
  /\ gone' = gone \cup {e}
  /\ UNCHANGED <<row, lock, item, pushed, workerVars, failures>>

-----------------------------------------------------------------------------
(* The claim: one statement, which locks its rows one by one. *)

Goto(w, place) == at' = [at EXCEPT ![w] = place]

Unlocked(w) == [e \in Event |-> IF lock[e] = w THEN NoOne ELSE lock[e]]

BeginClaim(w) ==
  /\ at[w] = "idle"
  /\ seen' = [seen EXCEPT ![w] = {e \in Event : row[e] = "waiting"}]
  /\ Goto(w, "claiming")
  /\ UNCHANGED <<tableVars, lock, hand, cur, failures>>

\* Mutation: "for update" waits for nobody and skips nothing.
TakeableUnskipped(w) ==
  {e \in seen[w] : \A f \in hand[w] : f < e}

\* Rows this statement can still lock, in order of age: a row another claim
\* holds is skipped, one that was published meanwhile no longer qualifies.
Takeable(w) ==
  {e \in seen[w] : row[e] = "waiting" /\ lock[e] = NoOne /\ \A f \in hand[w] : f < e}

\* Mutation: the limited subquery runs again for every row, as it may without
\* "materialized".
BatchFullNever(w) == FALSE

BatchFull(w) == Cardinality(hand[w]) = Limit

LockNext(w) ==
  /\ at[w] = "claiming" /\ ~BatchFull(w)
  /\ \E e \in Takeable(w) :
       /\ \A f \in Takeable(w) : e <= f
       /\ lock' = [lock EXCEPT ![e] = w]
       /\ hand' = [hand EXCEPT ![w] = @ \cup {e}]
  /\ UNCHANGED <<tableVars, at, seen, cur, failures>>

\* The statement publishes what it locked and commits.
CommitClaim(w) ==
  /\ at[w] = "claiming"
  /\ BatchFull(w) \/ Takeable(w) = {}
  /\ row' = [e \in Event |-> IF e \in hand[w] THEN "published" ELSE row[e]]
  /\ lock' = Unlocked(w)
  /\ Goto(w, "answering")
  /\ seen' = [seen EXCEPT ![w] = {}]
  /\ UNCHANGED <<gone, item, pushed, hand, cur, failures>>

\* The statement is rolled back: its connection broke, or it timed out.
AbortClaim(w) ==
  /\ at[w] = "claiming" /\ failures < MaxFailures
  /\ lock' = Unlocked(w)
  /\ Goto(w, "idle")
  /\ seen' = [seen EXCEPT ![w] = {}]
  /\ hand' = [hand EXCEPT ![w] = {}]
  /\ failures' = failures + 1
  /\ UNCHANGED <<tableVars, cur>>

ReceiveBatch(w) ==
  /\ at[w] = "answering"
  /\ Goto(w, "listening")
  /\ UNCHANGED <<tableVars, lock, seen, hand, cur, failures>>

-----------------------------------------------------------------------------
(* The listener: handle_batch, one row after the other. *)

NextRow(w) ==
  /\ at[w] = "listening"
  /\ \E e \in hand[w] :
       /\ cur' = [cur EXCEPT ![w] = e]
       /\ hand' = [hand EXCEPT ![w] = @ \ {e}]
  /\ Goto(w, "rendering")
  /\ UNCHANGED <<tableVars, lock, seen, failures>>

BatchDone(w) ==
  /\ at[w] = "listening" /\ hand[w] = {}
  /\ Goto(w, "idle")
  /\ UNCHANGED <<tableVars, lock, seen, hand, cur, failures>>

\* Back to the loop over the rows.
RowDone(w) ==
  /\ Goto(w, "listening")
  /\ cur' = [cur EXCEPT ![w] = 0]

\* _render: the saved search, proposal or application is looked up first.
Render(w) ==
  /\ at[w] = "rendering"
  /\ IF cur[w] \in gone
       THEN RowDone(w)
       ELSE Goto(w, "inserting") /\ UNCHANGED cur
  /\ UNCHANGED <<tableVars, lock, seen, hand, failures>>

\* Mutation: the error of an insert is swallowed and the row is pushed as if new.
InsertUnchecked(w) ==
  /\ at[w] = "inserting" /\ cur[w] \notin gone
  /\ item' \in {item, item \cup {cur[w]}}
  /\ IF cur[w] \in Match \ item
       THEN Goto(w, "pushing") /\ UNCHANGED cur
       ELSE RowDone(w)
  /\ UNCHANGED <<row, lock, gone, pushed, seen, hand, failures>>

\* The insert, both tables at once. One that meets the unique index of
\* source_outbox_event_id (23505) changes nothing and pushes nothing.
Insert(w) ==
  /\ at[w] = "inserting" /\ cur[w] \notin gone
  /\ item' = item \cup {cur[w]}
  /\ IF cur[w] \in Match \ item
       THEN Goto(w, "pushing") /\ UNCHANGED cur
       ELSE RowDone(w)
  /\ UNCHANGED <<row, lock, gone, pushed, seen, hand, failures>>

\* Mutation: a listener that raises ends the worker.
DropBatchAndEnd(w) ==
  /\ Goto(w, "ended")
  /\ hand' = [hand EXCEPT ![w] = {}]
  /\ cur' = [cur EXCEPT ![w] = 0]
  /\ failures' = failures + 1
  /\ UNCHANGED <<row, lock, gone, pushed, seen>>

\* The tick ends here: the rest of the batch is published and stays unhandled.
DropBatch(w) ==
  /\ Goto(w, "idle")
  /\ hand' = [hand EXCEPT ![w] = {}]
  /\ cur' = [cur EXCEPT ![w] = 0]
  /\ failures' = failures + 1
  /\ UNCHANGED <<row, lock, gone, pushed, seen>>

\* What the row is about was deleted after _render found it: a foreign key
\* violation, which is not the 23505 the listener catches.
InsertStale(w) ==
  /\ at[w] = "inserting" /\ cur[w] \in gone
  /\ DropBatch(w)
  /\ UNCHANGED item

\* A call fails or its answer is lost, or the process ends; an insert may have
\* been committed all the same.
TickFails(w) ==
  /\ at[w] \in {"answering", "listening", "rendering", "inserting", "pushing"}
  /\ failures < MaxFailures
  /\ item' \in {item} \cup
       (IF at[w] = "inserting" /\ cur[w] \notin gone THEN {item \cup {cur[w]}} ELSE {})
  /\ DropBatch(w)

\* _push_job_match: sent, or failed and swallowed.
Push(w) ==
  /\ at[w] = "pushing"
  /\ pushed' \in {pushed, pushed \cup {cur[w]}}
  /\ RowDone(w)
  /\ UNCHANGED <<row, lock, gone, item, seen, hand, failures>>

Init ==
  /\ row = [e \in Event |-> "absent"]
  /\ lock = [e \in Event |-> NoOne]
  /\ gone = {} /\ item = {} /\ pushed = {}
  /\ at = [w \in Worker |-> "idle"]
  /\ seen = [w \in Worker |-> {}]
  /\ hand = [w \in Worker |-> {}]
  /\ cur = [w \in Worker |-> 0]
  /\ failures = 0

\* What a worker does as long as nothing fails.
Work(w) ==
  \/ BeginClaim(w) \/ LockNext(w) \/ CommitClaim(w) \/ ReceiveBatch(w)
  \/ NextRow(w) \/ BatchDone(w) \/ Render(w) \/ Insert(w) \/ InsertStale(w) \/ Push(w)

Next ==
  \/ \E e \in Event : Append(e) \/ Delete(e)
  \/ \E w \in Worker : Work(w) \/ AbortClaim(w) \/ TickFails(w)

Spec == Init /\ [][Next]_vars

\* A supervised worker goes on with its tick, and begins another after it.
FairSpec == Spec /\ \A w \in Worker : WF_vars(Work(w))

-----------------------------------------------------------------------------
(* Properties. *)

\* A row is handed to one worker only, ever: none is in two batches, none is
\* still to be claimed when it is in a committed one, none is handled again
\* when its item exists.
OneHandler ==
  /\ \A w, v \in Worker : w # v => (hand[w] \cup {cur[w]}) \cap (hand[v] \cup {cur[v]}) \subseteq {0}
  /\ \A w \in Worker :
       /\ hand[w] \cap item = {}
       /\ at[w] \notin {"idle", "claiming"} => \A e \in hand[w] : row[e] = "published"

\* Published, and nobody will ever make its item, though what it is about is
\* still there.
Lost ==
  {e \in Event \ (item \cup gone) :
     row[e] = "published" /\ \A w \in Worker : e \notin hand[w] \cup {cur[w]}}

\* Each failed tick loses at most its own batch: with failures there may be
\* rows that never become items, but at most Limit for each.
LossIsBounded == Cardinality(Lost) <= Limit * failures

Held(e) == \E w \in Worker : e \in hand[w] \cup {cur[w]}

\* The tables, the batches and the pushes to come, as the feed knows them: see Feed.
FeedState ==
  [e \in Event |->
     IF row[e] # "published" THEN row[e]
     ELSE IF e \in item THEN "shown" ELSE IF Held(e) THEN "taken" ELSE "over"]

PushesToCome == {cur[w] : w \in {v \in Worker : at[v] = "pushing"}}

\* Whatever claims, workers and failures do, a row goes its way once: no row is
\* taken, shown or pushed again, or pushed that is not shown.
TheFeed == INSTANCE Feed WITH state <- FeedState, due <- PushesToCome
ImplementsFeed == TheFeed!FeedSpec

\* What digest_listener.py says of _render's look-up: a row whose subject the
\* user deletes never fails the tick. Ticks fail for other reasons only.
StaleFailsNoTick == failures <= MaxFailures

\* No row waits forever, whatever the other workers lock, skip or abort.
EveryRowIsClaimed ==
  \A e \in Event : row[e] = "waiting" ~> row[e] = "published"
=============================================================================
