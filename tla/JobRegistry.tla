----------------------------- MODULE JobRegistry -----------------------------
(***************************************************************************)
(* The job registry's poller and the saved-search matcher that reads what  *)
(* it writes, for one board and one saved search.  run_poll_tick fetches   *)
(* the board, upserts what it lists, closes what it no longer lists and    *)
(* saves the poll state; _match_one_search reads what is new since its     *)
(* watermark, scores it, publishes the best and moves the watermark.       *)
(*                                                                         *)
(* There are no clocks here, only the order of moments: a posting's        *)
(* first_seen against the watermark and the running match's tick_start,    *)
(* its last_seen against the poll's cutoff and against seven days.  The    *)
(* listing changes between any two requests; a page holds one posting and  *)
(* a batch of the upsert one row.  An ETag names an edition of the board,  *)
(* the postings it lists, and may be that of a later, equal one.           *)
(* Which boards are due (tier, interval, strikes) is left open: a poll may *)
(* start whenever none runs, or never again.                               *)
(***************************************************************************)
EXTENDS Naturals, FiniteSets, SequencesExt

CONSTANTS
  Posting,
  Suiting,         \* postings the search's own filters let through
  NoPosting,
  MaxPages,        \* bound: an adapter's page budget for one tick
  MaxCandidates,   \* _CANDIDATE_LIMIT
  MaxWindow,       \* v_candidates: rows the query looks at, ten times the limit
  MaxMatches       \* _MAX_MATCHES_PER_SEARCH_PER_RUN

ASSUME RegistryAssumption ==
  /\ IsFiniteSet(Posting) /\ NoPosting \notin Posting /\ Suiting \subseteq Posting
  /\ {MaxPages, MaxCandidates, MaxWindow, MaxMatches} \subseteq Nat \ {0}

\* whole: one request with an ETag; paged: several in one tick; sweep: across ticks.
Kind == {"whole", "paged", "sweep"}

VARIABLES
  kind, budget,    \* the adapter: its kind, its page budget for one tick
  board,           \* what the site lists, in order
  row,             \* job_registry_postings.status
  recent,          \* postings whose last_seen is not before the poll's cutoff
  aged,            \* postings whose last_seen is more than seven days ago
  firstSeen,       \* first_seen: at or before the watermark, between it and the
                   \* running match's tick_start, or after both
  tag,             \* the edition whose etag is saved, if one is
  mixed,           \* history: rows were written from another edition since
  sweep,           \* the saved page, whether a sweep is on, whether it saw a posting
  tick,            \* where the poll's tick is
  fetch,           \* its outcome, next page and postings; whether the listing ended
  unwritten,       \* postings collected but not upserted
  inflight, stamp, \* the upsert under way and its transaction's now()
  steady, calm,    \* history: postings listed ever since the cutoff; whether the
                   \* listing was left alone since, and read from its first page
  searching,       \* saved_searches.is_active
  match,           \* where the match is
  found,           \* its candidates, then the strong ones not yet published
  verdict          \* what the matches made of each Suiting one; "published" is its row
                   \* in event_outbox, the rest is history

siteVars  == <<kind, budget, board, steady, calm>>
rowVars   == <<row, recent, aged, firstSeen, mixed>>
boardVars == <<tag, sweep>>
tickVars  == <<tick, fetch, unwritten, inflight, stamp>>
matchVars == <<searching, match, found, verdict>>
registryVars == <<siteVars, rowVars, boardVars, tickVars, matchVars>>

Listed(b) == {b[i] : i \in 1 .. Len(b)}
Verdict == {"none", "excused", "omitted", "weighed", "picked", "published"}
Outcome == {"none", "ok", "partial", "not_modified", "gone", "failed"}
Page == 1 .. Cardinality(Posting) + 1
Moment == {"none", "old", "mid", "new"}
NoFetch == [outcome |-> "none", page |-> 1, got |-> {}, ended |-> FALSE]

RegistryTypeOK ==
  /\ kind \in Kind /\ budget \in 1 .. MaxPages /\ board \in Seq(Posting)
  /\ row \in [Posting -> {"none", "active", "closed"}]
  /\ {recent, aged, unwritten, steady, found} \subseteq SUBSET Posting
  /\ firstSeen \in [Posting -> Moment] /\ stamp \in Moment
  /\ tag \subseteq SUBSET Posting /\ {mixed, calm} \subseteq BOOLEAN
  /\ sweep \in [page : Page, on : BOOLEAN, saw : BOOLEAN]
  /\ tick \in {"idle", "fetching", "writing", "closing", "confirming", "saving", "penalizing"}
  /\ fetch \in [outcome : Outcome, page : Page, got : SUBSET Posting, ended : BOOLEAN]
  /\ inflight \in Posting \cup {NoPosting}
  /\ searching \in BOOLEAN
  /\ match \in {"idle", "reading", "scoring", "publishing"}
  /\ verdict \in [Suiting -> Verdict]

-----------------------------------------------------------------------------
(* The site and time. *)

\* An employer posts a job at the head of the list or takes one down.
Relist(b) ==
  /\ board' = b
  /\ steady' = steady \cap Listed(b)
  /\ calm' = FALSE
  /\ UNCHANGED <<kind, budget, rowVars, boardVars, tickVars, matchVars>>

PostJob(p) ==
  /\ p \notin Listed(board)
  /\ Relist(<<p>> \o board)

TakeDown(p) ==
  /\ p \in Listed(board)
  /\ Relist(RemoveFirst(board, p))

SevenDaysPass(p) ==
  /\ row[p] # "none" /\ p \notin aged /\ tick = "idle" /\ match = "idle"
  /\ aged' = aged \cup {p}
  /\ UNCHANGED <<siteVars, row, recent, firstSeen, mixed, boardVars, tickVars, matchVars>>

-----------------------------------------------------------------------------
(* run_poll_tick. *)

\* A sweep keeps its first tick's cutoff; any other poll takes this tick's start.
StartPoll ==
  /\ tick = "idle"
  /\ tick' = "fetching"
  /\ fetch' = [NoFetch EXCEPT !.page = IF kind = "sweep" THEN sweep.page ELSE 1]
  /\ IF kind = "sweep" /\ sweep.on
     THEN UNCHANGED <<recent, steady, calm>>
     ELSE /\ recent' = {}
          /\ steady' = Listed(board)
          /\ calm' = (kind # "whole" /\ fetch'.page = 1)
  /\ UNCHANGED <<kind, budget, board, row, aged, firstSeen, mixed, boardVars, unwritten,
                 inflight, stamp, matchVars>>

\* What an adapter reports when it stops short of the last page.
ShortOutcome(f) ==
  IF f.got = {} THEN "failed" ELSE IF kind = "sweep" THEN "ok" ELSE "partial"

Classified(f) ==
  /\ fetch' = f
  /\ tick' = CASE f.outcome = "none"                  -> "fetching"
               [] f.outcome \in {"gone", "failed"}    -> "penalizing"
               [] f.outcome = "not_modified"          -> "confirming"
               [] OTHER                               -> "writing"
  /\ unwritten' = IF f.outcome \in {"ok", "partial"} THEN f.got ELSE {}
  /\ UNCHANGED <<siteVars, rowVars, boardVars, inflight, stamp, matchVars>>

\* The whole listing in one answer, or 304 where the saved etag is the board's: it
\* may be again, though the listing was another one in between.
FetchWhole ==
  /\ tick = "fetching" /\ kind = "whole"
  /\ \/ Listed(board) \in tag /\ Classified([fetch EXCEPT !.outcome = "not_modified"])
     \/ Classified([fetch EXCEPT !.outcome = "ok", !.got = Listed(board), !.ended = TRUE])

\* The next page, until the listing ends or the budget is spent; a sweep's cursor
\* then stays on the page to come.
FetchPage ==
  /\ tick = "fetching" /\ kind # "whole"
  /\ LET here  == IF fetch.page <= Len(board) THEN {board[fetch.page]} ELSE {}
         f     == [fetch EXCEPT !.got = @ \cup here, !.page = fetch.page + Cardinality(here)]
         first == IF kind = "sweep" THEN sweep.page ELSE 1
     IN Classified(IF f.page > Len(board) THEN [f EXCEPT !.outcome = "ok", !.ended = TRUE]
                   ELSE IF f.page - first = budget THEN [f EXCEPT !.outcome = ShortOutcome(f)]
                   ELSE f)

\* A request fails, the adapter raises or runs out of time.
FetchBreaks ==
  /\ tick = "fetching"
  /\ \/ Classified([fetch EXCEPT !.outcome = ShortOutcome(fetch)])
     \/ Classified([fetch EXCEPT !.outcome = "failed", !.got = {}])

\* 404 or 410.
BoardIsGone ==
  /\ tick = "fetching" /\ kind # "sweep" /\ fetch.got = {}
  /\ Classified([fetch EXCEPT !.outcome = "gone"])

\* upsert_job_registry_postings: a row carries its transaction's start, which
\* lies before its commit.
BeginUpsert(p) ==
  /\ tick = "writing" /\ inflight = NoPosting /\ p \in unwritten
  /\ inflight' = p /\ stamp' = "new"
  /\ UNCHANGED <<siteVars, rowVars, boardVars, tick, fetch, unwritten, matchVars>>

Upserted(p) ==
  /\ row' = [row EXCEPT ![p] = "active"]
  /\ firstSeen' = [firstSeen EXCEPT ![p] = IF row[p] = "none" THEN stamp ELSE @]
  /\ aged' = aged \ {p}

\* What is written is not of the edition whose etag is saved.
Mixes == tag # {} /\ fetch.got \notin tag

CommitUpsert ==
  /\ inflight # NoPosting
  /\ Upserted(inflight)
  /\ recent' = recent \cup {inflight} /\ mixed' = (mixed \/ Mixes)
  /\ unwritten' = unwritten \ {inflight}
  /\ inflight' = NoPosting /\ stamp' = "none"
  /\ UNCHANGED <<siteVars, boardVars, tick, fetch, matchVars>>

\* Mutation: the etag is saved with the postings.
WritesDoneSaving ==
  /\ tick = "writing" /\ unwritten = {} /\ inflight = NoPosting
  /\ tick' = "closing" /\ tag' = IF kind = "whole" THEN {fetch.got} ELSE tag
  /\ mixed' = (mixed /\ kind # "whole")
  /\ UNCHANGED <<siteVars, row, recent, aged, firstSeen, sweep, fetch, unwritten, inflight,
                 stamp, matchVars>>

WritesDone ==
  /\ tick = "writing" /\ unwritten = {} /\ inflight = NoPosting
  /\ tick' = "closing"
  /\ UNCHANGED <<siteVars, rowVars, boardVars, fetch, unwritten, inflight, stamp, matchVars>>

\* Mutation: an unfinished listing closes too.
MayCloseAny ==
  kind = "sweep" => fetch.ended /\ (sweep.saw \/ fetch.got # {})

\* A sweep closes when it ends having seen a posting, another poll when its
\* listing is complete.
MayClose ==
  IF kind = "sweep" THEN fetch.ended /\ (sweep.saw \/ fetch.got # {})
  ELSE fetch.outcome = "ok"

\* close_stale_job_registry_postings.
CloseStale ==
  /\ tick = "closing"
  /\ row' = [p \in Posting |-> IF MayClose /\ row[p] = "active" /\ p \notin recent
                               THEN "closed" ELSE row[p]]
  /\ tick' = "saving" /\ mixed' = (mixed \/ Mixes)
  /\ UNCHANGED <<siteVars, recent, aged, firstSeen, boardVars, fetch, unwritten,
                 inflight, stamp, matchVars>>

\* confirm_job_registry_boards, best effort; it resurrects nothing.
Confirm ==
  /\ tick = "confirming"
  /\ \/ aged' = {p \in aged : row[p] # "active"}
     \/ aged' = aged
  /\ tick' = "saving"
  /\ UNCHANGED <<siteVars, row, recent, firstSeen, mixed, boardVars, fetch, unwritten,
                 inflight, stamp, matchVars>>

\* With no sweep on, the next poll takes a new cutoff: what lies before the old
\* one says nothing more.
Forget(sweeping) ==
  IF sweeping THEN UNCHANGED <<recent, steady, calm>>
  ELSE recent' = {} /\ steady' = {} /\ calm' = FALSE

\* advance_job_registry_poll_state.  An answer that carries no etag leaves the
\* saved one, as a 304 does; the adapters that page send none.
SavePollState ==
  /\ tick = "saving"
  /\ \/ UNCHANGED <<tag, mixed>>
     \/ kind = "whole" /\ fetch.outcome = "ok" /\ tag' = {fetch.got} /\ mixed' = FALSE
  /\ sweep' = IF kind # "sweep" \/ fetch.ended THEN [page |-> 1, on |-> FALSE, saw |-> FALSE]
              ELSE [page |-> fetch.page, on |-> TRUE,
                    saw |-> sweep.saw \/ fetch.got # {}]
  /\ tick' = "idle" /\ fetch' = NoFetch
  /\ Forget(sweep'.on)
  /\ UNCHANGED <<kind, budget, board, row, aged, firstSeen, unwritten, inflight, stamp,
                 matchVars>>

\* penalize_failed_job_registry_boards: the board is due later, or no more.
Penalize ==
  /\ tick = "penalizing"
  /\ tick' = "idle" /\ fetch' = NoFetch
  /\ Forget(sweep.on)
  /\ UNCHANGED <<kind, budget, board, row, aged, firstSeen, mixed, boardVars, unwritten,
                 inflight, stamp, matchVars>>

\* A call raises or the process goes: an upsert under way commits or does not.
PollBreaksOff ==
  /\ tick # "idle"
  /\ tick' = "idle" /\ fetch' = NoFetch /\ unwritten' = {}
  /\ inflight' = NoPosting /\ stamp' = "none"
  /\ \/ UNCHANGED <<row, firstSeen, aged, mixed>>
     \/ inflight # NoPosting /\ Upserted(inflight) /\ mixed' = (mixed \/ Mixes)
  /\ Forget(sweep.on)
  /\ UNCHANGED <<kind, budget, board, boardVars, matchVars>>

-----------------------------------------------------------------------------
(* _match_one_search.  tick_start is taken before the read. *)

Moved(from, to) == [p \in Posting |-> IF firstSeen[p] \in from THEN to ELSE firstSeen[p]]

StartMatch ==
  /\ searching /\ match = "idle"
  /\ match' = "reading"
  /\ firstSeen' = Moved({"new"}, "mid")
  /\ stamp' = IF stamp = "new" THEN "mid" ELSE stamp
  /\ UNCHANGED <<siteVars, row, recent, aged, mixed, boardVars, tick, fetch, unwritten,
                 inflight, searching, found, verdict>>

\* Active and first seen after the watermark: what the query looks for.  Every
\* posting matches its text.
Unread == {p \in Posting : row[p] = "active" /\ firstSeen[p] \in {"mid", "new"}}

\* Stamped at or before the watermark already.
Behind(p) == firstSeen[p] = "old" \/ (p = inflight /\ row[p] = "none" /\ stamp = "old")

\* LIMIT n: any n rows of s, or all where there are fewer.
UpTo(n, s) == {t \in SUBSET s : Cardinality(t) <= n /\ (Cardinality(t) < n => t = s)}

\* A posting may go unread: its upsert began before tick_start and has not
\* committed, it is closed or aged, or one of the two limits leaves it out.
Excused(p, window, c) ==
  \/ p = inflight /\ row[p] = "none" /\ stamp = "mid"
  \/ row[p] = "closed" \/ (row[p] = "active" /\ p \in aged)
  \/ p \in Unread \ window /\ Cardinality(window) = MaxWindow
  \/ p \in (window \ aged) \ c /\ Cardinality(c) = MaxCandidates

\* search_new_job_registry_postings takes a window of the unread postings, the
\* newest or, for a query with a text, any, and of these the ones seen within seven
\* days, up to the limit; then the search's own filters.
Read ==
  /\ match = "reading"
  /\ \E window \in UpTo(MaxWindow, Unread) : \E c \in UpTo(MaxCandidates, window \ aged) :
       /\ found' = c \cap Suiting
       /\ verdict' = [p \in Suiting |-> IF Behind(p) THEN verdict[p]
                                        ELSE IF Excused(p, window, c) THEN "excused" ELSE "none"]
  /\ match' = "scoring"
  /\ UNCHANGED <<siteVars, rowVars, boardVars, tickVars, searching>>

\* Without candidates, an active profile or a model nothing is scored.
Unequipped ==
  /\ match = "scoring"
  /\ verdict' = [p \in Suiting |-> IF p \in found THEN "excused" ELSE verdict[p]]
  /\ match' = "publishing" /\ found' = {}
  /\ UNCHANGED <<siteVars, rowVars, boardVars, tickVars, searching>>

\* score_jobs, which drops what the model's answer leaves out or misnames; then the
\* strong ones, the first few of them.
Score ==
  /\ match = "scoring" /\ found # {}
  /\ \E scored \in SUBSET found : \E strong \in SUBSET scored :
       /\ Cardinality(strong) <= MaxMatches
       /\ found' = strong
       /\ verdict' = [p \in Suiting |-> CASE p \in strong -> "picked"
                                          [] p \in scored \ strong -> "weighed"
                                          [] p \in found \ scored -> "omitted"
                                          [] OTHER -> verdict[p]]
  /\ match' = "publishing"
  /\ UNCHANGED <<siteVars, rowVars, boardVars, tickVars, searching>>

\* _publish_match; a second publication meets the idempotency key.
Publish(p) ==
  /\ match = "publishing" /\ p \in found
  /\ verdict' = [verdict EXCEPT ![p] = "published"]
  /\ found' = found \ {p}
  /\ UNCHANGED <<siteVars, rowVars, boardVars, tickVars, searching, match>>

\* The end of a match, for what first_seen and the watermark say of each other.
EndMatch(to) ==
  /\ match' = "idle" /\ found' = {}
  /\ firstSeen' = Moved({"mid"}, to)
  /\ stamp' = IF stamp = "mid" THEN to ELSE stamp
  /\ UNCHANGED <<siteVars, row, recent, aged, mixed, boardVars, tick, fetch, unwritten,
                 inflight, searching>>
  /\ verdict' = [p \in Suiting |-> IF Behind(p)' THEN verdict[p] ELSE "none"]

\* Mutation: the watermark becomes the match's end.
AdvanceToNow ==
  /\ match = "publishing" /\ found = {}
  /\ match' = "idle" /\ firstSeen' = Moved({"mid", "new"}, "old")
  /\ stamp' = IF stamp = "none" THEN stamp ELSE "old"
  /\ UNCHANGED <<siteVars, row, recent, aged, mixed, boardVars, tick, fetch, unwritten,
                 inflight, searching, found, verdict>>

AdvanceWatermark ==
  /\ match = "publishing" /\ found = {}
  /\ EndMatch("old")

\* Contained for this search: it keeps its watermark and is matched again.
MatchFails ==
  /\ match # "idle"
  /\ EndMatch("new")

-----------------------------------------------------------------------------
RegistryInit ==
  /\ kind \in Kind /\ budget \in (IF kind = "whole" THEN {1} ELSE 1 .. MaxPages)
  /\ board = <<>>
  /\ row = [p \in Posting |-> "none"] /\ firstSeen = [p \in Posting |-> "none"]
  /\ recent = {} /\ aged = {} /\ unwritten = {} /\ steady = {}
  /\ found = {}
  /\ tag = {} /\ mixed = FALSE /\ calm = FALSE
  /\ sweep \in {[page |-> n, on |-> FALSE, saw |-> FALSE] :
                  n \in IF kind = "sweep" THEN Page ELSE {1}}
  /\ tick = "idle" /\ fetch = NoFetch
  /\ inflight = NoPosting /\ stamp = "none" /\ match = "idle"
  /\ searching \in BOOLEAN
  /\ verdict = [p \in Suiting |-> "none"]

PollStep ==
  \/ StartPoll \/ FetchWhole \/ FetchPage \/ FetchBreaks \/ BoardIsGone
  \/ \E p \in Posting : BeginUpsert(p)
  \/ CommitUpsert \/ WritesDone \/ CloseStale \/ Confirm \/ SavePollState
  \/ Penalize \/ PollBreaksOff

MatchStep ==
  \/ StartMatch \/ Read \/ Unequipped \/ Score
  \/ \E p \in Posting : Publish(p)
  \/ AdvanceWatermark \/ MatchFails

RegistryNext ==
  \/ \E p \in Posting : PostJob(p) \/ TakeDown(p) \/ SevenDaysPass(p)
  \/ PollStep
  \/ MatchStep

RegistrySpec == RegistryInit /\ [][RegistryNext]_registryVars

-----------------------------------------------------------------------------
(* Properties. *)

\* A posting is closed only if it was off the board at some moment since the
\* poll's cutoff; on a board read page by page, also if the listing moved between
\* the pages, or the sweep did not begin at the first one.  No failed or
\* unfinished listing closes anything else: the incident of _partial's comment.
ClosedOnlyWhenGone ==
  [][\A p \in Posting :
       row[p] = "active" /\ row'[p] = "closed"
         => p \notin steady \/ (kind # "whole" /\ ~calm)]_registryVars

\* While the saved etag is the board's, so that the next poll may answer 304 and
\* change nothing, the active postings are the listed ones: a poll that broke off
\* anywhere has not saved the etag of a listing it did not finish writing.  But for
\* one case: rows of another edition were written and its etag was not saved, as the
\* tick broke off or the answer had none, and the board lists the saved edition
\* again.  Until it changes, a 304 then keeps what the other edition added and leaves
\* closed what it lacked.
UnchangedBoardIsSettled ==
  Listed(board) \in tag /\ tick = "idle" /\ ~mixed
    => {p \in Posting : row[p] = "active"} = Listed(board)

\* The watermark passes over no posting of the search unscored: one first seen at or
\* before it was scored, and published if it was chosen, or it was passed for one of
\* these reasons: when the match read, its upsert had begun but not committed, it was
\* closed or aged, the window was full without it (aged postings take places there)
\* or the limit was; the owner had no profile or model; the model's answer omitted it.
NothingPassedOver ==
  \A p \in Suiting :
    firstSeen[p] = "old" => verdict[p] \in {"excused", "omitted", "weighed", "published"}
==============================================================================
