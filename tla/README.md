# Between Jobs: a TLA+ model of its concurrent core

This directory models the parts of Between Jobs in which several processes,
requests and outside services act on shared state, checks them with TLC on small
instances, and proves the most important properties with TLAPS for every size.

Between Jobs is a FastAPI service over a Supabase (PostgreSQL) database. Several
copies of the service may run at once: during a deploy the old and the new
process overlap, and nothing prevents more. Each copy serves the web, the browser
extension, Telegram and Discord, and runs five background workers. Requests and
workers share nothing in memory; they meet in database rows, and most operations
are several calls to the database with an `await` between any two of them. Only
what lives in a database function (`rpc`) is a transaction.

Paths below are relative to `src/src/between_jobs/api/` unless they start with
`supabase/` (then: `src/supabase/`).

## 1. Inventory

| Component | Code | State | Operations | Hard behaviour | What makes it correct |
|---|---|---|---|---|---|
| Worker lease | `worker_lease.py`, `worker_leases_store.py`, migration `20261001185820` | row `worker_leases(holder, expires_at)`; in memory: deadline, time of the last refusal, failure count | claim or renew (one SQL statement), learn the answer, give up on a claim, start and end a tick, start, stop, crash | clocks, lost and late claims, blocked loops, hung ticks, a deploy | one believer at a time, covered by the row; takeover from a dead or hung holder; lost heartbeats are survived |
| Supervision and health | `worker_supervision.py`, `worker_pings.py`, `app.py` | per worker: failures in a row, times of the last ticks | run a tick, back off, report `/healthz`, stop all | a tick that hangs; a standby that must not look ill | see the lease; backoff is bounded; a healthy process never reports 503 |
| Applications and stages | `applications_store.py`, `change_application_stage` (`20260906184547`) | `applications`, `application_events`, `event_outbox` | create, change stage, record an event | double clicks, retries after a lost answer, several writers of one row | each command at most once and all at once; an unbroken history |
| Outbox and Today digest | `outbox_store.py`, `digest_listener.py`, `today_store.py`, `channel_push.py`, claim function (`20261005140313`) | `event_outbox.published_at`, `today_items` | claim a batch, render and insert items, push | every process claims (no lease); a failure inside a batch; subjects deleted meanwhile | a row has one handler, losses are bounded, every row is claimed |
| Gmail reply checker | `gmail_reply_checker.py`, `gmail_access.py` | `outreach_drafts.sent_confirmed_at`, `last_reply_checked_at`; `provider_credentials.is_validated` | read a thread, anchor, mark, classify; flag and restore a connection | mail arrives between two steps; access comes and goes; at-most-once classification | no reply classified twice; only accounted losses |
| Status proposals | `gmail_reply_checker._record_proposal`, `today_routes.py`, `application_status_proposals_store.py` | `application_status_proposals.status`, Today items | propose, auto-apply, publish, accept, dismiss, sweep siblings | checker and several tabs act on one proposal; failures between calls | a proposal moves the application once, and only with a right to; nothing is stranded or left half accepted without a failure |
| Account linking and merge | `link_codes_store.py`, `link_completion.py`, `channel_core.py` (`/link`, `/unlink`), migrations `20260928000000`, `20261008174113` | `link_codes`, `link_code_attempts`, `channel_identities`, all tables of two users, stored objects | mint, consume with the merge (one transaction), move objects one by one, recount, retire | a delivery that dies halfway or runs twice, codes used twice or late, uploads under the old account meanwhile | no document lost; only a code of one's own empties an account; the same `/link` sent again finishes |
| Channel deliveries | `telegram_webhook.py`, `telegram_updates_store.py`, `discord_webhook.py`, `discord_interactions_store.py`, `deferred_reply.py`, `progress_message.py`, `channel_core.py` (`_start_prepare`) | claim rows with leases; per process: two registries with their places | claim, handle, start a generation that outlives the request, settle, answer | redelivery, late answers, crashes, shutdown | no message dropped, none handled twice without a failure; places come back; the person is told the truth |
| Saved search matcher | `saved_search_matcher.py`, `saved_searches_store.py`, `search_new_job_registry_postings` | watermark of each search, rows of `event_outbox` | read what is new, score, publish, advance | upserts under way while it reads, a window and a limit per tick, answers with gaps, failures | nothing new is passed over but by a limit or a named cause |
| Job registry poller | `job_registry_poller.py`, `job_registry_adapters.py`, the SQL functions it calls | `job_registry_postings`, poll state (etag, sweep) | fetch, upsert in batches, close, confirm, save, penalize | boards that change between two pages or change back, listings cut short, a tick that breaks off | an open posting is not closed by half an answer; a 304 hides nothing but where an unsaved edition was written |
| Prepare flow | `prepare_orchestrator.py`, `artifact_versions_store.py`, `record_event` | `artifact_versions`, the bucket, `application_events`, `event_outbox` | check the key, generate (minutes), upload and insert each document, record and announce | two requests with one key, lost answers, deaths between two calls | rows have their files; an event is announced once; a retry after the answer runs no engine |
| Rate limits and quotas | `rate_limits.py`, `extension_rate_limit.py` | counters | take a slot | processes that share a counter; a limiter that fails lets pass | never above the limit |
| Credentials and OAuth | `provider_credentials_store.py`, `oauth_states_store.py`, `openrouter_oauth.py`, `gmail_oauth_routes.py` | credentials, one-time states | connect, refresh, flag | a state used twice, a flag against a reconnection | the newest connection counts |
| Account deletion | `account_deletion.py` | everything of a user, in the database, the bucket and outside | eight steps, from the files to the audit log | a step that fails, a request that dies, generations that still run | at the end nothing is left but what a best-effort step failed to remove |
| Profiles and import | `profile_store.py`, `profile_routes.py` | `profile_versions`, `career_facts` | import, activate, cancel | Save and Cancel at once, a break between two inserts | the profile in use is not lost; a version has its facts |
| The rest | the other conversations, extraction of documents, research, interview practice, search and scoring, the engine, the web app, the extension, the LaTeX service | mostly caches and documents | parsing, ranking, calls to models | little shared state | covered by golden and unit tests |

How they interact: stage changes, saved searches and proposals append rows to
`event_outbox`; the outbox worker publishes them and the digest listener turns
them into Today items and pushes. The reply checker produces proposals, whose
acceptance is a stage change under the key `status_proposal_accepted:<id>`. The job
registry poller, the matcher and the reply checker run only in the process that
holds their lease (`LEASED_WORKERS`); the outbox worker and the cache purge run
everywhere. A chat's delivery starts a generation (`_start_prepare`), which is a prepare
call; `/link` retires an account while such calls may still upload under it, and so
does the deletion of an account. The poller writes the postings that the matcher reads
while it is writing them.

Every one of these is listed in `PROJECT.json` under `components`, with what is
modelled of it; `hazards` lists, at their lines, the things in this code that are
hard to test, with the properties that are about them.

## 2. The modules

| Module | Lines of code it stands for | What it is |
|---|---|---|
| `WorkerLease` | the keeper, the SQL claim, the tick gate, the lifespan | detailed specification |
| `ExclusiveRight` | - | what a lease promises: at most one owner, and a moment without one between two |
| `StageChange` | `change_application_stage`, statement by statement, with its callers | detailed specification |
| `StageLog` | - | what the stage history promises: each move once, whole, in an unbroken chain |
| `Outbox` | the claim statement, row lock by row lock; `run_worker_forever`; `handle_batch` | detailed specification |
| `ReplyChecker` | `_check_one_draft` and `_after_failed_gmail_call`, with the mailbox and the person | detailed specification |
| `Feed` | - | what the outbox promises the Today feed: a row is taken once and shown, or lost with a failed batch |
| `StatusProposals` | `_record_proposal`, the three Today routes, the store | detailed specification |
| `Decisions` | - | what becomes of proposals: moved once and with a right to, accepted after that, dismissed when asked or beside an accepted sibling |
| `Prepare` | `run_prepare_application`, `create_version`, `record_event` | detailed specification |
| `AccountDeletion` | `delete_account`, step by step; EXTENDS `Prepare`, whose calls go on meanwhile | detailed specification, and the properties of both |
| `AccountLink` | `mint_code`, `consume_link_code`, `finish_link`, request by request | detailed specification |
| `ChatDelivery` | the two webhooks, their claims, `_start_prepare`, the registry of deferred work | detailed specification |
| `Inbox` | - | what a sender that repeats its messages is promised: no attempt beside a sound one, no acknowledgement before an end |
| `JobRegistry` | `run_poll_tick` and `_match_one_search` on one set of postings | detailed specification, two workers composed |
| `Profiles` | `profile_store` and its routes and buttons | detailed specification |
| `Services` | - | `AccountDeletion` (with `Prepare`), `AccountLink`, `ChatDelivery`, `JobRegistry` and `Profiles` side by side: a step of the whole is a step of one part |
| `MCServices` | - | instances of `Services` in which one part runs and the others stand still, so that one run checks them all |
| `MC...` | - | definitions the configurations need: symmetry and small sets |
| `WorkerLeaseProofs`, `StageChangeProofs`, `OutboxProofs`, `ReplyCheckerProofs`, `StatusProposalsProofs`, `ChatDeliveryProofs` | - | theorems about the module they are named for |
| `AccountDeletionProofs` | - | theorems about `AccountDeletion` and the `Prepare` it extends |
| `ServicesProofs` | - | theorems about `AccountLink`, `Profiles` and `JobRegistry`, each by itself, and about `Services` |

`PROJECT.json` (`map`) gives for every definition the lines it translates. In each
module the definitions that a `Mutation:` comment precedes are not used by the
specification: they are plausible bugs, and replacing the definition that
follows by one of them makes a property fail, which shows that the property
depends on that piece of code.

### WorkerLease

One action for each thing that can happen: the keeper's cycle sends a claim
(`SendClaim`) or does not because the running tick has outlived its stale window
(`SkipClaim`); the database executes it (`DatabaseAnswers`); the answer arrives
(`LearnGranted`, `LearnRefused`) or does not (`ClaimFails`), in which case the
request may still be executed later (`StrayClaimLands`); the supervised loop
starts and ends ticks; the process starts, is stopped in the two steps of
`stop_all`, or crashes. `OperatorExpires` is the hand-over statement that the
migration documents. Instants are represented by the time left until them, so
time passes (`Advance`) in a finite state space. In `Spec` any step may be delayed
for any time. `PromptSpec` adds that loops are not blocked (no cycle is late, no
claim outlives `CLAIM_TIMEOUT_SECONDS`) and that no tick outlives its stale
window; `ReliableSpec` adds to on-time loops that the database answers.

Abstractions: one unit of time instead of seconds; one rate for all clocks; one
worker name, since rows of different workers never meet; the failure counter
saturates at `MaxFailures`; a process that restarts is another process.

### StageChange

A call takes the steps of the SQL function: the status check, the row lock with
the read of the old stage, the look-up of the idempotency key, and the three
writes that commit together or roll back on the unique constraint. Any call may
be cut off at any point, or lose its answer, and may be made again by the same or
another caller. `intent` is what a key asks for; it never changes, as the callers
make a key for each intent. `StageLog` is implemented under the identity mapping:
the tables are the history.

Abstraction: `notes`, timestamps and the row that is returned. A call whose
status the check accepts but whose row is missing is refused when the lock would
be taken.

### Outbox

The claim is a single statement, but under READ COMMITTED it locks its rows one
after the other while others do the same, so it has one action for its snapshot
(`BeginClaim`), one for each row (`LockNext`: skip what is locked, recheck what was
published meanwhile, stop at the limit) and one for its commit. The listener has
one action for each call: look up, insert, push. What a row is about may be deleted at
any time; an insert after that is the foreign key violation of `InsertStale`.

Abstractions: the kinds of events, except that job matches are pushed; the channels
of a push; the texts.

### ReplyChecker

One draft, with its thread: a sequence of messages, whose positions are the
times. Messages arrive, access is revoked and restored, and pages of the same
person flag the connection, between any two steps of a tick. Every call of
`_check_one_draft` that reads or writes is an action: select, token, thread,
anchor, mark, classify. `missed` is a history variable: the replies that the three
accounted causes have kept from being read.

Abstractions: one draft, because drafts share only the access token; one tick at
a time, because the worker's lease keeps ticks apart but for the overlaps section 5
names; the budget of a tick. What a reply says is not modelled.

### StatusProposals

Proposals of one application. The checker's auto-apply takes three calls (move,
resolve, sweep), and each may fail with or without its effect; then the proposal
is published for review, which may fail in turn. Requests take the calls of the
routes: read, move, resolve, sweep, retire the item. `change_stage` is one step
that has its effect once for each key; `StageChange` shows that this is what it
does.

### Prepare and AccountDeletion

A call has one action for each request it makes to the database or the bucket: the
look-up of the key, the engine's end (nothing, a resume, or both documents), the
computation of a version, the upload, the insert, the clean-up after an insert that
failed, the look-ups of `record_event`, the event and its outbox row. It may break off
between any two of them, and an insert may be committed although it answered by
an error. `account` is shared with the deletion, whose steps are actions in the order
of `delete_account`; those the code calls best effort are passed over when they fail
(`BestEffort`), the others end the request, which the person may send again.

Abstractions: one application and one user; files are listed and removed in one
batch; a removal that fails may have removed any part of it. A Gmail connection
made while the account is being deleted, the ending of sessions, the look for leftovers
and product events are left out.

### AccountLink

The accounts of two chats, which their first messages made, and one web account.
`consume_link_code` is one transaction: the identity's lock, the lockout, the three
outcomes for a code, and `merge_user_data`, of which the model keeps what the
completion relies on: each document's row becomes the target's while its storage key
stays as it was. `finish_link` has an action for each request that reads or writes:
merge again, list, look for rows, copy, repoint, look again, remove, rewrite
dangling keys, recount, retire. Any delivery may die at any of them, run out of its
time, or run beside another of the same link. `Late` documents are made by calls
that resolved the chat's account before it was linked. `young` stands for the five minutes
during which an object without a row is left alone.

Abstractions: an insert is never five minutes late (`GrowOld`), so the second look of
`_move_object` finds nothing; codes are guessed only as codes that exist; the
24 hours within which a used code resumes its link (`v_resume_window`) never run out;
an account
made anew at the next contact of an unlinked chat is left out; the tables besides
`artifact_versions` change hands in the merge and are not modelled.

### ChatDelivery

A message is a Telegram update or a Discord interaction, and each `Delivery` is a request
that carries one to a process. The claim's row, its lease and the answer are told apart
(`claimRow`, `ripe`, `acked`), since a 200 and a finished claim are what Telegram and the
next delivery look at. Discord's lease (900 s) ends only after the signature has aged (300
s) and the copies that had come by then have had the answer to their claim (1.5 s), so that
a copy cannot meet it (`LeaseEnds`); Telegram's may end at any time. A handler is
`_start_prepare`: reserve, limit, progress message, hand-over to a task that lives on after
the answer. `places` and `desks` are the two registries of a process. Every call may fail,
processes may crash, and shutdown cancels what runs.

Abstractions: only the tap on "Generate resume", the longest way through
`handle_inbound`; the hourly counter is one step, as its SQL function runs under
a row lock; the tester gate, requests of a claim that execute after their timeout, the
weekly purge of old claims and Discord's separate failure message are left out.

### JobRegistry

One board, one saved search. There are no clocks, only the order of moments that the
code compares: `firstSeen` of a posting against the watermark and the start of the
running match, `last_seen` against the poll's cutoff (`recent`) and against seven days
(`aged`). `stamp` is the `now()` of the transaction under way, which lies before its commit.
The site adds and removes postings between any two requests; a page holds one posting. The
three `Kind`s are the adapters with an ETag, those that page within a tick, and the sweep
over several ticks. An ETag names an edition of the board, the postings it lists, since
it may be a digest of the body: a poll may be answered by 304 whenever the board lists the
edition whose ETag is saved (`tag`), also if it listed others in between, and by the whole
listing at any time. `mixed` is history: rows of another edition were written since that
ETag was saved.

A read takes its window of ten times the limit before it leaves out postings not seen for
seven days, and then the limit (`UpTo`): the newest ones for a search without words, any for
one with words, so the model lets either be any. The model's answer may leave candidates out
or misname them (`Score`).

Abstractions: tiers, intervals and strikes (a poll may start whenever none runs, or never
again); two pollers at once and statements that outlive their caller; clocks of two
machines; the retry of a statement that timed out is part of its batch; scores and the
search's own filters are choices (`Suiting` fixes which postings they can let through).

### Profiles

Imports, which look for an identical version and make two inserts, and presses of Save
and Cancel, from several tabs or chats. `inUse` orders the activated versions by
`activated_at`. Cancel is a read and a delete. A document made from the profile in
use refers to its version, by a foreign key without cascade.

Abstractions: contents are hashes; `supersedes_id` of the gap interview; the account's
deletion; the extraction of text.

## 3. The runs

| Run | Instance | What it shows |
|---|---|---|
| `lease_safety` | 2 processes, TTL 5, any delay, one stray claim each | `LeaseCoversBelief`: no process believes in a lease that the database could already have given away. `OverlapOnlyAfterMargin`: two ticks overlap only after one has used up the margin it started with. `ImplementsExclusiveRight`. |
| `lease_prompt` | the real times of claims (TTL 60 s, renewal 15, poll 10, timeout 10, fresh 30) in units of 2.5 s, with the slack (2 s) and the least cycle (0.5 s) rounded up to one unit | `HolderSurvivesTwoLostClaims`: as the constants' comment says, two lost heartbeats never cost a holder its lease. `StandbySurvivesOneLostPoll`, with the exact exception: a poll that times out followed by an answer so late that the floor under the pause uses up the window. |
| `lease_reliable` | 2 processes, database answers | `OverlapOnlyWhenWedged`: the wedge gate is the one way left to overlap. `StandbyTakesOver`: it is also what lets a standby take over from a hung holder. |
| `stage_change` | 3 calls, 2 keys, 2 applications, 3 stages, every intent | `NeverCollides`, `OkIsDone`, `ImplementsStageLog`. |
| `outbox` | 2 workers, 3 rows, batches of 2, 1 failure | `OneHandler`, `LossIsBounded` (each failed tick loses at most its own batch), `EveryRowIsClaimed`, `ImplementsFeed`. |
| `reply_checker` | 2 own messages, 3 replies, 2 faults | `ClassifiedOnce`; `LossesAreThese`: the watermark passes over a reply only for a newer one or for a named cause; `EveryReplyIsSeen`. |
| `status_proposals` | 3 proposals (confident, unsure, no stage), 2 requests, 2 failures | `StrandedByFailure`; `HalfAcceptedByFailure`: it takes a failure to leave an application moved and its proposal on offer; `ImplementsDecisions`. |
| `services` | five parts, each alone: two prepare calls of one key with up to two deletion requests and a failure; two chats, two codes, two deliveries of `/link`, two documents of which one is still to come; messages of three people, two by Telegram and one by Discord, with places for two: a Telegram message and the Discord one in any two deliveries, the Discord one in three, or each of the three in one; two postings on a board of each kind, the one of a single request also with a search; three imports of two contents and three presses | Prepare and deletion: `FileBehindRow`, `PreparedIsAnnounced`, `RetryRunsNoEngine`, `DeletionLeavesOnlyFailures`. Linking: `NoDocumentLost`, `RefusedKeepsAccount`, `ResentLinkFinishes`. Deliveries: `ImplementsInbox`, `HandledOnce`, `PlacesAreReturned`, `ToldTheTruth`. Registry: `ClosedOnlyWhenGone`, `UnchangedBoardIsSettled`, `NothingPassedOver`. Profiles: `ReturnedIsWhole`, `LostOnlyToARace`. |

Four more runs expect a violation; section 5 is about them. `TypesOK` checks the types of
the five parts; the type invariants of `Outbox`, `ReplyChecker` and `StatusProposals`
are proved (section 4), and the runs of these modules check what is not about types.

**Bounds.** Two processes are enough for the lease: its row names one holder, every property
relates two processes, and the proofs cover any number. TTL, renewal and the rest are scaled
so that each deadline is passed by single steps; the run whose properties depend on the
ratios has the real ones (a coarser unit would decide the third lost claim, at 55 s, against
the end of belief, at 58 s, by rounding). Its ticks are short, because in `PromptSpec` they
keep no claim from being sent. Three calls over two keys and two applications let two calls
with one key wait behind a third with another; again the proofs cover any number. In
`Outbox` two workers and a limit below the number of rows make a claim skip, recheck, fill
up and leave a rest, and a failure, besides those that deletions cause, may strike any step.
In `ReplyChecker` three replies let one arrive before, one between and one after two steps
of a tick; two faults let a failure follow a revocation. In `StatusProposals` the three
proposals are the three ways of `FirstStep`, and two failures let the auto-apply and then
the publishing fail. `MaxFailures` and `MaxFaults` (and `MaxTrouble`, `MaxMishaps`,
`MaxMisfortunes`, `MaxBreaks`) bound how often something outside the model goes wrong, not
what the code does about it. Symmetry is used only where names are the sole difference and
no liveness is checked.

In `services` the parts share nothing, so nothing is lost by running one of them at a time:
every property is about one part, whose behaviours are those it has alone
(`PartsStandAlone`, section 4). `FewEnough` bounds each part's budget: of two calls, two
deletion requests and a failure four come together; a second code is minted only where no
late upload and no mishap comes in; of three deliveries and a failure three come together,
and three deliveries are all of the Discord message (which fills its desks), or one of each
message, the third person's coming when the first two have their generations (it finds every
place taken, though none is that person's); at most one posting at a time is unseen for
seven days, of which only a search asks. Two of everything that is alike let each race have
both sides, one failure may strike any step, and what takes two failures is not looked for.
`InOrder` takes interchangeable names in turn, as a symmetry would. A listing of two pages
with a budget of one or two is cut short, moves between pages, and ends a sweep in its
second tick. A window of one for two postings lets the other posting, or an aged one, take
the place of the posting that suits; with one candidate the limit below it decides nothing
there that the window has not, and its part in `NothingPassedOver` rests on the proof, which
has both at any size. Strong matches are never more than the one. The board that a search
reads sends no ETag. `MaxFailed` and `MaxPasses` are 1 instead of 5 and 3: they count, and
the cases are below and at the limit.

**Fairness.** `FairSpec` of `Outbox` has weak fairness of each worker's next step:
`run_supervised` catches whatever a tick raises and begins another, and every call
has a timeout; it is not assumed that the outside stops failing, only that
failures are bounded by `MaxFailures`. `FairSpec` of `ReplyChecker` has it of the
checker's steps, for the same reason, and of the reconnection: a person who never
reconnects has no further replies read, which is what the code means to do.
`ReliableSpec` has it of time, of the keeper's steps and of the database's answers:
an event loop that is not blocked, and a database that is up. No fairness is
assumed of ticks ending (a tick may hang), of stops, or of requests.

**Deadlock** is checked for `stage_change`, `outbox` and `reply_checker`. The lease
may stop (every process has ended), and so may the proposals (each has been
decided on, before it had an item to press) and the parts of `services` (every call has
ended); their configurations say so.

## 4. What is proved

Every safety invariant and every action property that a passing run checks is a
theorem, for any number of processes, messages, rows, documents, calls and failures; five
of them are refinements of an abstract specification. What is left to TLC is at the end of
this section.

Assumptions: the `ASSUME` of each module, nothing else.

- `LeaseAssumption`: times are naturals, periods are positive, and margin plus slack are
  less than the TTL and the stale window.
- `StageChangeAssumption`: `Saved` and `Applied` are stages, and the two markers are none
  of the values they are told apart from.
- `OutboxAssumption`, `ReplyCheckerAssumption`, `StatusProposalsAssumption`,
  `ChatAssumption`, `PrepareAssumption`, `DeletionAssumption`, `LinkAssumption`,
  `ProfilesAssumption`: the constants are of their kinds, limits are positive, and the
  marker for "none" is no member of the set it is added to.
- `RegistryAssumption`: likewise, and there are finitely many postings (the board is a
  sequence of them, and the search's candidates are counted).

Three theorems about the lease have hypotheses on its times, `TimesFit` and `RetriesFit`,
which are stated beside them. They are inequalities between the constants of
`worker_lease.py`; `TimesOfTheCode` and `RetriesOfTheCode` prove that the code's own values
satisfy them, and the configurations of `lease_reliable` and `lease_prompt` do so
too. They say how much the times may be changed: with a margin and a slack of zero TLC
finds two ticks side by side in `lease_reliable`, and the code's `StandbyPoll` and
`StandbyFresh` meet their inequality with nothing to spare.

**`WorkerLeaseProofs`.** `Typing`, `BeliefIsCovered`, `OverlapIsBounded`, `Refinement`, and
that `PromptSpec` and `ReliableSpec` imply `Spec`. `LeaseCoversBelief` alone is not
inductive: the step that creates belief, `LearnGranted`, happens an unknown time
after the row was written. The invariant `IInv` adds `GrantCovered` (a grant on its
way back is still covered by the row for as long as the belief it may create),
`TickCovered` (a tick within its margin runs under the row) and
`OnlyTheLivingAct` (without which the operator's expiry could hit a believer).
The counting from the *sending* of a claim is what `GrantCovered` rests on.
The refinement then needs that two believers would both be named by the row.
The timed theorems rest on `IInv` and on one more invariant each. For
`OnlyTheWedgedOverlap` it is that a holder's cycles, also those that skip a claim, fall on
multiples of the renewal after the claim it was last granted (`OnTheBeat`), from which
it follows that the row of an unwedged tick lasts until its next claim has been
answered (`TickKeepsRow`). For `TwoLostClaimsCostNothing` and `OneLostPollCostsNothing`
it is that a process is one renewal, or one long poll, behind for each failure in a row
and no more (`Renewals`, `Polls`).

**`StageChangeProofs`.** `Typing`, `NoCollision`, `AnswersAreTrue`, `Refinement`. `IInv`
adds `HoldsItsRow` (a call past the lock holds its row, and the stage it read is still
there), `WritesOnce` (a call about to write is the first of its command, because two calls
with one key want one row), `Announced` and `HasKey`. `Write` is the only step that maps to
a `Move`; all others stutter.

**`OutboxProofs`.** `Typing`, `EveryRowHasOneHandler`, `OneBatchForEachFailure`,
`FeedIsImplemented`. A locked row is in the batch of the claim that locked it
(`LockedInBatch`), batches and the rows taken from them are apart from each other and from
the items (`Apart`, `ItemsBehind`), and a batch with its current row is never more than the
limit (`BatchesFit`). The loss is counted with the cardinality theorems: a failed tick adds
its batch to what is lost, and every other step takes from it or leaves it. The refinement
maps a row to `Feed`'s by where it is (`FeedState`): waiting, in somebody's hands, shown, or
over. The commit of a claim, which publishes a whole batch, is `Take`; an insert is `Show`;
a failed tick is `Fail`, which ends its batch and nothing else. It rests on `IInv` and on
`NotYetShown`: what a listener has in hand is no item yet, so that no row is shown a second
time.

**`ReplyCheckerProofs`.** `Typing`, `NoReplyClassifiedTwice`, `NoOtherLoss`. The invariant
is about positions in the thread: every reply at or below the watermark is answered for by
itself or by a newer one (`MarkIsHonest`), which survives the arrival of messages because
they come last. Between the reading of the row and its mark nobody else has marked it
(`MarkIsOurs`), a reply being classified is below the mark (`BelowTheMark`), and the anchor
can only be the first message (`AtTheFirst`). Without `MarkIsOurs` a tick would move the
watermark from a place it has not read from.

**`StatusProposalsProofs`.** `Typing`, `FailuresStrand`, `FailuresHalve` and
`DecisionsAreImplemented`. Whoever is past the move, checker or request, has made it or
found it made (`PastTheMove`), so a status can become "accepted" only after it; a proposal
whose siblings the checker sweeps is resolved (`InOrder`). What is stranded is counted
against the failures (`FewStranded`), and so is what is left between its move and its
acceptance: a proposal that moved stays moved (`MoveIsKept`), and only a call that fails
takes its resolving with it. The refinement adds `Entitled`: the checker moves only what it
is confident of, a request is about an item the person was shown, what was published has its
row, and whoever sweeps siblings has an accepted proposal. `Decisions` lets a proposal move
the application although it was dismissed meanwhile, since the code does (section 5).

**`ChatDeliveryProofs`.** `ChatTyping`, `NoMessageDropped`, `NoSecondHandling`,
`NoPlaceLeaks`, `NobodyMisled`, `InboxIsImplemented`. The invariant is `ChatInv`. `Claims`
says who may work: a handler that owns its message holds the claim, alone, unless it has
outlived the lease, and one that ended well has left it complete. `Acks` leads every 200
back to a handler that returned. `Registered` is `PlacesAreReturned` delivery by delivery,
with the stages at which one holds a place or a desk; `Words` says what a person may have
read at each stage of a generation. `Inbox` says more than `NoMessageDropped` and
`SecondAfterFailure`, which follow from it: when an attempt begins, the earlier ones *have*
failed or overrun (`ClaimableIsFree`), and nothing is spoiled but by a step that counts as a
misfortune. The refinement needs besides that a handler which returned works no more
(`ReturnsOnce`). `NoSecondHandling` adds what `Inbox` does not say: a claim of a Discord
interaction is never taken over, since its lease outlasts every copy that could
(`OneClaim`).

**`AccountDeletionProofs`** (with `Prepare`; the invariant is `DeletionInv`).
`DeletionTyping`, `RowsHaveFiles`, `EventsAreAnnounced`, `NothingElseIsLeft`, and the action
property `RetriesAreFree`. `Shelved`: a path holds one file, and a call at its insert owns
the one at its path, so a clean-up removes no file that a row whose insert was answered
names. `Eventful`: an event belongs to the call that wrote it, which is past writing.
`Forgotten` and `Swept` follow the deletion: what can be left after its sweep is a file
whose call is at its insert or broke off there. `Versioned` (versions have a bound) is what
makes the maximum of `_next_version` exist when there may be infinitely many calls.

**`ServicesProofs`.** *Linking*: `LinkTyping`, `DocumentsSurvive`, `OnlyCodesEmptyAccounts`,
and the action property `ResentLinksFinish`. A document has one row, of its home or of the
web account (`OneRow`); a call between upload and insert has its object, which is young
(`Placed`); the object a delivery has in hand is at the place onward before its row is, and
no row names the original when that is removed (`Handles`); and a delivery that began when
no call was still to store anything has everything under the account listed or in hand
(`Thorough`), so that its recount finds nothing. *Profiles*: `ProfilesTyping`,
`CitedProfilesStay`, `VersionsAreWhole`, `OnlyARaceLosesAProfile`, from what an insert has
left (`Inserted`), what a cancellation has read (`Told`), and that the list of the versions
in use names each of them once (`InUseFits`). *Registry*: `RegistryTyping`,
`UnchangedBoards`, `WatermarkPassesNothing`, and the action property `ClosingIsJustified`.
The poller's half ties what was fetched to what is written (`TickFits`, with one part for
boards of one request, `WholeFits`, and one for boards of pages, `PagesFit`: on a board that
stood still, whatever lies before the cursor has been seen), and the saved ETag to the rows:
unless editions were mixed, the active postings are those of its edition, since a tick that
writes that edition again writes and closes nothing new (`TagsFit`, `SameEdition`); a fetch
may stop in many ways, and `FetchFits` says what it then has. The
search's half (`MatchFits`) says that what is behind the watermark has its verdict, and what
is about to be passed has one or is in the match's hands. The halves meet only in the
moments they compare. The board is a list in which no posting stands twice, taken down and
put up at any place; its length is the number of its postings, from which the bounds on
pages follow (`PagesInRange`). *The whole*: from the typing theorems of the parts,
`ServicesTyping`, by way of `PartsStandAlone` (`ServicesSpec` implies the specification of
every part), which says nothing of the code: the parts of `Services` share no variable. The
deletion of an account also cascades to its chats, profiles and searches, and `Services`
leaves that out.

**Only model-checked**: the three liveness properties (`StandbyTakesOver`,
`EveryRowIsClaimed`, `EveryReplyIsSeen`), because the prover handles neither `ENABLED`
nor fairness here, and the four violations of section 5, which are single counterexamples.

## 5. Where the code and its words differ

Each is a run that expects TLC to find a violation of what a comment says.

- `outbox_stale_doc` / `StaleFailsNoTick`. `digest_listener.py:161-165` says that the
  look-up before the insert keeps a stale reference from surfacing as a foreign key
  violation. A deletion between the look-up and the insert does surface, fails the
  tick and costs the rest of the batch, which is published already.
- `reply_gap` / `PassedOverOnlyForNewer`. `_mark_checked` is stamped with the time of the
  mark, not of the reading. A reply that arrives between the two is never read,
  though `gmail_reply_checker.py:19-28` says that every reply newer than the watermark
  is classified, but for the older of two in one gap.
- `proposal_dismissed` / `DismissedNeverMoves`. `today_routes.py:63-70` calls the scoped
  update the race-safe enforcement against a stage change after a dismissal. The
  stage change is made before that update, so an accept that has read "pending"
  moves an application whose proposal has been dismissed since.

- `orphan_file` / `OrphanIsHarmless`. `artifact_versions_store.py:124-128` calls a file
  without a row harmless, since nothing reads it. The next call of that document does
  meet it: `_next_version` counts rows, so it computes the same path, and the upload
  is refused because the path is taken. Until somebody removes the file every prepare
  of that document fails after its engine run.

What the passing runs state exactly, because the code does less than its words:

- `OverlapOnlyWhenWedged`: `worker_lease.py:34-36` says that ticks overlap only when the
  database cannot be reached or the process is blocked for about 58 s. `_wants` (line 188
  on) is a third way, deliberate there: a tick longer than its stale window stops the
  renewal, the lease lapses, and another process starts a tick beside it.
- `FileBehindRow` excepts rows whose insert was answered by an error although it was
  committed: `create_version` then removes the file ("No row names this object",
  `artifact_versions_store.py:162`) and leaves a row without one. It also excepts a
  deletion that has begun: a request that ends with 503 says that nothing was deleted
  (`account_routes.py:53`), while passes before the failure may have removed files of an
  account that stays.
- `LostOnlyToARace`: `delete_pending_version` "only ever deletes a version that was never
  activated" (`profile_store.py:202`), but its delete does not ask for that. A Save
  between its read and its delete makes the draft the profile in use, which is then deleted.
- `ReturnedIsWhole`: after an import that broke off between its two inserts an identical
  import is answered with the row as it stands, so that content never gets its facts.
- `mint_code` means one valid code at a time (`link_codes_store.py:48`). Two calls at once
  both delete before either inserts and leave two valid codes; the links stay right
  (`RefusedKeepsAccount`).
- `UnchangedBoardIsSettled` excepts a board that lists the edition of the saved ETag again
  after rows of another one were written without their ETag: a tick that dies before its
  poll state is saved, or an answer that carries no ETag, and then a listing that goes back.
  The adapters send the saved ETag (`job_registry_adapters.py:505-512`) and the poller takes
  the 304 for every posting's confirmation (`job_registry_poller.py:150-154`), so a posting
  taken down stays active, and its `last_seen` is refreshed, until the listing changes.
  `20261003050518:218-219` says that a board which answered 304 is unchanged since the last
  complete fetch, "which confirmed every posting it still lists (and closed the ones it no
  longer did)". Without the exception TLC finds this in `services`.
- `NothingPassedOver` excepts postings whose upsert began before the match and commits after
  its read; those outside the window of 300 rows, which is taken before the seven days are
  asked for and, for a search with words, in no order (`20261005135419:144-171`), so that
  fewer than 30 may be returned while fresh ones are passed over; those beyond the limit of
  30; those that the model's answer omits or misnames, which `score_jobs` drops
  (`job_fit_scoring.py:552-555`); and those of a tick without a profile or a model. The
  watermark moves past all of them for good.
- `HandledOnce` says that one Discord interaction is claimed once, as the migration does
  ("nothing legitimate ever takes a claim over", `20261008174113:42`). A copy whose claim
  could not be asked is handled without one.
- `ResentLinkFinishes` asks that the chat is still linked. After `/unlink` an unfinished
  link cannot be resumed, and what a late call left under the old account stays there.

## 6. What is not modelled, and why

- Parsing, rendering and wording (channel adapters, job boards, documents,
  LaTeX), ranking and scoring: functions of their input with golden tests.
- Calls to models and search providers: their answers are choices of the
  environment, and little shared state depends on them.
- The web application and the extension: their retries are the repeated calls of
  `StageChange`.
- Encryption, tokens and row level security.
- The failure backoff, `WorkerState.status` and `/healthz`: arithmetic on one process's
  clock.
- `create_application` with its job snapshot, edits of a saved search, the reply checker's
  budget over several drafts, the extension's limiter, one-time states of OAuth: small
  protocols of the same kinds as those modelled. (`consume_state` reads and deletes in
  two requests: two callbacks at once with one state would both be accepted, where its
  docstring says a state can never be replayed, `oauth_states_store.py:30`.)
- Research, interview practice and company data: each is one call to a model and one
  row.
- The clocks: database and application are taken to agree, but for the lease, whose
  slack stands for the difference. A matcher's clock that runs ahead would put
  postings below the watermark.

Most of the implementation by lines is parsing, prompting, matching of text and user
interface; the modules are about the smaller part that shares state.

## 7. Plan

Done: `WorkerLease` (with `ExclusiveRight`), `StageChange` (with `StageLog`), `Outbox` (with
`Feed`), `ReplyChecker`, `StatusProposals` (with `Decisions`), `Prepare` with
`AccountDeletion`, `AccountLink`, `ChatDelivery` (with `Inbox`), `JobRegistry`, `Profiles`,
and `Services`.

Proved: every invariant and action property of the passing runs, for any size, among them
the refinements `ImplementsExclusiveRight`, `ImplementsStageLog`, `ImplementsFeed`,
`ImplementsDecisions` and `ImplementsInbox` (section 4).

What is left, in this order:

- `create_application`, the reply checker's budget over several drafts, and the one-time
  states of OAuth (section 6), as modules of the same kinds;
- the cascades of an account deletion in `Services`, which would make its parts share the
  account;
- two siblings accepted at once: both move the application, and a property of the order of
  their moves has yet to be found that the code's documentation takes a side on.

No module uses recursion of its own, and the bounds of the runs are constants, so each can
be proved about as it stands.

## 8. Running

`tlc -config <cfg> <MC module>` for each entry of `runs` in `PROJECT.json`; the longest,
`services`, takes about three minutes with two workers. `tlapm` on each of the eight proof
modules checks the proofs; the longest, `tlapm ServicesProofs.tla`, takes about five minutes
from nothing.
