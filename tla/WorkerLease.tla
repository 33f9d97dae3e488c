---------------------------- MODULE WorkerLease ----------------------------
(***************************************************************************)
(* The lease that keeps one instance of a background worker active:        *)
(* worker_lease.py (the keeper), worker_supervision.run_supervised (the    *)
(* loop that asks whether a tick may start), the process lifecycle of      *)
(* app.py, and claim_worker_lease in the database.  One lease row, i.e.    *)
(* one worker name; rows of different workers never interact.              *)
(*                                                                         *)
(* Every instant the code stores is represented by the time left until it  *)
(* (or since it), so that time is unbounded and the state finite.  Clocks  *)
(* of processes and of the database are assumed to advance at one rate.    *)
(***************************************************************************)
EXTENDS Integers, FiniteSets

CONSTANTS
  Process,        \* processes that may ever run; a restart is another one
  Nobody,         \* no holder: the row does not exist
  Ttl,            \* TTL_SECONDS
  Renew,          \* RENEW_SECONDS
  StandbyPoll,    \* STANDBY_POLL_SECONDS
  MinCycle,       \* MIN_CYCLE_SECONDS
  ClaimTimeout,   \* CLAIM_TIMEOUT_SECONDS
  Slack,          \* LOCAL_SLACK_SECONDS
  Margin,         \* TICK_START_MARGIN_SECONDS
  StandbyFresh,   \* STANDBY_FRESH_SECONDS
  StaleAfter,     \* WorkerState.stale_after
  MaxStray,       \* bound: given-up claims of one process still on their way
  MaxFailures     \* bound: where the failure counter saturates

ASSUME LeaseAssumption ==
  /\ Nobody \notin Process
  /\ {Ttl, Renew, StandbyPoll, MinCycle, ClaimTimeout, Slack, Margin,
      StandbyFresh, StaleAfter, MaxStray, MaxFailures} \subseteq Nat
  /\ 0 < Renew /\ 0 < StandbyPoll /\ 0 < MinCycle /\ 0 < ClaimTimeout
  /\ Margin + Slack < Ttl
  /\ Margin + Slack < StaleAfter

VARIABLES
  holder,    \* worker_leases.holder
  left,      \* worker_leases.expires_at - now(), 0 once expired
  phase,     \* what each process is doing: its lifespan in app.py
  belief,    \* WorkerLease._deadline - now, 0 when passed or None
  standby,   \* how much longer the last refusal counts as fresh
  claim,     \* the claim in flight, if any, as the database has answered it
  age,       \* time since the claim in flight was sent (sent_at)
  stray,     \* claims given up on that the database may still execute
  wait,      \* time to the keeper's next cycle
  failures,  \* WorkerLease.claim_failures
  running,   \* whether a tick is running
  tickAge    \* now - WorkerState.current_tick_started

dbVars     == <<holder, left>>
keeperVars == <<belief, standby, claim, age, stray, wait, failures>>
tickVars   == <<running, tickAge>>
vars       == <<dbVars, phase, keeperVars, tickVars>>

Phase == {"new", "up", "stopping", "down"}
Claim == {"none", "sent", "granted", "refused"}

TypeOK ==
  /\ holder \in Process \cup {Nobody}
  /\ left \in 0..Ttl
  /\ phase \in [Process -> Phase]
  /\ belief \in [Process -> 0..Ttl]
  /\ standby \in [Process -> 0..StandbyFresh + 1]
  /\ claim \in [Process -> Claim]
  /\ age \in [Process -> 0..Ttl]
  /\ stray \in [Process -> 0..MaxStray]
  /\ wait \in [Process -> Nat]
  /\ failures \in [Process -> 0..MaxFailures]
  /\ running \in [Process -> BOOLEAN]
  /\ tickAge \in [Process -> 0..StaleAfter + 1]

-----------------------------------------------------------------------------
(* Helpers. *)

Least(a, b)  == IF a <= b THEN a ELSE b
Most(a, b)   == IF a >= b THEN a ELSE b
Down(n)      == Most(0, n - 1)       \* one unit of time less, never negative

\* Mutation: shutdown stops the keeper together with the worker's task.
AliveOnlyUp(p) == phase[p] = "up"

Alive(p)     == phase[p] \in {"up", "stopping"}

Held(p)      == belief[p] > 0
Status(p)    == IF Held(p) THEN "held"
                ELSE IF standby[p] > 0 THEN "standby" ELSE "unknown"

\* Mutation: a tick may start on the last instant of belief.
MayTickWhenHeld(p) == Held(p)

MayTick(p)   == belief[p] > Margin

\* tick_running_too_long: the tick now running has outlived the stale window.
Wedged(p)    == running[p] /\ tickAge[p] > StaleAfter

\* Mutation: the period is counted from the end of the cycle.
PauseFromTheEnd(isHeld, elapsed) ==
  Most(MinCycle, IF isHeld THEN Renew ELSE StandbyPoll)

\* The pause before the keeper's next cycle, given the status it ends with.
Pause(isHeld, elapsed) ==
  Most(MinCycle, (IF isHeld THEN Renew ELSE StandbyPoll) - elapsed)

\* Mutations: believe from when the answer came; add the slack.
BeliefFromReceipt(p) == Ttl - Slack
BeliefPlusSlack(p)   == Most(0, Ttl + Slack - age[p])

\* _answered_with(True): believe for Ttl - Slack from when the claim was SENT.
BeliefFromSend(p) == Most(0, Ttl - Slack - age[p])

\* Mutation: a refusal is trusted for two polls.
TwoPolls == 2 * StandbyPoll

\* _answered_with(False): standby while now - _standby_at <= STANDBY_FRESH.
FreshRefusal == StandbyFresh + 1

-----------------------------------------------------------------------------
(* The database function claim_worker_lease. *)

\* Mutation: the upsert has no WHERE.
GrantableToAll(p) == TRUE

Grantable(p) == holder = p \/ left = 0

ExecuteClaim(p) ==
  IF Grantable(p) THEN holder' = p /\ left' = Ttl
                  ELSE UNCHANGED dbVars

-----------------------------------------------------------------------------
(* The keeper: WorkerLease.run and _attempt. *)

\* Mutation: the keeper renews whatever the tick does.
SendClaimUngated(p) ==
  /\ Alive(p) /\ claim[p] = "none" /\ wait[p] = 0
  /\ claim' = [claim EXCEPT ![p] = "sent"]
  /\ age' = [age EXCEPT ![p] = 0]
  /\ UNCHANGED <<dbVars, phase, belief, standby, stray, wait, failures, tickVars>>

\* A cycle that sends a claim: the wedge gate lets it.
SendClaim(p) ==
  /\ Alive(p) /\ claim[p] = "none" /\ wait[p] = 0
  /\ ~Wedged(p)
  /\ claim' = [claim EXCEPT ![p] = "sent"]
  /\ age' = [age EXCEPT ![p] = 0]
  /\ UNCHANGED <<dbVars, phase, belief, standby, stray, wait, failures, tickVars>>

\* A cycle that does not: the tick has run past its stale window.
SkipClaim(p) ==
  /\ Alive(p) /\ claim[p] = "none" /\ wait[p] = 0
  /\ Wedged(p)
  /\ wait' = [wait EXCEPT ![p] = Pause(Held(p), 0)]
  /\ UNCHANGED <<dbVars, phase, belief, standby, claim, age, stray, failures, tickVars>>

DatabaseAnswers(p) ==
  /\ claim[p] = "sent"
  /\ ExecuteClaim(p)
  /\ claim' = [claim EXCEPT ![p] = IF Grantable(p) THEN "granted" ELSE "refused"]
  /\ UNCHANGED <<phase, belief, standby, age, stray, wait, failures, tickVars>>

LearnGranted(p) ==
  /\ claim[p] = "granted"
  /\ belief' = [belief EXCEPT ![p] = BeliefFromSend(p)]
  /\ standby' = [standby EXCEPT ![p] = 0]
  /\ failures' = [failures EXCEPT ![p] = 0]
  /\ wait' = [wait EXCEPT ![p] = Pause(belief'[p] > 0, age[p])]
  /\ claim' = [claim EXCEPT ![p] = "none"]
  /\ age' = [age EXCEPT ![p] = 0]
  /\ UNCHANGED <<dbVars, phase, stray, tickVars>>

\* A definite answer clears any belief at once.
LearnRefused(p) ==
  /\ claim[p] = "refused"
  /\ belief' = [belief EXCEPT ![p] = 0]
  /\ standby' = [standby EXCEPT ![p] = FreshRefusal]
  /\ failures' = [failures EXCEPT ![p] = 0]
  /\ wait' = [wait EXCEPT ![p] = Pause(FALSE, age[p])]
  /\ claim' = [claim EXCEPT ![p] = "none"]
  /\ age' = [age EXCEPT ![p] = 0]
  /\ UNCHANGED <<dbVars, phase, stray, tickVars>>

\* The request or its answer is lost, errors, is malformed or times out.  A
\* failure says nothing: belief and the last refusal only age.  A request the
\* database has not executed may still reach it later.
ClaimFails(p) ==
  /\ claim[p] # "none"
  /\ failures' = [failures EXCEPT ![p] = Least(MaxFailures, @ + 1)]
  /\ \/ UNCHANGED stray
     \/ /\ claim[p] = "sent" /\ stray[p] < MaxStray
        /\ stray' = [stray EXCEPT ![p] = @ + 1]
  /\ wait' = [wait EXCEPT ![p] = Pause(Held(p), age[p])]
  /\ claim' = [claim EXCEPT ![p] = "none"]
  /\ age' = [age EXCEPT ![p] = 0]
  /\ UNCHANGED <<dbVars, phase, belief, standby, tickVars>>

\* A claim its process stopped waiting for arrives after all.
StrayClaimLands(p) ==
  /\ stray[p] > 0
  /\ ExecuteClaim(p)
  /\ stray' = [stray EXCEPT ![p] = @ - 1]
  /\ UNCHANGED <<phase, belief, standby, claim, age, wait, failures, tickVars>>

-----------------------------------------------------------------------------
(* The supervised loop: run_supervised. *)

\* may_tick is read with no await before the tick starts.
StartTick(p) ==
  /\ phase[p] = "up" /\ ~running[p]
  /\ MayTick(p)
  /\ running' = [running EXCEPT ![p] = TRUE]
  /\ tickAge' = [tickAge EXCEPT ![p] = 0]
  /\ UNCHANGED <<dbVars, phase, keeperVars>>

\* The tick returns, raises, or (while stopping) finishes unwinding.
EndTick(p) ==
  /\ running[p]
  /\ running' = [running EXCEPT ![p] = FALSE]
  /\ tickAge' = [tickAge EXCEPT ![p] = 0]
  /\ UNCHANGED <<dbVars, phase, keeperVars>>

-----------------------------------------------------------------------------
(* The process: lifespan in app.py. *)

Start(p) ==
  /\ phase[p] = "new"
  /\ phase' = [phase EXCEPT ![p] = "up"]
  /\ UNCHANGED <<dbVars, keeperVars, tickVars>>

\* stop_all cancels the worker's task and awaits it ...
BeginStop(p) ==
  /\ phase[p] = "up"
  /\ phase' = [phase EXCEPT ![p] = "stopping"]
  /\ UNCHANGED <<dbVars, keeperVars, tickVars>>

\* What is lost when a process ends: everything but the requests it sent.
Forget(p) ==
  /\ phase' = [phase EXCEPT ![p] = "down"]
  /\ belief' = [belief EXCEPT ![p] = 0]
  /\ standby' = [standby EXCEPT ![p] = 0]
  /\ claim' = [claim EXCEPT ![p] = "none"]
  /\ \/ UNCHANGED stray
     \/ /\ claim[p] = "sent" /\ stray[p] < MaxStray
        /\ stray' = [stray EXCEPT ![p] = @ + 1]
  /\ wait' = [wait EXCEPT ![p] = 0]
  /\ failures' = [failures EXCEPT ![p] = 0]
  /\ running' = [running EXCEPT ![p] = FALSE]
  /\ tickAge' = [tickAge EXCEPT ![p] = 0]
  /\ age' = [age EXCEPT ![p] = 0]
  /\ UNCHANGED dbVars

\* ... and only then stops the keeper.  The row is left to expire.
FinishStop(p) == phase[p] = "stopping" /\ ~running[p] /\ Forget(p)

Crash(p) == Alive(p) /\ Forget(p)

\* The hand-over the migration documents for a holder that has stopped.
OperatorExpires ==
  /\ left > 0
  /\ holder \in Process /\ ~Alive(holder)
  /\ left' = 0
  /\ UNCHANGED <<holder, phase, keeperVars, tickVars>>

-----------------------------------------------------------------------------
(* Time. *)

Advance ==
  /\ left' = Down(left)
  /\ belief' = [p \in Process |-> Down(belief[p])]
  /\ standby' = [p \in Process |-> Down(standby[p])]
  /\ wait' = [p \in Process |-> IF claim[p] = "none" THEN Down(wait[p]) ELSE wait[p]]
  /\ age' = [p \in Process |-> IF claim[p] = "none" THEN 0 ELSE Least(Ttl, age[p] + 1)]
  /\ tickAge' = [p \in Process |->
       IF running[p] THEN Least(StaleAfter + 1, tickAge[p] + 1) ELSE 0]
  /\ UNCHANGED <<holder, phase, claim, stray, failures, running>>

Init ==
  /\ holder = Nobody /\ left = 0
  /\ phase = [p \in Process |-> "new"]
  /\ belief = [p \in Process |-> 0]
  /\ standby = [p \in Process |-> 0]
  /\ claim = [p \in Process |-> "none"]
  /\ age = [p \in Process |-> 0]
  /\ stray = [p \in Process |-> 0]
  /\ wait = [p \in Process |-> 0]
  /\ failures = [p \in Process |-> 0]
  /\ running = [p \in Process |-> FALSE]
  /\ tickAge = [p \in Process |-> 0]

KeeperStep(p) ==
  \/ SendClaim(p) \/ SkipClaim(p)
  \/ LearnGranted(p) \/ LearnRefused(p)

ProcessStep(p) ==
  \/ KeeperStep(p) \/ DatabaseAnswers(p)
  \/ StartTick(p) \/ EndTick(p)
  \/ Start(p) \/ BeginStop(p) \/ FinishStop(p) \/ Crash(p)

Fault(p) == ClaimFails(p) \/ StrayClaimLands(p)

\* Any step may be delayed for any time: the event loop blocks, the network
\* stalls, the database is away.
Next ==
  \/ \E p \in Process : ProcessStep(p) \/ Fault(p)
  \/ OperatorExpires
  \/ Advance

Spec == Init /\ [][Next]_vars

-----------------------------------------------------------------------------
(* A responsive process: its loop is never blocked, so no cycle is late and  *)
(* no claim outlives its timeout.                                            *)

OnTime(p) ==
  /\ Alive(p) /\ claim[p] = "none" => wait[p] > 0
  /\ claim[p] # "none" => age[p] < ClaimTimeout

PromptAdvance == (\A p \in Process : OnTime(p)) /\ Advance

\* Besides, no tick outlives its stale window; the database may fail at will.
PromptNext ==
  \/ \E p \in Process : ProcessStep(p) \/ Fault(p)
  \/ OperatorExpires
  \/ PromptAdvance /\ \A p \in Process : ~Wedged(p)'

PromptSpec == Init /\ [][PromptNext]_vars

\* A responsive process and a database that always answers in time.
ReliableNext ==
  \/ \E p \in Process : ProcessStep(p)
  \/ OperatorExpires
  \/ PromptAdvance

ReliableSpec ==
  /\ Init /\ [][ReliableNext]_vars
  /\ WF_vars(PromptAdvance)
  /\ \A p \in Process : WF_vars(KeeperStep(p)) /\ WF_vars(DatabaseAnswers(p))

-----------------------------------------------------------------------------
(* Properties. *)

\* A process never believes in a lease the database could already have given
\* away: the row names it and outlives its belief by the slack (_answered_with
\* counts from sent_at, claim_worker_lease from its own later now()).
LeaseCoversBelief ==
  \A p \in Process : Held(p) => holder = p /\ belief[p] + Slack <= left

\* Two ticks overlap only when one of them has outlived the margin it started
\* with: may_tick leaves every tick Margin + Slack of exclusive time.
OverlapOnlyAfterMargin ==
  \A p, q \in Process :
    p # q /\ running[p] /\ running[q] =>
      tickAge[p] > Margin + Slack \/ tickAge[q] > Margin + Slack

\* The lease as an exclusive right: acquired only when nobody has it, and
\* never passed straight from one process to another.
Exclusive == INSTANCE ExclusiveRight WITH Owner <- Process,
                                          owners <- {p \in Process : Held(p)}
ImplementsExclusiveRight == Exclusive!Spec

\* "Two lost heartbeats" never cost a holder its lease: while its loop is not
\* blocked and its ticks end in time, only a third failure in a row, or the end
\* of the process, takes the belief away (RENEW against TTL less slack).
HolderSurvivesTwoLostClaims ==
  [][\A p \in Process :
       Held(p) /\ phase'[p] # "down" /\ ~Held(p)' =>
         failures[p] >= 3]_vars

\* "One lost poll is not enough to turn a healthy standby into unknown": it
\* takes two, or one that timed out and another answered so late that the
\* floor under the pause (MIN_CYCLE_SECONDS) has used up the rest of the
\* window: STANDBY_FRESH_SECONDS is exactly three polls, with none to spare.
StandbySurvivesOneLostPoll ==
  [][\A p \in Process :
       Status(p) = "standby" /\ phase'[p] # "down" /\ Status(p)' = "unknown" =>
         failures[p] >= 2 \/ age[p] + MinCycle >= ClaimTimeout]_vars

\* With prompt processes and a database that answers, two ticks overlap only
\* if one of them ran past its stale window: the gate in _wants is the one
\* way left to lose the lease, and stop_all keeps renewing until the tick of
\* a stopping process has unwound.
OverlapOnlyWhenWedged ==
  \A p, q \in Process :
    p # q /\ running[p] /\ running[q] => Wedged(p) \/ Wedged(q)

\* Takeover: once every other process has ended or hangs in a tick past its
\* stale window, a process that stays up gets the lease and keeps it, whatever
\* the row said before.  Without the wedge gate a hung but heartbeating holder
\* "would block every standby forever" (_wants).
StandbyTakesOver ==
  \A p \in Process :
    <>[](/\ phase[p] = "up" /\ ~Wedged(p)
         /\ \A q \in Process \ {p} : ~Alive(q) \/ Wedged(q)) => <>[]Held(p)
=============================================================================
