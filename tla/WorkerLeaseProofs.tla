-------------------------- MODULE WorkerLeaseProofs --------------------------
(***************************************************************************)
(* Proofs about WorkerLease for any number of processes and any times that *)
(* satisfy LeaseAssumption, whatever is delayed or lost; and, in the last  *)
(* two parts, for prompt processes, and any times of which TimesFit (where *)
(* the database answers) or RetriesFit (where it fails at will) holds.     *)
(***************************************************************************)
EXTENDS WorkerLease, TLAPS

-----------------------------------------------------------------------------
(* The inductive invariant. *)

\* A process that does not run has no belief, no claim in flight and no tick.
OnlyTheLivingAct ==
  \A p \in Process :
    ~Alive(p) => belief[p] = 0 /\ claim[p] = "none" /\ ~running[p]

\* An answer "granted" on its way back is still covered by the row for as long
\* as the belief it could give rise to.
GrantCovered ==
  \A p \in Process :
    claim[p] = "granted" /\ age[p] < Ttl =>
      holder = p /\ Ttl - age[p] <= left

\* A tick that has not outlived the margin it started with runs under the row.
TickCovered ==
  \A p \in Process :
    running[p] /\ tickAge[p] <= Margin + Slack =>
      holder = p /\ Margin + Slack < left + tickAge[p]

IInv ==
  /\ TypeOK
  /\ OnlyTheLivingAct
  /\ LeaseCoversBelief
  /\ GrantCovered
  /\ TickCovered

\* The four parts that relate the row to what processes believe and run.
Cover == OnlyTheLivingAct /\ LeaseCoversBelief /\ GrantCovered /\ TickCovered

-----------------------------------------------------------------------------
(* Typing. *)

LEMMA ArithmeticTyping ==
  ASSUME NEW a \in Int, NEW b \in Int
  PROVE  /\ Least(a, b) \in {a, b} /\ Least(a, b) <= a /\ Least(a, b) <= b
         /\ Most(a, b) \in {a, b} /\ a <= Most(a, b) /\ b <= Most(a, b)
         /\ Down(a) = (IF a >= 1 THEN a - 1 ELSE 0)
BY DEF Least, Most, Down

LEMMA PauseTyping ==
  ASSUME NEW isHeld, NEW elapsed \in Nat
  PROVE  Pause(isHeld, elapsed) \in Nat
BY LeaseAssumption DEF Pause, Most, LeaseAssumption

LEMMA InitTyped == Init => TypeOK
BY LeaseAssumption DEF Init, TypeOK, Phase, Claim, LeaseAssumption

\* A claim executed by the database leaves a well-formed row.
LEMMA ClaimTyped ==
  ASSUME TypeOK, NEW p \in Process, ExecuteClaim(p)
  PROVE  holder' \in Process \cup {Nobody} /\ left' \in 0..Ttl
BY LeaseAssumption DEF TypeOK, ExecuteClaim, dbVars, LeaseAssumption

LEMMA NextTyped == TypeOK /\ [Next]_vars => TypeOK'
<1> SUFFICES ASSUME TypeOK, [Next]_vars PROVE TypeOK'
  OBVIOUS
<1> USE LeaseAssumption DEF LeaseAssumption
<1>1. ASSUME NEW p \in Process, SendClaim(p) PROVE TypeOK'
  BY <1>1 DEF TypeOK, SendClaim, dbVars, tickVars, Claim
<1>2. ASSUME NEW p \in Process, SkipClaim(p) PROVE TypeOK'
  <2>1. Pause(Held(p), 0) \in Nat
    BY PauseTyping DEF Held
  <2> QED
    BY <1>2, <2>1 DEF TypeOK, SkipClaim, dbVars, tickVars
<1>3. ASSUME NEW p \in Process, DatabaseAnswers(p) PROVE TypeOK'
  BY <1>3, ClaimTyped DEF TypeOK, DatabaseAnswers, tickVars, Claim
<1>4. ASSUME NEW p \in Process, LearnGranted(p) PROVE TypeOK'
  <2>1. age[p] \in 0..Ttl /\ BeliefFromSend(p) \in 0..Ttl
    BY DEF TypeOK, Most, BeliefFromSend
  <2>2. Pause(belief'[p] > 0, age[p]) \in Nat
    BY <2>1, PauseTyping
  <2> QED
    BY <1>4, <2>1, <2>2 DEF TypeOK, LearnGranted, dbVars, tickVars, Claim
<1>5. ASSUME NEW p \in Process, LearnRefused(p) PROVE TypeOK'
  <2>1. age[p] \in Nat
    BY DEF TypeOK
  <2>2. wait' \in [Process -> Nat]
    <3>1. Pause(FALSE, age[p]) \in Nat
      BY <2>1, PauseTyping
    <3> QED
      BY <1>5, <3>1 DEF TypeOK, LearnRefused
  <2>3. belief' \in [Process -> 0..Ttl] /\ age' \in [Process -> 0..Ttl]
    BY <1>5 DEF TypeOK, LearnRefused
  <2>4. standby' \in [Process -> 0..StandbyFresh + 1]
    BY <1>5 DEF TypeOK, LearnRefused, FreshRefusal
  <2>5. claim' \in [Process -> Claim] /\ failures' \in [Process -> 0..MaxFailures]
    BY <1>5 DEF TypeOK, LearnRefused, Claim
  <2> QED
    BY <1>5, <2>2, <2>3, <2>4, <2>5 DEF TypeOK, LearnRefused, dbVars, tickVars
<1>6. ASSUME NEW p \in Process, ClaimFails(p) PROVE TypeOK'
  <2>1. Pause(Held(p), age[p]) \in Nat
    BY PauseTyping DEF TypeOK, Held
  <2>2. failures' \in [Process -> 0..MaxFailures]
    BY <1>6 DEF TypeOK, ClaimFails, Least
  <2>3. stray' \in [Process -> 0..MaxStray]
    BY <1>6 DEF TypeOK, ClaimFails
  <2> QED
    BY <1>6, <2>1, <2>2, <2>3 DEF TypeOK, ClaimFails, dbVars, tickVars, Claim
<1>7. ASSUME NEW p \in Process, StrayClaimLands(p) PROVE TypeOK'
  BY <1>7, ClaimTyped DEF TypeOK, StrayClaimLands, tickVars
<1>8. ASSUME NEW p \in Process, StartTick(p) PROVE TypeOK'
  BY <1>8 DEF TypeOK, StartTick, dbVars, keeperVars
<1>9. ASSUME NEW p \in Process, EndTick(p) PROVE TypeOK'
  BY <1>9 DEF TypeOK, EndTick, dbVars, keeperVars
<1>10. ASSUME NEW p \in Process, Start(p) \/ BeginStop(p) PROVE TypeOK'
  BY <1>10 DEF TypeOK, Start, BeginStop, dbVars, keeperVars, tickVars, Phase
<1>11. ASSUME NEW p \in Process, FinishStop(p) \/ Crash(p) PROVE TypeOK'
  <2>1. stray' \in [Process -> 0..MaxStray]
    BY <1>11 DEF TypeOK, FinishStop, Crash, Forget
  <2>2. phase' \in [Process -> Phase] /\ claim' \in [Process -> Claim]
    BY <1>11 DEF TypeOK, FinishStop, Crash, Forget, Phase, Claim
  <2>3. belief' \in [Process -> 0..Ttl] /\ age' \in [Process -> 0..Ttl]
    BY <1>11 DEF TypeOK, FinishStop, Crash, Forget
  <2>4. /\ standby' \in [Process -> 0..StandbyFresh + 1]
        /\ wait' \in [Process -> Nat]
    BY <1>11 DEF TypeOK, FinishStop, Crash, Forget
  <2>5. failures' \in [Process -> 0..MaxFailures]
    BY <1>11 DEF TypeOK, FinishStop, Crash, Forget
  <2>6. running' \in [Process -> BOOLEAN]
    BY <1>11 DEF TypeOK, FinishStop, Crash, Forget
  <2>7. tickAge' \in [Process -> 0..StaleAfter + 1]
    BY <1>11 DEF TypeOK, FinishStop, Crash, Forget
  <2> QED
    BY <1>11, <2>1, <2>2, <2>3, <2>4, <2>5, <2>6, <2>7
    DEF TypeOK, FinishStop, Crash, Forget, dbVars
<1>12. ASSUME OperatorExpires PROVE TypeOK'
  BY <1>12 DEF TypeOK, OperatorExpires, keeperVars, tickVars
<1>13. ASSUME Advance PROVE TypeOK'
  <2>1. left' \in 0..Ttl /\ belief' \in [Process -> 0..Ttl]
    BY <1>13 DEF TypeOK, Advance, Down, Most
  <2>2. standby' \in [Process -> 0..StandbyFresh + 1] /\ wait' \in [Process -> Nat]
    BY <1>13 DEF TypeOK, Advance, Down, Most
  <2>3. age' \in [Process -> 0..Ttl]
    BY <1>13 DEF TypeOK, Advance, Least
  <2>4. tickAge' \in [Process -> 0..StaleAfter + 1]
    BY <1>13 DEF TypeOK, Advance, Least
  <2> QED
    BY <1>13, <2>1, <2>2, <2>3, <2>4 DEF TypeOK, Advance
<1>14. ASSUME UNCHANGED vars PROVE TypeOK'
  BY <1>14 DEF TypeOK, vars, dbVars, keeperVars, tickVars
<1> QED
  BY <1>1, <1>2, <1>3, <1>4, <1>5, <1>6, <1>7, <1>8, <1>9, <1>10, <1>11,
     <1>12, <1>13, <1>14
  DEF Next, ProcessStep, KeeperStep, Fault

\* Every reachable state is well typed.
THEOREM Typing == Spec => []TypeOK
<1>1. Init => TypeOK
  BY InitTyped
<1>2. TypeOK /\ [Next]_vars => TypeOK'
  BY NextTyped
<1> QED
  BY <1>1, <1>2, PTL DEF Spec

-----------------------------------------------------------------------------
(* The row covers every belief, every grant on its way and every young tick. *)

\* Whoever is covered by a live row keeps it when the database executes any
\* claim: another process's is refused, its own only moves the expiry later.
LEMMA ClaimKeepsHolder ==
  ASSUME TypeOK, NEW p \in Process, ExecuteClaim(p),
         NEW q \in Process, holder = q, 0 < left
  PROVE  holder' = q /\ left <= left'
BY DEF TypeOK, ExecuteClaim, Grantable, dbVars

LEMMA InitCovered == Init => Cover
BY LeaseAssumption
   DEF Init, Cover, OnlyTheLivingAct, LeaseCoversBelief, GrantCovered,
       TickCovered, Held, Alive, LeaseAssumption

\* A claim executed by the database, whoever sent it, uncovers nobody.
LEMMA ClaimCovered ==
  ASSUME IInv, NEW p \in Process, ExecuteClaim(p),
         UNCHANGED <<belief, age, running, tickAge>>
  PROVE  /\ LeaseCoversBelief'
         /\ TickCovered'
         /\ \A q \in Process : claim[q] = "granted" /\ age[q] < Ttl =>
              holder' = q /\ Ttl - age[q] <= left'
<1> USE LeaseAssumption DEF LeaseAssumption, IInv
<1>0. left' \in Int
  BY ClaimTyped
<1>1. LeaseCoversBelief'
  <2> SUFFICES ASSUME NEW q \in Process, Held(q)
               PROVE  holder' = q /\ belief[q] + Slack <= left'
    BY DEF LeaseCoversBelief, Held
  <2>1. holder = q /\ belief[q] + Slack <= left /\ 0 < left
    BY DEF LeaseCoversBelief, Held, TypeOK
  <2> QED
    BY <1>0, <2>1, ClaimKeepsHolder DEF TypeOK
<1>2. TickCovered'
  <2> SUFFICES ASSUME NEW q \in Process, running[q], tickAge[q] <= Margin + Slack
               PROVE  holder' = q /\ Margin + Slack < left' + tickAge[q]
    BY DEF TickCovered
  <2>1. holder = q /\ Margin + Slack < left + tickAge[q] /\ 0 < left
    BY DEF TickCovered, TypeOK
  <2> QED
    BY <1>0, <2>1, ClaimKeepsHolder DEF TypeOK
<1>3. ASSUME NEW q \in Process, claim[q] = "granted", age[q] < Ttl
      PROVE  holder' = q /\ Ttl - age[q] <= left'
  <2>1. holder = q /\ Ttl - age[q] <= left /\ 0 < left
    BY <1>3 DEF GrantCovered, TypeOK
  <2> QED
    BY <1>0, <2>1, ClaimKeepsHolder DEF TypeOK
<1> QED
  BY <1>1, <1>2, <1>3

LEMMA NextCovered == IInv /\ [Next]_vars => Cover'
<1> SUFFICES ASSUME IInv, [Next]_vars PROVE Cover'
  OBVIOUS
<1> USE LeaseAssumption DEF LeaseAssumption, IInv
<1> USE DEF OnlyTheLivingAct, LeaseCoversBelief, GrantCovered, TickCovered
<1>1. ASSUME NEW p \in Process, SendClaim(p) PROVE Cover'
  BY <1>1 DEF Cover, TypeOK, SendClaim, dbVars, tickVars, Held, Alive
<1>2. ASSUME NEW p \in Process, SkipClaim(p) PROVE Cover'
  BY <1>2 DEF Cover, TypeOK, SkipClaim, dbVars, tickVars, Held, Alive
<1>3. ASSUME NEW p \in Process, DatabaseAnswers(p) PROVE Cover'
  <2>1. /\ ExecuteClaim(p) /\ UNCHANGED <<belief, age, running, tickAge, phase>>
        /\ claim' = [claim EXCEPT ![p] = IF Grantable(p) THEN "granted" ELSE "refused"]
        /\ claim[p] = "sent"
    BY <1>3 DEF DatabaseAnswers, tickVars
  <2>2. OnlyTheLivingAct'
    BY <2>1 DEF Alive, TypeOK
  <2>3. GrantCovered'
    <3> SUFFICES ASSUME NEW q \in Process, claim'[q] = "granted", age[q] < Ttl
                 PROVE  holder' = q /\ Ttl - age[q] <= left'
      BY <2>1
    <3>1. CASE q = p
      <4>1. Grantable(p)
        BY <2>1, <3>1 DEF TypeOK
      <4> QED
        BY <2>1, <3>1, <4>1 DEF ExecuteClaim, TypeOK
    <3>2. CASE q # p
      BY <2>1, <3>2, ClaimCovered DEF TypeOK
    <3> QED
      BY <3>1, <3>2
  <2> QED
    BY <2>1, <2>2, <2>3, ClaimCovered DEF Cover
<1>4. ASSUME NEW p \in Process, LearnGranted(p) PROVE Cover'
  <2> USE <1>4 DEF LearnGranted, dbVars, tickVars
  <2>1. OnlyTheLivingAct'
    BY DEF Alive, TypeOK
  <2>2. LeaseCoversBelief'
    <3> SUFFICES ASSUME NEW q \in Process, Held(q)'
                 PROVE  holder = q /\ belief'[q] + Slack <= left
      OBVIOUS
    <3>1. CASE q = p
      <4>1. belief'[p] = Ttl - Slack - age[p] /\ age[p] < Ttl
        BY <3>1 DEF Held, TypeOK, Most, BeliefFromSend
      <4> QED
        BY <3>1, <4>1 DEF TypeOK
    <3>2. CASE q # p
      BY <3>2 DEF Held, TypeOK
    <3> QED
      BY <3>1, <3>2
  <2>3. GrantCovered' /\ TickCovered'
    BY DEF TypeOK
  <2> QED
    BY <2>1, <2>2, <2>3 DEF Cover
<1>5. ASSUME NEW p \in Process, LearnRefused(p) PROVE Cover'
  BY <1>5 DEF Cover, TypeOK, LearnRefused, dbVars, tickVars, Held, Alive
<1>6. ASSUME NEW p \in Process, ClaimFails(p) PROVE Cover'
  BY <1>6 DEF Cover, TypeOK, ClaimFails, dbVars, tickVars, Held, Alive
<1>7. ASSUME NEW p \in Process, StrayClaimLands(p) PROVE Cover'
  <2>1. ExecuteClaim(p) /\ UNCHANGED <<belief, age, running, tickAge, phase, claim>>
    BY <1>7 DEF StrayClaimLands, tickVars
  <2>2. OnlyTheLivingAct' /\ GrantCovered'
    BY <2>1, ClaimCovered DEF Alive
  <2> QED
    BY <2>1, <2>2, ClaimCovered DEF Cover
<1>8. ASSUME NEW p \in Process, StartTick(p) PROVE Cover'
  <2> USE <1>8 DEF StartTick, dbVars, keeperVars
  <2>1. OnlyTheLivingAct' /\ LeaseCoversBelief' /\ GrantCovered'
    BY DEF Alive, Held, TypeOK
  <2>2. TickCovered'
    <3>1. holder = p /\ Margin + Slack < left
      BY DEF MayTick, Held, TypeOK
    <3> QED
      BY <3>1 DEF TypeOK
  <2> QED
    BY <2>1, <2>2 DEF Cover
<1>9. ASSUME NEW p \in Process, EndTick(p) PROVE Cover'
  BY <1>9 DEF Cover, TypeOK, EndTick, dbVars, keeperVars, Held, Alive
<1>10. ASSUME NEW p \in Process, Start(p) \/ BeginStop(p) PROVE Cover'
  BY <1>10 DEF Cover, TypeOK, Start, BeginStop, dbVars, keeperVars, tickVars,
               Held, Alive
<1>11. ASSUME NEW p \in Process, FinishStop(p) \/ Crash(p) PROVE Cover'
  <2>1. /\ UNCHANGED <<holder, left>>
        /\ phase' = [phase EXCEPT ![p] = "down"]
        /\ belief' = [belief EXCEPT ![p] = 0]
        /\ claim' = [claim EXCEPT ![p] = "none"]
        /\ age' = [age EXCEPT ![p] = 0]
        /\ running' = [running EXCEPT ![p] = FALSE]
        /\ tickAge' = [tickAge EXCEPT ![p] = 0]
    BY <1>11 DEF FinishStop, Crash, Forget, dbVars
  <2>2. OnlyTheLivingAct'
    BY <2>1 DEF Alive, TypeOK
  <2>3. LeaseCoversBelief'
    BY <2>1 DEF Held, TypeOK
  <2>4. GrantCovered'
    BY <2>1 DEF TypeOK
  <2>5. TickCovered'
    BY <2>1 DEF TypeOK
  <2> QED
    BY <2>2, <2>3, <2>4, <2>5 DEF Cover
<1>12. ASSUME OperatorExpires PROVE Cover'
  <2>1. \A q \in Process : holder = q => ~Alive(q)
    BY <1>12 DEF OperatorExpires
  <2>2. /\ UNCHANGED <<holder, phase, belief, claim, age, running, tickAge>>
    BY <1>12 DEF OperatorExpires, keeperVars, tickVars
  <2> QED
    BY <2>1, <2>2 DEF Cover, Held, Alive, TypeOK
<1>13. ASSUME Advance PROVE Cover'
  <2> USE <1>13 DEF Advance
  <2>1. OnlyTheLivingAct'
    BY DEF Alive, Down, Most, TypeOK
  <2>2. LeaseCoversBelief'
    BY DEF Held, Down, Most, TypeOK
  <2>3. GrantCovered'
    BY DEF Down, Most, Least, TypeOK
  <2>4. TickCovered'
    BY DEF Down, Most, Least, TypeOK
  <2> QED
    BY <2>1, <2>2, <2>3, <2>4 DEF Cover
<1>14. ASSUME UNCHANGED vars PROVE Cover'
  BY <1>14 DEF vars, dbVars, keeperVars, tickVars, Cover, Held, Alive
<1> QED
  BY <1>1, <1>2, <1>3, <1>4, <1>5, <1>6, <1>7, <1>8, <1>9, <1>10, <1>11,
     <1>12, <1>13, <1>14
  DEF Next, ProcessStep, KeeperStep, Fault

LEMMA Inductive == Spec => []IInv
<1>1. Init => IInv
  BY InitTyped, InitCovered DEF IInv, Cover
<1>2. IInv /\ [Next]_vars => IInv'
  BY NextTyped, NextCovered DEF IInv, Cover
<1> QED
  BY <1>1, <1>2, PTL DEF Spec

\* No process ever believes in a lease that the database could already have
\* given away, for any times, delays, losses and crashes.
THEOREM BeliefIsCovered == Spec => []LeaseCoversBelief
<1>1. IInv => LeaseCoversBelief
  BY DEF IInv
<1> QED
  BY <1>1, Inductive, PTL

\* Two ticks overlap only after one of them has outlived its margin.
THEOREM OverlapIsBounded == Spec => []OverlapOnlyAfterMargin
<1>1. IInv => OverlapOnlyAfterMargin
  BY LeaseAssumption
     DEF IInv, TickCovered, OverlapOnlyAfterMargin, TypeOK, LeaseAssumption
<1> QED
  BY <1>1, Inductive, PTL

-----------------------------------------------------------------------------
(* Refinement: the lease is an exclusive right. *)

\* The processes that believe they hold the lease.
Believers == {p \in Process : Held(p)}

\* The row names one process, so at most one believes.
LEMMA OneBeliever ==
  ASSUME IInv, NEW p \in Process, Held(p)
  PROVE  Believers = {p}
BY DEF IInv, LeaseCoversBelief, Believers

\* A step that gives no process a new belief keeps the believer or drops it.
LEMMA LosingIsGivingUp ==
  ASSUME IInv, Believers' \subseteq Believers
  PROVE  Believers' = Believers \/ Believers' = {}
<1>1. CASE \E p \in Process : Held(p)
  BY <1>1, OneBeliever
<1>2. CASE ~\E p \in Process : Held(p)
  BY <1>2 DEF Believers
<1> QED
  BY <1>1, <1>2

LEMMA NextRefines ==
  ASSUME IInv, [Next]_vars
  PROVE  \/ Believers' = Believers
         \/ Believers' = {}
         \/ \E p \in Process : Believers = {} /\ Believers' = {p}
<1>1. CASE \E p \in Process : LearnGranted(p)
  <2> PICK p \in Process : LearnGranted(p)
    BY <1>1
  <2>1. \A q \in Process \ {p} : belief'[q] = belief[q]
    BY DEF LearnGranted, IInv, TypeOK
  <2>2. CASE Held(p)'
    <3>1. holder = p
      <4>1. age[p] < Ttl /\ claim[p] = "granted"
        BY <2>2, LeaseAssumption
           DEF LearnGranted, BeliefFromSend, Held, Most, IInv, TypeOK, LeaseAssumption
      <4> QED
        BY <4>1 DEF IInv, GrantCovered
    <3>2. \A q \in Process \ {p} : ~Held(q)
      BY <3>1 DEF IInv, LeaseCoversBelief
    <3>3. Believers' = {p}
      BY <2>1, <2>2, <3>2 DEF Believers, Held
    <3>4. Believers = {} \/ Believers = {p}
      BY <3>2 DEF Believers
    <3> QED
      BY <3>3, <3>4
  <2>3. CASE ~Held(p)'
    <3>1. Believers' \subseteq Believers
      BY <2>1, <2>3 DEF Believers, Held
    <3> QED
      BY <3>1, LosingIsGivingUp
  <2> QED
    BY <2>2, <2>3
<1>2. CASE ~\E p \in Process : LearnGranted(p)
  <2>1. \A q \in Process : belief'[q] \in {belief[q], 0, Down(belief[q])}
    <3>1. CASE UNCHANGED belief
      BY <3>1
    <3>2. ASSUME NEW p \in Process,
                 LearnRefused(p) \/ FinishStop(p) \/ Crash(p)
          PROVE  \A q \in Process : belief'[q] \in {belief[q], 0}
      BY <3>2 DEF LearnRefused, FinishStop, Crash, Forget, IInv, TypeOK
    <3>3. CASE Advance
      BY <3>3 DEF Advance
    <3> QED
      BY <1>2, <3>1, <3>2, <3>3
      DEF Next, ProcessStep, KeeperStep, Fault, vars, keeperVars,
          SendClaim, SkipClaim, DatabaseAnswers, ClaimFails, StrayClaimLands,
          StartTick, EndTick, Start, BeginStop, OperatorExpires
  <2>2. Believers' \subseteq Believers
    BY <2>1 DEF Believers, Held, Down, Most, IInv, TypeOK
  <2> QED
    BY <2>2, LosingIsGivingUp
<1> QED
  BY <1>1, <1>2

\* The lease keeps the promise of ExclusiveRight: at most one believer, and a
\* moment without one between two.
THEOREM Refinement == Spec => ImplementsExclusiveRight
<1>1. Init => Exclusive!Init
  BY DEF Init, Exclusive!Init, Held
<1>2. IInv /\ [Next]_vars => [Exclusive!Next]_(Believers)
  BY NextRefines DEF Exclusive!Next, Exclusive!GiveUp, Exclusive!Acquire, Believers
<1> QED
  BY <1>1, <1>2, Inductive, PTL
  DEF Spec, ImplementsExclusiveRight, Exclusive!Spec, Believers

-----------------------------------------------------------------------------
(* The timed specifications are special cases, so all of the above holds there *)

\* A responsive process is a process: nothing proved above is lost when steps
\* are on time and the database answers.
THEOREM TimedSpecsImplementSpec ==
  (PromptSpec => Spec) /\ (ReliableSpec => Spec)
<1>1. [PromptNext]_vars => [Next]_vars
  BY DEF PromptNext, PromptAdvance, Next
<1>2. [ReliableNext]_vars => [Next]_vars
  BY DEF ReliableNext, PromptAdvance, Next
<1> QED
  BY <1>1, <1>2, PTL DEF PromptSpec, ReliableSpec, Spec

-----------------------------------------------------------------------------
(* Prompt processes and a database that answers: only a wedged tick overlaps. *)

\* A holder's cycles fall on the beats of Renew after the claim it was last granted,
\* also those that skip a claim.
Beat == {k * Renew : k \in Nat}

\* What the times must be to each other.  A claim's timeout and the least cycle fit
\* into a renewal, and a grant in time is worth a belief; a tick no longer starts
\* when less is left than one claim may take; and if one may still start after a
\* beat, the claim of the next beat is answered in time.
TimesFit ==
  /\ MinCycle + ClaimTimeout <= Renew /\ ClaimTimeout + Slack < Ttl
  /\ ClaimTimeout <= Margin + Slack
  /\ \A k \in Nat : k * Renew < Ttl - Slack - Margin => (k + 1) * Renew + ClaimTimeout < Ttl

\* The times of worker_lease.py, in halves of a second: a fourth renewal would be
\* too late, and a tick may not wait for it.
LEMMA TimesOfTheCode ==
  ASSUME Ttl = 120, Renew = 30, MinCycle = 1, ClaimTimeout = 20, Slack = 4, Margin = 30
  PROVE  TimesFit
BY DEF TimesFit

\* No claim outlives its timeout, and none is refused to a believer.
ClaimsAnswered ==
  \A p \in Process :
    /\ claim[p] # "none" => age[p] <= ClaimTimeout
    /\ Held(p) => claim[p] # "refused"

\* A believer between two claims is on the beat: belief tells how long ago the last
\* granted claim was sent, wait how long the next cycle is off.
OnTheBeat ==
  \A p \in Process :
    Held(p) /\ claim[p] = "none" =>
      wait[p] <= Renew /\ wait[p] + (Ttl - Slack - belief[p]) - Renew \in Beat

\* Until a tick is wedged its process holds the row, which lasts until the next
\* claim has been answered.
TickKeepsRow ==
  \A p \in Process :
    running[p] /\ ~Wedged(p) =>
      /\ holder = p
      /\ claim[p] = "none" => wait[p] + ClaimTimeout < left
      /\ claim[p] = "sent" => ClaimTimeout - age[p] < left
      /\ claim[p] = "granted" => Ttl - age[p] <= left
      /\ claim[p] # "refused"

PromptInv == ClaimsAnswered /\ OnTheBeat /\ TickKeepsRow

LEMMA Beats ==
  /\ 0 \in Beat
  /\ \A m \in Beat : m \in Nat /\ m + Renew \in Beat
  /\ TimesFit => \A m \in Beat : m < Ttl - Slack - Margin => m + Renew + ClaimTimeout < Ttl
<1> USE LeaseAssumption DEF LeaseAssumption
<1>1. 0 * Renew = 0 /\ 0 \in Nat
  OBVIOUS
<1>2. ASSUME NEW k \in Nat
      PROVE  k * Renew \in Nat /\ k + 1 \in Nat /\ (k + 1) * Renew = k * Renew + Renew
  OBVIOUS
<1>3. 0 \in Beat
  BY <1>1 DEF Beat
<1>4. ASSUME NEW m \in Beat
      PROVE  /\ m \in Nat /\ m + Renew \in Beat
             /\ TimesFit /\ m < Ttl - Slack - Margin => m + Renew + ClaimTimeout < Ttl
  <2>1. PICK k \in Nat : m = k * Renew
    BY DEF Beat
  <2>2. m \in Nat /\ k + 1 \in Nat /\ (k + 1) * Renew = m + Renew
    BY <1>2, <2>1
  <2>3. TimesFit /\ m < Ttl - Slack - Margin => (k + 1) * Renew + ClaimTimeout < Ttl
    BY <2>1 DEF TimesFit
  <2> QED BY <2>2, <2>3 DEF Beat
<1> QED BY <1>3, <1>4

LEMMA TicksAreCovered ==
  ASSUME TimesFit, IInv, PromptInv, NEW p \in Process, running[p], ~Wedged(p)
  PROVE  0 < left /\ holder = p /\ Alive(p)
<1> USE LeaseAssumption DEF LeaseAssumption
<1>1. /\ holder = p /\ age[p] \in 0..Ttl /\ wait[p] \in Nat /\ claim[p] \in Claim
      /\ claim[p] # "none" => age[p] <= ClaimTimeout
      /\ ClaimTimeout < Ttl
  BY DEF TimesFit, IInv, TypeOK, PromptInv, ClaimsAnswered, TickKeepsRow
<1>2. 0 < left
  BY <1>1 DEF IInv, TypeOK, PromptInv, TickKeepsRow, Claim
<1> QED BY <1>1, <1>2 DEF IInv, OnlyTheLivingAct

\* A step of one process that leaves the row alone leaves the others' parts alone.
LEMMA CyclesKeep ==
  ASSUME TimesFit, IInv, PromptInv, IInv', NEW p \in Process, KeeperStep(p)
  PROVE  PromptInv'
<1> USE LeaseAssumption DEF LeaseAssumption, IInv
<1>1. CASE SendClaim(p)
  <2> USE <1>1 DEF SendClaim, dbVars, tickVars, TypeOK
  <2>1. ClaimsAnswered'
    BY DEF PromptInv, ClaimsAnswered, Held
  <2>2. OnTheBeat'
    BY DEF PromptInv, OnTheBeat, Held
  <2>3. TickKeepsRow'
    BY DEF PromptInv, TickKeepsRow, Wedged
  <2> QED BY <2>1, <2>2, <2>3 DEF PromptInv
<1>2. CASE SkipClaim(p)
  <2> USE <1>2 DEF SkipClaim, dbVars, tickVars, TypeOK
  <2>1. ClaimsAnswered'
    BY DEF PromptInv, ClaimsAnswered, Held
  <2>2. OnTheBeat'
    <3>1. ASSUME Held(p)
          PROVE  wait'[p] = Renew /\ (Ttl - Slack - belief[p]) \in Beat
      <4>1. wait'[p] = Renew
        BY <3>1 DEF Pause, Most, TimesFit
      <4>2. 0 + (Ttl - Slack - belief[p]) - Renew \in Beat
        BY <3>1 DEF PromptInv, OnTheBeat
      <4>3. (0 + (Ttl - Slack - belief[p]) - Renew) + Renew = Ttl - Slack - belief[p]
        OBVIOUS
      <4> QED BY <4>1, <4>2, <4>3, Beats
    <3>2. Renew + (Ttl - Slack - belief[p]) - Renew = Ttl - Slack - belief[p]
      OBVIOUS
    <3>3. Held(p)' = Held(p) /\ belief' = belief /\ claim' = claim /\ \A q \in Process \ {p} : wait'[q] = wait[q]
      BY DEF Held
    <3>4. ASSUME Held(p)
          PROVE  wait'[p] <= Renew /\ wait'[p] + (Ttl - Slack - belief[p]) - Renew \in Beat
      <4>1. wait'[p] = Renew /\ Renew + (Ttl - Slack - belief[p]) - Renew \in Beat
        BY <3>1, <3>2, <3>4
      <4> QED BY <4>1
    <3> QED BY <3>3, <3>4 DEF PromptInv, OnTheBeat, Held
  <2>3. TickKeepsRow'
    BY DEF PromptInv, TickKeepsRow, Wedged
  <2> QED BY <2>1, <2>2, <2>3 DEF PromptInv
<1>3. CASE LearnGranted(p)
  <2> USE <1>3 DEF LearnGranted, dbVars, tickVars, TypeOK
  <2>1. /\ belief'[p] = Most(0, Ttl - Slack - age[p]) /\ claim'[p] = "none" /\ age'[p] = 0
        /\ wait'[p] = Pause(belief'[p] > 0, age[p])
        /\ \A q \in Process \ {p} : /\ belief'[q] = belief[q] /\ claim'[q] = claim[q]
                                    /\ age'[q] = age[q] /\ wait'[q] = wait[q]
        /\ UNCHANGED <<holder, left, running, tickAge>>
        /\ claim[p] = "granted" /\ age[p] \in Nat /\ age[p] <= ClaimTimeout
    BY DEF PromptInv, ClaimsAnswered, BeliefFromSend
  <2> HIDE <1>3
  <2>2. ClaimsAnswered'
    BY <2>1 DEF PromptInv, ClaimsAnswered, Held
  <2>3. wait'[p] = Renew - age[p] /\ belief'[p] = Ttl - Slack - age[p] /\ belief'[p] > 0
    <3>1. belief'[p] = Ttl - Slack - age[p] /\ belief'[p] > 0
      BY <2>1 DEF Most, TimesFit
    <3>2. wait'[p] = Most(MinCycle, Renew - age[p])
      BY <2>1, <3>1 DEF Pause
    <3>3. MinCycle + ClaimTimeout <= Renew
      BY DEF TimesFit
    <3>4. MinCycle <= Renew - age[p] /\ Renew - age[p] \in Int
      BY <2>1, <3>3
    <3> HIDE DEF TypeOK, IInv
    <3> QED BY <3>1, <3>2, <3>4 DEF Most
  <2>4. OnTheBeat'
    <3>1. wait'[p] <= Renew /\ wait'[p] + (Ttl - Slack - belief'[p]) - Renew = 0
      BY <2>1, <2>3
    <3> QED BY <2>1, <3>1, Beats DEF PromptInv, OnTheBeat, Held
  <2>5. TickKeepsRow'
    <3>1. ASSUME running[p], ~Wedged(p)
          PROVE  holder = p /\ wait'[p] + ClaimTimeout < left
      <4>1. holder = p /\ Ttl - age[p] <= left /\ left \in 0..Ttl
        BY <2>1, <3>1 DEF PromptInv, TickKeepsRow
      <4>2. 0 < Ttl - Slack - Margin => Renew + ClaimTimeout < Ttl
        BY Beats DEF TimesFit
      <4>3. Renew + ClaimTimeout < Ttl
        BY <4>2
      <4> QED BY <2>1, <2>3, <4>1, <4>3
    <3> QED BY <2>1, <3>1 DEF PromptInv, TickKeepsRow, Wedged
  <2> QED BY <2>2, <2>4, <2>5 DEF PromptInv
<1>4. CASE LearnRefused(p)
  <2> USE <1>4 DEF LearnRefused, dbVars, tickVars, TypeOK
  <2>1. ClaimsAnswered'
    BY DEF PromptInv, ClaimsAnswered, Held
  <2>2. OnTheBeat'
    <3>1. /\ belief'[p] = 0
          /\ \A q \in Process \ {p} : /\ belief'[q] = belief[q] /\ claim'[q] = claim[q]
                                      /\ wait'[q] = wait[q]
      OBVIOUS
    <3> HIDE <1>4 DEF LearnRefused, TypeOK, IInv
    <3> QED BY <3>1 DEF PromptInv, OnTheBeat, Held
  <2>3. TickKeepsRow'
    BY DEF PromptInv, TickKeepsRow, Wedged
  <2> QED BY <2>1, <2>2, <2>3 DEF PromptInv
<1> QED BY <1>1, <1>2, <1>3, <1>4 DEF KeeperStep

LEMMA AnswersKeep ==
  ASSUME TimesFit, IInv, PromptInv, IInv', NEW p \in Process, DatabaseAnswers(p)
  PROVE  PromptInv'
<1> USE LeaseAssumption DEF LeaseAssumption
<1>1. /\ claim[p] = "sent" /\ ExecuteClaim(p)
      /\ UNCHANGED <<phase, belief, age, wait, running, tickAge>>
      /\ claim'[p] = IF Grantable(p) THEN "granted" ELSE "refused"
      /\ \A q \in Process \ {p} : claim'[q] = claim[q]
  BY DEF DatabaseAnswers, tickVars, IInv, TypeOK
<1>2. left \in Nat /\ left' \in Nat /\ age \in [Process -> Nat] /\ wait \in [Process -> Nat]
  BY DEF IInv, TypeOK
<1>3. ASSUME NEW q \in Process, running[q], ~Wedged(q)
      PROVE  holder = q /\ holder' = q /\ left <= left'
  BY <1>1, <1>3, TicksAreCovered, ClaimKeepsHolder DEF IInv
<1>4. holder = p => Grantable(p) /\ left' = Ttl /\ claim'[p] = "granted"
  BY <1>1 DEF Grantable, ExecuteClaim
<1>5. ClaimsAnswered'
  <2>1. Held(p) => holder = p
    BY DEF IInv, LeaseCoversBelief
  <2> QED BY <1>1, <1>4, <2>1 DEF PromptInv, ClaimsAnswered, Held
<1>6. OnTheBeat'
  BY <1>1 DEF PromptInv, OnTheBeat, Held
<1>7. TickKeepsRow'
  <2>1. ASSUME NEW q \in Process, running[q], ~Wedged(q)
        PROVE  /\ holder' = q
               /\ claim'[q] = "none" => wait[q] + ClaimTimeout < left'
               /\ claim'[q] = "sent" => ClaimTimeout - age[q] < left'
               /\ claim'[q] = "granted" => Ttl - age[q] <= left'
               /\ claim'[q] # "refused"
    <3>1. CASE q = p
      BY <1>2, <1>3, <1>4, <2>1, <3>1
    <3>2. CASE q # p
      BY <1>1, <1>2, <1>3, <2>1, <3>2 DEF PromptInv, TickKeepsRow
    <3> QED BY <3>1, <3>2
  <2> QED BY <1>1, <2>1 DEF TickKeepsRow, Wedged
<1> QED BY <1>5, <1>6, <1>7 DEF PromptInv

\* A tick starts with what is left of the beat: enough for the claim of the next.
LEMMA TicksKeep ==
  ASSUME TimesFit, IInv, PromptInv, IInv', NEW p \in Process, StartTick(p) \/ EndTick(p)
  PROVE  PromptInv'
<1> USE LeaseAssumption DEF LeaseAssumption
<1>1. /\ UNCHANGED <<holder, left, phase, belief, claim, age, wait>>
      /\ \A q \in Process \ {p} : running'[q] = running[q] /\ tickAge'[q] = tickAge[q]
      /\ running'[p] => Margin < belief[p]
  BY DEF StartTick, EndTick, MayTick, dbVars, keeperVars, IInv, TypeOK
<1>2. /\ left \in Nat /\ belief[p] \in Nat /\ age[p] \in Nat /\ wait[p] \in Nat
      /\ claim[p] = "granted" => age[p] <= ClaimTimeout
  BY DEF IInv, TypeOK, PromptInv, ClaimsAnswered
<1>3. ASSUME Margin < belief[p]
      PROVE  /\ holder = p
             /\ claim[p] = "none" => wait[p] + ClaimTimeout < left
             /\ claim[p] = "sent" => ClaimTimeout - age[p] < left
             /\ claim[p] = "granted" => Ttl - age[p] <= left
             /\ claim[p] # "refused"
  <2>1. Held(p) /\ holder = p /\ belief[p] + Slack <= left
    BY <1>2, <1>3 DEF IInv, LeaseCoversBelief, Held
  <2>2. ASSUME claim[p] = "none" PROVE wait[p] + ClaimTimeout < left
    <3> DEFINE m == wait[p] + (Ttl - Slack - belief[p]) - Renew
    <3>1. m \in Beat /\ wait[p] <= Renew
      BY <2>1, <2>2 DEF PromptInv, OnTheBeat
    <3>2. m < Ttl - Slack - Margin
      BY <1>2, <1>3, <3>1
    <3>3. m + Renew + ClaimTimeout < Ttl
      BY <3>1, <3>2, Beats
    <3> QED BY <1>2, <2>1, <3>3
  <2>3. ClaimTimeout - age[p] < left
    BY <1>2, <1>3, <2>1 DEF TimesFit
  <2>4. claim[p] = "granted" => Ttl - age[p] <= left
    BY <1>2, <1>3 DEF IInv, GrantCovered, TimesFit
  <2>5. claim[p] # "refused"
    BY <2>1 DEF PromptInv, ClaimsAnswered
  <2> QED BY <2>1, <2>2, <2>3, <2>4, <2>5
<1>4. ClaimsAnswered' /\ OnTheBeat'
  BY <1>1 DEF PromptInv, ClaimsAnswered, OnTheBeat, Held
<1>5. TickKeepsRow'
  BY <1>1, <1>3 DEF PromptInv, TickKeepsRow, Wedged
<1> QED BY <1>4, <1>5 DEF PromptInv

LEMMA LifeKeeps ==
  ASSUME TimesFit, IInv, PromptInv, IInv',
         \/ \E p \in Process : Start(p) \/ BeginStop(p) \/ FinishStop(p) \/ Crash(p)
         \/ OperatorExpires
  PROVE  PromptInv'
<1>1. CASE \E p \in Process : Start(p) \/ BeginStop(p)
  BY <1>1 DEF Start, BeginStop, dbVars, keeperVars, tickVars, PromptInv, ClaimsAnswered, OnTheBeat,
     TickKeepsRow, Held, Wedged
<1>2. ASSUME NEW p \in Process, FinishStop(p) \/ Crash(p) PROVE PromptInv'
  <2>1. /\ UNCHANGED <<holder, left>>
        /\ belief'[p] = 0 /\ claim'[p] = "none" /\ ~running'[p]
        /\ \A q \in Process \ {p} :
             /\ belief'[q] = belief[q] /\ claim'[q] = claim[q] /\ age'[q] = age[q] /\ wait'[q] = wait[q]
             /\ running'[q] = running[q] /\ tickAge'[q] = tickAge[q]
    BY <1>2 DEF FinishStop, Crash, Forget, dbVars, IInv, TypeOK
  <2>2. ClaimsAnswered' /\ OnTheBeat'
    BY <2>1 DEF PromptInv, ClaimsAnswered, OnTheBeat, Held
  <2>3. TickKeepsRow'
    BY <2>1 DEF PromptInv, TickKeepsRow, Wedged
  <2> QED BY <2>2, <2>3 DEF PromptInv
<1>3. CASE OperatorExpires
  <2>1. /\ UNCHANGED <<holder, phase, belief, claim, age, wait, running, tickAge>>
        /\ ~Alive(holder) /\ holder \in Process
    BY <1>3 DEF OperatorExpires, keeperVars, tickVars
  <2>2. \A q \in Process : ~(running[q] /\ ~Wedged(q))
    BY <2>1, TicksAreCovered
  <2>3. TickKeepsRow'
    BY <2>1, <2>2 DEF TickKeepsRow, Wedged
  <2>4. ClaimsAnswered' /\ OnTheBeat'
    BY <2>1 DEF PromptInv, ClaimsAnswered, OnTheBeat, Held
  <2> QED BY <2>3, <2>4 DEF PromptInv
<1> QED BY <1>1, <1>2, <1>3

\* Time passes only while every process is on time.
LEMMA TimeKeeps ==
  ASSUME TimesFit, IInv, PromptInv, IInv', PromptAdvance
  PROVE  PromptInv'
<1> USE LeaseAssumption DEF LeaseAssumption
<1>1. ASSUME NEW p \in Process
      PROVE  /\ claim'[p] = claim[p] /\ holder' = holder /\ running'[p] = running[p] /\ left' = Down(left)
             /\ belief'[p] = Down(belief[p])
             /\ claim[p] = "none" => wait'[p] = Down(wait[p])
             /\ claim[p] # "none" => wait'[p] = wait[p] /\ age[p] < ClaimTimeout
             /\ claim[p] # "none" => age'[p] = age[p] + 1
             /\ Alive(p) /\ claim[p] = "none" => wait[p] > 0
             /\ running[p] /\ ~Wedged(p)' => ~Wedged(p)
             /\ left \in Nat /\ belief[p] \in Nat /\ wait[p] \in Nat /\ age[p] \in Nat
  <2>1. /\ left \in Nat /\ belief[p] \in Nat /\ wait[p] \in Nat /\ age[p] \in Nat
        /\ age[p] <= Ttl /\ tickAge[p] \in Nat /\ running[p] \in BOOLEAN
    BY DEF IInv, TypeOK
  <2>2. /\ claim'[p] = claim[p] /\ holder' = holder /\ running'[p] = running[p] /\ left' = Down(left)
        /\ belief'[p] = Down(belief[p])
        /\ claim[p] = "none" => wait'[p] = Down(wait[p])
        /\ claim[p] # "none" => wait'[p] = wait[p]
        /\ claim[p] # "none" => age'[p] = Least(Ttl, age[p] + 1)
        /\ running[p] => tickAge'[p] = Least(StaleAfter + 1, tickAge[p] + 1)
    BY DEF PromptAdvance, Advance
  <2>3. /\ Alive(p) /\ claim[p] = "none" => wait[p] > 0
        /\ claim[p] # "none" => age[p] < ClaimTimeout
    BY DEF PromptAdvance, OnTime
  <2>4. claim[p] # "none" => age'[p] = age[p] + 1
    BY <2>1, <2>2, <2>3 DEF Least, TimesFit
  <2>5. running[p] /\ ~Wedged(p)' => ~Wedged(p)
    BY <2>1, <2>2 DEF Wedged, Least
  <2> QED BY <2>1, <2>2, <2>3, <2>4, <2>5
<1>2. ClaimsAnswered'
  <2>1. ASSUME NEW p \in Process
        PROVE  /\ claim'[p] # "none" => age'[p] <= ClaimTimeout
               /\ Held(p)' => claim'[p] # "refused"
    <3>1. Held(p)' => Held(p)
      BY <1>1 DEF Held, Down, Most
    <3>2. claim'[p] # "none" => age'[p] <= ClaimTimeout
      BY <1>1
    <3> QED BY <1>1, <3>1, <3>2 DEF PromptInv, ClaimsAnswered
  <2> QED BY <2>1 DEF ClaimsAnswered
<1>3. OnTheBeat'
  <2>1. ASSUME NEW p \in Process, Held(p)', claim'[p] = "none"
        PROVE  wait'[p] <= Renew /\ wait'[p] + (Ttl - Slack - belief'[p]) - Renew \in Beat
    <3>1. Held(p) /\ claim[p] = "none" /\ belief'[p] = belief[p] - 1
      BY <1>1, <2>1 DEF Held, Down, Most
    <3>2. wait'[p] = wait[p] - 1
      BY <1>1, <3>1 DEF Down, Most, IInv, OnlyTheLivingAct, Held
    <3>3. wait[p] <= Renew /\ wait[p] + (Ttl - Slack - belief[p]) - Renew \in Beat
      BY <3>1 DEF PromptInv, OnTheBeat
    <3>4. wait'[p] + (Ttl - Slack - belief'[p]) - Renew = wait[p] + (Ttl - Slack - belief[p]) - Renew
      BY <1>1, <3>1, <3>2
    <3>5. wait'[p] <= Renew
      BY <1>1, <3>2, <3>3
    <3> QED BY <3>3, <3>4, <3>5
  <2> QED BY <2>1 DEF OnTheBeat
<1>4. TickKeepsRow'
  <2>1. ASSUME NEW p \in Process, running'[p], ~Wedged(p)'
        PROVE  /\ holder' = p
               /\ claim'[p] = "none" => wait'[p] + ClaimTimeout < left'
               /\ claim'[p] = "sent" => ClaimTimeout - age'[p] < left'
               /\ claim'[p] = "granted" => Ttl - age'[p] <= left'
               /\ claim'[p] # "refused"
    <3>1. running[p] /\ ~Wedged(p) /\ Alive(p) /\ 0 < left
      BY <1>1, <2>1, TicksAreCovered
    <3>2. /\ holder = p
          /\ claim[p] = "none" => wait[p] + ClaimTimeout < left
          /\ claim[p] = "sent" => ClaimTimeout - age[p] < left
          /\ claim[p] = "granted" => Ttl - age[p] <= left
          /\ claim[p] # "refused"
      BY <3>1 DEF PromptInv, TickKeepsRow
    <3>3. left' = left - 1 /\ (claim[p] = "none" => wait'[p] = wait[p] - 1)
      BY <1>1, <3>1 DEF Down, Most
    <3> QED BY <1>1, <3>2, <3>3
  <2> QED BY <2>1 DEF TickKeepsRow
<1> QED BY <1>2, <1>3, <1>4 DEF PromptInv

\* With prompt processes and a database that answers, two ticks overlap only if one
\* of them is wedged: times that fit each other leave no other way to lose the row.
THEOREM OnlyTheWedgedOverlap ==
  ASSUME TimesFit PROVE ReliableSpec => []OverlapOnlyWhenWedged
<1>1. Init => PromptInv
  BY DEF Init, PromptInv, ClaimsAnswered, OnTheBeat, TickKeepsRow, Held
<1>2. ASSUME IInv, PromptInv, IInv', [ReliableNext]_vars PROVE PromptInv'
  <2>1. CASE UNCHANGED vars
    BY <1>2, <2>1 DEF vars, dbVars, keeperVars, tickVars, PromptInv, ClaimsAnswered, OnTheBeat,
       TickKeepsRow, Held, Wedged
  <2> QED BY <1>2, <2>1, CyclesKeep, AnswersKeep, TicksKeep, LifeKeeps, TimeKeeps
      DEF ReliableNext, ProcessStep
<1>3. PromptInv => OverlapOnlyWhenWedged
  BY DEF PromptInv, TickKeepsRow, OverlapOnlyWhenWedged
<1>4. ReliableSpec => []IInv
  BY TimedSpecsImplementSpec, Inductive
<1>5. IInv /\ PromptInv /\ IInv' /\ [ReliableNext]_vars => PromptInv'
  BY <1>2
<1>6. ReliableSpec => []PromptInv
  BY <1>1, <1>4, <1>5, PTL DEF ReliableSpec
<1> QED BY <1>3, <1>6, PTL

-----------------------------------------------------------------------------
(* Prompt processes and a database that fails at will: what a few lost claims cost. *)

\* The longest a failed poll keeps a standby from its next one.
LongPoll == Most(ClaimTimeout + MinCycle, StandbyPoll)

\* Three renewals and the timeout of the third lie within a belief; a poll, a lost
\* one and all of a third but its last moments lie within a fresh refusal.
RetriesFit ==
  /\ MinCycle + ClaimTimeout <= Renew /\ 3 * Renew + ClaimTimeout + Slack < Ttl
  /\ MinCycle <= StandbyPoll /\ MinCycle <= ClaimTimeout
  /\ StandbyPoll + LongPoll + ClaimTimeout - MinCycle <= StandbyFresh
  /\ 3 <= MaxFailures

\* The times of worker_lease.py, in halves of a second.
LEMMA RetriesOfTheCode ==
  ASSUME Ttl = 120, Renew = 30, MinCycle = 1, ClaimTimeout = 20, Slack = 4,
         StandbyPoll = 20, StandbyFresh = 60, MaxFailures = 3
  PROVE  RetriesFit
BY DEF RetriesFit, LongPoll, Most

\* How long ago the claim was sent that belief rests on, and how long ago the last
\* refusal was learnt.
SinceGrant(p)   == Ttl - Slack - belief[p]
SinceRefusal(p) == FreshRefusal - standby[p]

\* Claims end in time; a believer has no fresh refusal, nor will its claim be
\* refused; a process that does not run has neither.
Orderly(p) ==
  /\ claim[p] # "none" => age[p] <= ClaimTimeout
  /\ Held(p) => standby[p] = 0 /\ claim[p] # "refused"
  /\ ~Alive(p) => standby[p] = 0

\* With each failure in a row a holder falls one renewal behind.
Renewals(p) ==
  Held(p) =>
    /\ claim[p] = "none" => /\ failures[p] = 0 => wait[p] + SinceGrant(p) <= Renew
                            /\ failures[p] = 1 => wait[p] + SinceGrant(p) <= 2 * Renew
                            /\ failures[p] = 2 => wait[p] + SinceGrant(p) <= 3 * Renew
    /\ claim[p] # "none" => /\ failures[p] = 0 => SinceGrant(p) <= Renew + age[p]
                            /\ failures[p] = 1 => SinceGrant(p) <= 2 * Renew + age[p]
                            /\ failures[p] = 2 => SinceGrant(p) <= 3 * Renew + age[p]

\* A standby that has lost one poll is one long poll behind.
Polls(p) ==
  standby[p] > 0 =>
    /\ claim[p] = "none" => /\ failures[p] = 0 => wait[p] + SinceRefusal(p) <= StandbyPoll
                            /\ failures[p] = 1 => wait[p] + SinceRefusal(p) <= StandbyPoll + LongPoll
    /\ claim[p] # "none" => /\ failures[p] = 0 => SinceRefusal(p) <= StandbyPoll + age[p]
                            /\ failures[p] = 1 => SinceRefusal(p) <= StandbyPoll + LongPoll + age[p]

Retries(p) == Orderly(p) /\ Renewals(p) /\ Polls(p)

\* And no tick is wedged.
RetryInv == \A p \in Process : Retries(p) /\ ~Wedged(p)

\* What a process's part of the state is made of.
LEMMA LeaseNumbers ==
  ASSUME TypeOK, NEW p \in Process
  PROVE  /\ belief[p] \in Nat /\ standby[p] \in Nat /\ age[p] \in Nat /\ wait[p] \in Nat
         /\ failures[p] \in Nat /\ belief[p] <= Ttl /\ standby[p] <= StandbyFresh + 1
         /\ claim[p] \in Claim /\ left \in Nat
BY LeaseAssumption DEF TypeOK, LeaseAssumption

LEMMA LongPollIs ==
  LongPoll \in Nat /\ ClaimTimeout + MinCycle <= LongPoll /\ StandbyPoll <= LongPoll
BY LeaseAssumption DEF LongPoll, Most, LeaseAssumption

\* A step of another process, or of this one that leaves its keeper alone.
LEMMA KeeperStands ==
  ASSUME NEW q \in Process, Retries(q),
         belief'[q] = belief[q], standby'[q] = standby[q], claim'[q] = claim[q], age'[q] = age[q],
         wait'[q] = wait[q], failures'[q] = failures[q], Alive(q)' <=> Alive(q)
  PROVE  Retries(q)'
BY DEF Retries, Orderly, Renewals, Polls, Held, SinceGrant, SinceRefusal, FreshRefusal

\* A process that has ended believes nothing.
LEMMA EndedRetries ==
  ASSUME NEW q \in Process, belief'[q] = 0, standby'[q] = 0, claim'[q] = "none"
  PROVE  Retries(q)'
BY DEF Retries, Orderly, Renewals, Polls, Held

LEMMA SendRetries ==
  ASSUME RetriesFit, IInv, NEW p \in Process, Retries(p), SendClaim(p)
  PROVE  Retries(p)'
<1> USE LeaseAssumption DEF LeaseAssumption
<1>1. /\ belief'[p] = belief[p] /\ standby'[p] = standby[p] /\ failures'[p] = failures[p]
      /\ claim[p] = "none" /\ claim'[p] = "sent" /\ wait[p] = 0 /\ age'[p] = 0 /\ phase' = phase
  BY DEF SendClaim, IInv, TypeOK
<1>2. /\ belief[p] \in Nat /\ standby[p] \in Nat
  BY LeaseNumbers DEF IInv
<1>3. Orderly(p)'
  BY <1>1 DEF Retries, Orderly, Held, Alive
<1>4. Renewals(p)'
  BY <1>1, <1>2 DEF Retries, Renewals, Held, SinceGrant
<1>5. Polls(p)'
  BY <1>1, <1>2, LongPollIs DEF Retries, Polls, SinceRefusal, FreshRefusal
<1> QED BY <1>3, <1>4, <1>5 DEF Retries

LEMMA GrantRetries ==
  ASSUME RetriesFit, IInv, NEW p \in Process, Retries(p), LearnGranted(p)
  PROVE  Retries(p)'
<1> USE LeaseAssumption DEF LeaseAssumption
<1>1. /\ belief'[p] = Most(0, Ttl - Slack - age[p]) /\ standby'[p] = 0 /\ failures'[p] = 0
      /\ claim'[p] = "none" /\ wait'[p] = Pause(belief'[p] > 0, age[p])
      /\ claim[p] = "granted"
  BY DEF LearnGranted, BeliefFromSend, IInv, TypeOK
<1>2. age[p] \in Nat /\ age[p] <= ClaimTimeout
  BY <1>1, LeaseNumbers DEF IInv, Retries, Orderly
<1>3. belief'[p] = Ttl - Slack - age[p] /\ belief'[p] > 0
  BY <1>1, <1>2 DEF Most, RetriesFit
<1>4. wait'[p] = Renew - age[p]
  BY <1>1, <1>2, <1>3 DEF Pause, Most, RetriesFit
<1> QED BY <1>1, <1>2, <1>3, <1>4 DEF Retries, Orderly, Renewals, Polls, Held, SinceGrant

LEMMA RefusalRetries ==
  ASSUME RetriesFit, IInv, NEW p \in Process, Retries(p), LearnRefused(p)
  PROVE  Retries(p)'
<1> USE LeaseAssumption DEF LeaseAssumption
<1>1. /\ belief'[p] = 0 /\ standby'[p] = FreshRefusal /\ failures'[p] = 0
      /\ claim'[p] = "none" /\ wait'[p] = Pause(FALSE, age[p]) /\ claim[p] = "refused" /\ phase' = phase
  BY DEF LearnRefused, IInv, TypeOK
<1>2. age[p] \in Nat /\ Alive(p) /\ Alive(p)'
  BY <1>1, LeaseNumbers DEF IInv, OnlyTheLivingAct, Alive
<1>3. wait'[p] <= StandbyPoll
  BY <1>1, <1>2 DEF Pause, Most, RetriesFit
<1>4. wait'[p] \in Int
  BY <1>1, <1>2 DEF Pause, Most
<1>5. Orderly(p)'
  BY <1>1, <1>2 DEF Orderly, Held
<1>6. Renewals(p)'
  BY <1>1 DEF Renewals, Held
<1>7. Polls(p)'
  <2>1. SinceRefusal(p)' = 0
    BY <1>1 DEF SinceRefusal, FreshRefusal
  <2>2. wait'[p] + SinceRefusal(p)' <= StandbyPoll
    BY <1>3, <1>4, <2>1
  <2>3. claim'[p] = "none" /\ failures'[p] # 1
    BY <1>1
  <2> HIDE <1>1, <1>3
  <2> QED BY <2>2, <2>3 DEF Polls
<1> QED BY <1>5, <1>6, <1>7 DEF Retries

LEMMA FailureRetries ==
  ASSUME RetriesFit, IInv, NEW p \in Process, Retries(p), ClaimFails(p)
  PROVE  Retries(p)'
<1> USE LeaseAssumption DEF LeaseAssumption
<1>1. /\ belief'[p] = belief[p] /\ standby'[p] = standby[p]
      /\ failures'[p] = Least(MaxFailures, failures[p] + 1)
      /\ claim'[p] = "none" /\ wait'[p] = Pause(Held(p), age[p]) /\ claim[p] # "none" /\ phase' = phase
  BY DEF ClaimFails, IInv, TypeOK
<1>2. /\ age[p] \in Nat /\ age[p] <= ClaimTimeout /\ failures[p] \in Nat
      /\ belief[p] \in Nat /\ standby[p] \in Nat
  BY <1>1, LeaseNumbers DEF IInv, Retries, Orderly
<1>3. /\ failures'[p] = 1 => failures[p] = 0
      /\ failures'[p] = 2 => failures[p] = 1
      /\ failures'[p] # 0
  BY <1>1, <1>2 DEF Least, RetriesFit
<1>4. Held(p) => wait'[p] = Renew - age[p]
  BY <1>1, <1>2 DEF Pause, Most, RetriesFit
<1>5. ~Held(p) => wait'[p] \in Int /\ wait'[p] + age[p] <= LongPoll
  BY <1>1, <1>2 DEF Pause, Most, LongPoll, RetriesFit
<1>6. Orderly(p)'
  BY <1>1 DEF Retries, Orderly, Held, Alive
<1>7. Renewals(p)'
  BY <1>1, <1>2, <1>3, <1>4 DEF Retries, Renewals, Held, SinceGrant
<1>8. Polls(p)'
  <2>1. standby[p] > 0 => ~Held(p)
    BY <1>2 DEF Retries, Orderly
  <2> QED BY <1>1, <1>2, <1>3, <1>5, <2>1, LongPollIs DEF Retries, Polls, SinceRefusal, FreshRefusal
<1> QED BY <1>6, <1>7, <1>8 DEF Retries

\* The database's answer, or a claim given up on that it executes late.
LEMMA AnswerRetries ==
  ASSUME IInv, NEW p \in Process, Retries(p), DatabaseAnswers(p)
  PROVE  Retries(p)'
<1>1. /\ belief'[p] = belief[p] /\ standby'[p] = standby[p] /\ failures'[p] = failures[p]
      /\ wait'[p] = wait[p] /\ age'[p] = age[p] /\ phase' = phase /\ claim[p] = "sent"
      /\ claim'[p] = IF Grantable(p) THEN "granted" ELSE "refused"
  BY DEF DatabaseAnswers, IInv, TypeOK
<1>2. Held(p) => claim'[p] # "refused"
  BY <1>1 DEF IInv, LeaseCoversBelief, Grantable
<1>3. claim'[p] # "none"
  BY <1>1
<1> QED BY <1>1, <1>2, <1>3 DEF Retries, Orderly, Renewals, Polls, Held, Alive, SinceGrant, SinceRefusal,
        FreshRefusal

\* What a moment passing on time does to one process.
LEMMA Passing ==
  ASSUME IInv, PromptAdvance, NEW p \in Process
  PROVE  /\ claim'[p] = claim[p] /\ failures'[p] = failures[p] /\ phase' = phase
         /\ belief'[p] = Down(belief[p]) /\ standby'[p] = Down(standby[p])
         /\ claim[p] = "none" => wait'[p] = Down(wait[p]) /\ (Alive(p) => wait[p] > 0)
         /\ claim[p] # "none" => age[p] < ClaimTimeout /\ (ClaimTimeout < Ttl => age'[p] = age[p] + 1)
<1> USE LeaseAssumption DEF LeaseAssumption
<1>1. /\ claim'[p] = claim[p] /\ failures'[p] = failures[p] /\ phase' = phase
      /\ belief'[p] = Down(belief[p]) /\ standby'[p] = Down(standby[p])
      /\ claim[p] = "none" => wait'[p] = Down(wait[p])
      /\ claim[p] # "none" => age'[p] = Least(Ttl, age[p] + 1)
  BY DEF PromptAdvance, Advance
<1>2. /\ claim[p] = "none" /\ Alive(p) => wait[p] > 0
      /\ claim[p] # "none" => age[p] < ClaimTimeout
  BY DEF PromptAdvance, OnTime
<1>3. age[p] \in Nat
  BY LeaseNumbers DEF IInv
<1> QED BY <1>1, <1>2, <1>3 DEF Least

LEMMA MomentRetries ==
  ASSUME RetriesFit, IInv, NEW p \in Process, Retries(p), PromptAdvance
  PROVE  Retries(p)'
<1> USE LeaseAssumption DEF LeaseAssumption
<1>1. /\ claim'[p] = claim[p] /\ failures'[p] = failures[p] /\ phase' = phase
      /\ belief'[p] = Down(belief[p]) /\ standby'[p] = Down(standby[p])
      /\ claim[p] = "none" => wait'[p] = Down(wait[p]) /\ (Alive(p) => wait[p] > 0)
      /\ claim[p] # "none" => age[p] < ClaimTimeout /\ age'[p] = age[p] + 1
  BY Passing DEF RetriesFit
<1>2. belief[p] \in Nat /\ standby[p] \in Nat /\ age[p] \in Nat /\ wait[p] \in Nat
  BY LeaseNumbers DEF IInv
<1>3. /\ Held(p)' => Held(p) /\ belief'[p] = belief[p] - 1
      /\ standby'[p] > 0 => standby[p] > 0 /\ standby'[p] = standby[p] - 1
      /\ standby[p] = 0 => standby'[p] = 0
      /\ Alive(p)' <=> Alive(p)
  BY <1>1, <1>2 DEF Held, Down, Most, Alive
<1>4. claim[p] = "none" /\ Alive(p) => wait'[p] = wait[p] - 1
  BY <1>1, <1>2 DEF Down, Most
<1>5. (Held(p) => Alive(p)) /\ (standby[p] > 0 => Alive(p))
  BY <1>2 DEF IInv, OnlyTheLivingAct, Held, Retries, Orderly
<1>6. Orderly(p)'
  BY <1>1, <1>2, <1>3 DEF Retries, Orderly
<1>7. Renewals(p)'
  BY <1>1, <1>2, <1>3, <1>4, <1>5 DEF Retries, Renewals, SinceGrant
<1>8. Polls(p)'
  BY <1>1, <1>2, <1>3, <1>4, <1>5, LongPollIs DEF Retries, Polls, SinceRefusal, FreshRefusal
<1> QED BY <1>6, <1>7, <1>8 DEF Retries

\* A step of one process is no step of another's keeper or tick.
LEMMA OthersStand ==
  ASSUME IInv, NEW p \in Process, ProcessStep(p) \/ Fault(p), NEW q \in Process, q # p
  PROVE  /\ belief'[q] = belief[q] /\ standby'[q] = standby[q] /\ claim'[q] = claim[q] /\ age'[q] = age[q]
         /\ wait'[q] = wait[q] /\ failures'[q] = failures[q] /\ phase'[q] = phase[q]
         /\ running'[q] = running[q] /\ tickAge'[q] = tickAge[q]
<1> USE DEF IInv, TypeOK, dbVars, tickVars, keeperVars
<1>1. CASE SendClaim(p) \/ SkipClaim(p) \/ LearnGranted(p) \/ LearnRefused(p)
  BY <1>1 DEF SendClaim, SkipClaim, LearnGranted, LearnRefused
<1>2. CASE DatabaseAnswers(p) \/ ClaimFails(p) \/ StrayClaimLands(p)
  BY <1>2 DEF DatabaseAnswers, ClaimFails, StrayClaimLands
<1>3. CASE StartTick(p) \/ EndTick(p) \/ Start(p) \/ BeginStop(p)
  BY <1>3 DEF StartTick, EndTick, Start, BeginStop
<1>4. CASE FinishStop(p) \/ Crash(p)
  BY <1>4 DEF FinishStop, Crash, Forget
<1> QED BY <1>1, <1>2, <1>3, <1>4 DEF ProcessStep, KeeperStep, Fault

LEMMA OwnStepRetries ==
  ASSUME RetriesFit, IInv, NEW p \in Process, Retries(p), ~Wedged(p), ProcessStep(p) \/ Fault(p)
  PROVE  Retries(p)' /\ ~Wedged(p)'
<1> USE LeaseAssumption DEF LeaseAssumption
<1>1. ~Wedged(p)'
  <2>1. CASE StartTick(p) \/ EndTick(p) \/ FinishStop(p) \/ Crash(p)
    <3>1. tickAge'[p] = 0
      BY <2>1 DEF StartTick, EndTick, FinishStop, Crash, Forget, IInv, TypeOK
    <3> QED BY <3>1 DEF Wedged
  <2>2. CASE UNCHANGED tickVars
    BY <2>2 DEF tickVars, Wedged
  <2> QED BY <2>1, <2>2 DEF ProcessStep, KeeperStep, Fault, SendClaim, SkipClaim, LearnGranted, LearnRefused,
          DatabaseAnswers, ClaimFails, StrayClaimLands, Start, BeginStop
<1>2. CASE StrayClaimLands(p) \/ StartTick(p) \/ EndTick(p)
  <2>1. UNCHANGED <<belief, standby, claim, age, wait, failures, phase>>
    BY <1>2 DEF StrayClaimLands, StartTick, EndTick, keeperVars
  <2> QED BY <1>1, <2>1, KeeperStands DEF Alive
<1>3. CASE Start(p) \/ BeginStop(p)
  <2>1. UNCHANGED <<belief, standby, claim, age, wait, failures>> /\ Alive(p)'
        /\ (~Alive(p) => standby[p] = 0)
    BY <1>3 DEF Start, BeginStop, keeperVars, IInv, TypeOK, Alive, Retries, Orderly
  <2>2. Retries(p)'
    BY <2>1 DEF Retries, Orderly, Renewals, Polls, Held, SinceGrant, SinceRefusal, FreshRefusal
  <2> QED BY <1>1, <2>2
<1>4. CASE FinishStop(p) \/ Crash(p)
  <2>1. belief'[p] = 0 /\ standby'[p] = 0 /\ claim'[p] = "none"
    BY <1>4 DEF FinishStop, Crash, Forget, IInv, TypeOK
  <2> QED BY <1>1, <2>1, EndedRetries
<1>5. ~SkipClaim(p)
  BY DEF SkipClaim
<1> QED BY <1>1, <1>2, <1>3, <1>4, <1>5, SendRetries, GrantRetries, RefusalRetries, FailureRetries, AnswerRetries
        DEF ProcessStep, KeeperStep, Fault

LEMMA PromptRetries ==
  ASSUME RetriesFit, IInv, RetryInv, [PromptNext]_vars
  PROVE  RetryInv'
<1>1. CASE UNCHANGED vars \/ OperatorExpires
  <2>1. UNCHANGED <<phase, belief, standby, claim, age, wait, failures, running, tickAge>>
    BY <1>1 DEF vars, keeperVars, tickVars, OperatorExpires
  <2> QED BY <2>1, KeeperStands DEF RetryInv, Alive, Wedged
<1>2. ASSUME NEW p \in Process, ProcessStep(p) \/ Fault(p), NEW q \in Process
      PROVE  Retries(q)' /\ ~Wedged(q)'
  <2>1. CASE q = p
    BY <1>2, <2>1, OwnStepRetries DEF RetryInv
  <2>2. CASE q # p
    BY <1>2, <2>2, OthersStand, KeeperStands DEF RetryInv, Alive, Wedged
  <2> QED BY <2>1, <2>2
<1>3. CASE PromptAdvance /\ \A p \in Process : ~Wedged(p)'
  BY <1>3, MomentRetries DEF RetryInv
<1> QED BY <1>1, <1>2, <1>3 DEF PromptNext, RetryInv

LEMMA RetriesHold ==
  ASSUME RetriesFit PROVE PromptSpec => [](IInv /\ RetryInv)
<1>1. Init => RetryInv
  BY DEF Init, RetryInv, Retries, Orderly, Renewals, Polls, Held, Wedged
<1>2. IInv /\ RetryInv /\ [PromptNext]_vars => RetryInv'
  BY PromptRetries
<1>3. PromptSpec => []IInv
  BY TimedSpecsImplementSpec, Inductive
<1> QED BY <1>1, <1>2, <1>3, PTL DEF PromptSpec

\* "Two lost heartbeats": the belief of a holder that keeps on goes only with a
\* third failure in a row, whatever else is lost, delayed or given up on.
THEOREM TwoLostClaimsCostNothing ==
  ASSUME RetriesFit PROVE PromptSpec => HolderSurvivesTwoLostClaims
<1> USE LeaseAssumption DEF LeaseAssumption
<1>1. ASSUME IInv, RetryInv, [PromptNext]_vars, NEW p \in Process,
             Held(p), phase'[p] # "down", ~Held(p)'
      PROVE  failures[p] >= 3
  <2>1. /\ belief[p] \in Nat /\ failures[p] \in Nat /\ wait[p] \in Nat /\ age[p] \in Nat
        /\ claim[p] # "refused" /\ Alive(p) /\ Retries(p)
    BY <1>1, LeaseNumbers DEF IInv, RetryInv, Retries, Orderly, OnlyTheLivingAct, Held
  <2>2. belief'[p] # belief[p]
    BY <1>1 DEF Held
  <2>3. CASE PromptAdvance
    <3>1. /\ claim[p] = "none" => wait[p] > 0
          /\ claim[p] # "none" => age[p] < ClaimTimeout
          /\ belief'[p] = Down(belief[p])
      BY <1>1, <2>1, <2>3, Passing
    <3>2. SinceGrant(p) + 1 = Ttl - Slack
      BY <1>1, <2>1, <3>1 DEF Held, Down, Most, SinceGrant
    <3>3. Renewals(p) /\ Held(p)
      BY <1>1, <2>1 DEF Retries
    <3>4. 3 * Renew + ClaimTimeout + 1 <= SinceGrant(p) + 1 /\ SinceGrant(p) \in Int
      BY <2>1, <3>2 DEF RetriesFit, SinceGrant
    <3>5. CASE claim[p] = "none"
      <4>1. failures[p] \in 0..2 => wait[p] + SinceGrant(p) <= 3 * Renew
        BY <2>1, <3>3, <3>4, <3>5 DEF Renewals
      <4> QED BY <2>1, <3>1, <3>4, <3>5, <4>1
    <3>6. CASE claim[p] # "none"
      <4>1. failures[p] \in 0..2 => SinceGrant(p) <= 3 * Renew + age[p]
        BY <2>1, <3>3, <3>4, <3>6 DEF Renewals
      <4> QED BY <2>1, <3>1, <3>4, <3>6, <4>1
    <3> QED BY <3>5, <3>6
  <2>4. CASE UNCHANGED vars \/ OperatorExpires
    BY <2>2, <2>4 DEF vars, keeperVars, OperatorExpires
  <2>5. ASSUME NEW q \in Process, ProcessStep(q) \/ Fault(q) PROVE FALSE
    <3>1. q = p
      BY <1>1, <2>2, <2>5, OthersStand
    <3>2. CASE LearnGranted(p)
      <4>1. belief'[p] = Most(0, Ttl - Slack - age[p]) /\ age[p] <= ClaimTimeout
        BY <2>1, <3>2, <1>1 DEF LearnGranted, BeliefFromSend, IInv, TypeOK, Retries, Orderly
      <4> QED BY <1>1, <2>1, <4>1 DEF Held, Most, RetriesFit
    <3>3. CASE FinishStop(p) \/ Crash(p)
      BY <1>1, <3>3 DEF FinishStop, Crash, Forget, IInv, TypeOK
    <3>4. ~LearnRefused(p)
      BY <2>1 DEF LearnRefused
    <3> QED BY <2>2, <2>5, <3>1, <3>2, <3>3, <3>4
            DEF ProcessStep, KeeperStep, Fault, SendClaim, SkipClaim, DatabaseAnswers, ClaimFails,
                StrayClaimLands, StartTick, EndTick, Start, BeginStop, keeperVars
  <2> QED BY <1>1, <2>3, <2>4, <2>5 DEF PromptNext
<1>2. IInv /\ RetryInv /\ [PromptNext]_vars =>
        [\A p \in Process : Held(p) /\ phase'[p] # "down" /\ ~Held(p)' => failures[p] >= 3]_vars
  BY <1>1
<1> QED BY <1>2, RetriesHold, PTL DEF PromptSpec, HolderSurvivesTwoLostClaims

\* "One lost poll": a healthy standby becomes unknown only when two claims have
\* failed in a row, or one has and the next is about to.
THEOREM OneLostPollCostsNothing ==
  ASSUME RetriesFit PROVE PromptSpec => StandbySurvivesOneLostPoll
<1> USE LeaseAssumption DEF LeaseAssumption
<1>1. ASSUME IInv, RetryInv, [PromptNext]_vars, NEW p \in Process,
             ~Held(p), standby[p] > 0, phase'[p] # "down", ~Held(p)', ~(standby'[p] > 0)
      PROVE  failures[p] >= 2 \/ age[p] + MinCycle >= ClaimTimeout
  <2>1. /\ standby[p] \in Nat /\ failures[p] \in Nat /\ wait[p] \in Nat /\ age[p] \in Nat
        /\ Alive(p) /\ Retries(p)
    BY <1>1, LeaseNumbers DEF IInv, RetryInv, Retries, Orderly
  <2>2. standby'[p] # standby[p]
    BY <1>1
  <2>3. CASE PromptAdvance
    <3>1. /\ claim[p] = "none" => wait[p] > 0
          /\ claim[p] # "none" => age[p] < ClaimTimeout
          /\ standby'[p] = Down(standby[p])
      BY <1>1, <2>1, <2>3, Passing
    <3>2. SinceRefusal(p) = StandbyFresh
      BY <1>1, <2>1, <3>1 DEF Down, Most, SinceRefusal, FreshRefusal
    <3>3. Polls(p) /\ standby[p] > 0
      BY <1>1, <2>1 DEF Retries
    <3>4. StandbyPoll + LongPoll + ClaimTimeout - MinCycle <= StandbyFresh /\ MinCycle <= ClaimTimeout
      BY DEF RetriesFit
    <3>5. CASE claim[p] = "none"
      <4>1. failures[p] \in 0..1 => wait[p] + StandbyFresh <= StandbyPoll + LongPoll
        BY <2>1, <3>2, <3>3, <3>5, LongPollIs DEF Polls
      <4> QED BY <2>1, <3>1, <3>4, <3>5, <4>1, LongPollIs
    <3>6. CASE claim[p] # "none"
      <4>1. failures[p] \in 0..1 => StandbyFresh <= StandbyPoll + LongPoll + age[p]
        BY <2>1, <3>2, <3>3, <3>6, LongPollIs DEF Polls
      <4> QED BY <2>1, <3>1, <3>4, <3>6, <4>1, LongPollIs
    <3> QED BY <3>5, <3>6
  <2>4. CASE UNCHANGED vars \/ OperatorExpires
    BY <2>2, <2>4 DEF vars, keeperVars, OperatorExpires
  <2>5. ASSUME NEW q \in Process, ProcessStep(q) \/ Fault(q) PROVE FALSE
    <3>1. q = p
      BY <1>1, <2>2, <2>5, OthersStand
    <3>2. ~LearnGranted(p)
      <4>1. LearnGranted(p) => belief'[p] = Most(0, Ttl - Slack - age[p]) /\ age[p] <= ClaimTimeout
        BY <2>1, <1>1 DEF LearnGranted, BeliefFromSend, IInv, TypeOK, Retries, Orderly
      <4> QED BY <1>1, <2>1, <4>1 DEF Held, Most, RetriesFit
    <3>3. ~FinishStop(p) /\ ~Crash(p)
      BY <1>1 DEF FinishStop, Crash, Forget, IInv, TypeOK
    <3>4. ~LearnRefused(p)
      <4>1. LearnRefused(p) => standby'[p] = StandbyFresh + 1
        BY <1>1 DEF LearnRefused, FreshRefusal, IInv, TypeOK
      <4> QED BY <1>1, <4>1
    <3> QED BY <2>2, <2>5, <3>1, <3>2, <3>3, <3>4
            DEF ProcessStep, KeeperStep, Fault, SendClaim, SkipClaim, DatabaseAnswers, ClaimFails,
                StrayClaimLands, StartTick, EndTick, Start, BeginStop, keeperVars
  <2> QED BY <1>1, <2>3, <2>4, <2>5 DEF PromptNext
<1>2. ASSUME IInv, RetryInv, [PromptNext]_vars, NEW p \in Process,
             Status(p) = "standby", phase'[p] # "down", Status(p)' = "unknown"
      PROVE  failures[p] >= 2 \/ age[p] + MinCycle >= ClaimTimeout
  <2>1. ~Held(p) /\ standby[p] > 0 /\ ~Held(p)' /\ ~(standby'[p] > 0)
    BY <1>2 DEF Status
  <2> QED BY <1>1, <1>2, <2>1
<1>3. IInv /\ RetryInv /\ [PromptNext]_vars =>
        [\A p \in Process :
           Status(p) = "standby" /\ phase'[p] # "down" /\ Status(p)' = "unknown" =>
             failures[p] >= 2 \/ age[p] + MinCycle >= ClaimTimeout]_vars
  BY <1>2
<1> QED BY <1>3, RetriesHold, PTL DEF PromptSpec, StandbySurvivesOneLostPoll
=============================================================================
