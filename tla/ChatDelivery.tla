----------------------------- MODULE ChatDelivery -----------------------------
(***************************************************************************)
(* A request for a resume that reaches the service through a chat: the     *)
(* Telegram and Discord webhooks with their claims, _start_prepare with    *)
(* the per-process places and the hourly limit, and the generation that    *)
(* outlives the request.  A message may be delivered several times and to  *)
(* several processes; any of them may crash or be shut down.               *)
(***************************************************************************)
EXTENDS Naturals, FiniteSets

CONSTANTS
  Update,       \* messages: update_id at Telegram, the interaction's id at Discord
  OnDiscord,    \* the messages that come from Discord
  PersonOf,     \* who sent each
  Delivery,     \* requests that carry a message to the service
  Process, NoProcess, NoUpdate,
  MaxPlaces,    \* DEFAULT_MAX_CONCURRENT, generations per process
  MaxDesks,     \* MAX_IN_FLIGHT, interactions per process
  MaxHourly,    \* RATE_LIMITS["prepare"]
  MaxMisfortunes  \* bound: failures, lost answers, crashes, shutdowns

ASSUME ChatAssumption ==
  /\ OnDiscord \subseteq Update /\ DOMAIN PersonOf = Update
  /\ NoUpdate \notin Update /\ NoProcess \notin Process
  /\ {MaxPlaces, MaxDesks, MaxHourly} \subseteq Nat \ {0} /\ MaxMisfortunes \in Nat

VARIABLES
  claimRow,     \* the claim of each message: "none", "held" or "done"
  ripe,         \* claims older than their lease
  acked,        \* Telegram messages answered by a 200 that arrived
  tooOld,       \* Discord messages whose signature's time is past
  doing,        \* where each delivery is
  carries,      \* the message it carries
  host,         \* the process it was sent to
  owning,       \* deliveries that were answered 'claimed'
  desks,        \* interaction_registry of each process
  places,       \* deferred_reply.registry of each process
  spent,        \* api_rate_limits of each person
  writing,      \* where each delivery's generation is
  shown,        \* what the person has been shown of it
  began,        \* history: deliveries whose handler was started
  returned,     \* history: and whose handler returned
  spoiled,      \* history: claim, handler or settling failed, or were cut off
  overran,      \* history: messages with a handler that outlived its lease
  muted,        \* history: generations that could not say how they ended
  doubtful,     \* history: documents that arrived though the answer was an error
  misfortunes

envelope    == <<carries, host>>
endings     == <<muted, doubtful>>
claimVars   == <<claimRow, ripe, acked, tooOld>>
requestVars == <<doing, envelope, owning, desks>>
resumeVars  == <<places, spent, writing, shown>>
chatHistory == <<began, returned, spoiled, overran, endings>>
chatVars    == <<claimVars, requestVars, resumeVars, chatHistory, misfortunes>>

DeliveryPlace == {"unsent", "claiming", "handling", "limiting", "opening", "settling",
                  "replying", "answered", "refused", "dead"}
Writing == {"none", "engine", "sending", "closing", "explaining", "failing", "over"}

ChatTypeOK ==
  /\ claimRow \in [Update -> {"none", "held", "done"}]
  /\ ripe \subseteq Update /\ acked \subseteq Update \ OnDiscord /\ tooOld \subseteq OnDiscord
  /\ doing \in [Delivery -> DeliveryPlace] /\ host \in [Delivery -> Process \cup {NoProcess}]
  /\ carries \in [Delivery -> Update \cup {NoUpdate}] /\ owning \subseteq Delivery
  /\ desks \in [Process -> SUBSET Delivery] /\ places \in [Process -> SUBSET Delivery]
  /\ spent \in [{PersonOf[u] : u \in Update} -> 0 .. MaxHourly]
  /\ writing \in [Delivery -> Writing]
  /\ shown \in [Delivery -> SUBSET {"progress", "resume", "reason", "failure"}]
  /\ returned \subseteq began /\ began \subseteq Delivery
  /\ spoiled \subseteq Delivery /\ overran \subseteq Update /\ muted \cup doubtful \subseteq Delivery
  /\ misfortunes \in 0 .. MaxMisfortunes

-----------------------------------------------------------------------------
Discord(d) == carries[d] \in OnDiscord
Person(d)  == PersonOf[carries[d]]
Goto(d, s) == doing' = [doing EXCEPT ![d] = s]

Misfortune == misfortunes < MaxMisfortunes /\ misfortunes' = misfortunes + 1
AllWell    == UNCHANGED misfortunes

Give(registry, d) == [registry EXCEPT ![host[d]] = @ \ {d}]
Take(registry, d) == [registry EXCEPT ![host[d]] = @ \cup {d}]

Handled(d) == doing[d] \in {"handling", "limiting", "opening", "settling"}

\* Telegram sends a message until it is answered by a 200.  Discord sends it once;
\* what comes again is a copy, accepted for five minutes, if a desk is free.
Arrive(d, u, p) ==
  /\ doing[d] = "unsent" /\ u \notin acked \cup tooOld
  /\ carries' = [carries EXCEPT ![d] = u] /\ host' = [host EXCEPT ![d] = p]
  /\ IF u \notin OnDiscord
     THEN Goto(d, "claiming") /\ UNCHANGED desks
     ELSE IF Cardinality(desks[p]) = MaxDesks
          THEN Goto(d, "answered") /\ UNCHANGED desks
          ELSE Goto(d, "claiming") /\ desks' = [desks EXCEPT ![p] = @ \cup {d}]
  /\ UNCHANGED <<claimVars, owning, resumeVars, chatHistory>> /\ AllWell

\* Time matters to what is still to come only.
Ahead(stages) == \E d \in Delivery : doing[d] \in stages

\* A lease is longer than handlers take; should one take longer, it is noted.
\* Discord's is longer than a signature is accepted and the claim then waits.
LeaseEnds(u) ==
  /\ claimRow[u] = "held" /\ u \notin ripe
  /\ u \in OnDiscord => /\ u \in tooOld
                        /\ \A d \in Delivery : carries[d] = u => doing[d] # "claiming"
  /\ Ahead({"unsent", "claiming"})
  /\ ripe' = ripe \cup {u}
  /\ overran' = overran \cup {carries[d] : d \in {e \in Delivery : carries[e] = u /\ Handled(e)}}
  /\ UNCHANGED <<claimRow, acked, tooOld, requestVars, resumeVars, began, returned, spoiled, endings>>
  /\ AllWell

SignatureAges(u) ==
  /\ u \in OnDiscord \ tooOld /\ Ahead({"unsent", "claiming"})
  /\ tooOld' = tooOld \cup {u}
  /\ UNCHANGED <<claimRow, ripe, acked, requestVars, resumeVars, chatHistory>> /\ AllWell

\* An hour has passed: the next claim of a slot starts a new window.
HourPasses(q) ==
  /\ spent[q] > 0 /\ Ahead({"unsent", "claiming", "handling", "limiting"})
  /\ spent' = [spent EXCEPT ![q] = 0]
  /\ UNCHANGED <<claimVars, requestVars, places, writing, shown, chatHistory>> /\ AllWell

-----------------------------------------------------------------------------
(* claim_update, claim_interaction. *)

Grant(u) == /\ claimRow' = [claimRow EXCEPT ![u] = "held"] /\ ripe' = ripe \ {u}

Claimable(u) == claimRow[u] = "none" \/ (claimRow[u] = "held" /\ u \in ripe)

StartHandling(d) == Goto(d, "handling") /\ began' = began \cup {d}

ClaimGranted(d) ==
  /\ doing[d] = "claiming" /\ Claimable(carries[d])
  /\ Grant(carries[d]) /\ owning' = owning \cup {d} /\ StartHandling(d)
  /\ UNCHANGED <<acked, tooOld, envelope, desks, resumeVars, returned, spoiled, overran, endings>>
  /\ AllWell

\* Mutation: 'in_progress' is answered by a 200 as well.
ClaimRefusedQuietly(d) ==
  /\ doing[d] = "claiming" /\ ~Claimable(carries[d])
  /\ IF Discord(d)
     THEN Goto(d, "answered") /\ desks' = Give(desks, d)
     ELSE Goto(d, "replying") /\ UNCHANGED desks
  /\ UNCHANGED <<claimVars, envelope, owning, resumeVars, chatHistory>> /\ AllWell

\* 'done' or 'in_progress': Discord's copy is dropped; Telegram gets a 200 for
\* the one and a 503 for the other.
ClaimRefused(d) ==
  /\ doing[d] = "claiming" /\ ~Claimable(carries[d])
  /\ IF Discord(d)
     THEN Goto(d, "answered") /\ desks' = Give(desks, d)
     ELSE /\ Goto(d, IF claimRow[carries[d]] = "done" THEN "replying" ELSE "refused")
          /\ UNCHANGED desks
  /\ UNCHANGED <<claimVars, envelope, owning, resumeVars, chatHistory>> /\ AllWell

\* An error or a timeout: handled without a claim, which may have been made.
ClaimFails(d) ==
  /\ doing[d] = "claiming" /\ Misfortune
  /\ \/ UNCHANGED <<claimRow, ripe>>
     \/ Claimable(carries[d]) /\ Grant(carries[d])
  /\ StartHandling(d) /\ spoiled' = spoiled \cup {d}
  /\ UNCHANGED <<acked, tooOld, envelope, owning, desks, resumeVars, returned, overran, endings>>

-----------------------------------------------------------------------------
(* handle_inbound, a tap on "Generate resume": _start_prepare. *)

Return(d) == /\ Goto(d, "settling") /\ returned' = returned \cup {d}
             /\ UNCHANGED spoiled
Raise(d)  == /\ Goto(d, "settling") /\ spoiled' = spoiled \cup {d}
             /\ UNCHANGED returned

\* A reply is sent, or raises.
Say(d) == (Return(d) /\ AllWell) \/ (Raise(d) /\ Misfortune)

Reserve(d) ==
  /\ doing[d] = "handling"
  /\ IF Cardinality(places[host[d]]) = MaxPlaces \/ \E e \in places[host[d]] : Person(e) = Person(d)
     THEN Say(d) /\ UNCHANGED places
     ELSE /\ Goto(d, "limiting") /\ places' = Take(places, d)
          /\ UNCHANGED <<returned, spoiled>> /\ AllWell
  /\ UNCHANGED <<claimVars, envelope, owning, desks, spent, writing, shown, began, overran, endings>>

\* claim_rate_limit_slot, under the row's lock; a limiter that fails lets pass.
TakeSlot(d) ==
  /\ doing[d] = "limiting"
  /\ \/ /\ spent[Person(d)] < MaxHourly
        /\ spent' = [spent EXCEPT ![Person(d)] = @ + 1]
        /\ Goto(d, "opening") /\ UNCHANGED <<places, returned, spoiled>> /\ AllWell
     \/ /\ spent[Person(d)] = MaxHourly
        /\ Say(d) /\ places' = Give(places, d) /\ UNCHANGED spent
     \/ /\ Misfortune
        /\ \/ UNCHANGED spent
           \/ spent[Person(d)] < MaxHourly /\ spent' = [spent EXCEPT ![Person(d)] = @ + 1]
        /\ Goto(d, "opening") /\ UNCHANGED <<places, returned, spoiled>>
  /\ UNCHANGED <<claimVars, envelope, owning, desks, writing, shown, began, overran, endings>>

\* Mutation: no finally gives the place back.
OpenAndKeep(d) ==
  /\ doing[d] = "opening"
  /\ \/ /\ Return(d) /\ AllWell
        /\ shown' = [shown EXCEPT ![d] = {"progress"}]
        /\ writing' = [writing EXCEPT ![d] = "engine"]
     \/ /\ Raise(d) /\ Misfortune /\ UNCHANGED <<writing, shown>>
  /\ UNCHANGED <<claimVars, envelope, owning, desks, places, spent, began, overran, endings>>

\* progress.start, then the generation gets the place.
Open(d) ==
  /\ doing[d] = "opening"
  /\ \/ /\ Return(d) /\ AllWell /\ UNCHANGED places
        /\ shown' = [shown EXCEPT ![d] = {"progress"}]
        /\ writing' = [writing EXCEPT ![d] = "engine"]
     \/ /\ Raise(d) /\ Misfortune
        /\ places' = Give(places, d) /\ UNCHANGED <<writing, shown>>
  /\ UNCHANGED <<claimVars, envelope, owning, desks, spent, began, overran, endings>>

-----------------------------------------------------------------------------
(* _settle_claim and the answer. *)

\* Mutation: Discord's claim is released like Telegram's.
SettledAlike(d) ==
  IF claimRow[carries[d]] = "none" THEN "none"
  ELSE IF d \in returned \/ claimRow[carries[d]] = "done" THEN "done" ELSE "none"

\* Telegram's claim is released when the handler has raised, and is complete
\* otherwise; Discord's is complete in either case.
Settled(d) ==
  IF claimRow[carries[d]] = "none" THEN "none"
  ELSE IF d \in returned \/ Discord(d) \/ claimRow[carries[d]] = "done" THEN "done" ELSE "none"

Settle(d) ==
  /\ doing[d] = "settling"
  /\ \/ /\ claimRow' = IF d \in owning THEN [claimRow EXCEPT ![carries[d]] = Settled(d)] ELSE claimRow
        /\ UNCHANGED spoiled /\ AllWell
     \/ /\ d \in owning /\ Misfortune
        /\ spoiled' = spoiled \cup {d} /\ UNCHANGED claimRow
  /\ IF Discord(d)
     THEN Goto(d, "answered") /\ desks' = Give(desks, d)
     ELSE Goto(d, IF d \in returned THEN "replying" ELSE "refused") /\ UNCHANGED desks
  /\ UNCHANGED <<ripe, acked, tooOld, envelope, owning, resumeVars, began, returned, overran, endings>>

Reply(d) ==
  /\ doing[d] = "replying" /\ Goto(d, "answered")
  /\ \/ acked' = acked \cup {carries[d]} /\ AllWell
     \/ UNCHANGED acked /\ Misfortune
  /\ UNCHANGED <<claimRow, ripe, tooOld, envelope, owning, desks, resumeVars, chatHistory>>

-----------------------------------------------------------------------------
(* _prepare_and_deliver, under _run; run_prepare_application is Prepare. *)

WriteGoto(d, s) == writing' = [writing EXCEPT ![d] = s]
Show(d, what)   == shown' = [shown EXCEPT ![d] = @ \cup {what}]
Frees(d)        == WriteGoto(d, "over") /\ places' = Give(places, d)

EngineEnds(d) ==
  /\ writing[d] = "engine"
  /\ \E s \in {"sending", "explaining", "failing"} : WriteGoto(d, s)
  /\ UNCHANGED <<claimVars, requestVars, places, spent, shown, chatHistory>> /\ AllWell

\* The chat has the document, or refuses it and the registry says that it failed.
SendResume(d) ==
  /\ writing[d] = "sending"
  /\ \/ Show(d, "resume") /\ WriteGoto(d, "closing") /\ UNCHANGED doubtful /\ AllWell
     \/ WriteGoto(d, "failing") /\ UNCHANGED <<shown, doubtful>> /\ Misfortune
     \/ /\ Show(d, "resume") /\ WriteGoto(d, "failing") /\ Misfortune
        /\ doubtful' = doubtful \cup {d}
  /\ UNCHANGED <<claimVars, requestVars, places, spent, began, returned, spoiled, overran, muted>>

\* Mutation: what cannot be shown in the end is raised.
CloseOrRaise(d) ==
  /\ writing[d] = "closing"
  /\ \/ Frees(d) /\ AllWell
     \/ WriteGoto(d, "failing") /\ UNCHANGED places /\ Misfortune
  /\ UNCHANGED <<claimVars, requestVars, spent, shown, chatHistory>>

\* progress.finish, which never raises.
Close(d) ==
  /\ writing[d] = "closing"
  /\ Frees(d) /\ (AllWell \/ Misfortune)
  /\ UNCHANGED <<claimVars, requestVars, spent, shown, chatHistory>>

\* The reason; should the chat refuse it, the words for a failure.
Explain(d) ==
  /\ writing[d] = "explaining"
  /\ \/ Show(d, "reason") /\ Frees(d) /\ AllWell
     \/ WriteGoto(d, "failing") /\ UNCHANGED <<places, shown>> /\ Misfortune
  /\ UNCHANGED <<claimVars, requestVars, spent, chatHistory>>

SayItFailed(d) ==
  /\ writing[d] = "failing" /\ Frees(d)
  /\ \/ Show(d, "failure") /\ UNCHANGED muted /\ AllWell
     \/ muted' = muted \cup {d} /\ UNCHANGED shown /\ Misfortune
  /\ UNCHANGED <<claimVars, requestVars, spent, began, returned, spoiled, overran, doubtful>>

-----------------------------------------------------------------------------
(* Shutdown cancels what runs in a registry; a crash ends everything. *)

CancelGeneration(d) ==
  /\ writing[d] \notin {"none", "over"} /\ Misfortune
  /\ Frees(d) /\ muted' = muted \cup {d}
  /\ UNCHANGED <<claimVars, requestVars, spent, shown, began, returned, spoiled, overran, doubtful>>

CancelInteraction(d) ==
  /\ Discord(d) /\ doing[d] \in {"handling", "limiting", "opening"} /\ Misfortune
  /\ Raise(d) /\ places' = Give(places, d)
  /\ UNCHANGED <<claimVars, envelope, owning, desks, spent, writing, shown, began, overran, endings>>

ProcessCrashes(p) ==
  LET its == {d \in Delivery : host[d] = p}
      cut == {d \in its : doing[d] \notin {"answered", "refused"}} IN
  /\ Misfortune
  /\ doing' = [d \in Delivery |-> IF d \in cut THEN "dead" ELSE doing[d]]
  /\ writing' = [d \in Delivery |-> IF d \in its /\ writing[d] # "none" THEN "over" ELSE writing[d]]
  /\ muted' = muted \cup {d \in its : writing[d] \notin {"none", "over"}}
  /\ spoiled' = spoiled \cup cut
  /\ desks' = [desks EXCEPT ![p] = {}] /\ places' = [places EXCEPT ![p] = {}]
  /\ UNCHANGED <<claimVars, envelope, owning, spent, shown, began, returned, overran, doubtful>>

-----------------------------------------------------------------------------
ChatInit ==
  /\ claimRow = [u \in Update |-> "none"] /\ ripe = {} /\ acked = {} /\ tooOld = {}
  /\ doing = [d \in Delivery |-> "unsent"] /\ host = [d \in Delivery |-> NoProcess]
  /\ carries = [d \in Delivery |-> NoUpdate] /\ owning = {}
  /\ desks = [p \in Process |-> {}] /\ places = [p \in Process |-> {}]
  /\ spent = [q \in {PersonOf[u] : u \in Update} |-> 0]
  /\ writing = [d \in Delivery |-> "none"] /\ shown = [d \in Delivery |-> {}]
  /\ began = {} /\ returned = {} /\ spoiled = {} /\ overran = {} /\ muted = {} /\ doubtful = {}
  /\ misfortunes = 0

DeliveryStep(d) ==
  \/ \E u \in Update, p \in Process : Arrive(d, u, p)
  \/ ClaimGranted(d) \/ ClaimRefused(d) \/ ClaimFails(d)
  \/ Reserve(d) \/ TakeSlot(d) \/ Open(d) \/ Settle(d) \/ Reply(d)
  \/ CancelInteraction(d)

GenerationStep(d) ==
  \/ EngineEnds(d) \/ SendResume(d) \/ Close(d) \/ Explain(d) \/ SayItFailed(d)
  \/ CancelGeneration(d)

ChatNext ==
  \/ \E u \in Update : LeaseEnds(u) \/ SignatureAges(u)
  \/ \E u \in Update : HourPasses(PersonOf[u])
  \/ \E d \in Delivery : DeliveryStep(d) \/ GenerationStep(d)
  \/ \E p \in Process : ProcessCrashes(p)

ChatSpec == ChatInit /\ [][ChatNext]_chatVars

-----------------------------------------------------------------------------
\* A redelivery while the first runs, or after it, starts no second handler.
SecondAfterFailure ==
  \A d, e \in began :
    d # e /\ carries[d] = carries[e] =>
      \/ carries[d] \in overran
      \/ spoiled \cap {d, e} # {}

(* Of two deliveries of one message that were both handled, one had its      *)
(* claim, its handler or its settling fail, unless a handler outlived its    *)
(* lease.  At Discord, whose claims are not released, not even that gives a  *)
(* message a second claim: whatever crashed, raised or took too long, of two *)
(* deliveries that were handled one is a copy that could not ask.            *)
HandledOnce ==
  /\ SecondAfterFailure
  /\ \A d, e \in owning : carries[d] = carries[e] /\ Discord(d) => d = e

(* Every place of the two registries is held by work that is under way in    *)
(* that process, whichever way the request or the generation ended, and no   *)
(* person holds two: nobody is told "busy" or "still generating" for nothing. *)
PlacesAreReturned ==
  \A p \in Process :
    /\ places[p] = {d \in Delivery : host[d] = p /\ (doing[d] \in {"limiting", "opening"}
                                       \/ writing[d] \notin {"none", "over"})}
    /\ desks[p] = {d \in Delivery : host[d] = p /\ Discord(d)
                                      /\ doing[d] \notin {"answered", "refused", "dead"}}
    /\ \A d, e \in places[p] : Person(d) = Person(e) => d = e

(* A generation that has ended has shown the person the resume, the reason   *)
(* there is none, or that it failed, unless the chat refused every message   *)
(* or the process went away; and who holds the resume is not told it failed, *)
(* unless the sending of the document was itself answered by an error.       *)
ToldTheTruth ==
  \A d \in Delivery :
    writing[d] = "over" =>
      /\ d \in muted \/ shown[d] \cap {"resume", "reason", "failure"} # {}
      /\ {"resume", "failure"} \subseteq shown[d] => d \in doubtful

-----------------------------------------------------------------------------
\* Generations that were started; each costs.
Paid == {d \in Delivery : writing[d] # "none"}

TheInbox ==
  INSTANCE Inbox WITH
    Message <- Update, Attempt <- Delivery, NoMessage <- NoUpdate, about <- carries,
    begun <- began, finished <- returned, slow <- overran, paid <- Paid,
    acknowledged <- acked, troubles <- misfortunes

(* However messages are delivered again, to however many processes: a        *)
(* delivery is handled beside an earlier one only if that one failed before, *)
(* outlived its lease, or the claims could not be asked; Telegram stops      *)
(* sending only what a handler was done with; a delivery costs one           *)
(* generation at most; and nothing of this goes wrong but by a misfortune.   *)
ImplementsInbox == TheInbox!InboxSpec
=============================================================================
