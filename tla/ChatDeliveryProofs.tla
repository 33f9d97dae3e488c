------------------------- MODULE ChatDeliveryProofs -------------------------
(***************************************************************************)
(* Chat deliveries proved for any number of messages, deliveries and       *)
(* processes, any limits and any misfortunes: no message is dropped, none  *)
(* is handled twice but for the reasons named, places are given back, and  *)
(* nobody is told what is not so.                                          *)
(***************************************************************************)
EXTENDS ChatDelivery, TLAPS

-----------------------------------------------------------------------------
(* The inductive invariant. *)

\* What was sent carries a message to a process; a handler has begun before it
\* works, and a generation starts where the handler returns.
AtHandler == {"handling", "limiting", "opening"}

Stages ==
  /\ \A d \in Delivery :
       IF doing[d] = "unsent"
       THEN host[d] = NoProcess /\ carries[d] = NoUpdate
       ELSE host[d] \in Process /\ carries[d] \in Update
  /\ \A d \in Delivery : Handled(d) => d \in began
  /\ owning \subseteq began
  /\ \A d \in began : doing[d] \notin {"unsent", "claiming"}
  /\ \A d \in Delivery : doing[d] = "settling" => d \in returned \cup spoiled
  /\ \A d \in Delivery : Discord(d) => doing[d] \notin {"replying", "refused"}
  /\ \A d \in Delivery : writing[d] # "none" => doing[d] \notin {"unsent", "claiming"} \cup AtHandler

\* While a handler is at work the claim it was granted is held, and by nobody
\* else; a handler that ended well has left it complete.
InTime(d) == carries[d] \notin overran

Claims ==
  /\ \A d \in owning : Handled(d) /\ InTime(d) =>
       claimRow[carries[d]] = "held" /\ carries[d] \notin ripe
  /\ \A d, e \in owning : Handled(d) /\ Handled(e) /\ carries[d] = carries[e] /\ InTime(d) => d = e
  /\ \A d \in began \ spoiled : d \in owning /\ (Handled(d) \/ ~InTime(d) \/ claimRow[carries[d]] = "done")

\* A 200 comes after a handler has returned: Telegram stops sending a message only
\* then, and one whose handler raised or died is there to be claimed again.
HasReturned(u) == \E e \in returned : carries[e] = u

NoUpdateDropped ==
  \A u \in acked : \E d \in returned : carries[d] = u

Acks ==
  /\ \A u \in Update \ OnDiscord : claimRow[u] = "done" => HasReturned(u)
  /\ \A d \in Delivery : doing[d] = "replying" => HasReturned(carries[d])
  /\ NoUpdateDropped

\* What a person may have read when the generation is at each of its stages.
Words ==
  /\ \A d \in Delivery : writing[d] # "over" => "failure" \notin shown[d]
  /\ \A d \in Delivery : writing[d] \in {"none", "engine", "sending", "explaining"} => "resume" \notin shown[d]
  /\ \A d \in Delivery : writing[d] = "closing" => "resume" \in shown[d]
  /\ \A d \in Delivery : writing[d] = "failing" /\ "resume" \in shown[d] => d \in doubtful
  /\ ToldTheTruth

\* PlacesAreReturned, delivery by delivery: who holds a place and who has a desk.
Holds(d)  == doing[d] \in {"limiting", "opening"} \/ writing[d] \notin {"none", "over"}
AtDesk(d) == Discord(d) /\ doing[d] \notin {"answered", "refused", "dead"}

Registered ==
  /\ \A p \in Process, d \in Delivery : d \in places[p] <=> host[d] = p /\ Holds(d)
  /\ \A p \in Process, d \in Delivery : d \in desks[p] <=> host[d] = p /\ AtDesk(d)
  /\ \A p \in Process : \A d, e \in places[p] : Person(d) = Person(e) => d = e

ChatInv ==
  ChatTypeOK /\ Stages /\ Claims /\ SecondAfterFailure /\ Acks /\ Words /\ Registered

LEMMA PlacesByDelivery ==
  ASSUME ChatTypeOK, Registered PROVE PlacesAreReturned
BY DEF ChatTypeOK, Registered, PlacesAreReturned, Holds, AtDesk

-----------------------------------------------------------------------------
(* What most steps do to the claims, to the registries and to the words. *)

\* No claim is touched: handlers go on, end badly or are cut off.
LEMMA ClaimsStand ==
  ASSUME ChatInv, UNCHANGED <<claimRow, ripe, acked, carries, began, owning, overran>>,
         spoiled \subseteq spoiled', returned \subseteq returned',
         \A d \in Delivery :
           /\ Handled(d)' => Handled(d)
           /\ Handled(d) => Handled(d)' \/ d \in spoiled'
           /\ doing'[d] = "replying" => doing[d] = "replying"
  PROVE  Claims' /\ SecondAfterFailure' /\ Acks'
<1> USE DEF ChatInv
<1>1. began \subseteq Delivery /\ owning \subseteq Delivery
  BY DEF ChatTypeOK
<1>2. Claims'
  <2>1. \A d \in Delivery : InTime(d)' <=> InTime(d)
    BY DEF InTime
  <2> QED BY <1>1, <2>1 DEF Claims
<1>3. SecondAfterFailure'
  BY DEF SecondAfterFailure
<1>4. Acks'
  <2>1. \A u : HasReturned(u) => HasReturned(u)'
    BY DEF HasReturned
  <2>2. NoUpdateDropped'
    BY DEF Acks, NoUpdateDropped
  <2> QED BY <2>1, <2>2 DEF Acks
<1> QED BY <1>2, <1>3, <1>4

\* A place is kept, given back or taken, and a desk is kept or given back.
StageMoves(d) ==
  /\ UNCHANGED <<host, carries>>
  /\ host[d] \in Process
  /\ \A e \in Delivery \ {d} : (Holds(e)' <=> Holds(e)) /\ (AtDesk(e)' <=> AtDesk(e))
  /\ \/ places' = places /\ (Holds(d)' <=> Holds(d))
     \/ places' = Give(places, d) /\ ~Holds(d)'
     \/ /\ places' = Take(places, d) /\ Holds(d)'
        /\ \A e \in places[host[d]] : Person(e) # Person(d)
  /\ \/ desks' = desks /\ (AtDesk(d)' <=> AtDesk(d))
     \/ desks' = Give(desks, d) /\ ~AtDesk(d)'

LEMMA RegistriesFollow ==
  ASSUME ChatTypeOK, Registered, NEW d \in Delivery, StageMoves(d)
  PROVE  /\ places' \in [Process -> SUBSET Delivery] /\ desks' \in [Process -> SUBSET Delivery]
         /\ Registered'
<1> USE DEF StageMoves
<1>1. places \in [Process -> SUBSET Delivery] /\ desks \in [Process -> SUBSET Delivery]
  BY DEF ChatTypeOK
<1>2. places' \in [Process -> SUBSET Delivery] /\ desks' \in [Process -> SUBSET Delivery]
  BY <1>1 DEF Give, Take
<1>3. \A p \in Process, e \in Delivery : e \in places'[p] <=> host'[e] = p /\ Holds(e)'
  BY <1>1 DEF Registered, Give, Take
<1>4. \A p \in Process, e \in Delivery : e \in desks'[p] <=> host'[e] = p /\ AtDesk(e)'
  BY <1>1 DEF Registered, Give
<1>5. \A p \in Process : \A e, f \in places'[p] : Person(e)' = Person(f)' => e = f
  BY <1>1 DEF Registered, Give, Take, Person
<1> QED BY <1>2, <1>3, <1>4, <1>5 DEF Registered

\* A delivery that nothing was said to, or of which nothing is heard.
LEMMA WordsStand ==
  ASSUME ChatInv, UNCHANGED <<writing, shown>>, muted \subseteq muted', doubtful \subseteq doubtful'
  PROVE  Words'
BY DEF ChatInv, Words, ToldTheTruth

-----------------------------------------------------------------------------
(* Every step keeps the invariant: a message arrives, and time passes. *)

LEMMA ChatInitInvariant ==
  ASSUME ChatInit PROVE ChatInv
<1> USE ChatAssumption DEF ChatInit
<1>1. ChatTypeOK
  BY DEF ChatTypeOK, DeliveryPlace, Writing
<1>2. Stages /\ Claims /\ SecondAfterFailure /\ Acks
  BY DEF Stages, AtHandler, Handled, Discord, Claims, SecondAfterFailure, Acks, NoUpdateDropped
<1>3. Words /\ Registered
  BY DEF Words, ToldTheTruth, Registered, Holds, AtDesk, Discord
<1> QED BY <1>1, <1>2, <1>3 DEF ChatInv

LEMMA ArriveKeeps ==
  ASSUME ChatInv, NEW d \in Delivery, NEW u \in Update, NEW p \in Process, Arrive(d, u, p)
  PROVE  ChatInv'
<1> USE ChatAssumption DEF ChatInv
<1>1. /\ doing[d] = "unsent" /\ d \notin began /\ d \notin owning /\ d \notin returned
      /\ ~Handled(d) /\ writing[d] = "none" /\ host[d] = NoProcess
  BY DEF Arrive, ChatTypeOK, Stages, Handled
<1>2. /\ carries' = [carries EXCEPT ![d] = u] /\ host' = [host EXCEPT ![d] = p]
      /\ UNCHANGED <<claimVars, owning, resumeVars, chatHistory, misfortunes>>
      /\ \/ doing' = [doing EXCEPT ![d] = "claiming"] /\ u \notin OnDiscord /\ desks' = desks
         \/ doing' = [doing EXCEPT ![d] = "answered"] /\ desks' = desks
         \/ doing' = [doing EXCEPT ![d] = "claiming"] /\ u \in OnDiscord /\ desks' = [desks EXCEPT ![p] = @ \cup {d}]
  BY DEF Arrive, Goto, AllWell
<1>3. ChatTypeOK'
  BY <1>2 DEF ChatTypeOK, DeliveryPlace, claimVars, resumeVars, chatHistory, endings
<1>4. /\ \A e \in Delivery \ {d} : /\ doing'[e] = doing[e] /\ carries'[e] = carries[e] /\ host'[e] = host[e]
                                 /\ Discord(e)' = Discord(e) /\ Handled(e)' = Handled(e)
      /\ doing'[d] \in {"claiming", "answered"} /\ carries'[d] = u /\ host'[d] = p /\ ~Handled(d)'
  BY <1>2 DEF ChatTypeOK, Discord, Handled
<1>5. Stages'
  BY <1>1, <1>2, <1>4 DEF ChatTypeOK, Stages, AtHandler, Discord, resumeVars, chatHistory
<1>6. Claims' /\ SecondAfterFailure'
  BY <1>1, <1>2, <1>4 DEF ChatTypeOK, Claims, InTime, SecondAfterFailure, claimVars, chatHistory
<1>7. Acks'
  <2>1. \A v : HasReturned(v) => HasReturned(v)'
    BY <1>1, <1>2, <1>4 DEF HasReturned, ChatTypeOK, chatHistory
  <2>2. NoUpdateDropped'
    BY <1>2, <2>1 DEF Acks, NoUpdateDropped, HasReturned, claimVars
  <2> QED BY <1>2, <1>4, <2>1, <2>2 DEF Acks, claimVars
<1>8. Words'
  BY <1>2, WordsStand DEF resumeVars, chatHistory, endings
<1>9. Registered'
  <2>1. d \notin places[p] /\ \A q \in Process : d \notin places[q] /\ d \notin desks[q]
    BY <1>1 DEF Registered
  <2>2. places' = places /\ writing' = writing
    BY <1>2 DEF resumeVars
  <2>3. \A q \in Process, e \in Delivery : e \in places'[q] <=> host'[e] = q /\ Holds(e)'
    BY <1>1, <1>4, <2>1, <2>2 DEF Registered, Holds
  <2>4. \A q \in Process, e \in Delivery : e \in desks'[q] <=> host'[e] = q /\ AtDesk(e)'
    BY <1>2, <1>4, <2>1 DEF ChatTypeOK, Registered, AtDesk, Discord
  <2>5. \A q \in Process : \A e, f \in places'[q] : Person(e)' = Person(f)' => e = f
    BY <1>4, <2>1, <2>2 DEF ChatTypeOK, Registered, Person
  <2> QED BY <2>3, <2>4, <2>5 DEF Registered
<1> QED BY <1>3, <1>5, <1>6, <1>7, <1>8, <1>9

\* A lease that ends under a handler makes the message one that was overrun.
LEMMA TimeKeeps ==
  ASSUME ChatInv, NEW u \in Update, LeaseEnds(u) \/ SignatureAges(u) \/ HourPasses(PersonOf[u])
  PROVE  ChatInv'
<1> USE ChatAssumption DEF ChatInv
<1>1. /\ UNCHANGED <<claimRow, acked, requestVars, places, writing, shown, began, returned, spoiled, endings, misfortunes>>
      /\ ripe \subseteq ripe' /\ ripe' \subseteq Update /\ overran \subseteq overran' /\ overran' \subseteq Update
      /\ tooOld' \subseteq OnDiscord
      /\ spent' \in [{PersonOf[v] : v \in Update} -> 0 .. MaxHourly]
      /\ \A d \in Delivery : Handled(d) /\ carries[d] \in ripe' \ ripe => carries[d] \in overran'
  <2>1. CASE LeaseEnds(u)
    BY <2>1 DEF LeaseEnds, AllWell, ChatTypeOK, Stages, Handled, resumeVars
  <2>2. CASE SignatureAges(u)
    BY <2>2 DEF SignatureAges, AllWell, ChatTypeOK, resumeVars, chatHistory
  <2>3. CASE HourPasses(PersonOf[u])
    BY <2>3 DEF HourPasses, AllWell, ChatTypeOK, claimVars, chatHistory
  <2> QED BY <2>1, <2>2, <2>3
<1>2. ChatTypeOK' /\ Stages'
  BY <1>1 DEF ChatTypeOK, Stages, Handled, Discord, requestVars, envelope, endings
<1>3. Claims' /\ SecondAfterFailure'
  BY <1>1 DEF ChatTypeOK, Claims, InTime, Handled, SecondAfterFailure, requestVars, envelope
<1>4. Acks'
  BY <1>1 DEF Acks, HasReturned, NoUpdateDropped, requestVars, envelope
<1>5. Words' /\ Registered'
  BY <1>1, WordsStand DEF Registered, Holds, AtDesk, Discord, Person, requestVars, envelope, endings
<1> QED BY <1>2, <1>3, <1>4, <1>5

-----------------------------------------------------------------------------
(* The claim and its settling. *)

\* Who may claim finds no handler at work, unless it outlived its lease, and
\* none that ended well.
LEMMA ClaimableIsFree ==
  ASSUME ChatInv, NEW u \in Update, Claimable(u), u \notin overran
  PROVE  /\ \A e \in owning : carries[e] = u => ~Handled(e)
         /\ \A e \in began : carries[e] = u => e \in spoiled
BY DEF ChatInv, Claims, InTime, Claimable

\* A delivery starts its handler, with the claim or, its claim having failed,
\* without it.
LEMMA StartKeeps ==
  ASSUME ChatInv, NEW d \in Delivery, ClaimGranted(d) \/ ClaimFails(d) PROVE ChatInv'
<1> USE ChatAssumption DEF ChatInv
<1> DEFINE u == carries[d]
<1>1. /\ doing[d] = "claiming" /\ d \notin began /\ d \notin owning /\ ~Handled(d)
      /\ u \in Update /\ host[d] \in Process /\ writing[d] = "none"
  BY DEF ClaimGranted, ClaimFails, ChatTypeOK, Stages, Handled
<1>2. /\ doing' = [doing EXCEPT ![d] = "handling"] /\ began' = began \cup {d}
      /\ UNCHANGED <<acked, tooOld, envelope, desks, resumeVars, returned, overran, endings>>
      /\ misfortunes' \in 0 .. MaxMisfortunes
      /\ \/ claimRow' = claimRow /\ ripe' = ripe
         \/ /\ Claimable(u) /\ claimRow' = [claimRow EXCEPT ![u] = "held"] /\ ripe' = ripe \ {u}
      /\ \/ /\ owning' = owning \cup {d} /\ spoiled' = spoiled
            /\ Claimable(u) /\ claimRow' = [claimRow EXCEPT ![u] = "held"] /\ ripe' = ripe \ {u}
         \/ owning' = owning /\ spoiled' = spoiled \cup {d}
  BY DEF ClaimGranted, ClaimFails, Goto, StartHandling, Grant, AllWell, Misfortune, ChatTypeOK
<1>3. ChatTypeOK'
  BY <1>1, <1>2 DEF ChatTypeOK, DeliveryPlace, envelope, resumeVars, endings
<1>4. /\ carries' = carries /\ Handled(d)' /\ doing'[d] = "handling"
      /\ \A e \in Delivery \ {d} : doing'[e] = doing[e] /\ Handled(e)' = Handled(e)
  BY <1>2 DEF ChatTypeOK, Handled, envelope
<1>5. Stages'
  BY <1>1, <1>2, <1>4 DEF ChatTypeOK, Stages, AtHandler, Discord, envelope, resumeVars
<1>6. Claims'
  <2>1. /\ began \subseteq Delivery /\ owning \subseteq Delivery /\ overran' = overran
        /\ claimRow \in [Update -> {"none", "held", "done"}]
        /\ \A e \in Delivery : InTime(e)' = InTime(e)
    BY <1>2, <1>4 DEF ChatTypeOK, InTime
  <2>2. \A e \in owning' : Handled(e)' /\ InTime(e)' =>
          claimRow'[carries'[e]] = "held" /\ carries'[e] \notin ripe'
    BY <1>1, <1>2, <1>4, <2>1 DEF Claims, Stages
  <2>3. \A e, f \in owning' :
          Handled(e)' /\ Handled(f)' /\ carries'[e] = carries'[f] /\ InTime(e)' => e = f
    BY <1>1, <1>2, <1>4, <2>1, ClaimableIsFree DEF Claims, InTime
  <2>4. \A e \in began' \ spoiled' :
          e \in owning' /\ (Handled(e)' \/ ~InTime(e)' \/ claimRow'[carries'[e]] = "done")
    BY <1>1, <1>2, <1>4, <2>1 DEF Claims, Claimable, Stages
  <2> QED BY <2>2, <2>3, <2>4 DEF Claims
<1>7. SecondAfterFailure'
  BY <1>1, <1>2, <1>4, ClaimableIsFree DEF SecondAfterFailure
<1>8. Acks'
  <2>1. \A v : HasReturned(v)' = HasReturned(v)
    BY <1>2, <1>4 DEF HasReturned
  <2>2. \A v \in Update : claimRow'[v] = "done" => claimRow[v] = "done"
    BY <1>1, <1>2 DEF ChatTypeOK
  <2>3. NoUpdateDropped'
    BY <1>2, <1>4 DEF Acks, NoUpdateDropped
  <2> QED BY <1>4, <2>1, <2>2, <2>3 DEF Acks
<1>9. Words'
  BY <1>2, WordsStand DEF resumeVars, endings
<1>10. Registered'
  <2>1. StageMoves(d)
    BY <1>1, <1>2, <1>4 DEF StageMoves, Holds, AtDesk, Discord, ChatTypeOK, envelope, resumeVars
  <2> QED BY <2>1, RegistriesFollow
<1> QED BY <1>3, <1>5, <1>6, <1>7, <1>8, <1>9, <1>10

\* A delivery that meets a claim is answered; by a 200, if the claim is complete.
LEMMA ClaimRefusedKeeps ==
  ASSUME ChatInv, NEW d \in Delivery, ClaimRefused(d) PROVE ChatInv'
<1> USE ChatAssumption DEF ChatInv
<1>1. /\ doing[d] = "claiming" /\ d \notin began /\ ~Handled(d)
      /\ carries[d] \in Update /\ host[d] \in Process /\ writing[d] = "none"
  BY DEF ClaimRefused, ChatTypeOK, Stages, Handled
<1>2. /\ UNCHANGED <<claimVars, envelope, owning, resumeVars, chatHistory, misfortunes>>
      /\ \/ Discord(d) /\ doing' = [doing EXCEPT ![d] = "answered"] /\ desks' = Give(desks, d)
         \/ /\ ~Discord(d) /\ claimRow[carries[d]] = "done"
            /\ doing' = [doing EXCEPT ![d] = "replying"] /\ desks' = desks
         \/ ~Discord(d) /\ doing' = [doing EXCEPT ![d] = "refused"] /\ desks' = desks
  BY DEF ClaimRefused, Goto, AllWell
<1>3. /\ carries' = carries /\ ~Handled(d)' /\ doing'[d] \in {"answered", "replying", "refused"}
      /\ doing'[d] = "replying" => claimRow[carries[d]] = "done" /\ ~Discord(d)
      /\ \A e \in Delivery \ {d} : doing'[e] = doing[e] /\ Handled(e)' = Handled(e)
  BY <1>2 DEF ChatTypeOK, Handled, envelope
<1>4. Registered' /\ desks' \in [Process -> SUBSET Delivery]
  <2>1. StageMoves(d)
    BY <1>1, <1>2, <1>3 DEF StageMoves, Holds, AtDesk, Discord, ChatTypeOK, envelope, resumeVars
  <2> QED BY <2>1, RegistriesFollow
<1>5. ChatTypeOK'
  BY <1>2, <1>4 DEF ChatTypeOK, DeliveryPlace, claimVars, envelope, resumeVars, chatHistory, endings
<1>6. Stages'
  BY <1>1, <1>2, <1>3 DEF ChatTypeOK, Stages, AtHandler, Discord, envelope, resumeVars, chatHistory
<1>7. Claims' /\ SecondAfterFailure'
  BY <1>1, <1>2, <1>3 DEF ChatTypeOK, Claims, InTime, SecondAfterFailure, claimVars, chatHistory
<1>8. Acks'
  <2>1. \A v : HasReturned(v)' = HasReturned(v)
    BY <1>2, <1>3 DEF HasReturned, chatHistory
  <2>2. NoUpdateDropped'
    BY <1>2, <1>3 DEF Acks, NoUpdateDropped, claimVars, chatHistory
  <2> QED BY <1>1, <1>2, <1>3, <2>1, <2>2 DEF Acks, Discord, claimVars
<1>9. Words'
  BY <1>2, WordsStand DEF resumeVars, chatHistory, endings
<1> QED BY <1>4, <1>5, <1>6, <1>7, <1>8, <1>9

\* A settled claim is complete where the handler returned, and stays complete.
LEMMA SettleKeeps ==
  ASSUME ChatInv, NEW d \in Delivery, Settle(d) PROVE ChatInv'
<1> USE ChatAssumption DEF ChatInv
<1>1. /\ doing[d] = "settling" /\ d \in began /\ Handled(d)
      /\ carries[d] \in Update /\ host[d] \in Process
  BY DEF Settle, ChatTypeOK, Stages, Handled
<1>2. /\ UNCHANGED <<ripe, acked, tooOld, envelope, owning, resumeVars, began, returned, overran, endings>>
      /\ misfortunes' \in 0 .. MaxMisfortunes
      /\ \/ claimRow' = [claimRow EXCEPT ![carries[d]] = Settled(d)] /\ d \in owning /\ spoiled' = spoiled
         \/ claimRow' = claimRow /\ d \notin owning /\ spoiled' = spoiled
         \/ claimRow' = claimRow /\ spoiled' = spoiled \cup {d}
      /\ \/ Discord(d) /\ doing' = [doing EXCEPT ![d] = "answered"] /\ desks' = Give(desks, d)
         \/ ~Discord(d) /\ d \in returned /\ doing' = [doing EXCEPT ![d] = "replying"] /\ desks' = desks
         \/ ~Discord(d) /\ d \notin returned /\ doing' = [doing EXCEPT ![d] = "refused"] /\ desks' = desks
  BY DEF Settle, Goto, AllWell, Misfortune, ChatTypeOK
<1>3. /\ carries' = carries /\ ~Handled(d)' /\ doing'[d] \in {"answered", "replying", "refused"}
      /\ doing'[d] = "replying" => d \in returned /\ ~Discord(d)
      /\ \A e \in Delivery \ {d} : doing'[e] = doing[e] /\ Handled(e)' = Handled(e)
  BY <1>2 DEF ChatTypeOK, Handled, envelope
<1>4. Registered' /\ desks' \in [Process -> SUBSET Delivery]
  <2>1. StageMoves(d)
    BY <1>1, <1>2, <1>3 DEF StageMoves, Holds, AtDesk, Discord, ChatTypeOK, envelope, resumeVars
  <2> QED BY <2>1, RegistriesFollow
<1>5. /\ claimRow' \in [Update -> {"none", "held", "done"}]
      /\ \A v \in Update : claimRow[v] = "done" => claimRow'[v] = "done"
      /\ \A v \in Update : v # carries[d] => claimRow'[v] = claimRow[v]
  BY <1>1, <1>2 DEF ChatTypeOK, Settled
<1>6. ChatTypeOK'
  BY <1>2, <1>4, <1>5 DEF ChatTypeOK, DeliveryPlace, envelope, resumeVars, endings
<1>7. Stages'
  BY <1>1, <1>2, <1>3 DEF ChatTypeOK, Stages, AtHandler, Discord, envelope, resumeVars
<1>8. Claims' /\ SecondAfterFailure'
  <2>1. /\ began \subseteq Delivery /\ owning \subseteq Delivery /\ overran' = overran
        /\ \A e \in Delivery : InTime(e)' = InTime(e)
    BY <1>2, <1>3 DEF ChatTypeOK, InTime
  <2>2. \A e \in owning' : Handled(e)' /\ InTime(e)' =>
          claimRow'[carries'[e]] = "held" /\ carries'[e] \notin ripe'
    BY <1>1, <1>2, <1>3, <1>5, <2>1 DEF Claims, Stages, InTime
  <2>3. ASSUME NEW e \in began' \ spoiled'
        PROVE  e \in owning' /\ (Handled(e)' \/ ~InTime(e)' \/ claimRow'[carries'[e]] = "done")
    <3>1. e \in owning' /\ e \in began \ spoiled
      BY <1>2, <2>3 DEF Claims
    <3>2. CASE e # d
      BY <1>2, <1>3, <1>5, <2>1, <2>3, <3>1, <3>2 DEF Claims, ChatTypeOK, Stages
    <3>3. CASE e = d /\ InTime(d)
      BY <1>1, <1>2, <1>3, <2>3, <3>1, <3>3 DEF Claims, ChatTypeOK, Stages, Settled
    <3> QED BY <2>1, <3>1, <3>2, <3>3
  <2>4. Claims'
    BY <1>1, <1>2, <1>3, <2>1, <2>2, <2>3 DEF Claims
  <2> QED BY <1>2, <1>3, <2>4 DEF SecondAfterFailure
<1>9. Acks'
  <2>1. \A v : HasReturned(v)' = HasReturned(v)
    BY <1>2, <1>3 DEF HasReturned
  <2>2. d \in returned => HasReturned(carries[d])
    BY DEF HasReturned
  <2>3. NoUpdateDropped'
    BY <1>2, <1>3 DEF Acks, NoUpdateDropped
  <2>4. \A v \in Update \ OnDiscord : claimRow'[v] = "done" => HasReturned(v)'
    BY <1>1, <1>2, <1>5, <2>1, <2>2 DEF Acks, Settled, Discord, ChatTypeOK
  <2> QED BY <1>3, <2>1, <2>2, <2>3, <2>4 DEF Acks
<1>10. Words'
  BY <1>2, WordsStand DEF resumeVars, endings
<1> QED BY <1>4, <1>6, <1>7, <1>8, <1>9, <1>10

-----------------------------------------------------------------------------
(* The handler. *)

\* What every step of a handler does: it goes on, or it returns or raises.
HandlerMoves(d) ==
  /\ doing[d] \in AtHandler
  /\ UNCHANGED <<claimVars, envelope, owning, desks, began, overran, endings>>
  /\ \/ doing' \in {[doing EXCEPT ![d] = "limiting"], [doing EXCEPT ![d] = "opening"]}
        /\ UNCHANGED <<returned, spoiled>>
     \/ doing' = [doing EXCEPT ![d] = "settling"] /\ returned' = returned \cup {d} /\ UNCHANGED spoiled
     \/ doing' = [doing EXCEPT ![d] = "settling"] /\ spoiled' = spoiled \cup {d} /\ UNCHANGED returned
  /\ spent' \in [{PersonOf[u] : u \in Update} -> 0 .. MaxHourly]
  /\ misfortunes' \in 0 .. MaxMisfortunes

LEMMA HandlerMovesKeep ==
  ASSUME ChatInv, NEW d \in Delivery, HandlerMoves(d), StageMoves(d),
         \/ UNCHANGED <<writing, shown>>
         \/ /\ doing'[d] = "settling"
            /\ writing' = [writing EXCEPT ![d] = "engine"] /\ shown' = [shown EXCEPT ![d] = {"progress"}]
  PROVE  ChatInv'
<1> USE DEF ChatInv
<1>1. /\ Handled(d) /\ Handled(d)' /\ carries' = carries /\ d \in began /\ writing[d] = "none"
      /\ \A e \in Delivery \ {d} : doing'[e] = doing[e] /\ Handled(e)' = Handled(e)
      /\ doing'[d] \in {"limiting", "opening", "settling"}
  BY DEF HandlerMoves, ChatTypeOK, Handled, AtHandler, Stages, envelope
<1>2. Registered' /\ places' \in [Process -> SUBSET Delivery] /\ desks' \in [Process -> SUBSET Delivery]
  BY RegistriesFollow
<1>3. ChatTypeOK'
  BY <1>1, <1>2 DEF HandlerMoves, ChatTypeOK, DeliveryPlace, Writing, claimVars, envelope, endings
<1>4. Stages'
  BY <1>1 DEF HandlerMoves, ChatTypeOK, Stages, AtHandler, Discord, envelope
<1>5. Claims' /\ SecondAfterFailure' /\ Acks'
  <2>1. /\ UNCHANGED <<claimRow, ripe, acked, carries, began, owning, overran>>
        /\ spoiled \subseteq spoiled' /\ returned \subseteq returned'
    BY DEF HandlerMoves, claimVars, envelope
  <2>2. \A e \in Delivery : /\ Handled(e)' <=> Handled(e)
                            /\ doing'[e] = "replying" => doing[e] = "replying"
    BY <1>1
  <2> QED BY <2>1, <2>2, ClaimsStand
<1>6. Words'
  <2>1. UNCHANGED endings
    BY DEF HandlerMoves
  <2> QED BY <1>1, <2>1 DEF Words, ToldTheTruth, ChatTypeOK, endings
<1> QED BY <1>2, <1>3, <1>4, <1>5, <1>6

LEMMA HandlerKeeps ==
  ASSUME ChatInv, NEW d \in Delivery,
         Reserve(d) \/ TakeSlot(d) \/ Open(d) \/ CancelInteraction(d)
  PROVE  ChatInv'
<1> USE ChatAssumption DEF ChatInv
<1>1. /\ doing \in [Delivery -> DeliveryPlace] /\ writing \in [Delivery -> Writing]
      /\ misfortunes \in 0 .. MaxMisfortunes
      /\ spent \in [{PersonOf[u] : u \in Update} -> 0 .. MaxHourly]
      /\ doing[d] \in AtHandler => writing[d] = "none" /\ host[d] \in Process /\ Person(d) \in DOMAIN spent
  BY DEF ChatTypeOK, Stages, AtHandler, Person
<1>2. AllWell \/ Misfortune => misfortunes' \in 0 .. MaxMisfortunes
  BY <1>1 DEF AllWell, Misfortune
<1>3. CASE Reserve(d)
  <2>1. HandlerMoves(d)
    BY <1>1, <1>2, <1>3 DEF Reserve, HandlerMoves, AtHandler, Say, Return, Raise, Goto
  <2>2. UNCHANGED <<writing, shown>> /\ doing[d] = "handling"
    BY <1>3 DEF Reserve
  <2>3. StageMoves(d)
    BY <1>1, <1>3 DEF Reserve, StageMoves, AtHandler, Holds, AtDesk, Discord, Say, Return, Raise, Goto, envelope
  <2> QED BY <2>1, <2>2, <2>3, HandlerMovesKeep
<1>4. CASE TakeSlot(d)
  <2>1. spent' \in [{PersonOf[u] : u \in Update} -> 0 .. MaxHourly]
    BY <1>1, <1>4 DEF TakeSlot, AtHandler
  <2>2. HandlerMoves(d)
    BY <1>1, <1>2, <1>4, <2>1 DEF TakeSlot, HandlerMoves, AtHandler, Say, Return, Raise, Goto
  <2>3. UNCHANGED <<writing, shown>>
    BY <1>4 DEF TakeSlot
  <2>4. StageMoves(d)
    BY <1>1, <1>4 DEF TakeSlot, StageMoves, AtHandler, Holds, AtDesk, Discord, Say, Return, Raise, Goto, envelope
  <2> QED BY <2>2, <2>3, <2>4, HandlerMovesKeep
<1>5. CASE Open(d)
  <2>1. HandlerMoves(d)
    BY <1>1, <1>2, <1>5 DEF Open, HandlerMoves, AtHandler, Return, Raise, Goto
  <2>2. \/ UNCHANGED <<writing, shown>>
        \/ /\ doing'[d] = "settling"
           /\ writing' = [writing EXCEPT ![d] = "engine"] /\ shown' = [shown EXCEPT ![d] = {"progress"}]
    BY <1>1, <1>5 DEF Open, Return, Raise, Goto
  <2>3. StageMoves(d)
    BY <1>1, <1>5 DEF Open, StageMoves, AtHandler, Holds, AtDesk, Discord, Return, Raise, Goto, envelope
  <2> QED BY <2>1, <2>2, <2>3, HandlerMovesKeep
<1>6. CASE CancelInteraction(d)
  <2>1. HandlerMoves(d)
    BY <1>1, <1>2, <1>6 DEF CancelInteraction, HandlerMoves, AtHandler, Raise, Goto
  <2>2. UNCHANGED <<writing, shown>>
    BY <1>6 DEF CancelInteraction
  <2>3. StageMoves(d)
    BY <1>1, <1>6 DEF CancelInteraction, StageMoves, AtHandler, Holds, AtDesk, Discord, Raise, Goto, envelope
  <2> QED BY <2>1, <2>2, <2>3, HandlerMovesKeep
<1> QED BY <1>3, <1>4, <1>5, <1>6

\* The 200 that arrives is for a message whose handler has returned.
LEMMA ReplyKeeps ==
  ASSUME ChatInv, NEW d \in Delivery, Reply(d) PROVE ChatInv'
<1> USE ChatAssumption DEF ChatInv
<1>1. /\ doing[d] = "replying" /\ doing' = [doing EXCEPT ![d] = "answered"]
      /\ carries[d] \in Update \ OnDiscord /\ host[d] \in Process /\ ~Handled(d)
      /\ acked' \in {acked, acked \cup {carries[d]}}
      /\ UNCHANGED <<claimRow, ripe, tooOld, envelope, owning, desks, resumeVars, chatHistory>>
      /\ misfortunes' \in 0 .. MaxMisfortunes
  BY DEF Reply, Goto, AllWell, Misfortune, ChatTypeOK, Stages, Discord, Handled
<1>2. /\ carries' = carries /\ doing'[d] = "answered" /\ ~Handled(d)'
      /\ \A e \in Delivery \ {d} : doing'[e] = doing[e] /\ Handled(e)' = Handled(e)
  BY <1>1 DEF ChatTypeOK, Handled, envelope
<1>3. ChatTypeOK'
  BY <1>1 DEF ChatTypeOK, DeliveryPlace, envelope, resumeVars, chatHistory, endings
<1>4. Stages'
  BY <1>1, <1>2 DEF ChatTypeOK, Stages, AtHandler, Discord, envelope, resumeVars, chatHistory
<1>5. Claims' /\ SecondAfterFailure'
  BY <1>1, <1>2 DEF ChatTypeOK, Claims, InTime, SecondAfterFailure, chatHistory
<1>6. Acks'
  <2>1. \A v : HasReturned(v)' = HasReturned(v)
    BY <1>1, <1>2 DEF HasReturned, chatHistory
  <2>2. HasReturned(carries[d])
    BY <1>1 DEF Acks
  <2>3. NoUpdateDropped'
    BY <1>1, <1>2, <2>2 DEF Acks, NoUpdateDropped, HasReturned, chatHistory
  <2> QED BY <1>1, <1>2, <2>1, <2>3 DEF Acks
<1>7. Words'
  BY <1>1, WordsStand DEF resumeVars, chatHistory, endings
<1>8. Registered'
  <2>1. StageMoves(d)
    BY <1>1, <1>2 DEF StageMoves, Holds, AtDesk, Discord, ChatTypeOK, envelope, resumeVars
  <2> QED BY <2>1, RegistriesFollow
<1> QED BY <1>3, <1>4, <1>5, <1>6, <1>7, <1>8

-----------------------------------------------------------------------------
(* The generation, and a crash. *)

\* What every step of a generation does, apart from its words.
GenerationMoves(d) ==
  /\ writing[d] \notin {"none", "over"}
  /\ UNCHANGED <<claimVars, requestVars, spent, began, returned, spoiled, overran>>
  /\ \/ /\ places' = places
        /\ \E s \in {"sending", "closing", "explaining", "failing"} : writing' = [writing EXCEPT ![d] = s]
     \/ places' = Give(places, d) /\ writing' = [writing EXCEPT ![d] = "over"]
  /\ shown' \in {shown} \cup {[shown EXCEPT ![d] = @ \cup {w}] : w \in {"resume", "reason", "failure"}}
  /\ {muted', doubtful'} \subseteq SUBSET Delivery /\ muted \subseteq muted' /\ doubtful \subseteq doubtful'
  /\ misfortunes' \in 0 .. MaxMisfortunes

LEMMA GenerationMovesKeep ==
  ASSUME ChatInv, NEW d \in Delivery, GenerationMoves(d), Words'
  PROVE  ChatInv'
<1> USE ChatAssumption DEF ChatInv
<1>1. /\ UNCHANGED <<claimRow, ripe, acked, tooOld, doing, carries, host, owning, desks, spent,
                     began, returned, spoiled, overran>>
      /\ host[d] \in Process /\ doing[d] \notin {"limiting", "opening"}
      /\ writing \in [Delivery -> Writing] /\ writing[d] \notin {"none", "over"}
      /\ \A e \in Delivery \ {d} : writing'[e] = writing[e]
      /\ writing' \in [Delivery -> Writing]
  BY DEF GenerationMoves, claimVars, requestVars, envelope, ChatTypeOK, Stages, AtHandler, Writing
<1>2. Registered' /\ places' \in [Process -> SUBSET Delivery]
  <2>1. StageMoves(d)
    BY <1>1 DEF GenerationMoves, StageMoves, Holds, AtDesk, Discord
  <2> QED BY <2>1, RegistriesFollow
<1>3. shown' \in [Delivery -> SUBSET {"progress", "resume", "reason", "failure"}]
  BY DEF GenerationMoves, ChatTypeOK
<1>4. ChatTypeOK'
  BY <1>1, <1>2, <1>3 DEF GenerationMoves, ChatTypeOK
<1>5. Stages'
  BY <1>1 DEF Stages, AtHandler, Handled, Discord
<1>6. Claims' /\ SecondAfterFailure' /\ Acks'
  BY <1>1, ClaimsStand DEF Handled
<1> QED BY <1>2, <1>4, <1>5, <1>6

LEMMA GenerationKeeps ==
  ASSUME ChatInv, NEW d \in Delivery, GenerationStep(d) PROVE ChatInv'
<1> USE DEF ChatInv
<1>1. /\ writing \in [Delivery -> Writing] /\ misfortunes \in 0 .. MaxMisfortunes
      /\ shown \in [Delivery -> SUBSET {"progress", "resume", "reason", "failure"}]
      /\ muted \subseteq Delivery /\ doubtful \subseteq Delivery
  BY DEF ChatTypeOK
<1>2. AllWell \/ Misfortune => misfortunes' \in 0 .. MaxMisfortunes
  BY <1>1, ChatAssumption DEF AllWell, Misfortune
<1>3. GenerationMoves(d)
  <2> USE DEF GenerationMoves, WriteGoto, Show, Frees, chatHistory, endings
  <2>1. CASE EngineEnds(d)
    BY <1>1, <1>2, <2>1 DEF EngineEnds
  <2>2. CASE SendResume(d)
    BY <1>1, <1>2, <2>2 DEF SendResume
  <2>3. CASE Close(d)
    BY <1>1, <1>2, <2>3 DEF Close
  <2>4. CASE Explain(d)
    BY <1>1, <1>2, <2>4 DEF Explain
  <2>5. CASE SayItFailed(d)
    BY <1>1, <1>2, <2>5 DEF SayItFailed
  <2>6. CASE CancelGeneration(d)
    BY <1>1, <1>2, <2>6 DEF CancelGeneration
  <2> QED BY <2>1, <2>2, <2>3, <2>4, <2>5, <2>6 DEF GenerationStep
<1>4. Words'
  <2> USE DEF Words, ToldTheTruth, WriteGoto, Show, Frees, chatHistory, endings
  <2>1. CASE EngineEnds(d)
    BY <1>1, <2>1 DEF EngineEnds
  <2>2. CASE SendResume(d)
    BY <1>1, <2>2 DEF SendResume
  <2>3. CASE Close(d)
    BY <1>1, <2>3 DEF Close
  <2>4. CASE Explain(d)
    BY <1>1, <2>4 DEF Explain
  <2>5. CASE SayItFailed(d)
    BY <1>1, <2>5 DEF SayItFailed
  <2>6. CASE CancelGeneration(d)
    BY <1>1, <2>6 DEF CancelGeneration, Writing
  <2> QED BY <2>1, <2>2, <2>3, <2>4, <2>5, <2>6 DEF GenerationStep
<1> QED BY <1>3, <1>4, GenerationMovesKeep

\* A crash ends everything that runs in the process, and empties its registries.
LEMMA CrashKeeps ==
  ASSUME ChatInv, NEW p \in Process, ProcessCrashes(p) PROVE ChatInv'
<1> USE ChatAssumption DEF ChatInv
<1>1. /\ UNCHANGED <<claimRow, ripe, acked, tooOld, carries, host, owning, spent, shown,
                     began, returned, overran, doubtful>>
      /\ desks' = [desks EXCEPT ![p] = {}] /\ places' = [places EXCEPT ![p] = {}]
      /\ spoiled \subseteq spoiled' /\ spoiled' \subseteq Delivery
      /\ muted \subseteq muted' /\ muted' \subseteq Delivery
      /\ misfortunes' \in 0 .. MaxMisfortunes
  BY DEF ProcessCrashes, Misfortune, ChatTypeOK, claimVars, envelope
<1>2. /\ doing' \in [Delivery -> DeliveryPlace] /\ writing' \in [Delivery -> Writing]
      /\ \A d \in Delivery :
           /\ host[d] # p => doing'[d] = doing[d] /\ writing'[d] = writing[d]
           /\ host[d] = p => /\ doing[d] # "unsent"
                             /\ doing'[d] \in {"answered", "refused", "dead"}
                             /\ writing'[d] \in {"none", "over"}
           /\ doing'[d] # doing[d] => doing'[d] = "dead" /\ d \in spoiled'
           /\ writing'[d] # writing[d] => writing[d] # "none" /\ writing'[d] = "over" /\ d \in muted'
           /\ doing'[d] = "refused" => doing[d] = "refused"
           /\ writing'[d] = "none" <=> writing[d] = "none"
  BY DEF ProcessCrashes, ChatTypeOK, DeliveryPlace, Writing, Stages
<1>3. \A d \in Delivery : /\ Handled(d)' => Handled(d)
                          /\ Handled(d) => Handled(d)' \/ d \in spoiled'
                          /\ doing'[d] = "replying" => doing[d] = "replying"
  BY <1>2 DEF Handled
<1>4. ChatTypeOK'
  BY <1>1, <1>2 DEF ChatTypeOK
<1>5. Stages'
  BY <1>1, <1>2 DEF Stages, AtHandler, Handled, Discord, ChatTypeOK
<1>6. Claims' /\ SecondAfterFailure' /\ Acks'
  BY <1>1, <1>3, ClaimsStand
<1>7. Words'
  BY <1>1, <1>2 DEF Words, ToldTheTruth
<1>8. Registered'
  BY <1>1, <1>2 DEF ChatTypeOK, Registered, Holds, AtDesk, Discord, Person
<1> QED BY <1>4, <1>5, <1>6, <1>7, <1>8

-----------------------------------------------------------------------------
LEMMA ChatNextInvariant ==
  ASSUME ChatInv, [ChatNext]_chatVars PROVE ChatInv'
<1>1. CASE UNCHANGED chatVars
  <2>1. UNCHANGED <<claimVars, requestVars, resumeVars, chatHistory, misfortunes>>
    BY <1>1 DEF chatVars
  <2> USE <2>1 DEF ChatInv, claimVars, requestVars, envelope, resumeVars, chatHistory, endings
  <2>2. ChatTypeOK' /\ Stages'
    BY DEF ChatTypeOK, Stages, Handled, Discord
  <2>3. Claims' /\ SecondAfterFailure' /\ Acks'
    BY ClaimsStand DEF Handled
  <2>4. Words' /\ Registered'
    BY WordsStand DEF Registered, Holds, AtDesk, Discord, Person
  <2> QED BY <2>2, <2>3, <2>4
<1>2. CASE \E d \in Delivery : DeliveryStep(d)
  BY <1>2, ArriveKeeps, StartKeeps, ClaimRefusedKeeps, HandlerKeeps, SettleKeeps, ReplyKeeps
     DEF DeliveryStep
<1> QED BY <1>1, <1>2, TimeKeeps, GenerationKeeps, CrashKeeps DEF ChatNext

LEMMA ChatInductive == ChatSpec => []ChatInv
<1>1. ChatInit => ChatInv
  BY ChatInitInvariant
<1>2. ChatInv /\ [ChatNext]_chatVars => ChatInv'
  BY ChatNextInvariant
<1> QED BY <1>1, <1>2, PTL DEF ChatSpec

-----------------------------------------------------------------------------
(* Discord's claims: one for a message, for good. *)

\* A claim that was granted is there still; by the time its lease ends, the
\* signature is too old for a copy to arrive and none is left waiting.
OneClaim ==
  /\ \A d \in owning : Discord(d) => claimRow[carries[d]] # "none"
  /\ \A u \in ripe \cap OnDiscord :
       u \in tooOld /\ \A d \in Delivery : carries[d] = u => doing[d] # "claiming"
  /\ \A d, e \in owning : carries[d] = carries[e] /\ Discord(d) => d = e

LEMMA OneClaimBegins ==
  ASSUME ChatInit PROVE OneClaim
BY DEF ChatInit, OneClaim

\* Where no claim is granted or settled and none waits that did not before.
LEMMA ClaimsAlone ==
  ASSUME ChatInv, OneClaim, UNCHANGED <<claimRow, ripe, owning, carries>>, tooOld \subseteq tooOld',
         \A d \in Delivery : doing'[d] = "claiming" => doing[d] = "claiming"
  PROVE  OneClaim'
BY DEF OneClaim, Discord

LEMMA OneClaimStays ==
  ASSUME ChatInv, OneClaim, [ChatNext]_chatVars
  PROVE  OneClaim'
<1> USE ChatAssumption DEF ChatInv
<1>1. /\ doing \in [Delivery -> DeliveryPlace] /\ carries \in [Delivery -> Update \cup {NoUpdate}]
      /\ claimRow \in [Update -> {"none", "held", "done"}] /\ owning \subseteq Delivery
  BY DEF ChatTypeOK
<1>2. ASSUME NEW u \in Update, LeaseEnds(u) \/ SignatureAges(u) \/ HourPasses(PersonOf[u])
      PROVE  OneClaim'
  <2>1. CASE LeaseEnds(u)
    BY <2>1 DEF LeaseEnds, OneClaim, Discord, requestVars, envelope
  <2>2. CASE SignatureAges(u) \/ HourPasses(PersonOf[u])
    BY <2>2, ClaimsAlone DEF SignatureAges, HourPasses, claimVars, requestVars, envelope
  <2> QED BY <1>2, <2>1, <2>2
<1>3. ASSUME NEW d \in Delivery, NEW u \in Update, NEW p \in Process, Arrive(d, u, p)
      PROVE  OneClaim'
  <2>1. /\ d \notin owning /\ u \notin tooOld
        /\ UNCHANGED <<claimRow, ripe, tooOld, owning>> /\ carries' = [carries EXCEPT ![d] = u]
        /\ \A e \in Delivery \ {d} : doing'[e] = doing[e]
    BY <1>1, <1>3 DEF Arrive, Goto, Stages, claimVars
  <2> QED BY <1>1, <2>1 DEF OneClaim, Discord
<1>4. ASSUME NEW d \in Delivery, ClaimGranted(d) \/ ClaimFails(d)
      PROVE  OneClaim'
  <2> DEFINE u == carries[d]
  <2>1. /\ u \in Update /\ doing[d] = "claiming" /\ UNCHANGED <<tooOld, carries>>
        /\ \A e \in Delivery \ {d} : doing'[e] = doing[e]
        /\ doing'[d] = "handling"
        /\ \/ owning' = owning /\ claimRow' = claimRow /\ ripe' = ripe
           \/ /\ Claimable(u) /\ claimRow' = [claimRow EXCEPT ![u] = "held"] /\ ripe' = ripe \ {u}
              /\ owning' \in {owning, owning \cup {d}}
    BY <1>1, <1>4 DEF ClaimGranted, ClaimFails, StartHandling, Grant, Goto, Stages, envelope
  <2>2. CASE owning' = owning /\ claimRow' = claimRow /\ ripe' = ripe
    BY <2>1, <2>2, ClaimsAlone
  <2>3. CASE /\ Claimable(u) /\ claimRow' = [claimRow EXCEPT ![u] = "held"] /\ ripe' = ripe \ {u}
             /\ owning' \in {owning, owning \cup {d}}
    <3>1. u \in OnDiscord => \A e \in owning : carries[e] # u
      BY <2>1, <2>3 DEF OneClaim, Claimable, Discord
    <3> QED BY <1>1, <2>1, <2>3, <3>1 DEF OneClaim, Discord
  <2> QED BY <2>1, <2>2, <2>3
<1>5. ASSUME NEW d \in Delivery, Settle(d)
      PROVE  OneClaim'
  <2>1. /\ UNCHANGED <<ripe, tooOld, carries, owning>> /\ carries[d] \in Update
        /\ \A e \in Delivery : doing'[e] = "claiming" => doing[e] = "claiming"
        /\ claimRow' \in {claimRow, [claimRow EXCEPT ![carries[d]] = Settled(d)]}
    BY <1>1, <1>5 DEF Settle, Goto, Stages, envelope
  <2>2. CASE claimRow' = claimRow
    BY <2>1, <2>2, ClaimsAlone
  <2>3. CASE claimRow' = [claimRow EXCEPT ![carries[d]] = Settled(d)]
    <3>1. Discord(d) /\ claimRow[carries[d]] # "none" => Settled(d) # "none"
      BY DEF Settled
    <3> QED BY <1>1, <2>1, <2>3, <3>1 DEF OneClaim, Discord
  <2> QED BY <2>1, <2>2, <2>3
<1>6. ASSUME NEW d \in Delivery,
             \/ ClaimRefused(d) \/ Reserve(d) \/ TakeSlot(d) \/ Open(d) \/ Reply(d)
             \/ CancelInteraction(d) \/ GenerationStep(d)
      PROVE  OneClaim'
  <2>1. UNCHANGED <<claimRow, ripe, tooOld, owning, carries>>
    BY <1>6 DEF ClaimRefused, Reserve, TakeSlot, Open, Reply, CancelInteraction, GenerationStep, EngineEnds,
       SendResume, Close, Explain, SayItFailed, CancelGeneration, claimVars, requestVars, envelope
  <2>2. \A e \in Delivery : doing'[e] = "claiming" => doing[e] = "claiming"
    BY <1>1, <1>6 DEF ClaimRefused, Reserve, TakeSlot, Open, Reply, CancelInteraction, GenerationStep, EngineEnds,
       SendResume, Close, Explain, SayItFailed, CancelGeneration, requestVars, Say, Return, Raise, Goto
  <2> QED BY <2>1, <2>2, ClaimsAlone
<1>7. ASSUME NEW p \in Process, ProcessCrashes(p)
      PROVE  OneClaim'
  BY <1>1, <1>7, ClaimsAlone DEF ProcessCrashes, claimVars, envelope
<1>8. CASE UNCHANGED chatVars
  BY <1>8, ClaimsAlone DEF chatVars, claimVars, requestVars, envelope
<1> QED BY <1>2, <1>3, <1>4, <1>5, <1>6, <1>7, <1>8 DEF ChatNext, DeliveryStep

-----------------------------------------------------------------------------
(* The theorems. *)

\* Every reachable state is well typed.
THEOREM ChatTyping == ChatSpec => []ChatTypeOK
<1>1. ChatInv => ChatTypeOK
  BY DEF ChatInv
<1> QED BY <1>1, ChatInductive, PTL

\* Telegram's redelivery ends only after a handler has returned, however many
\* processes get the message and however their claims end.
THEOREM NoMessageDropped == ChatSpec => []NoUpdateDropped
<1>1. ChatInv => NoUpdateDropped
  BY DEF ChatInv, Acks
<1> QED BY <1>1, ChatInductive, PTL

\* Two deliveries of one message are both handled only where a claim, a handler
\* or a settling failed, or a handler outlived its lease; and never two under a
\* claim, if the message is Discord's.
THEOREM NoSecondHandling == ChatSpec => []HandledOnce
<1>1. ChatInit => OneClaim
  BY OneClaimBegins
<1>2. ChatInv /\ OneClaim /\ [ChatNext]_chatVars => OneClaim'
  BY OneClaimStays
<1>3. ChatInv /\ OneClaim => HandledOnce
  BY DEF ChatInv, OneClaim, HandledOnce
<1> QED BY <1>1, <1>2, <1>3, ChatInductive, PTL DEF ChatSpec

\* The registries hold what runs and nothing else, through every way a request
\* or a generation may end.
THEOREM NoPlaceLeaks == ChatSpec => []PlacesAreReturned
<1>1. ChatInv => PlacesAreReturned
  BY PlacesByDelivery DEF ChatInv
<1> QED BY <1>1, ChatInductive, PTL

\* A generation that ended has told the person how, and told the truth.
THEOREM NobodyMisled == ChatSpec => []ToldTheTruth
<1>1. ChatInv => ToldTheTruth
  BY DEF ChatInv, Words
<1> QED BY <1>1, ChatInductive, PTL

-----------------------------------------------------------------------------
(* The deliveries as Inbox promises them to whoever sends the messages. *)

\* A handler that has returned is at work no more: a delivery returns once.
Early == {"unsent", "claiming"} \cup AtHandler

ReturnsOnce == \A d \in returned : doing[d] \notin Early

LEMMA ReturnsOnceStays ==
  ASSUME ChatInv, ReturnsOnce, [ChatNext]_chatVars
  PROVE  ReturnsOnce'
<1> USE DEF ChatInv, ReturnsOnce, Early, AtHandler
<1>1. doing \in [Delivery -> DeliveryPlace] /\ returned \subseteq Delivery
  BY DEF ChatTypeOK
<1>2. ASSUME NEW d \in Delivery, DeliveryStep(d)
      PROVE  ReturnsOnce'
  <2>1. /\ \A e \in Delivery \ {d} : doing'[e] = doing[e]
        /\ \/ returned' = returned /\ (d \notin returned \/ doing'[d] \notin Early)
           \/ returned' = returned \cup {d} /\ doing'[d] = "settling"
    <3>1. CASE \E u \in Update, p \in Process : Arrive(d, u, p)
      BY <1>1, <3>1 DEF Arrive, Goto, chatHistory
    <3>2. CASE ClaimGranted(d) \/ ClaimRefused(d) \/ ClaimFails(d)
      BY <1>1, <3>2 DEF ClaimGranted, ClaimRefused, ClaimFails, StartHandling, Goto, chatHistory
    <3>3. CASE Reserve(d) \/ TakeSlot(d) \/ Open(d) \/ CancelInteraction(d)
      BY <1>1, <3>3 DEF Reserve, TakeSlot, Open, CancelInteraction, Say, Return, Raise, Goto
    <3>4. CASE Settle(d) \/ Reply(d)
      BY <1>1, <3>4 DEF Settle, Reply, Goto, chatHistory
    <3> QED BY <1>2, <3>1, <3>2, <3>3, <3>4 DEF DeliveryStep
  <2> QED BY <1>1, <2>1
<1>3. ASSUME NEW p \in Process, ProcessCrashes(p)
      PROVE  ReturnsOnce'
  BY <1>1, <1>3 DEF ProcessCrashes
<1>4. CASE \/ UNCHANGED chatVars
           \/ \E u \in Update : LeaseEnds(u) \/ SignatureAges(u) \/ HourPasses(PersonOf[u])
           \/ \E d \in Delivery : GenerationStep(d)
  <2>1. UNCHANGED <<doing, returned>>
    BY <1>4 DEF LeaseEnds, SignatureAges, HourPasses, GenerationStep, EngineEnds, SendResume, Close,
       Explain, SayItFailed, CancelGeneration, chatVars, requestVars, chatHistory
  <2> QED BY <2>1
<1> QED BY <1>2, <1>3, <1>4 DEF ChatNext

LEMMA ReturnsOnceAlways == ChatSpec => [](ChatInv /\ ReturnsOnce)
<1>1. ChatInit => ReturnsOnce
  BY DEF ChatInit, ReturnsOnce
<1>2. ChatInv /\ ReturnsOnce /\ [ChatNext]_chatVars => ReturnsOnce'
  BY ReturnsOnceStays
<1> QED BY <1>1, <1>2, ChatInductive, PTL DEF ChatSpec

LEMMA NothingInInbox ==
  ASSUME UNCHANGED <<carries, began, returned, spoiled, overran, acked, misfortunes>>, Paid' = Paid
  PROVE  UNCHANGED TheInbox!inboxVars
BY DEF TheInbox!inboxVars

\* Whatever spoils deliveries costs a misfortune.
LEMMA TroubleInInbox ==
  ASSUME ChatTypeOK, Misfortune, spoiled \subseteq spoiled', spoiled' \subseteq Delivery,
         \A e \in spoiled' \ spoiled : carries[e] # NoUpdate,
         UNCHANGED <<carries, began, returned, overran, acked>>, Paid' = Paid
  PROVE  TheInbox!Trouble
BY DEF Misfortune, TheInbox!Trouble, TheInbox!Received

\* A message arrives; time passes.
LEMMA ArriveInInbox ==
  ASSUME ChatInv, NEW d \in Delivery, NEW u \in Update, NEW p \in Process, Arrive(d, u, p)
  PROVE  TheInbox!Receive(d, u)
<1>1. carries[d] = NoUpdate /\ u \notin acked
  BY DEF ChatInv, Arrive, Stages
<1>2. /\ carries' = [carries EXCEPT ![d] = u]
      /\ UNCHANGED <<began, returned, spoiled, overran, acked, misfortunes>> /\ Paid' = Paid
  BY DEF Arrive, AllWell, claimVars, resumeVars, chatHistory, Paid
<1> QED BY <1>1, <1>2 DEF TheInbox!Receive, TheInbox!Received

LEMMA TimeInInbox ==
  ASSUME ChatInv, NEW u \in Update, LeaseEnds(u) \/ SignatureAges(u) \/ HourPasses(PersonOf[u])
  PROVE  TheInbox!Linger(u) \/ UNCHANGED TheInbox!inboxVars
<1> USE DEF ChatInv
<1>1. UNCHANGED <<carries, began, returned, spoiled, acked, misfortunes>> /\ Paid' = Paid
  BY DEF LeaseEnds, SignatureAges, HourPasses, AllWell, claimVars, requestVars, envelope,
         resumeVars, chatHistory, endings, Paid
<1>2. overran' = overran \/ (overran' = overran \cup {u} /\ \E e \in began : carries[e] = u)
  <2>1. CASE LeaseEnds(u)
    <3> DEFINE its == {e \in Delivery : carries[e] = u /\ Handled(e)}
    <3>1. overran' = overran \cup {carries[d] : d \in its}
      BY <2>1 DEF LeaseEnds
    <3>2. \A e \in its : e \in began /\ carries[e] = u
      BY DEF Stages
    <3>3. CASE its = {}
      BY <3>1, <3>3
    <3>4. CASE its # {}
      <4>1. {carries[d] : d \in its} = {u}
        BY <3>4
      <4> QED BY <3>1, <3>2, <3>4, <4>1
    <3> QED BY <3>3, <3>4
  <2>2. CASE SignatureAges(u) \/ HourPasses(PersonOf[u])
    BY <2>2 DEF SignatureAges, HourPasses, chatHistory
  <2> QED BY <2>1, <2>2
<1>3. CASE overran' = overran
  BY <1>1, <1>3, NothingInInbox
<1>4. CASE overran' = overran \cup {u} /\ \E e \in began : carries[e] = u
  BY <1>1, <1>4 DEF TheInbox!Linger
<1> QED BY <1>2, <1>3, <1>4

\* The claim decides who begins: where it is granted, nobody is at work in time,
\* and nobody has ended well.
LEMMA ClaimInInbox ==
  ASSUME ChatInv, NEW d \in Delivery, ClaimGranted(d) \/ ClaimRefused(d) \/ ClaimFails(d)
  PROVE  TheInbox!Begin(d) \/ TheInbox!BeginBlindly(d) \/ UNCHANGED TheInbox!inboxVars
<1> USE DEF ChatInv
<1>1. /\ doing[d] = "claiming" /\ d \notin began /\ carries[d] \in Update
      /\ carries[d] # NoUpdate
  BY ChatAssumption DEF ClaimGranted, ClaimRefused, ClaimFails, Stages
<1>2. UNCHANGED <<carries, returned, overran, acked>> /\ Paid' = Paid
  BY DEF ClaimGranted, ClaimRefused, ClaimFails, claimVars, envelope, resumeVars, chatHistory, Paid
<1>3. CASE ClaimGranted(d)
  <2>1. /\ Claimable(carries[d]) /\ began' = began \cup {d} /\ spoiled' = spoiled
        /\ misfortunes' = misfortunes
    BY <1>3 DEF ClaimGranted, StartHandling, AllWell
  <2>2. carries[d] \in overran \/ \A e \in began : carries[e] = carries[d] => e \in spoiled
    BY <1>1, <2>1, ClaimableIsFree
  <2> QED BY <1>1, <1>2, <2>1, <2>2 DEF TheInbox!Begin, TheInbox!Clear, TheInbox!Received
<1>4. CASE ClaimRefused(d)
  BY <1>2, <1>4, NothingInInbox DEF ClaimRefused, AllWell, chatHistory
<1>5. CASE ClaimFails(d)
  <2>1. /\ began' = began \cup {d} /\ spoiled' = spoiled \cup {d}
        /\ misfortunes' = misfortunes + 1
    BY <1>5 DEF ClaimFails, StartHandling, Misfortune
  <2> QED BY <1>1, <1>2, <2>1 DEF TheInbox!BeginBlindly, TheInbox!Received
<1> QED BY <1>3, <1>4, <1>5

\* A handler goes on, or returns, or something goes wrong.
LEMMA HandlerInInbox ==
  ASSUME ChatInv, ReturnsOnce, NEW d \in Delivery,
         Reserve(d) \/ TakeSlot(d) \/ Open(d) \/ CancelInteraction(d)
  PROVE  TheInbox!Finish(d) \/ TheInbox!Trouble \/ UNCHANGED TheInbox!inboxVars
<1> USE DEF ChatInv
<1>1. /\ doing[d] \in AtHandler /\ d \in began /\ carries[d] # NoUpdate /\ writing[d] = "none"
      /\ d \in Delivery /\ spoiled \subseteq Delivery
  BY ChatAssumption DEF Reserve, TakeSlot, Open, CancelInteraction, AtHandler, Stages, Handled, ChatTypeOK
<1>2. UNCHANGED <<carries, began, overran, acked>>
  BY DEF Reserve, TakeSlot, Open, CancelInteraction, claimVars, envelope
<1>3. Paid' = Paid \/ (Open(d) /\ Return(d) /\ AllWell /\ Paid' = Paid \cup {d})
  <2>1. CASE Open(d) /\ Return(d) /\ AllWell /\ writing' = [writing EXCEPT ![d] = "engine"]
    BY <1>1, <2>1 DEF Paid, ChatTypeOK
  <2>2. CASE writing' = writing
    BY <2>2 DEF Paid
  <2> QED BY <2>1, <2>2 DEF Reserve, TakeSlot, Open, CancelInteraction
<1>4. CASE Return(d) /\ AllWell
  <2>1. d \notin returned
    BY <1>1 DEF ReturnsOnce, Early
  <2> QED BY <1>1, <1>2, <1>3, <1>4, <2>1 DEF Return, AllWell, TheInbox!Finish
<1>5. CASE /\ Misfortune /\ UNCHANGED returned /\ spoiled' \in {spoiled, spoiled \cup {d}}
           /\ Paid' = Paid
  BY <1>1, <1>2, <1>5, TroubleInInbox
<1>6. CASE AllWell /\ UNCHANGED <<returned, spoiled>> /\ Paid' = Paid
  BY <1>2, <1>6, NothingInInbox DEF AllWell
<1>7. \/ Return(d) /\ AllWell
      \/ Misfortune /\ UNCHANGED returned /\ spoiled' \in {spoiled, spoiled \cup {d}}
      \/ AllWell /\ UNCHANGED <<returned, spoiled>>
  BY DEF Reserve, TakeSlot, Open, CancelInteraction, Say, Return, Raise
<1> QED BY <1>3, <1>4, <1>5, <1>6, <1>7 DEF Return, AllWell, Misfortune

\* The claim is settled, and the message answered.
LEMMA AnswerInInbox ==
  ASSUME ChatInv, NEW d \in Delivery, Settle(d) \/ Reply(d)
  PROVE  \/ \E u \in Update : TheInbox!Acknowledge(u)
         \/ TheInbox!Trouble \/ UNCHANGED TheInbox!inboxVars
<1> USE DEF ChatInv
<1>1. /\ doing[d] \in {"settling", "replying"} /\ carries[d] \in Update /\ carries[d] # NoUpdate
      /\ spoiled \subseteq Delivery
  BY ChatAssumption DEF Settle, Reply, Stages, ChatTypeOK
<1>2. UNCHANGED <<carries, began, returned, overran>> /\ Paid' = Paid
  BY DEF Settle, Reply, envelope, resumeVars, chatHistory, Paid
<1>3. CASE Settle(d)
  <2>1. CASE spoiled' = spoiled /\ AllWell
    BY <1>2, <1>3, <2>1, NothingInInbox DEF Settle, AllWell
  <2>2. CASE spoiled' = spoiled \cup {d} /\ Misfortune
    BY <1>1, <1>2, <1>3, <2>2, TroubleInInbox DEF Settle
  <2> QED BY <1>3, <2>1, <2>2 DEF Settle
<1>4. CASE Reply(d)
  <2>1. HasReturned(carries[d]) /\ spoiled' = spoiled
    BY <1>4 DEF Reply, Acks, chatHistory
  <2>2. CASE acked' = acked \cup {carries[d]} /\ AllWell
    BY <1>1, <1>2, <2>1, <2>2 DEF HasReturned, AllWell, TheInbox!Acknowledge
  <2>3. CASE acked' = acked /\ Misfortune
    BY <1>1, <1>2, <2>1, <2>3, TroubleInInbox
  <2> QED BY <1>4, <2>2, <2>3 DEF Reply
<1> QED BY <1>3, <1>4

\* A generation that runs was paid for before it runs.
LEMMA GenerationInInbox ==
  ASSUME ChatInv, NEW d \in Delivery, GenerationStep(d)
  PROVE  TheInbox!Trouble \/ UNCHANGED TheInbox!inboxVars
<1> USE DEF ChatInv
<1>1. /\ UNCHANGED <<carries, began, returned, spoiled, overran, acked>>
      /\ AllWell \/ Misfortune
      /\ writing[d] \notin {"none", "over"}
      /\ \E s \in Writing \ {"none"} : writing' = [writing EXCEPT ![d] = s]
  BY DEF GenerationStep, EngineEnds, SendResume, Close, Explain, SayItFailed, CancelGeneration,
     WriteGoto, Frees, Writing, claimVars, requestVars, envelope, chatHistory
<1>2. Paid' = Paid
  BY <1>1 DEF Paid, ChatTypeOK
<1>3. CASE AllWell
  BY <1>1, <1>2, <1>3, NothingInInbox DEF AllWell
<1>4. CASE Misfortune
  BY <1>1, <1>2, <1>4, TroubleInInbox DEF ChatTypeOK
<1> QED BY <1>1, <1>3, <1>4

LEMMA CrashInInbox ==
  ASSUME ChatInv, NEW p \in Process, ProcessCrashes(p)
  PROVE  TheInbox!Trouble
<1> USE DEF ChatInv
<1>1. /\ UNCHANGED <<carries, began, returned, overran, acked>> /\ Misfortune
      /\ spoiled \subseteq spoiled' /\ spoiled' \subseteq Delivery
      /\ \A e \in spoiled' \ spoiled : host[e] = p
      /\ Paid' = Paid
  BY DEF ProcessCrashes, claimVars, envelope, ChatTypeOK, Paid
<1>2. \A e \in spoiled' \ spoiled : carries[e] # NoUpdate
  BY <1>1, ChatAssumption DEF Stages
<1> QED BY <1>1, <1>2, TroubleInInbox

\* A sender may repeat a message as often as it likes, to any number of processes:
\* it is handled beside an earlier attempt only if that one failed or outlived its
\* lease before the new one began, or if the claims could not be asked; what
\* Telegram stops sending was done with; and each attempt costs one generation at
\* most.
THEOREM InboxIsImplemented == ChatSpec => ImplementsInbox
<1>1. ChatInit => TheInbox!InboxInit
  BY DEF ChatInit, Paid, TheInbox!InboxInit
<1>2. ChatInv /\ ReturnsOnce /\ [ChatNext]_chatVars => [TheInbox!InboxNext]_TheInbox!inboxVars
  <2> SUFFICES ASSUME ChatInv, ReturnsOnce, [ChatNext]_chatVars
               PROVE  TheInbox!InboxNext \/ UNCHANGED TheInbox!inboxVars
    OBVIOUS
  <2>1. CASE UNCHANGED chatVars
    BY <2>1, NothingInInbox DEF chatVars, claimVars, requestVars, envelope, resumeVars, chatHistory, Paid
  <2>2. ASSUME NEW u \in Update, LeaseEnds(u) \/ SignatureAges(u) \/ HourPasses(PersonOf[u])
        PROVE  TheInbox!InboxNext \/ UNCHANGED TheInbox!inboxVars
    BY <2>2, TimeInInbox DEF TheInbox!InboxNext
  <2>3. ASSUME NEW d \in Delivery, DeliveryStep(d)
        PROVE  TheInbox!InboxNext \/ UNCHANGED TheInbox!inboxVars
    BY <2>3, ArriveInInbox, ClaimInInbox, HandlerInInbox, AnswerInInbox
       DEF DeliveryStep, TheInbox!InboxNext
  <2>4. ASSUME NEW d \in Delivery, GenerationStep(d)
        PROVE  TheInbox!InboxNext \/ UNCHANGED TheInbox!inboxVars
    BY <2>4, GenerationInInbox DEF TheInbox!InboxNext
  <2>5. ASSUME NEW p \in Process, ProcessCrashes(p)
        PROVE  TheInbox!InboxNext \/ UNCHANGED TheInbox!inboxVars
    BY <2>5, CrashInInbox DEF TheInbox!InboxNext
  <2> QED BY <2>1, <2>2, <2>3, <2>4, <2>5 DEF ChatNext
<1> QED BY <1>1, <1>2, ReturnsOnceAlways, PTL DEF ChatSpec, ImplementsInbox, TheInbox!InboxSpec
=============================================================================
