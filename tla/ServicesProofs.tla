--------------------------- MODULE ServicesProofs ---------------------------
(***************************************************************************)
(* Account linking, the versions of a profile and the job registry, proved *)
(* each by itself for any number of chats, deliveries, documents, imports  *)
(* and postings; each section has the inductive invariant of one of them.  *)
(* Then the five parts of Services together.                               *)
(***************************************************************************)
EXTENDS Services, ChatDeliveryProofs, AccountDeletionProofs, SequenceTheorems

-----------------------------------------------------------------------------
(* Lists in which nothing stands twice. *)

\* What stands in a list once is removed by its first occurrence.
LEMMA RemovedOnce ==
  ASSUME NEW P, NEW s \in Seq(P), IsInjective(s), NEW i \in 1 .. Len(s)
  PROVE  /\ RemoveFirst(s, s[i]) \in Seq(P)
         /\ Len(RemoveFirst(s, s[i])) = Len(s) - 1
         /\ \A k \in 1 .. Len(s) - 1 :
              RemoveFirst(s, s[i])[k] = s[IF k < i THEN k ELSE k + 1]
<1> DEFINE I == {j \in 1 .. Len(s) : s[j] = s[i]}
           b == SubSeq(s, 1, i - 1)
           e == SubSeq(s, i + 1, Len(s))
           r == RemoveFirst(s, s[i])
<1>1. I = {i}
  BY DEF IsInjective
<1>2. r = RemoveAt(s, IF I # {} THEN CHOOSE k \in I : \A j \in I : k <= j ELSE 0)
  BY Zenon DEF RemoveFirst, SelectInSeq, Min
<1>3. r = b \o e
  <2> HIDE DEF I
  <2>1. (CHOOSE k \in I : \A j \in I : k <= j) = i
    BY <1>1
  <2> QED BY <1>1, <1>2, <2>1 DEF RemoveAt
<1>4. /\ b \in Seq(P) /\ Len(b) = i - 1 /\ \A k \in 1 .. i - 1 : b[k] = s[k]
  BY SubSeqProperties
<1>5. /\ e \in Seq(P) /\ Len(e) = Len(s) - i /\ \A k \in 1 .. Len(s) - i : e[k] = s[i + k]
  BY SubSeqProperties
<1> HIDE DEF I, b, e, r
<1>6. /\ b \o e \in Seq(P) /\ Len(b \o e) = Len(b) + Len(e)
      /\ \A k \in 1 .. Len(b) + Len(e) : (b \o e)[k] = IF k <= Len(b) THEN b[k] ELSE e[k - Len(b)]
  BY <1>4, <1>5, ConcatProperties
<1>7. Len(r) = Len(s) - 1
  BY <1>3, <1>4, <1>5, <1>6
<1>8. ASSUME NEW k \in 1 .. Len(s) - 1 PROVE r[k] = s[IF k < i THEN k ELSE k + 1]
  <2>1. CASE k < i
    BY <1>3, <1>4, <1>5, <1>6, <1>8, <2>1
  <2>2. CASE k >= i
    <3>1. k - (i - 1) \in 1 .. Len(s) - i /\ i + (k - (i - 1)) = k + 1
      BY <1>8, <2>2
    <3>2. r[k] = e[k - (i - 1)]
      BY <1>3, <1>4, <1>5, <1>6, <1>8, <2>2
    <3> QED BY <1>5, <2>2, <3>1, <3>2
  <2> QED BY <2>1, <2>2
<1> QED BY <1>3, <1>6, <1>7, <1>8 DEF r

LEMMA RemovedLeavesRest ==
  ASSUME NEW P, NEW s \in Seq(P), IsInjective(s), NEW v \in P
  PROVE  /\ RemoveFirst(s, v) \in Seq(P) /\ IsInjective(RemoveFirst(s, v))
         /\ ToSet(RemoveFirst(s, v)) = ToSet(s) \ {v}
<1> DEFINE r == RemoveFirst(s, v)
<1>1. CASE v \notin ToSet(s)
  <2>1. r = s
    BY <1>1 DEF RemoveFirst, ToSet
  <2> QED BY <1>1, <2>1
<1>2. CASE v \in ToSet(s)
  <2>1. PICK i \in 1 .. Len(s) : v = s[i]
    BY <1>2 DEF ToSet
  <2>2. /\ r \in Seq(P) /\ Len(r) = Len(s) - 1
        /\ \A k \in 1 .. Len(r) : r[k] = s[IF k < i THEN k ELSE k + 1]
    BY <2>1, RemovedOnce
  <2> HIDE DEF r
  <2> DEFINE From(k) == IF k < i THEN k ELSE k + 1
             To(j)   == IF j < i THEN j ELSE j - 1
  <2>3. ASSUME NEW k \in 1 .. Len(r)
        PROVE  From(k) \in 1 .. Len(s) /\ From(k) # i /\ r[k] = s[From(k)]
    BY <2>2
  <2>4. ASSUME NEW j \in 1 .. Len(s), j # i
        PROVE  To(j) \in 1 .. Len(r) /\ r[To(j)] = s[j]
    <3>1. To(j) \in 1 .. Len(r) /\ From(To(j)) = j
      BY <2>2, <2>4
    <3> HIDE DEF From, To
    <3> QED BY <2>3, <3>1
  <2>5. IsInjective(r)
    <3>1. ASSUME NEW k \in 1 .. Len(r), NEW l \in 1 .. Len(r), r[k] = r[l] PROVE k = l
      <4>1. From(k) = From(l)
        BY <2>3, <3>1 DEF IsInjective
      <4> QED BY <2>2, <4>1
    <3> QED BY <2>2, <3>1 DEF IsInjective
  <2>6. ToSet(r) \subseteq ToSet(s) \ {v}
    BY <2>1, <2>3 DEF ToSet, IsInjective
  <2>7. ToSet(s) \ {v} \subseteq ToSet(r)
    BY <2>1, <2>4 DEF ToSet
  <2> QED BY <2>2, <2>5, <2>6, <2>7 DEF r
<1> QED BY <1>1, <1>2
\* What is put before or behind a list that lacks it stands there once.
LEMMA HeadedList ==
  ASSUME NEW P, NEW s \in Seq(P), IsInjective(s), NEW v \in P, v \notin ToSet(s)
  PROVE  <<v>> \o s \in Seq(P) /\ IsInjective(<<v>> \o s)
<1> DEFINE r == <<v>> \o s
<1>1. /\ r \in Seq(P) /\ Len(r) = Len(s) + 1 /\ r[1] = v
      /\ \A k \in 2 .. Len(r) : k - 1 \in 1 .. Len(s) /\ r[k] = s[k - 1]
  OBVIOUS
<1> HIDE DEF r
<1>2. ASSUME NEW k \in 1 .. Len(r), NEW l \in 1 .. Len(r), r[k] = r[l] PROVE k = l
  <2>1. CASE k = 1 \/ l = 1
    BY <1>1, <1>2, <2>1 DEF ToSet
  <2>2. CASE k # 1 /\ l # 1
    <3>1. k - 1 \in 1 .. Len(s) /\ l - 1 \in 1 .. Len(s) /\ s[k - 1] = s[l - 1]
      BY <1>1, <1>2, <2>2
    <3>2. k - 1 = l - 1
      BY <3>1 DEF IsInjective
    <3> QED BY <1>1, <3>2
  <2> QED BY <2>1, <2>2
<1> QED BY <1>1, <1>2 DEF r, IsInjective

LEMMA LengthenedList ==
  ASSUME NEW P, NEW s \in Seq(P), IsInjective(s), NEW v \in P, v \notin ToSet(s)
  PROVE  /\ Append(s, v) \in Seq(P) /\ IsInjective(Append(s, v))
         /\ ToSet(Append(s, v)) = ToSet(s) \cup {v}
<1> DEFINE r == Append(s, v)
<1>1. /\ r \in Seq(P) /\ Len(r) = Len(s) + 1 /\ r[Len(r)] = v
      /\ \A k \in 1 .. Len(s) : r[k] = s[k]
  OBVIOUS
<1> HIDE DEF r
<1>2. ASSUME NEW k \in 1 .. Len(r), NEW l \in 1 .. Len(r), r[k] = r[l] PROVE k = l
  <2>1. CASE k = Len(r) \/ l = Len(r)
    BY <1>1, <1>2, <2>1 DEF ToSet
  <2>2. CASE k # Len(r) /\ l # Len(r)
    <3>1. k \in 1 .. Len(s) /\ l \in 1 .. Len(s) /\ s[k] = s[l]
      BY <1>1, <1>2, <2>2
    <3> QED BY <3>1 DEF IsInjective
  <2> QED BY <2>1, <2>2
<1>3. ToSet(r) \subseteq ToSet(s) \cup {v}
  BY <1>1 DEF ToSet
<1>4. ToSet(s) \cup {v} \subseteq ToSet(r)
  BY <1>1 DEF ToSet
<1> QED BY <1>1, <1>2, <1>3, <1>4 DEF r, IsInjective

-----------------------------------------------------------------------------
(* Linking: the inductive invariant. *)

\* A code that linked a chat is consumed for good; a chat is its own account's,
\* the web account's or nobody's.
Linked(s) == \E k \in Code : usedBy[k] = s

Identities ==
  /\ Web \in live
  /\ \A s \in Chat : owner[s] \in {s, Web, Nobody}
  /\ \A k \in Code : usedBy[k] # Nobody => code[k] = "consumed"

\* No row of a document is still to come.
NoRowToCome(i) == i \in Late => creating[i] \notin {"before", "uploaded"}

\* A document has one row, of its home or of the web account.
OneRow ==
  /\ \A r \in artifact :
       /\ {r.user, r.under} \subseteq {HomeOf[r.item], Web}
       /\ NoRowToCome(r.item)
  /\ \A r, q \in artifact : r.item = q.item => r = q

Own(i, a) == [item |-> i, under |-> a, dir |-> "own"]

\* An object lies under its home or the web account; a call between its upload
\* and its insert has its object, and that is young.
Placed ==
  /\ \A o \in object :
       /\ o.under \in {HomeOf[o.item], Web}
       /\ o.dir = "orphans" => o.under = Web
       /\ o.item \in Late => creating[o.item] # "before"
  /\ \A i \in Late : creating[i] = "uploaded" => Own(i, HomeOf[i]) \in object /\ i \in young

InHand  == {"copying", "repointing", "rechecking", "removing"}
Working == InHand \cup {"merging", "listing", "moving", "counting", "retiring"}

\* A delivery at work empties the account of a chat that a code has linked.
Sourced(x) ==
  /\ place[x] \in {"waiting", "resolved"} => work[x].pass = 0 /\ work[x].todo = {}
  /\ place[x] = "resolved" => work[x].chat \in Chat /\ work[x].src \in {work[x].chat, Nobody}
  /\ place[x] \in Working =>
       /\ work[x].src \in Chat /\ work[x].chat = work[x].src
       /\ Linked(work[x].src)
  /\ place[x] = "merging" => work[x].pass < MaxLinkPasses

\* What it has listed is of that account; the object in hand gets no further
\* row, it is at the place onward before its row is, and no row names the
\* original when that is removed.
Handles(x) ==
  /\ \A i \in work[x].todo : HomeOf[i] = work[x].src /\ (i \in Late => creating[i] # "before")
  /\ place[x] \in InHand =>
       /\ work[x].item \in Item /\ HomeOf[work[x].item] = work[x].src
       /\ NoRowToCome(work[x].item)
       /\ place[x] # "copying" /\ work[x].dir = "own" => Own(work[x].item, Web) \in object
       /\ place[x] \in {"rechecking", "removing"} \/ work[x].dir = "orphans" =>
            RowsNaming(work[x].item, work[x].src) = {}

\* A delivery that began when no call was still to store anything leaves nothing:
\* what is under the account is listed or in hand.
Thorough(x) ==
  LET src == work[x].src
      left == {o.item : o \in Under(src)} IN
  work[x].calm =>
    /\ LateSettled
    /\ place[x] \in Working \ {"merging"} => \A r \in artifact : r.user # src
    /\ place[x] = "moving" => left \subseteq work[x].todo
    /\ place[x] \in InHand => left \subseteq work[x].todo \cup {work[x].item}
    /\ place[x] = "retiring" \/ (place[x] = "counting" /\ work[x].todo = {}) =>
         left = {} /\ \A r \in artifact : r.under # src

Deliveries == \A x \in Attempt : Sourced(x) /\ Handles(x) /\ Thorough(x)

LinkInv ==
  /\ LinkTypeOK /\ Identities /\ OneRow /\ Placed /\ Deliveries
  /\ NoDocumentLost /\ RefusedKeepsAccount

\* What every step leaves of rows and objects: a link stays, rows and objects
\* go to the web account, and only a call under way adds others.
FilesMove ==
  /\ \A k \in Code : usedBy[k] # Nobody => usedBy'[k] = usedBy[k]
  /\ \A i \in Late : creating'[i] \in {"before", "uploaded"} => creating[i] \in {"before", "uploaded"}
  /\ \A i \in Late : creating'[i] = "before" => creating[i] = "before"
  /\ LateSettled => LateSettled'
  /\ \A o \in object' : o \in object \/ o.under = Web \/ (o.item \in Late /\ creating[o.item] = "before")
  /\ \A i \in Item : Own(i, Web) \in object => Own(i, Web) \in object'
  /\ \A r \in artifact' :
       \/ ~NoRowToCome(r.item)
       \/ \E q \in artifact : q.item = r.item /\ r.user \in {q.user, Web} /\ r.under \in {q.under, Web}

LEMMA LinkInitInvariant ==
  ASSUME LinkInit PROVE LinkInv
<1> USE LinkAssumption DEF LinkInit
<1>1. LinkTypeOK
  BY DEF LinkTypeOK, Account, ArtifactRow, Object, CodeState, LinkPlace, Work, MaxLinkPasses
<1>2. Identities /\ OneRow /\ Placed
  BY DEF Identities, OneRow, Placed, Account, NoRowToCome
<1>3. Deliveries
  BY DEF Deliveries, Sourced, Handles, Thorough, InHand, Working
<1>4. NoDocumentLost
  <2>1. SUFFICES ASSUME NEW i \in Item, i \notin Late
                 PROVE  \E r \in artifact : /\ r.item = i /\ r.user \in live
                                            /\ [item |-> i, under |-> r.under, dir |-> "own"] \in object
    BY DEF NoDocumentLost
  <2>2. [item |-> i, user |-> HomeOf[i], under |-> HomeOf[i]] \in artifact
    BY <2>1
  <2> QED BY <2>1, <2>2 DEF Account
<1>5. RefusedKeepsAccount
  BY DEF RefusedKeepsAccount, Account
<1> QED BY <1>1, <1>2, <1>3, <1>4, <1>5 DEF LinkInv

\* A delivery that does not move itself follows the others' moves.
LEMMA DeliveryFollows ==
  ASSUME LinkInv, FilesMove, NEW x \in Attempt, place'[x] = place[x], work'[x] = work[x]
  PROVE  Sourced(x)' /\ Handles(x)' /\ Thorough(x)'
<1> USE LinkAssumption DEF LinkInv
<1>1. Sourced(x) /\ Handles(x) /\ Thorough(x)
  BY DEF Deliveries
<1>2. /\ work[x].src \in Chat \cup {Nobody} /\ work[x].src # Web
      /\ work[x].todo \subseteq Item
  BY DEF LinkTypeOK, Work
<1>3. \A s \in Chat : Linked(s) => Linked(s)'
  BY DEF Linked, FilesMove
<1>4. \A i \in Item : NoRowToCome(i) => NoRowToCome(i)'
  BY DEF NoRowToCome, FilesMove
<1>5. Sourced(x)'
  BY <1>1, <1>3 DEF Sourced, Working, InHand
<1>6. Handles(x)'
  <2>1. \A i \in work[x].todo : HomeOf[i] = work[x].src /\ (i \in Late => creating'[i] # "before")
    BY <1>1 DEF Handles, FilesMove
  <2>2. ASSUME place[x] \in InHand,
               place[x] \in {"rechecking", "removing"} \/ work[x].dir = "orphans"
        PROVE  RowsNaming(work[x].item, work[x].src)' = {}
    BY <1>1, <1>2, <2>2 DEF Handles, FilesMove, RowsNaming
  <2>3. ASSUME place[x] \in InHand
        PROVE  /\ work[x].item \in Item /\ HomeOf[work[x].item] = work[x].src
               /\ NoRowToCome(work[x].item)'
               /\ place[x] # "copying" /\ work[x].dir = "own" => Own(work[x].item, Web) \in object'
    BY <1>1, <1>4, <2>3 DEF Handles, FilesMove
  <2> QED BY <2>1, <2>2, <2>3 DEF Handles
<1>7. ASSUME work[x].calm
      PROVE  /\ \A o \in Under(work[x].src)' : o \in Under(work[x].src)
             /\ \A r \in artifact' : r.user = work[x].src => \E q \in artifact : q.user = work[x].src
             /\ \A r \in artifact' : r.under = work[x].src => \E q \in artifact : q.under = work[x].src
             /\ LateSettled'
  <2>1. LateSettled
    BY <1>1, <1>7 DEF Thorough
  <2>2. \A i : NoRowToCome(i) /\ (i \in Late => creating[i] # "before")
    BY <2>1 DEF LateSettled, NoRowToCome
  <2> QED BY <1>2, <2>1, <2>2 DEF FilesMove, Under
<1>8. Thorough(x)'
  BY <1>1, <1>7 DEF Thorough
<1> QED BY <1>5, <1>6, <1>8


\* A chat that nobody has linked keeps its account, if the step touches the
\* accounts and rows of linked chats only.
LEMMA UnlinkedStay ==
  ASSUME LinkInv, FilesMove,
         \A s \in Chat : ~Linked(s)' => owner'[s] = owner[s] /\ (s \in live => s \in live'),
         \A r \in artifact' :
           \/ r \in artifact
           \/ Linked(HomeOf[r.item])'
           \/ r.user = HomeOf[r.item] /\ r.under = HomeOf[r.item]
  PROVE  RefusedKeepsAccount'
<1>1. \A s \in Chat : ~Linked(s)' => \A k \in Code : usedBy[k] # s
  BY LinkAssumption DEF Linked, FilesMove
<1>2. RefusedKeepsAccount
  BY DEF LinkInv
<1> QED BY <1>1, <1>2 DEF RefusedKeepsAccount, Linked

\* Rows that stay where they are keep their documents, if accounts and objects
\* they rest on stay too.
LEMMA DocumentsStay ==
  ASSUME LinkInv, UNCHANGED artifact,
         \A i \in Late : creating'[i] = "inserted" => creating[i] = "inserted",
         \A r \in artifact : r.user \in live => r.user \in live',
         \A r \in artifact : Own(r.item, r.under) \in object => Own(r.item, r.under) \in object'
  PROVE  NoDocumentLost'
BY DEF LinkInv, NoDocumentLost, Own

\* Codes, time and the person touch neither rows nor objects nor deliveries.
LEMMA TablesKeep ==
  ASSUME LinkInv,
         \/ \E k \in Code : BeginMint(k) \/ EndMint(k) \/ Expire(k)
         \/ \E s \in Chat : CoolDown(s) \/ Unlink(s)
  PROVE  LinkInv'
<1> USE LinkAssumption DEF LinkInv
<1>1. /\ UNCHANGED <<live, usedBy, artifact, object, creating, young, place, work, mishaps>>
      /\ code' \in [Code -> CodeState] /\ \A k \in Code : code[k] = "consumed" => code'[k] = "consumed"
      /\ wrong' \in [Chat -> 0 .. MaxFailed]
      /\ \/ UNCHANGED owner
         \/ \E s \in Chat : owner[s] = Web /\ owner' = [owner EXCEPT ![s] = Nobody]
  BY DEF BeginMint, EndMint, Expire, CoolDown, Unlink, linkFiles, linkRun, LinkTypeOK, CodeState
<1>2. owner' \in [Chat -> Account \cup {Nobody}] /\ \A s \in Chat : owner[s] # Web => owner'[s] = owner[s]
  BY <1>1 DEF LinkTypeOK
<1>3. LinkTypeOK'
  BY <1>1, <1>2 DEF LinkTypeOK
<1>4. Identities'
  BY <1>1 DEF Identities, LinkTypeOK
<1>5. OneRow' /\ Placed'
  BY <1>1 DEF OneRow, Placed, NoRowToCome
<1>6. FilesMove
  BY <1>1 DEF FilesMove, LateSettled
<1>7. Deliveries'
  BY <1>1, <1>6, DeliveryFollows DEF Deliveries
<1>8. NoDocumentLost'
  BY <1>1, DocumentsStay
<1>9. RefusedKeepsAccount'
  BY <1>1, <1>2 DEF RefusedKeepsAccount
<1> QED BY <1>3, <1>4, <1>5, <1>7, <1>8, <1>9


\* A late call's upload, death or ageing: no row comes or goes.
LEMMA UploadsKeep ==
  ASSUME LinkInv, NEW i \in Late, UploadLate(i) \/ DieLate(i) \/ GrowOld(i)
  PROVE  LinkInv'
<1> USE LinkAssumption DEF LinkInv
<1>1. /\ UNCHANGED <<live, owner, code, usedBy, wrong, artifact, place, work>>
      /\ i \in Item /\ HomeOf[i] \in Chat
      /\ \/ /\ creating[i] = "before" /\ creating' = [creating EXCEPT ![i] = "uploaded"]
            /\ object' = object \cup {Own(i, HomeOf[i])} /\ young' = young \cup {i}
            /\ mishaps' = mishaps
         \/ /\ creating[i] = "uploaded" /\ creating' = [creating EXCEPT ![i] = "died"]
            /\ UNCHANGED <<object, young>> /\ mishaps' = mishaps + 1
         \/ /\ creating[i] # "uploaded" /\ young' = young \ {i}
            /\ UNCHANGED <<creating, object, mishaps>>
  BY DEF UploadLate, DieLate, GrowOld, linkTables, linkRun, Own
<1>2. LinkTypeOK'
  <2>1. object' \subseteq Object
    BY <1>1 DEF LinkTypeOK, Object, Own, Account
  <2>2. mishaps' \in Nat
    BY <1>1 DEF LinkTypeOK
  <2>3. creating' \in [Late -> {"before", "uploaded", "inserted", "undone", "died"}]
    BY <1>1 DEF LinkTypeOK
  <2> QED BY <1>1, <2>1, <2>2, <2>3 DEF LinkTypeOK
<1>3. creating \in [Late -> {"before", "uploaded", "inserted", "undone", "died"}]
  BY DEF LinkTypeOK
<1>4. Identities'
  BY <1>1 DEF Identities
<1>5. OneRow'
  BY <1>1, <1>3 DEF OneRow, NoRowToCome
<1>6. Placed'
  BY <1>1, <1>3 DEF Placed, Own
<1>7. FilesMove
  BY <1>1, <1>3 DEF FilesMove, LateSettled, Own
<1>8. Deliveries'
  BY <1>1, <1>7, DeliveryFollows DEF Deliveries
<1>9. NoDocumentLost'
  BY <1>1, <1>3, DocumentsStay
<1>10. RefusedKeepsAccount'
  BY <1>1 DEF RefusedKeepsAccount
<1> QED BY <1>2, <1>4, <1>5, <1>6, <1>8, <1>9, <1>10

\* A late insert puts a row to its object, or takes the object away again: no
\* delivery has that in hand, which is what the five minutes are for.
LEMMA InsertsLateKeep ==
  ASSUME LinkInv, NEW i \in Late, InsertLate(i) \/ LoseInsertAnswer(i)
  PROVE  LinkInv'
<1> USE LinkAssumption DEF LinkInv
<1> DEFINE home == HomeOf[i]
           new == [item |-> i, user |-> home, under |-> home]
<1>1. /\ UNCHANGED <<live, owner, code, usedBy, wrong, young, place, work>>
      /\ i \in Item /\ home \in Chat /\ creating[i] = "uploaded"
      /\ mishaps' \in {mishaps, mishaps + 1}
      /\ \/ /\ home \in live /\ artifact' = artifact \cup {new} /\ object' = object
            /\ creating' = [creating EXCEPT ![i] = "inserted"]
         \/ /\ artifact' \in {artifact, artifact \cup {new}} /\ object' = object \ {Own(i, home)}
            /\ creating' = [creating EXCEPT ![i] = "undone"]
  BY DEF InsertLate, LoseInsertAnswer, linkTables, linkRun, Own
<1>2. /\ creating \in [Late -> {"before", "uploaded", "inserted", "undone", "died"}]
      /\ artifact \subseteq ArtifactRow /\ object \subseteq Object
  BY DEF LinkTypeOK
<1>3. new \in ArtifactRow
  BY <1>1 DEF ArtifactRow, Account
<1>4. LinkTypeOK'
  <2>1. mishaps' \in Nat
    BY <1>1 DEF LinkTypeOK
  <2>2. creating' \in [Late -> {"before", "uploaded", "inserted", "undone", "died"}]
    BY <1>1, <1>2
  <2>3. artifact' \subseteq ArtifactRow /\ object' \subseteq Object
    BY <1>1, <1>2, <1>3
  <2> QED BY <1>1, <2>1, <2>2, <2>3 DEF LinkTypeOK
<1>5. Identities'
  BY <1>1 DEF Identities
<1>6. \A r \in artifact : r.item # i
  BY <1>1 DEF OneRow, NoRowToCome
<1>7. OneRow'
  <2>1. NoRowToCome(i)' /\ \A r \in artifact : NoRowToCome(r.item)'
    BY <1>1, <1>2, <1>6 DEF OneRow, NoRowToCome
  <2>2. \A r \in artifact' : r \in artifact \/ r = new
    BY <1>1
  <2> QED BY <1>6, <2>1, <2>2 DEF OneRow
<1>8. Placed'
  <2>1. ASSUME NEW j \in Late, creating'[j] = "uploaded" PROVE j # i /\ creating[j] = "uploaded"
    BY <1>1, <1>2, <2>1
  <2>2. \A j \in Late : creating'[j] = "uploaded" => Own(j, HomeOf[j]) \in object' /\ j \in young
    BY <1>1, <2>1 DEF Placed, Own
  <2>3. object' \subseteq object /\ \A j \in Late : creating'[j] = "before" => creating[j] = "before"
    BY <1>1, <1>2
  <2> QED BY <1>1, <2>2, <2>3 DEF Placed
<1>9. FilesMove
  <2>1. \A j \in Late : creating'[j] \in {"before", "uploaded"} => creating[j] = creating'[j]
    BY <1>1, <1>2
  <2>2. ~LateSettled /\ ~NoRowToCome(i)
    BY <1>1 DEF LateSettled, NoRowToCome
  <2>3. \A j \in Item : Own(j, Web) \in object => Own(j, Web) \in object'
    BY <1>1 DEF Own
  <2>4. \A r \in artifact' : r \in artifact \/ r.item = i
    BY <1>1
  <2>5. object' \subseteq object
    BY <1>1
  <2> QED BY <1>1, <2>1, <2>2, <2>3, <2>4, <2>5 DEF FilesMove
<1>10. Deliveries'
  BY <1>1, <1>9, DeliveryFollows DEF Deliveries
<1>11. NoDocumentLost'
  <2>1. SUFFICES ASSUME NEW j \in Item, j \notin Late \/ creating'[j] = "inserted"
                 PROVE  \E r \in artifact' : /\ r.item = j /\ r.user \in live'
                                             /\ Own(j, r.under) \in object'
    BY DEF NoDocumentLost, Own
  <2>2. CASE j = i
    <3>1. new \in artifact' /\ home \in live /\ object' = object
      BY <1>1, <1>2, <2>1, <2>2
    <3>2. Own(i, home) \in object
      BY <1>1 DEF Placed
    <3> QED BY <1>1, <2>2, <3>1, <3>2
  <2>3. CASE j # i
    <3>1. j \notin Late \/ creating[j] = "inserted"
      BY <1>1, <1>2, <2>1, <2>3
    <3>2. PICK r \in artifact : r.item = j /\ r.user \in live /\ Own(j, r.under) \in object
      BY <3>1 DEF NoDocumentLost, Own
    <3>3. r \in artifact' /\ Own(j, r.under) \in object'
      BY <1>1, <2>3, <3>2 DEF Own
    <3> QED BY <1>1, <3>2, <3>3
  <2> QED BY <2>2, <2>3
<1>12. RefusedKeepsAccount'
  <2>1. \A r \in artifact' : r \in artifact \/ r = new
    BY <1>1
  <2> QED BY <1>1, <1>9, <2>1, UnlinkedStay
<1> QED BY <1>4, <1>5, <1>7, <1>8, <1>10, <1>11, <1>12


\* A step of one delivery: the others follow.
Moves(x, p, w) ==
  /\ place' = [place EXCEPT ![x] = p] /\ p \in LinkPlace
  /\ work' = [work EXCEPT ![x] = w] /\ w \in Work
  /\ mishaps' \in Nat

LEMMA DeliveryMoves ==
  ASSUME LinkInv, NEW x \in Attempt, NEW p, NEW w, Moves(x, p, w)
  PROVE  /\ place' \in [Attempt -> LinkPlace] /\ work' \in [Attempt -> Work]
         /\ place'[x] = p /\ work'[x] = w
         /\ FilesMove /\ Sourced(x)' /\ Handles(x)' /\ Thorough(x)' => Deliveries'
<1>1. place \in [Attempt -> LinkPlace] /\ work \in [Attempt -> Work]
  BY DEF LinkInv, LinkTypeOK
<1>2. \A y \in Attempt \ {x} : place'[y] = place[y] /\ work'[y] = work[y]
  BY <1>1 DEF Moves
<1>3. place' \in [Attempt -> LinkPlace] /\ work' \in [Attempt -> Work]
  BY <1>1 DEF Moves
<1>4. place'[x] = p /\ work'[x] = w
  BY <1>1 DEF Moves
<1>5. ASSUME FilesMove, Sourced(x)', Handles(x)', Thorough(x)' PROVE Deliveries'
  BY <1>2, <1>5, DeliveryFollows DEF Deliveries
<1> QED BY <1>3, <1>4, <1>5

\* One that reads, decides or dies leaves the tables and the files alone.
LEMMA QuietStep ==
  ASSUME LinkInv, NEW x \in Attempt, NEW p, NEW w, Moves(x, p, w),
         UNCHANGED <<live, owner, code, usedBy, wrong, artifact, object, creating, young>>,
         Sourced(x)', Handles(x)', Thorough(x)'
  PROVE  LinkInv'
<1> USE DEF LinkInv
<1>1. LinkTypeOK'
  BY DeliveryMoves DEF LinkTypeOK, Moves
<1>2. Identities' /\ OneRow' /\ Placed'
  BY DEF Identities, OneRow, Placed, NoRowToCome
<1>3. FilesMove
  BY DEF FilesMove, LateSettled
<1>4. Deliveries'
  BY <1>3, DeliveryMoves
<1>5. NoDocumentLost' /\ RefusedKeepsAccount'
  BY DEF NoDocumentLost, RefusedKeepsAccount
<1> QED BY <1>1, <1>2, <1>4, <1>5

\* A delivery that has ended is bound to nothing but to what it has listed.
LEMMA EndsWell ==
  ASSUME LinkInv, NEW x \in Attempt, NEW p \in {"retired", "unfinished", "refused", "died"},
         place'[x] = p, work'[x] = work[x], FilesMove
  PROVE  Sourced(x)' /\ Handles(x)' /\ Thorough(x)'
<1>1. Handles(x) /\ Thorough(x)
  BY DEF LinkInv, Deliveries
<1>2. Sourced(x)'
  BY DEF Sourced, Working, InHand
<1>3. Handles(x)'
  <2>1. work[x].todo \subseteq Item
    BY DEF LinkInv, LinkTypeOK, Work
  <2> QED BY <1>1, <2>1 DEF Handles, InHand, FilesMove
<1>4. Thorough(x)'
  BY <1>1 DEF Thorough, Working, InHand, FilesMove
<1> QED BY <1>2, <1>3, <1>4

LEMMA ResolveKeeps ==
  ASSUME LinkInv, NEW x \in Attempt, Resolve(x) PROVE LinkInv'
<1> USE LinkAssumption DEF LinkInv
<1>1. PICK s \in Chat :
        /\ owner[s] # Nobody
        /\ work' = [work EXCEPT ![x].chat = s,
                                ![x].src = IF owner[s] = Web THEN Nobody ELSE owner[s],
                                ![x].calm = OthersIdle(x) /\ LateSettled]
  BY DEF Resolve
<1> DEFINE w == [work[x] EXCEPT !.chat = s, !.src = IF owner[s] = Web THEN Nobody ELSE owner[s],
                                !.calm = OthersIdle(x) /\ LateSettled]
<1>2. work \in [Attempt -> Work] /\ work[x] \in Work
  BY DEF LinkTypeOK
<1>3. owner[s] \in {s, Web}
  BY <1>1 DEF Identities
<1>4. /\ w \in Work /\ w.pass = work[x].pass /\ w.todo = work[x].todo
      /\ w.chat = s /\ w.src \in {s, Nobody} /\ (w.calm => LateSettled)
  BY <1>2, <1>3 DEF Work
<1>5. Moves(x, "resolved", w)
  BY <1>1, <1>2, <1>4 DEF Moves, Resolve, Move, LinkPlace, LinkTypeOK
<1>6. place'[x] = "resolved" /\ work'[x] = w
  BY <1>5, DeliveryMoves
<1>7. UNCHANGED <<live, owner, code, usedBy, wrong, artifact, object, creating, young>>
  BY DEF Resolve, linkTables, linkFiles
<1>8. Sourced(x)' /\ Handles(x)' /\ Thorough(x)'
  <2>1. work[x].pass = 0 /\ work[x].todo = {}
    BY DEF Resolve, Deliveries, Sourced
  <2> HIDE DEF w
  <2>2. Sourced(x)' /\ Handles(x)'
    BY <1>4, <1>6, <2>1 DEF Sourced, Handles, InHand, Working
  <2>3. LateSettled => LateSettled'
    BY <1>7 DEF LateSettled
  <2>4. Thorough(x)'
    BY <1>4, <1>6, <2>1, <2>3 DEF Thorough, InHand, Working
  <2> QED BY <2>2, <2>4
<1> HIDE DEF w
<1> QED BY <1>5, <1>7, <1>8, QuietStep


\* merge_user_data gives the rows of a linked chat to the web account.
LEMMA MergeKeepsRows ==
  ASSUME LinkInv, NEW s \in Chat, artifact' = Merged(s),
         UNCHANGED <<live, object, creating>>
  PROVE  /\ artifact' \subseteq ArtifactRow
         /\ \A r \in artifact' : \E q \in artifact :
              /\ q.item = r.item /\ r.under = q.under /\ r.user \in {q.user, Web}
              /\ r = q \/ HomeOf[r.item] = s
         /\ \A r \in artifact' : r.user # s
         /\ OneRow' /\ NoDocumentLost'
<1> USE LinkAssumption DEF LinkInv
<1> DEFINE to(r) == [r EXCEPT !.user = IF @ = s THEN Web ELSE @]
<1>1. artifact \subseteq ArtifactRow /\ artifact' = {to(r) : r \in artifact}
  BY DEF LinkTypeOK, Merged
<1>2. \A r \in artifact : /\ to(r) \in ArtifactRow /\ to(r).item = r.item /\ to(r).under = r.under
                          /\ to(r).user = (IF r.user = s THEN Web ELSE r.user)
                          /\ r.user # s => to(r) = r
                          /\ s = Web \/ to(r).user # s
  BY <1>1 DEF ArtifactRow, Account
<1> HIDE DEF to
<1>3. s # Web /\ \A r \in artifact : {r.user, r.under} \subseteq {HomeOf[r.item], Web} /\ NoRowToCome(r.item)
  BY DEF OneRow
<1>4. OneRow'
  <2>1. \A r \in artifact' : {r.user, r.under} \subseteq {HomeOf[r.item], Web} /\ NoRowToCome(r.item)'
    BY <1>1, <1>2, <1>3 DEF NoRowToCome
  <2>2. \A r, q \in artifact' : r.item = q.item => r = q
    BY <1>1, <1>2 DEF OneRow
  <2> QED BY <2>1, <2>2 DEF OneRow
<1>5. NoDocumentLost'
  <2>1. SUFFICES ASSUME NEW j \in Item, j \notin Late \/ creating[j] = "inserted"
                 PROVE  \E r \in artifact' : /\ r.item = j /\ r.user \in live
                                             /\ Own(j, r.under) \in object
    BY DEF NoDocumentLost, Own
  <2>2. PICK r \in artifact : r.item = j /\ r.user \in live /\ Own(j, r.under) \in object
    BY <2>1 DEF NoDocumentLost, Own
  <2>3. to(r) \in artifact'
    BY <1>1
  <2> QED BY <1>2, <2>2, <2>3 DEF Identities
<1>6. \A r \in artifact' : \E q \in artifact :
        /\ q.item = r.item /\ r.under = q.under /\ r.user \in {q.user, Web}
        /\ r = q \/ HomeOf[r.item] = s
  <2>1. SUFFICES ASSUME NEW q \in artifact
                 PROVE  /\ q.item = to(q).item /\ to(q).under = q.under /\ to(q).user \in {q.user, Web}
                        /\ to(q) = q \/ HomeOf[to(q).item] = s
    BY <1>1
  <2> QED BY <1>2, <1>3
<1> QED BY <1>1, <1>2, <1>3, <1>4, <1>5, <1>6

\* A delivery enters its work, with nothing listed.
LEMMA BeginsToMerge ==
  ASSUME LinkInv, NEW x \in Attempt, place[x] = "resolved", place'[x] = "merging",
         NEW w, work'[x] = w, w.todo = {}, w.pass = 0, w.src \in Chat, w.chat = w.src, w.calm = work[x].calm,
         Linked(w.src)', FilesMove
  PROVE  Sourced(x)' /\ Handles(x)' /\ Thorough(x)'
<1>1. Thorough(x)
  BY DEF LinkInv, Deliveries
<1> QED BY <1>1 DEF Sourced, Handles, Thorough, InHand, Working, MaxLinkPasses, FilesMove

LEMMA ConsumeKeeps ==
  ASSUME LinkInv, NEW x \in Attempt, Consume(x) PROVE LinkInv'
<1> USE LinkAssumption DEF LinkInv
<1> DEFINE s == work[x].chat
<1>1. /\ work \in [Attempt -> Work] /\ work[x] \in Work /\ place[x] = "resolved"
      /\ mishaps \in Nat /\ place \in [Attempt -> LinkPlace]
      /\ UNCHANGED <<live, object, creating, young, mishaps>>
  BY DEF LinkTypeOK, Consume
<1>2. /\ work[x].pass = 0 /\ work[x].todo = {}
      /\ s \in Chat /\ work[x].src \in {s, Nobody}
  BY <1>1 DEF Deliveries, Sourced
<1>3. CASE Refuse(x, s)
  <2>1. Moves(x, "refused", work[x])
    BY <1>1, <1>3 DEF Moves, Refuse, Move, LinkPlace
  <2>2. /\ UNCHANGED <<owner, usedBy, artifact, live, object, creating, young>>
        /\ wrong' \in [Chat -> 0 .. MaxFailed] /\ code' \in [Code -> CodeState]
        /\ \A k \in Code : code[k] = "consumed" => code'[k] = "consumed"
    <3>1. CASE UNCHANGED <<code, wrong>>
      BY <1>1, <1>3, <3>1 DEF Refuse, LinkTypeOK
    <3>2. CASE wrong[s] # MaxFailed /\ \E k \in Code : ConsumeUnusable(x, k) \/ ConsumePending(x, k)
      <4>1. \/ UNCHANGED code
            \/ \E k \in Code : code' = [code EXCEPT ![k] = "consumed"]
        BY <3>2 DEF ConsumeUnusable, ConsumePending
      <4>2. wrong' = wrong \/ wrong' = [wrong EXCEPT ![s] = @ + 1]
        BY <3>2 DEF ConsumeUnusable, ConsumePending
      <4>3. wrong' \in [Chat -> 0 .. MaxFailed]
        BY <1>2, <3>2, <4>2 DEF LinkTypeOK
      <4> QED BY <1>1, <1>3, <4>1, <4>3 DEF Refuse, LinkTypeOK, CodeState
    <3> QED BY <3>1, <3>2 DEF Consume
  <2>3. FilesMove
    BY <2>2 DEF FilesMove, LateSettled
  <2>4. place'[x] = "refused" /\ work'[x] = work[x]
    BY <2>1, DeliveryMoves
  <2>5. Deliveries'
    BY <2>1, <2>3, <2>4, EndsWell, DeliveryMoves
  <2>6. LinkTypeOK'
    BY <2>1, <2>2, DeliveryMoves DEF LinkTypeOK, Moves
  <2>7. Identities' /\ OneRow' /\ Placed'
    BY <2>2 DEF Identities, OneRow, Placed, NoRowToCome
  <2>8. NoDocumentLost' /\ RefusedKeepsAccount'
    BY <2>2 DEF NoDocumentLost, RefusedKeepsAccount
  <2> QED BY <2>5, <2>6, <2>7, <2>8
<1>4. ASSUME NEW k \in Code, code[k] = "consumed", usedBy[k] = s, UNCHANGED <<code, owner, usedBy, artifact, wrong>>,
             Move(x, "merging"), work' = [work EXCEPT ![x].src = usedBy[k]]
      PROVE  LinkInv'
  <2> DEFINE w == [work[x] EXCEPT !.src = s]
  <2>1. w \in Work /\ w.todo = {} /\ w.pass = 0 /\ w.src = s /\ w.chat = s /\ w.calm = work[x].calm
    BY <1>1, <1>2 DEF Work
  <2>2. Moves(x, "merging", w)
    BY <1>1, <1>4, <2>1 DEF Moves, Move, LinkPlace
  <2> HIDE DEF w
  <2>3. place'[x] = "merging" /\ work'[x] = w
    BY <2>2, DeliveryMoves
  <2>4. FilesMove /\ Linked(s)'
    BY <1>1, <1>4 DEF FilesMove, LateSettled, Linked
  <2>5. Sourced(x)' /\ Handles(x)' /\ Thorough(x)'
    BY <1>1, <1>2, <2>1, <2>3, <2>4, BeginsToMerge
  <2> QED BY <1>1, <1>4, <2>2, <2>5, QuietStep
<1>5. ASSUME NEW k \in Code, code[k] = "pending", code' = [code EXCEPT ![k] = "consumed"], UNCHANGED <<wrong, work>>,
             owner[s] # Web, work[x].src = s,
             usedBy' = [usedBy EXCEPT ![k] = s], owner' = [owner EXCEPT ![s] = Web],
             artifact' = Merged(s), Move(x, "merging")
      PROVE  LinkInv'
  <2>1. Moves(x, "merging", work[x])
    BY <1>1, <1>5 DEF Moves, Move, LinkPlace
  <2>2. place'[x] = "merging" /\ work'[x] = work[x]
    BY <2>1, DeliveryMoves
  <2>3. usedBy \in [Code -> Chat \cup {Nobody}] /\ code \in [Code -> CodeState] /\ owner \in [Chat -> Account \cup {Nobody}]
    BY DEF LinkTypeOK
  <2>4. usedBy[k] = Nobody
    BY <1>5 DEF Identities
  <2>5. /\ artifact' \subseteq ArtifactRow
        /\ \A r \in artifact' : \E q \in artifact :
             /\ q.item = r.item /\ r.under = q.under /\ r.user \in {q.user, Web}
             /\ r = q \/ HomeOf[r.item] = s
        /\ OneRow' /\ NoDocumentLost'
    BY <1>1, <1>2, <1>5, MergeKeepsRows
  <2>6. FilesMove
    <3>1. \A j \in Code : usedBy[j] # Nobody => usedBy'[j] = usedBy[j]
      BY <1>5, <2>3, <2>4
    <3>2. LateSettled => LateSettled'
      BY <1>1 DEF LateSettled
    <3> QED BY <1>1, <2>5, <3>1, <3>2 DEF FilesMove
  <2>7. Linked(s)'
    BY <1>5, <2>3 DEF Linked
  <2>8. Deliveries'
    BY <1>1, <1>2, <1>5, <2>1, <2>2, <2>6, <2>7, BeginsToMerge, DeliveryMoves
  <2>9. LinkTypeOK'
    <3>1. /\ usedBy' \in [Code -> Chat \cup {Nobody}] /\ code' \in [Code -> CodeState]
          /\ owner' \in [Chat -> Account \cup {Nobody}]
      BY <1>2, <1>5, <2>3 DEF CodeState, Account
    <3> QED BY <1>1, <1>5, <2>1, <2>5, <3>1, DeliveryMoves DEF LinkTypeOK, Moves
  <2>10. Identities'
    BY <1>1, <1>2, <1>5, <2>3 DEF Identities
  <2>11. Placed'
    BY <1>1 DEF Placed
  <2>12. RefusedKeepsAccount'
    BY <1>1, <1>5, <2>3, <2>5, <2>6, <2>7, UnlinkedStay
  <2> QED BY <2>5, <2>8, <2>9, <2>10, <2>11, <2>12
<1>6. CASE owner[s] # (IF work[x].src = Nobody THEN Web ELSE work[x].src) \/ wrong[s] = MaxFailed
  BY <1>3, <1>6 DEF Consume
<1>7. CASE owner[s] = (IF work[x].src = Nobody THEN Web ELSE work[x].src) /\ wrong[s] # MaxFailed
  <2>1. PICK k \in Code : ConsumeUnusable(x, k) \/ ConsumePending(x, k)
    BY <1>7 DEF Consume
  <2>2. CASE ConsumeUnusable(x, k)
    BY <1>3, <1>4, <2>2 DEF ConsumeUnusable
  <2>3. CASE ConsumePending(x, k)
    <3>1. CASE \E t \in Chat : owner[t] = Web
      BY <1>3, <2>3, <3>1 DEF ConsumePending
    <3>2. CASE ~\E t \in Chat : owner[t] = Web
      <4>1. owner[s] # Web /\ work[x].src = s
        BY <1>2, <1>7, <3>2
      <4> QED BY <1>5, <2>3, <3>2, <4>1 DEF ConsumePending
    <3> QED BY <3>1, <3>2
  <2> QED BY <2>1, <2>2, <2>3
<1> QED BY <1>6, <1>7


\* What a delivery at work has to go on.
LEMMA AtWork ==
  ASSUME LinkInv, NEW x \in Attempt
  PROVE  /\ work \in [Attempt -> Work] /\ work[x] \in Work /\ place \in [Attempt -> LinkPlace]
         /\ mishaps \in Nat /\ work[x].todo \subseteq Item
         /\ Sourced(x) /\ Handles(x) /\ Thorough(x)
         /\ place[x] \in Working => work[x].src \in Chat /\ work[x].src # Web
BY LinkAssumption DEF LinkInv, LinkTypeOK, Deliveries, Work, Sourced

LEMMA DieKeeps ==
  ASSUME LinkInv, NEW x \in Attempt, Die(x) PROVE LinkInv'
<1>1. Moves(x, "died", work[x])
  BY AtWork DEF Moves, Die, Move, LinkPlace
<1>2. UNCHANGED <<live, owner, code, usedBy, wrong, artifact, object, creating, young>>
  BY DEF Die, linkTables, linkFiles
<1>3. FilesMove
  BY <1>2, AtWork DEF FilesMove, LateSettled, LinkInv, LinkTypeOK
<1>4. place'[x] = "died" /\ work'[x] = work[x]
  BY <1>1, DeliveryMoves
<1> QED BY <1>1, <1>2, <1>3, <1>4, EndsWell, QuietStep

LEMMA FinishMergeKeeps ==
  ASSUME LinkInv, NEW x \in Attempt, FinishMerge(x) PROVE LinkInv'
<1> USE DEF LinkInv
<1> DEFINE s == work[x].src
<1>1. /\ work \in [Attempt -> Work] /\ work[x] \in Work /\ mishaps \in Nat
      /\ place \in [Attempt -> LinkPlace]
      /\ place[x] = "merging" /\ s \in Chat /\ s # Web /\ Sourced(x) /\ Handles(x) /\ Thorough(x)
  BY AtWork DEF FinishMerge, Working
<1>2. UNCHANGED <<live, owner, code, usedBy, wrong, object, creating, young, mishaps>>
  BY DEF FinishMerge, linkTables
<1>3. CASE ~(s \in live /\ owner[work[x].chat] = Web)
  <2>1. PICK p \in {"retired", "unfinished"} : Move(x, p) /\ UNCHANGED <<artifact, work>>
    BY <1>3 DEF FinishMerge
  <2>2. Moves(x, p, work[x])
    BY <1>1, <1>2, <2>1 DEF Moves, Move, LinkPlace
  <2>3. FilesMove
    BY <1>2, <2>1 DEF FilesMove, LateSettled
  <2>4. place'[x] = p /\ work'[x] = work[x]
    BY <2>2, DeliveryMoves
  <2> QED BY <1>2, <2>1, <2>2, <2>3, <2>4, EndsWell, QuietStep
<1>4. CASE s \in live /\ owner[work[x].chat] = Web
  <2> DEFINE w == [work[x] EXCEPT !.pass = @ + 1]
  <2>1. artifact' = Merged(s) /\ work' = [work EXCEPT ![x].pass = @ + 1] /\ Move(x, "listing")
    BY <1>4 DEF FinishMerge
  <2>2. /\ w \in Work /\ w.todo = work[x].todo /\ w.src = s /\ w.chat = work[x].chat
        /\ w.calm = work[x].calm
    BY <1>1 DEF Work, Sourced, MaxLinkPasses
  <2>3. Moves(x, "listing", w)
    BY <1>1, <1>2, <2>1, <2>2 DEF Moves, Move, LinkPlace
  <2> HIDE DEF w
  <2>4. place'[x] = "listing" /\ work'[x] = w
    BY <2>3, DeliveryMoves
  <2>5. /\ artifact' \subseteq ArtifactRow
        /\ \A r \in artifact' : \E q \in artifact :
             /\ q.item = r.item /\ r.under = q.under /\ r.user \in {q.user, Web}
             /\ r = q \/ HomeOf[r.item] = s
        /\ \A r \in artifact' : r.user # s
        /\ OneRow' /\ NoDocumentLost'
    BY <1>1, <1>2, <2>1, MergeKeepsRows
  <2>6. FilesMove
    BY <1>2, <2>5 DEF FilesMove, LateSettled
  <2>7. Sourced(x)' /\ Handles(x)' /\ Thorough(x)'
    <3>1. Linked(s)'
      BY <1>1, <1>2, <2>2, <2>4 DEF Sourced, Working, InHand, Linked
    <3>2. Sourced(x)'
      BY <1>1, <2>2, <2>4, <3>1 DEF Sourced, Working, InHand
    <3>3. Handles(x)'
      BY <1>1, <1>2, <2>2, <2>4 DEF Handles, InHand
    <3>4. Thorough(x)'
      BY <1>1, <2>2, <2>4, <2>5, <2>6 DEF Thorough, Working, InHand, FilesMove
    <3> QED BY <3>2, <3>3, <3>4
  <2>8. Deliveries'
    BY <2>3, <2>6, <2>7, DeliveryMoves
  <2>9. LinkTypeOK'
    BY <1>2, <2>3, <2>5, DeliveryMoves DEF LinkTypeOK, Moves
  <2>10. Identities' /\ Placed'
    BY <1>2 DEF Identities, Placed
  <2>11. RefusedKeepsAccount'
    <3>1. Linked(s)'
      BY <1>1, <1>2, <2>2, <2>4 DEF Sourced, Working, InHand, Linked
    <3> QED BY <1>2, <2>2, <2>4, <2>5, <2>6, <3>1, UnlinkedStay
  <2> QED BY <2>5, <2>8, <2>9, <2>10, <2>11
<1> QED BY <1>3, <1>4

LEMMA ListKeeps ==
  ASSUME LinkInv, NEW x \in Attempt, ListObjects(x) PROVE LinkInv'
<1> USE DEF LinkInv
<1> DEFINE s == work[x].src
           w == [work[x] EXCEPT !.todo = {o.item : o \in Under(s)}]
<1>1. /\ work \in [Attempt -> Work] /\ work[x] \in Work /\ mishaps \in Nat
      /\ place \in [Attempt -> LinkPlace]
      /\ place[x] = "listing" /\ s \in Chat /\ s # Web /\ Sourced(x) /\ Handles(x) /\ Thorough(x)
  BY AtWork DEF ListObjects, Working
<1>2. UNCHANGED <<live, owner, code, usedBy, wrong, artifact, object, creating, young, mishaps>>
  BY DEF ListObjects, linkTables, linkFiles
<1>3. /\ w \in Work /\ w.src = s /\ w.chat = work[x].chat /\ w.calm = work[x].calm
      /\ w.todo = {o.item : o \in Under(s)}
  <2>1. {o.item : o \in Under(s)} \subseteq Item
    BY DEF Under, LinkTypeOK, Object
  <2> QED BY <1>1, <2>1 DEF Work
<1>4. Moves(x, "moving", w)
  BY <1>1, <1>2, <1>3 DEF Moves, ListObjects, Move, LinkPlace
<1> HIDE DEF w
<1>5. place'[x] = "moving" /\ work'[x] = w
  BY <1>4, DeliveryMoves
<1>6. Sourced(x)'
  BY <1>1, <1>2, <1>3, <1>5 DEF Sourced, Working, InHand, Linked
<1>7. Handles(x)'
  <2>1. \A i \in w.todo : HomeOf[i] = s /\ (i \in Late => creating[i] # "before")
    BY <1>1, <1>3 DEF Under, Placed
  <2> QED BY <1>2, <1>3, <1>5, <2>1 DEF Handles, InHand
<1>8. Thorough(x)'
  BY <1>1, <1>2, <1>3, <1>5 DEF Thorough, Working, InHand, LateSettled, Under
<1> QED BY <1>2, <1>4, <1>6, <1>7, <1>8, QuietStep


\* An object is taken up only when no row of it is still to come.
LEMMA PickKeeps ==
  ASSUME LinkInv, NEW x \in Attempt, PickObject(x) PROVE LinkInv'
<1> USE DEF LinkInv
<1> DEFINE s == work[x].src
<1>1. /\ work \in [Attempt -> Work] /\ work[x] \in Work /\ mishaps \in Nat
      /\ place \in [Attempt -> LinkPlace] /\ work[x].todo \subseteq Item
      /\ place[x] = "moving" /\ s \in Chat /\ s # Web /\ Sourced(x) /\ Handles(x) /\ Thorough(x)
  BY AtWork DEF PickObject, Working
<1>2. UNCHANGED <<live, owner, code, usedBy, wrong, artifact, object, creating, young, mishaps>>
  BY DEF PickObject, linkTables, linkFiles
<1> DEFINE leftover(i) == RowsNaming(i, Web) # {} /\ [item |-> i, under |-> Web, dir |-> "own"] \in object
           onward(i) == RowsNaming(i, s) # {} \/ leftover(i)
<1>3. PICK i \in work[x].todo :
        /\ work' = [work EXCEPT ![x].todo = @ \ {i}, ![x].item = i,
                                ![x].dir = IF onward(i) THEN "own" ELSE "orphans"]
        /\ Move(x, IF onward(i) \/ i \notin young THEN "copying" ELSE "moving")
  BY DEF PickObject
<1> DEFINE w == [work[x] EXCEPT !.todo = @ \ {i}, !.item = i,
                                !.dir = IF onward(i) THEN "own" ELSE "orphans"]
           p == IF onward(i) \/ i \notin young THEN "copying" ELSE "moving"
<1>4. /\ w \in Work /\ w.src = s /\ w.chat = work[x].chat /\ w.calm = work[x].calm
      /\ w.todo = work[x].todo \ {i} /\ w.item = i
      /\ w.dir = (IF onward(i) THEN "own" ELSE "orphans")
  BY <1>1 DEF Work
<1>5. Moves(x, p, w)
  BY <1>1, <1>2, <1>3, <1>4 DEF Moves, Move, LinkPlace
<1>6. /\ i \in Item /\ HomeOf[i] = s /\ (i \in Late => creating[i] # "before")
      /\ p \in {"moving", "copying"} /\ (p = "copying" => onward(i) \/ i \notin young)
      /\ (p = "moving" => i \in young) /\ (~onward(i) => RowsNaming(i, s) = {})
  BY <1>1 DEF Handles
<1>7. p = "copying" => NoRowToCome(i)
  <2>1. SUFFICES ASSUME i \in Late, creating[i] = "uploaded"
                 PROVE  ~onward(i) /\ i \in young
    BY <1>6 DEF NoRowToCome
  <2>2. \A r \in artifact : r.item # i
    BY <2>1 DEF OneRow, NoRowToCome
  <2> QED BY <2>1, <2>2 DEF Placed, RowsNaming
<1>8. w.dir = "orphans" => RowsNaming(i, s) = {}
  BY <1>4, <1>6
<1> HIDE DEF w, p, onward
<1>9. place'[x] = p /\ work'[x] = w
  BY <1>5, DeliveryMoves
<1>10. Sourced(x)'
  BY <1>1, <1>2, <1>4, <1>6, <1>9 DEF Sourced, Working, InHand, Linked
<1>11. Handles(x)'
  <2>1. \A j \in w.todo : HomeOf[j] = s /\ (j \in Late => creating[j] # "before")
    BY <1>1, <1>4 DEF Handles
  <2>2. p \in InHand => p = "copying"
    BY <1>6 DEF InHand
  <2>3. NoRowToCome(i)' <=> NoRowToCome(i)
    BY <1>2 DEF NoRowToCome
  <2> QED BY <1>2, <1>4, <1>6, <1>7, <1>8, <1>9, <2>1, <2>2, <2>3 DEF Handles, RowsNaming
<1>12. Thorough(x)'
  <2>1. SUFFICES ASSUME work[x].calm PROVE Thorough(x)'
    BY <1>4, <1>9 DEF Thorough
  <2>2. LateSettled /\ LateSettled' /\ p = "copying"
    BY <1>1, <1>2, <1>6, <2>1 DEF Thorough, LateSettled
  <2>3. {o.item : o \in Under(s)} \subseteq work[x].todo /\ \A r \in artifact : r.user # s
    BY <1>1, <2>1 DEF Thorough, Working
  <2>4. \A o \in object' : o.under = s => o.item \in w.todo \cup {w.item}
    BY <1>2, <1>4, <2>3 DEF Under
  <2> QED BY <1>2, <1>4, <1>9, <2>2, <2>3, <2>4 DEF Thorough, Working, InHand, Under
<1> QED BY <1>2, <1>5, <1>10, <1>11, <1>12, QuietStep

LEMMA CopyKeeps ==
  ASSUME LinkInv, NEW x \in Attempt, CopyObject(x) PROVE LinkInv'
<1> USE DEF LinkInv
<1> DEFINE s == work[x].src
<1>1. /\ work \in [Attempt -> Work] /\ work[x] \in Work /\ mishaps \in Nat
      /\ place \in [Attempt -> LinkPlace] /\ work[x].todo \subseteq Item
      /\ place[x] = "copying" /\ s \in Chat /\ s # Web /\ Sourced(x) /\ Handles(x) /\ Thorough(x)
  BY AtWork DEF CopyObject, Working, InHand
<1> DEFINE i == work[x].item
           copy == [item |-> i, under |-> Web, dir |-> work[x].dir]
<1>2. UNCHANGED <<live, owner, code, usedBy, wrong, artifact, creating, young, mishaps, work>>
  BY DEF CopyObject, linkTables
<1>3. /\ i \in Item /\ HomeOf[i] = s /\ NoRowToCome(i) /\ work[x].dir \in {"own", "orphans"}
      /\ work[x].dir = "orphans" => RowsNaming(i, s) = {}
  BY <1>1 DEF Handles, InHand, Work
<1>4. PICK p \in {"repointing", "moving"} :
        /\ Move(x, p)
        /\ p = "repointing" => object' = object \cup {copy}
        /\ p = "moving" => object' = object /\ Own(i, s) \notin object
  BY DEF CopyObject, Own
<1>5. Moves(x, p, work[x])
  BY <1>1, <1>2, <1>4 DEF Moves, Move, LinkPlace
<1>6. place'[x] = p /\ work'[x] = work[x]
  BY <1>5, DeliveryMoves
<1>7. /\ object \subseteq object' /\ object' \subseteq object \cup {copy}
      /\ p = "repointing" => copy \in object'
  BY <1>4
<1>8. copy \in Object /\ copy.under = Web /\ copy.item = i
  BY <1>3 DEF Object, Account
<1>9. LinkTypeOK'
  BY <1>2, <1>5, <1>7, <1>8, DeliveryMoves DEF LinkTypeOK, Moves
<1>10. Identities' /\ OneRow'
  BY <1>2 DEF Identities, OneRow, NoRowToCome
<1>11. Placed'
  <2>1. \A o \in object' : o \in object \/ o = copy
    BY <1>7
  <2>2. i \in Late => creating[i] # "before"
    BY <1>3 DEF NoRowToCome
  <2> QED BY <1>2, <1>7, <1>8, <2>1, <2>2 DEF Placed
<1>12. FilesMove
  <2>1. \A r \in artifact' : r \in artifact
    BY <1>2
  <2> QED BY <1>2, <1>7, <1>8, <2>1 DEF FilesMove, LateSettled
<1>13. Sourced(x)'
  BY <1>1, <1>2, <1>6 DEF Sourced, Working, InHand, Linked
<1>14. Handles(x)'
  <2>1. \A j \in work[x].todo : HomeOf[j] = s /\ (j \in Late => creating[j] # "before")
    BY <1>1 DEF Handles
  <2>2. p = "repointing" /\ work[x].dir = "own" => Own(i, Web) \in object'
    BY <1>7 DEF Own
  <2>3. NoRowToCome(i)' /\ p \notin {"rechecking", "removing"} /\ (p \in InHand => p = "repointing")
    BY <1>2, <1>3 DEF NoRowToCome, InHand
  <2> QED BY <1>2, <1>3, <1>6, <2>1, <2>2, <2>3 DEF Handles, RowsNaming
<1>15. Thorough(x)'
  <2>1. SUFFICES ASSUME work[x].calm PROVE Thorough(x)'
    BY <1>6 DEF Thorough
  <2>2. LateSettled' /\ \A r \in artifact' : r.user # s
    BY <1>1, <1>2, <2>1 DEF Thorough, LateSettled, Working, InHand
  <2>3. {o.item : o \in Under(s)} \subseteq work[x].todo \cup {i}
    BY <1>1, <2>1 DEF Thorough, InHand
  <2>4. Under(s)' = Under(s)
    BY <1>1, <1>2, <1>7, <1>8 DEF Under
  <2>5. p = "moving" => \A o \in Under(s) : o.item # i
    <3>1. \A o \in Under(s) : o \in Object /\ o.dir = "own" /\ o.under = s
      BY <1>1 DEF Under, Placed, LinkTypeOK, Object
    <3>2. \A o \in Under(s) : o = Own(o.item, s)
      BY <3>1 DEF Object, Own
    <3> QED BY <1>4, <3>2 DEF Under
  <2> QED BY <1>1, <1>6, <2>2, <2>3, <2>4, <2>5 DEF Thorough, InHand
<1>16. Deliveries'
  BY <1>5, <1>12, <1>13, <1>14, <1>15, DeliveryMoves
<1>17. NoDocumentLost' /\ RefusedKeepsAccount'
  BY <1>2, <1>7, DocumentsStay DEF RefusedKeepsAccount
<1> QED BY <1>9, <1>10, <1>11, <1>16, <1>17


\* Rows named anew: those in S go from the chat account a to the web account,
\* where their object is if they had one.
LEMMA RekeyKeepsRows ==
  ASSUME LinkInv, NEW a \in Chat, NEW S \in SUBSET artifact,
         \A r \in S : /\ r.under = a
                      /\ Own(r.item, a) \in object => Own(r.item, Web) \in object,
         artifact' = {IF r \in S THEN [r EXCEPT !.under = Web] ELSE r : r \in artifact},
         UNCHANGED <<live, object, creating>>
  PROVE  /\ artifact' \subseteq ArtifactRow
         /\ \A r \in artifact' : \E q \in artifact :
              /\ q.item = r.item /\ r.user = q.user /\ r.under \in {q.under, Web}
              /\ r = q \/ HomeOf[r.item] = a
              /\ q \in S => r.under = Web
              /\ q \notin S => r = q
         /\ OneRow' /\ NoDocumentLost'
<1> USE LinkAssumption DEF LinkInv
<1> DEFINE to(r) == IF r \in S THEN [r EXCEPT !.under = Web] ELSE r
<1>1. artifact \subseteq ArtifactRow /\ artifact' = {to(r) : r \in artifact}
  BY DEF LinkTypeOK
<1>2. \A r \in artifact : /\ to(r) \in ArtifactRow /\ to(r).item = r.item /\ to(r).user = r.user
                          /\ r \notin S => to(r) = r
                          /\ r \in S => to(r).under = Web
  BY <1>1 DEF ArtifactRow, Account
<1> HIDE DEF to
<1>3. a # Web /\ \A r \in artifact : {r.user, r.under} \subseteq {HomeOf[r.item], Web} /\ NoRowToCome(r.item)
  BY DEF OneRow
<1>4. OneRow'
  <2>1. \A r \in artifact' : {r.user, r.under} \subseteq {HomeOf[r.item], Web} /\ NoRowToCome(r.item)'
    BY <1>1, <1>2, <1>3 DEF NoRowToCome
  <2>2. \A r, q \in artifact' : r.item = q.item => r = q
    BY <1>1, <1>2 DEF OneRow
  <2> QED BY <2>1, <2>2 DEF OneRow
<1>5. NoDocumentLost'
  <2>1. SUFFICES ASSUME NEW j \in Item, j \notin Late \/ creating[j] = "inserted"
                 PROVE  \E r \in artifact' : /\ r.item = j /\ r.user \in live
                                             /\ Own(j, r.under) \in object
    BY DEF NoDocumentLost, Own
  <2>2. PICK r \in artifact : r.item = j /\ r.user \in live /\ Own(j, r.under) \in object
    BY <2>1 DEF NoDocumentLost, Own
  <2>3. to(r) \in artifact'
    BY <1>1
  <2> QED BY <1>2, <2>2, <2>3
<1>6. \A r \in artifact' : \E q \in artifact :
        /\ q.item = r.item /\ r.user = q.user /\ r.under \in {q.under, Web}
        /\ r = q \/ HomeOf[r.item] = a
        /\ q \in S => r.under = Web
        /\ q \notin S => r = q
  <2>1. SUFFICES ASSUME NEW q \in artifact
                 PROVE  /\ q.item = to(q).item /\ to(q).user = q.user /\ to(q).under \in {q.under, Web}
                        /\ to(q) = q \/ HomeOf[to(q).item] = a
                        /\ q \in S => to(q).under = Web
                        /\ q \notin S => to(q) = q
    BY <1>1
  <2> QED BY <1>2, <1>3
<1> QED BY <1>1, <1>2, <1>4, <1>5, <1>6

\* Repointing and rewriting: what rekeyed rows leave to prove.
LEMMA RekeyStep ==
  ASSUME LinkInv, NEW x \in Attempt, NEW a \in Chat, work[x].src = a, place[x] \in Working,
         NEW S \in SUBSET artifact,
         \A r \in S : /\ r.under = a
                      /\ Own(r.item, a) \in object => Own(r.item, Web) \in object,
         artifact' = {IF r \in S THEN [r EXCEPT !.under = Web] ELSE r : r \in artifact},
         UNCHANGED <<live, owner, code, usedBy, wrong, object, creating, young>>,
         NEW p, Moves(x, p, work[x]), p \in Working,
         Sourced(x)', Handles(x)', Thorough(x)'
  PROVE  LinkInv'
<1> USE DEF LinkInv
<1>1. /\ artifact' \subseteq ArtifactRow
      /\ \A r \in artifact' : \E q \in artifact :
           /\ q.item = r.item /\ r.user = q.user /\ r.under \in {q.under, Web}
           /\ r = q \/ HomeOf[r.item] = a
      /\ OneRow' /\ NoDocumentLost'
  BY RekeyKeepsRows
<1>2. FilesMove
  BY <1>1 DEF FilesMove, LateSettled
<1>3. Deliveries'
  BY <1>2, DeliveryMoves
<1>4. LinkTypeOK'
  BY <1>1, DeliveryMoves DEF LinkTypeOK, Moves
<1>5. Identities' /\ Placed'
  BY DEF Identities, Placed
<1>6. Linked(a)'
  <2>1. Linked(a)
    BY DEF Deliveries, Sourced
  <2> QED BY <2>1 DEF Linked
<1>7. RefusedKeepsAccount'
  BY <1>1, <1>2, <1>6, UnlinkedStay
<1> QED BY <1>1, <1>3, <1>4, <1>5, <1>7

LEMMA RepointKeeps ==
  ASSUME LinkInv, NEW x \in Attempt, RepointRows(x) PROVE LinkInv'
<1> USE DEF LinkInv
<1> DEFINE s == work[x].src
<1>1. /\ work \in [Attempt -> Work] /\ work[x] \in Work /\ mishaps \in Nat
      /\ place \in [Attempt -> LinkPlace] /\ work[x].todo \subseteq Item
      /\ place[x] = "repointing" /\ s \in Chat /\ s # Web /\ Sourced(x) /\ Handles(x) /\ Thorough(x)
  BY AtWork DEF RepointRows, Working, InHand
<1> DEFINE i == work[x].item
           S == IF work[x].dir = "orphans" THEN {} ELSE RowsNaming(i, s)
<1>2. UNCHANGED <<live, owner, code, usedBy, wrong, object, creating, young, mishaps, work>>
  BY DEF RepointRows, linkTables
<1>3. /\ i \in Item /\ HomeOf[i] = s /\ NoRowToCome(i) /\ work[x].dir \in {"own", "orphans"}
      /\ work[x].dir = "orphans" => RowsNaming(i, s) = {}
      /\ work[x].dir = "own" => Own(i, Web) \in object
  BY <1>1 DEF Handles, InHand, Work
<1>4. S \in SUBSET artifact /\ \A r \in S : r.item = i /\ r.under = s /\ Own(i, Web) \in object
  BY <1>3 DEF RowsNaming
<1>5. artifact' = {IF r \in S THEN [r EXCEPT !.under = Web] ELSE r : r \in artifact}
  <2>1. CASE work[x].dir = "orphans"
    BY <2>1 DEF RepointRows
  <2>2. CASE work[x].dir # "orphans"
    <3>1. \A r \in artifact : r \in ArtifactRow
      BY DEF LinkTypeOK
    <3> DEFINE f(r) == [r EXCEPT !.under = IF r.item = i /\ @ = s THEN Web ELSE @]
               g(r) == IF r \in S THEN [r EXCEPT !.under = Web] ELSE r
    <3>2. \A r \in artifact : f(r) = g(r)
      BY <2>2, <3>1 DEF RowsNaming, ArtifactRow
    <3>3. artifact' = {f(r) : r \in artifact}
      BY <2>2 DEF RepointRows
    <3> HIDE DEF f, g
    <3>4. artifact' = {g(r) : r \in artifact}
      BY <3>2, <3>3
    <3> QED BY <3>4 DEF g
  <2> QED BY <2>1, <2>2
<1>6. Moves(x, "rechecking", work[x])
  BY <1>1, <1>2 DEF Moves, RepointRows, Move, LinkPlace
<1>7. place'[x] = "rechecking" /\ work'[x] = work[x]
  BY <1>6, DeliveryMoves
<1>8. \A r \in artifact' : \E q \in artifact :
        /\ q.item = r.item /\ r.user = q.user
        /\ q \in S => r.under = Web
        /\ q \notin S => r = q
  <2>1. \A r \in S : r.under = s /\ (Own(r.item, s) \in object => Own(r.item, Web) \in object)
    BY <1>4
  <2> HIDE DEF S, s
  <2>2. \A r \in artifact' : \E q \in artifact :
          /\ q.item = r.item /\ r.user = q.user /\ r.under \in {q.under, Web}
          /\ r = q \/ HomeOf[r.item] = s
          /\ q \in S => r.under = Web
          /\ q \notin S => r = q
    BY <1>1, <1>2, <1>4, <1>5, <2>1, RekeyKeepsRows
  <2> QED BY <2>2
<1>9. Sourced(x)'
  BY <1>1, <1>2, <1>7 DEF Sourced, Working, InHand, Linked
<1>10. \A r \in artifact' : r.item # i \/ r.under # s
  BY <1>1, <1>3, <1>8 DEF RowsNaming
<1>11. Handles(x)'
  BY <1>1, <1>2, <1>3, <1>7, <1>10 DEF Handles, RowsNaming, NoRowToCome, InHand
<1>12. Thorough(x)'
  <2>1. SUFFICES ASSUME work[x].calm PROVE Thorough(x)'
    BY <1>7 DEF Thorough
  <2>2. LateSettled' /\ \A r \in artifact : r.user # s
    BY <1>1, <1>2, <2>1 DEF Thorough, LateSettled, Working, InHand
  <2>3. \A r \in artifact' : r.user # s
    BY <1>5, <2>2, <1>1 DEF LinkTypeOK, ArtifactRow
  <2> QED BY <1>1, <1>2, <1>7, <2>1, <2>2, <2>3 DEF Thorough, InHand, Working, Under
<1> HIDE DEF S
<1> QED BY <1>1, <1>2, <1>4, <1>5, <1>6, <1>9, <1>11, <1>12, RekeyStep DEF Working, InHand


\* Keys whose object is gone: a document that anybody could still read is not
\* among them.
LEMMA RewriteKeeps ==
  ASSUME LinkInv, NEW x \in Attempt, RewriteDangling(x) PROVE LinkInv'
<1> USE DEF LinkInv
<1> DEFINE s == work[x].src
<1>1. /\ work \in [Attempt -> Work] /\ work[x] \in Work /\ mishaps \in Nat
      /\ place \in [Attempt -> LinkPlace] /\ work[x].todo \subseteq Item
      /\ place[x] = "moving" /\ s \in Chat /\ s # Web /\ Sourced(x) /\ Handles(x) /\ Thorough(x)
  BY AtWork DEF RewriteDangling, Working
<1> DEFINE left == {o.item : o \in Under(s)}
           S == {r \in artifact : r.under = s /\ r.item \notin left}
<1>2. /\ UNCHANGED <<live, owner, code, usedBy, wrong, object, creating, young, mishaps, work>>
      /\ work[x].todo = {}
  BY DEF RewriteDangling, linkTables
<1>3. S \in SUBSET artifact /\ \A r \in S : r.under = s /\ Own(r.item, s) \notin object
  BY DEF Under, Own
<1>4. artifact' = {IF r \in S THEN [r EXCEPT !.under = Web] ELSE r : r \in artifact}
  <2>1. \A r \in artifact : r \in ArtifactRow
    BY DEF LinkTypeOK
  <2> DEFINE f(r) == [r EXCEPT !.under = IF @ = s /\ r.item \notin {o.item : o \in Under(s)} THEN Web ELSE @]
             g(r) == IF r \in S THEN [r EXCEPT !.under = Web] ELSE r
  <2> HIDE DEF left
  <2>2. \A r \in artifact : f(r) = g(r)
    BY <2>1 DEF ArtifactRow, left
  <2>3. artifact' = {f(r) : r \in artifact}
    BY DEF RewriteDangling
  <2> HIDE DEF f, g
  <2>4. artifact' = {g(r) : r \in artifact}
    BY <2>2, <2>3
  <2> QED BY <2>4 DEF g
<1>5. Moves(x, "counting", work[x])
  BY <1>1, <1>2 DEF Moves, RewriteDangling, Move, LinkPlace
<1>6. place'[x] = "counting" /\ work'[x] = work[x]
  BY <1>5, DeliveryMoves
<1>7. \A r \in artifact' : \E q \in artifact :
        /\ q.item = r.item /\ r.user = q.user
        /\ q \in S => r.under = Web
        /\ q \notin S => r = q
  <2>1. \A r \in S : r.under = s /\ (Own(r.item, s) \in object => Own(r.item, Web) \in object)
    BY <1>3
  <2> HIDE DEF S, s
  <2>2. \A r \in artifact' : \E q \in artifact :
          /\ q.item = r.item /\ r.user = q.user /\ r.under \in {q.under, Web}
          /\ r = q \/ HomeOf[r.item] = s
          /\ q \in S => r.under = Web
          /\ q \notin S => r = q
    BY <1>1, <1>2, <1>3, <1>4, <2>1, RekeyKeepsRows
  <2> QED BY <2>2
<1>8. Sourced(x)'
  BY <1>1, <1>2, <1>6 DEF Sourced, Working, InHand, Linked
<1>9. Handles(x)'
  BY <1>1, <1>2, <1>6 DEF Handles, InHand
<1>10. Thorough(x)'
  <2>1. SUFFICES ASSUME work[x].calm PROVE Thorough(x)'
    BY <1>6 DEF Thorough
  <2>2. LateSettled' /\ left = {} /\ \A r \in artifact : r.user # s
    BY <1>1, <1>2, <2>1 DEF Thorough, LateSettled, Working
  <2>3. \A r \in artifact' : r.user # s /\ r.under # s
    BY <1>1, <1>7, <2>2
  <2>4. Under(s)' = Under(s)
    BY <1>2 DEF Under
  <2> QED BY <1>6, <2>2, <2>3, <2>4 DEF Thorough, InHand, Working
<1> HIDE DEF S
<1> QED BY <1>1, <1>2, <1>3, <1>4, <1>5, <1>8, <1>9, <1>10, RekeyStep DEF Working

LEMMA RecheckKeeps ==
  ASSUME LinkInv, NEW x \in Attempt, RecheckRows(x) PROVE LinkInv'
<1> USE DEF LinkInv
<1> DEFINE s == work[x].src
<1>1. /\ work \in [Attempt -> Work] /\ work[x] \in Work /\ mishaps \in Nat
      /\ place \in [Attempt -> LinkPlace] /\ work[x].todo \subseteq Item
      /\ place[x] = "rechecking" /\ s \in Chat /\ s # Web /\ Sourced(x) /\ Handles(x) /\ Thorough(x)
  BY AtWork DEF RecheckRows, Working, InHand
<1>2. UNCHANGED <<live, owner, code, usedBy, wrong, artifact, creating, young, mishaps>>
  BY DEF RecheckRows, linkTables
<1>3. RowsNaming(work[x].item, s) = {}
  BY <1>1 DEF Handles, InHand
<1>4. Move(x, "removing") /\ UNCHANGED <<object, work>>
  BY <1>3 DEF RecheckRows
<1>5. Moves(x, "removing", work[x])
  BY <1>1, <1>2, <1>4 DEF Moves, Move, LinkPlace
<1>6. place'[x] = "removing" /\ work'[x] = work[x]
  BY <1>5, DeliveryMoves
<1>7. Sourced(x)'
  BY <1>1, <1>2, <1>6 DEF Sourced, Working, InHand, Linked
<1>8. Handles(x)'
  BY <1>1, <1>2, <1>4, <1>6 DEF Handles, InHand, RowsNaming, NoRowToCome
<1>9. Thorough(x)'
  BY <1>1, <1>2, <1>4, <1>6 DEF Thorough, Working, InHand, LateSettled, Under
<1> QED BY <1>2, <1>4, <1>5, <1>7, <1>8, <1>9, QuietStep

\* The original goes when no row names it, and none will.
LEMMA RemoveKeeps ==
  ASSUME LinkInv, NEW x \in Attempt, RemoveOriginal(x) PROVE LinkInv'
<1> USE DEF LinkInv
<1> DEFINE s == work[x].src
<1>1. /\ work \in [Attempt -> Work] /\ work[x] \in Work /\ mishaps \in Nat
      /\ place \in [Attempt -> LinkPlace] /\ work[x].todo \subseteq Item
      /\ place[x] = "removing" /\ s \in Chat /\ s # Web /\ Sourced(x) /\ Handles(x) /\ Thorough(x)
  BY AtWork DEF RemoveOriginal, Working, InHand
<1> DEFINE i == work[x].item
<1>2. /\ UNCHANGED <<live, owner, code, usedBy, wrong, artifact, creating, young, mishaps, work>>
      /\ object' = object \ {Own(i, s)}
  BY DEF RemoveOriginal, linkTables, Own
<1>3. i \in Item /\ HomeOf[i] = s /\ NoRowToCome(i) /\ RowsNaming(i, s) = {}
  BY <1>1 DEF Handles, InHand
<1>4. Moves(x, "moving", work[x])
  BY <1>1, <1>2 DEF Moves, RemoveOriginal, Move, LinkPlace
<1>5. place'[x] = "moving" /\ work'[x] = work[x]
  BY <1>4, DeliveryMoves
<1>6. LinkTypeOK'
  <2>1. object' \subseteq Object
    BY <1>2 DEF LinkTypeOK
  <2> QED BY <1>2, <1>4, <2>1, DeliveryMoves DEF LinkTypeOK, Moves
<1>7. Identities' /\ OneRow'
  BY <1>2 DEF Identities, OneRow, NoRowToCome
<1>8. \A j, a : (j # i \/ a # s) /\ Own(j, a) \in object => Own(j, a) \in object'
  BY <1>2 DEF Own
<1>9. Placed'
  <2>1. \A j \in Late : creating[j] = "uploaded" => j # i
    BY <1>3 DEF NoRowToCome
  <2> QED BY <1>2, <1>8, <2>1 DEF Placed
<1>10. FilesMove
  <2>1. \A o \in object' : o \in object
    BY <1>2
  <2>2. \A j \in Item : Own(j, Web) \in object => Own(j, Web) \in object'
    BY <1>1, <1>8
  <2> QED BY <1>2, <2>1, <2>2 DEF FilesMove, LateSettled
<1>11. Sourced(x)'
  BY <1>1, <1>2, <1>5 DEF Sourced, Working, InHand, Linked
<1>12. Handles(x)'
  BY <1>1, <1>2, <1>5 DEF Handles, InHand
<1>13. Thorough(x)'
  <2>1. SUFFICES ASSUME work[x].calm PROVE Thorough(x)'
    BY <1>5 DEF Thorough
  <2>2. LateSettled' /\ \A r \in artifact' : r.user # s
    BY <1>1, <1>2, <2>1 DEF Thorough, LateSettled, Working, InHand
  <2>3. {o.item : o \in Under(s)} \subseteq work[x].todo \cup {i}
    BY <1>1, <2>1 DEF Thorough, InHand
  <2>4. \A o \in object' : o.under = s => o \in Under(s) /\ o.item # i
    <3>1. \A o \in object : o.under = s => o.dir = "own" /\ o \in Object
      BY <1>1 DEF Placed, LinkTypeOK, Object
    <3>2. \A o \in object : o.under = s => o = Own(o.item, s)
      BY <3>1 DEF Object, Own
    <3> QED BY <1>2, <3>2 DEF Under
  <2>5. {o.item : o \in Under(s)'} \subseteq work[x].todo
    BY <1>2, <2>3, <2>4 DEF Under
  <2> QED BY <1>2, <1>5, <2>2, <2>5 DEF Thorough, InHand, Working
<1>14. Deliveries'
  BY <1>4, <1>10, <1>11, <1>12, <1>13, DeliveryMoves
<1>15. NoDocumentLost'
  <2>1. \A r \in artifact : r.item # i \/ r.under # s
    BY <1>3 DEF RowsNaming
  <2> QED BY <1>2, <1>8, <2>1, DocumentsStay
<1>16. RefusedKeepsAccount'
  BY <1>2 DEF RefusedKeepsAccount
<1> QED BY <1>6, <1>7, <1>9, <1>14, <1>15, <1>16


LEMMA OutOfTimeKeeps ==
  ASSUME LinkInv, NEW x \in Attempt, RunOutOfTime(x) PROVE LinkInv'
<1> USE DEF LinkInv
<1> DEFINE s == work[x].src
<1>1. /\ work \in [Attempt -> Work] /\ work[x] \in Work /\ mishaps \in Nat
      /\ place \in [Attempt -> LinkPlace] /\ work[x].todo \subseteq Item
      /\ place[x] = "moving" /\ s \in Chat /\ s # Web /\ Sourced(x) /\ Handles(x) /\ Thorough(x)
  BY AtWork DEF RunOutOfTime, Working
<1> DEFINE w == [work[x] EXCEPT !.pass = MaxLinkPasses]
<1>2. /\ UNCHANGED <<live, owner, code, usedBy, wrong, artifact, object, creating, young>>
      /\ work[x].todo # {} /\ mishaps' = mishaps + 1
  BY DEF RunOutOfTime, linkTables, linkFiles
<1>3. /\ w \in Work /\ w.src = s /\ w.chat = work[x].chat /\ w.calm = work[x].calm
      /\ w.todo = work[x].todo
  BY <1>1 DEF Work, MaxLinkPasses
<1>4. Moves(x, "counting", w)
  BY <1>1, <1>2, <1>3 DEF Moves, RunOutOfTime, Move, LinkPlace
<1> HIDE DEF w
<1>5. place'[x] = "counting" /\ work'[x] = w
  BY <1>4, DeliveryMoves
<1>6. Sourced(x)' /\ Handles(x)'
  BY <1>1, <1>2, <1>3, <1>5 DEF Sourced, Handles, Working, InHand, Linked
<1>7. Thorough(x)'
  BY <1>1, <1>2, <1>3, <1>5 DEF Thorough, Working, InHand, LateSettled
<1> QED BY <1>2, <1>4, <1>6, <1>7, QuietStep

LEMMA RecountKeeps ==
  ASSUME LinkInv, NEW x \in Attempt, Recount(x) PROVE LinkInv'
<1> USE DEF LinkInv
<1> DEFINE s == work[x].src
<1>1. /\ work \in [Attempt -> Work] /\ work[x] \in Work /\ mishaps \in Nat
      /\ place \in [Attempt -> LinkPlace] /\ work[x].todo \subseteq Item
      /\ place[x] = "counting" /\ s \in Chat /\ s # Web /\ Sourced(x) /\ Handles(x) /\ Thorough(x)
  BY AtWork DEF Recount, Working
<1>2. UNCHANGED <<live, owner, code, usedBy, wrong, artifact, object, creating, young, mishaps, work>>
  BY DEF Recount, linkTables, linkFiles
<1>3. PICK p \in {"retiring", "unfinished", "merging"} :
        /\ Move(x, p)
        /\ p = "retiring" => ~Owns(s)
        /\ p = "merging" => work[x].pass # MaxLinkPasses
  BY DEF Recount
<1>4. Moves(x, p, work[x])
  BY <1>1, <1>2, <1>3 DEF Moves, Move, LinkPlace
<1>5. place'[x] = p /\ work'[x] = work[x]
  BY <1>4, DeliveryMoves
<1>6. CASE p = "unfinished"
  <2>1. FilesMove
    BY <1>2 DEF FilesMove, LateSettled, LinkTypeOK
  <2> QED BY <1>2, <1>4, <1>5, <1>6, <2>1, EndsWell, QuietStep
<1>7. CASE p \in {"retiring", "merging"}
  <2>1. Sourced(x)'
    <3>1. p = "merging" => work[x].pass < MaxLinkPasses
      BY <1>1, <1>3 DEF Work, MaxLinkPasses
    <3> QED BY <1>1, <1>2, <1>5, <1>7, <3>1 DEF Sourced, Working, InHand, Linked
  <2>2. Handles(x)'
    BY <1>1, <1>2, <1>5, <1>7 DEF Handles, InHand
  <2>3. Thorough(x)'
    BY <1>1, <1>2, <1>3, <1>5, <1>7 DEF Thorough, Working, InHand, LateSettled, Under, Owns
  <2> QED BY <1>2, <1>4, <2>1, <2>2, <2>3, QuietStep
<1> QED BY <1>6, <1>7

\* What retires with its account is nobody's.
LEMMA RetireKeeps ==
  ASSUME LinkInv, NEW x \in Attempt, Retire(x) PROVE LinkInv'
<1> USE DEF LinkInv
<1> DEFINE s == work[x].src
<1>1. /\ work \in [Attempt -> Work] /\ work[x] \in Work /\ mishaps \in Nat
      /\ place \in [Attempt -> LinkPlace] /\ work[x].todo \subseteq Item
      /\ place[x] = "retiring" /\ s \in Chat /\ s # Web /\ Sourced(x) /\ Handles(x) /\ Thorough(x)
  BY AtWork DEF Retire, Working
<1>2. UNCHANGED <<owner, code, usedBy, wrong, object, creating, young, mishaps, work>>
  BY DEF Retire
<1>3. CASE s \in live /\ (owner[work[x].chat] # Web \/ Owns(s))
  <2>1. Moves(x, "unfinished", work[x]) /\ UNCHANGED <<live, artifact>>
    BY <1>1, <1>2, <1>3 DEF Moves, Retire, Move, LinkPlace
  <2>2. FilesMove
    BY <1>2, <2>1 DEF FilesMove, LateSettled, LinkTypeOK
  <2>3. place'[x] = "unfinished" /\ work'[x] = work[x]
    BY <2>1, DeliveryMoves
  <2> QED BY <1>2, <2>1, <2>2, <2>3, EndsWell, QuietStep
<1>4. CASE ~(s \in live /\ (owner[work[x].chat] # Web \/ Owns(s)))
  <2>1. /\ Move(x, "retired") /\ live' = live \ {s}
        /\ artifact' = {r \in artifact : r.user # s}
    BY <1>4 DEF Retire
  <2>2. Moves(x, "retired", work[x])
    BY <1>1, <1>2, <2>1 DEF Moves, Move, LinkPlace
  <2>3. place'[x] = "retired" /\ work'[x] = work[x]
    BY <2>2, DeliveryMoves
  <2>4. \A r \in artifact : r.user \in live => r.user # s
    BY <1>4 DEF Owns
  <2>5. FilesMove
    BY <1>2, <2>1 DEF FilesMove, LateSettled
  <2>6. Deliveries'
    BY <2>2, <2>3, <2>5, EndsWell, DeliveryMoves
  <2>7. LinkTypeOK'
    BY <1>2, <2>1, <2>2, DeliveryMoves DEF LinkTypeOK, Moves
  <2>8. Identities' /\ Placed'
    BY <1>1, <1>2, <2>1 DEF Identities, Placed
  <2>9. OneRow'
    BY <1>2, <2>1 DEF OneRow, NoRowToCome
  <2>10. NoDocumentLost'
    BY <1>2, <2>1, <2>4 DEF NoDocumentLost
  <2>11. RefusedKeepsAccount'
    <3>1. Linked(s)'
      BY <1>1, <1>2 DEF Sourced, Working, InHand, Linked
    <3>2. \A t \in Chat : ~Linked(t)' => t # s
      BY <1>2, <3>1
    <3> QED BY <1>2, <2>1, <2>5, <3>2, UnlinkedStay
  <2> QED BY <2>6, <2>7, <2>8, <2>9, <2>10, <2>11
<1> QED BY <1>3, <1>4

LEMMA LinkNextInvariant ==
  ASSUME LinkInv, [LinkNext]_linkVars PROVE LinkInv'
<1>1. CASE UNCHANGED linkVars
  <2>1. UNCHANGED <<live, owner, code, usedBy, wrong, artifact, object, creating, young, place, work, mishaps>>
    BY <1>1 DEF linkVars, linkTables, linkFiles, linkRun
  <2>2. FilesMove
    BY <2>1 DEF FilesMove, LateSettled, LinkInv, LinkTypeOK
  <2>3. Deliveries'
    BY <2>1, <2>2, DeliveryFollows DEF Deliveries
  <2>4. LinkTypeOK' /\ Identities' /\ OneRow' /\ Placed'
    BY <2>1 DEF LinkInv, LinkTypeOK, Identities, OneRow, Placed, NoRowToCome
  <2>5. NoDocumentLost' /\ RefusedKeepsAccount'
    BY <2>1 DEF LinkInv, NoDocumentLost, RefusedKeepsAccount
  <2> QED BY <2>3, <2>4, <2>5 DEF LinkInv
<1>2. ASSUME NEW x \in Attempt, FinishStep(x) PROVE LinkInv'
  BY <1>2, FinishMergeKeeps, ListKeeps, PickKeeps, CopyKeeps, RepointKeeps, RecheckKeeps,
     RemoveKeeps, RewriteKeeps, OutOfTimeKeeps, RecountKeeps, RetireKeeps, DieKeeps DEF FinishStep
<1>3. ASSUME NEW x \in Attempt, Resolve(x) \/ Consume(x) PROVE LinkInv'
  BY <1>3, ResolveKeeps, ConsumeKeeps
<1>4. ASSUME NEW i \in Late, UploadLate(i) \/ InsertLate(i) \/ LoseInsertAnswer(i) \/ DieLate(i) \/ GrowOld(i)
      PROVE  LinkInv'
  BY <1>4, UploadsKeep, InsertsLateKeep
<1> QED BY <1>1, <1>2, <1>3, <1>4, TablesKeep DEF LinkNext

LEMMA LinkInductive == LinkSpec => []LinkInv
BY LinkInitInvariant, LinkNextInvariant, PTL DEF LinkSpec

-----------------------------------------------------------------------------
(* Linking: the theorems. *)

\* Every reachable state of a link is well typed.
THEOREM LinkTyping == LinkSpec => []LinkTypeOK
<1>1. LinkInv => LinkTypeOK
  BY DEF LinkInv
<1> QED BY <1>1, LinkInductive, PTL

\* Wherever any number of deliveries of a link die, run at once or meet late
\* uploads, a document that has a row has it in a living account, and its file.
THEOREM DocumentsSurvive == LinkSpec => []NoDocumentLost
<1>1. LinkInv => NoDocumentLost
  BY DEF LinkInv
<1> QED BY <1>1, LinkInductive, PTL

\* A chat that no code has linked keeps its account and what is in it.
THEOREM OnlyCodesEmptyAccounts == LinkSpec => []RefusedKeepsAccount
<1>1. LinkInv => RefusedKeepsAccount
  BY DEF LinkInv
<1> QED BY <1>1, LinkInductive, PTL

\* Where a delivery counts that began in calm, nothing is left to count.
LEMMA NothingLeft ==
  ASSUME LinkInv, NEW x \in Attempt, work[x].calm, owner[work[x].chat] = Web,
         place[x] = "retiring" \/ (place[x] = "counting" /\ work[x].todo = {})
  PROVE  ~Owns(work[x].src)
<1>1. /\ work[x].src \in Chat /\ work[x].src # Web /\ work[x].chat = work[x].src /\ Thorough(x)
  BY AtWork DEF Working, Sourced
<1>2. \A t \in Chat : owner[t] # work[x].src
  BY <1>1, LinkAssumption DEF LinkInv, Identities
<1>3. Under(work[x].src) = {} /\ \A r \in artifact : r.user # work[x].src /\ r.under # work[x].src
  BY <1>1 DEF Thorough, Working
<1> QED BY <1>2, <1>3 DEF Owns

\* A link that is sent again ends with the source retired, whatever an earlier
\* delivery left behind when it died between any two of its requests.
THEOREM ResentLinksFinish == LinkSpec => ResentLinkFinishes
<1>1. ASSUME LinkInv, [LinkNext]_linkVars, NEW x \in Attempt,
             place[x] \in {"counting", "retiring"}, work[x].calm, work[x].todo = {},
             owner[work[x].chat] = Web, place'[x] = "unfinished"
      PROVE  FALSE
  <2>1. place \in [Attempt -> LinkPlace]
    BY <1>1 DEF LinkInv, LinkTypeOK
  <2>2. ~Owns(work[x].src)
    BY <1>1, NothingLeft
  <2>4. ~Recount(x) /\ ~Retire(x) /\ ~Die(x)
    BY <1>1, <2>1, <2>2 DEF Recount, Retire, Die, Move
  <2>5. ~Resolve(x) /\ ~Consume(x) /\ ~FinishMerge(x) /\ ~ListObjects(x) /\ ~PickObject(x)
    BY <1>1 DEF Resolve, Consume, FinishMerge, ListObjects, PickObject
  <2>6. ~CopyObject(x) /\ ~RepointRows(x) /\ ~RecheckRows(x) /\ ~RemoveOriginal(x)
    BY <1>1 DEF CopyObject, RepointRows, RecheckRows, RemoveOriginal
  <2>7. ~RewriteDangling(x) /\ ~RunOutOfTime(x)
    BY <1>1 DEF RewriteDangling, RunOutOfTime
  <2>8. ASSUME NEW y \in Attempt, y # x, Resolve(y) \/ Consume(y) \/ FinishStep(y) PROVE FALSE
    <3>1. \E p : Move(y, p)
      <4>1. Resolve(y) \/ ListObjects(y) \/ RepointRows(y) \/ RemoveOriginal(y) \/ RewriteDangling(y)
              \/ RunOutOfTime(y) \/ Die(y) => \E p : Move(y, p)
        BY DEF Resolve, ListObjects, RepointRows, RemoveOriginal, RewriteDangling, RunOutOfTime, Die
      <4>2. Consume(y) => \E p : Move(y, p)
        BY DEF Consume, ConsumeUnusable, ConsumePending, Refuse
      <4>3. FinishMerge(y) => \E p : Move(y, p)
        BY DEF FinishMerge
      <4>4. PickObject(y) \/ CopyObject(y) => \E p : Move(y, p)
        BY DEF PickObject, CopyObject
      <4>5. RecheckRows(y) \/ Recount(y) \/ Retire(y) => \E p : Move(y, p)
        BY DEF RecheckRows, Recount, Retire
      <4> QED BY <2>8, <4>1, <4>2, <4>3, <4>4, <4>5 DEF FinishStep
    <3> QED BY <1>1, <2>1, <2>8, <3>1 DEF Move
  <2>9. CASE UNCHANGED linkVars
    BY <1>1, <2>9 DEF linkVars, linkRun
  <2>10. CASE \E k \in Code : BeginMint(k) \/ EndMint(k) \/ Expire(k)
    BY <1>1, <2>10 DEF BeginMint, EndMint, Expire, linkRun
  <2>11. CASE \E t \in Chat : CoolDown(t) \/ Unlink(t)
    BY <1>1, <2>11 DEF CoolDown, Unlink, linkRun
  <2>12. CASE \E i \in Late : UploadLate(i) \/ InsertLate(i) \/ LoseInsertAnswer(i) \/ DieLate(i) \/ GrowOld(i)
    BY <1>1, <2>12 DEF UploadLate, InsertLate, LoseInsertAnswer, DieLate, GrowOld, linkRun
  <2>13. CASE \E y \in Attempt : Resolve(y) \/ Consume(y) \/ FinishStep(y)
    BY <2>4, <2>5, <2>6, <2>7, <2>8, <2>13 DEF FinishStep
  <2> QED BY <1>1, <2>9, <2>10, <2>11, <2>12, <2>13 DEF LinkNext
<1>2. LinkInv /\ [LinkNext]_linkVars =>
        [\A x \in Attempt :
           /\ place[x] \in {"counting", "retiring"} /\ work[x].calm /\ OthersIdle(x)
           /\ work[x].todo = {} /\ owner[work[x].chat] = Web
           => place'[x] # "unfinished"]_linkVars
  BY <1>1
<1> QED BY <1>2, LinkInductive, PTL DEF LinkSpec, ResentLinkFinishes


-----------------------------------------------------------------------------
(* Profiles: the inductive invariant. *)

\* A row exists from its insert on, and has its facts but for the import that
\* stands or broke off before them.
Inserted ==
  \A v \in Import : Exists(v) =>
    /\ import[v] \notin {"waiting", "missing"}
    /\ v \in facts \/ import[v] \in {"inserted", "died"}

\* A cancellation that has read a draft knows the version as one, or is surprised.
Told ==
  \A p \in Press : press[p].at = "checked" =>
    press[p].of \in Import /\ (draft[press[p].of] = "activated" => p \in surprised)

\* The list of profiles in use has an invariant of its own, below.
ProfilesTyped ==
  /\ draft \in [Import -> {"none", "pending", "activated", "deleted"}]
  /\ facts \subseteq Import
  /\ import \in [Import -> {"waiting", "missing", "inserted", "returned", "failed", "died"}]
  /\ gave \in [Import -> Import \cup {NoImport}]
  /\ press \in [Press -> PressState]

ProfilesInv == ProfilesTyped /\ Inserted /\ Told

LEMMA ProfilesInitInvariant ==
  ASSUME ProfilesInit PROVE ProfilesInv
BY DEF ProfilesInit, ProfilesInv, ProfilesTyped, PressState, Inserted, Told, Exists

LEMMA ImportsKeep ==
  ASSUME ProfilesInv, NEW i \in Import,
         LookUp(i) \/ InsertVersion(i) \/ InsertFacts(i) \/ ImportBreaks(i)
  PROVE  ProfilesInv'
<1> USE DEF ProfilesInv, Exists
<1>1. CASE LookUp(i) \/ ImportBreaks(i)
  <2>1. /\ UNCHANGED <<draft, facts, press, surprised>>
        /\ \/ import[i] = "waiting" /\ import' = [import EXCEPT ![i] = "missing"] /\ gave' = gave
           \/ /\ import[i] = "waiting" /\ import' = [import EXCEPT ![i] = "returned"]
              /\ \E v \in Import : gave' = [gave EXCEPT ![i] = v]
           \/ import[i] \in {"missing", "inserted"} /\ import' = [import EXCEPT ![i] = "died"] /\ gave' = gave
    BY <1>1 DEF LookUp, ImportBreaks, versionVars, pressVars, Same
  <2>2. ProfilesTyped'
    BY <2>1 DEF ProfilesTyped
  <2>3. /\ \A v \in Import \ {i} : import'[v] = import[v]
        /\ \/ import[i] = "waiting" /\ import'[i] \in {"missing", "returned"}
           \/ import[i] \in {"missing", "inserted"} /\ import'[i] = "died"
    BY <2>1 DEF ProfilesTyped
  <2>4. Inserted'
    <3>1. draft' = draft /\ facts' = facts
      BY <2>1
    <3>2. ASSUME NEW v \in Import, Exists(v)
          PROVE  /\ import'[v] \notin {"waiting", "missing"}
                 /\ v \in facts \/ import'[v] \in {"inserted", "died"}
      BY <2>3, <3>2 DEF Inserted
    <3> QED BY <3>1, <3>2 DEF Inserted
  <2> QED BY <2>1, <2>2, <2>4 DEF Told
<1>2. CASE InsertVersion(i)
  <2>1. /\ UNCHANGED <<facts, gave, press, surprised>> /\ import[i] = "missing"
        /\ \/ draft' = [draft EXCEPT ![i] = "pending"] /\ import' = [import EXCEPT ![i] = "inserted"]
           \/ draft' = draft /\ import' = [import EXCEPT ![i] = "failed"]
    BY <1>2 DEF InsertVersion, pressVars
  <2>2. ProfilesTyped'
    BY <2>1 DEF ProfilesTyped
  <2>3. Inserted'
    BY <2>1 DEF ProfilesTyped, Inserted
  <2>4. \A v \in Import : draft'[v] = "activated" => draft[v] = "activated"
    BY <2>1 DEF ProfilesTyped
  <2> QED BY <2>1, <2>2, <2>3, <2>4 DEF Told
<1>3. CASE InsertFacts(i)
  <2>1. /\ UNCHANGED <<draft, press, surprised>> /\ import[i] = "inserted"
        /\ \/ /\ facts' = facts \cup {i} /\ import' = [import EXCEPT ![i] = "returned"]
              /\ gave' = [gave EXCEPT ![i] = i]
           \/ /\ ~Exists(i) /\ facts' = facts /\ import' = [import EXCEPT ![i] = "failed"]
              /\ gave' = gave
    BY <1>3 DEF InsertFacts, pressVars
  <2>2. ProfilesTyped'
    BY <2>1 DEF ProfilesTyped
  <2>3. Inserted'
    BY <2>1 DEF ProfilesTyped, Inserted
  <2> QED BY <2>1, <2>2, <2>3 DEF Told
<1> QED BY <1>1, <1>2, <1>3

LEMMA PressesKeep ==
  ASSUME ProfilesInv, NEW p \in Press, NEW v \in Import,
         Activate(p, v) \/ CheckDraft(p, v) \/ DeleteDraft(p)
  PROVE  ProfilesInv'
<1> USE DEF ProfilesInv, Exists
<1>1. press \in [Press -> PressState]
  BY DEF ProfilesTyped
<1>2. CASE Activate(p, v)
  <2>1. /\ UNCHANGED <<facts, import, gave>> /\ press[p].at = "idle"
        /\ \/ /\ Exists(v) /\ draft' = [draft EXCEPT ![v] = "activated"]
              /\ surprised' = surprised \cup {q \in Press : press[q].at = "checked" /\ press[q].of = v}
           \/ UNCHANGED <<draft, surprised>>
        /\ \E a \in {"done", "refused"} : press' = [press EXCEPT ![p] = [want |-> "activate", of |-> v, at |-> a]]
    BY <1>2 DEF Activate, importVars
  <2>2. /\ press' \in [Press -> PressState] /\ press'[p].at # "checked"
        /\ \A q \in Press \ {p} : press'[q] = press[q]
    BY <1>1, <2>1 DEF PressState
  <2>3. ProfilesTyped'
    BY <2>1, <2>2 DEF ProfilesTyped
  <2>4. Inserted'
    BY <2>1 DEF ProfilesTyped, Inserted
  <2>5. Told'
    BY <2>1, <2>2 DEF ProfilesTyped, Told
  <2> QED BY <2>3, <2>4, <2>5
<1>3. CASE CheckDraft(p, v)
  <2>1. /\ UNCHANGED <<draft, facts, import, gave, surprised>>
        /\ \E a \in {"checked", "refused"} :
             /\ press' = [press EXCEPT ![p] = [want |-> "cancel", of |-> v, at |-> a]]
             /\ a = "checked" => draft[v] = "pending"
    BY <1>3 DEF CheckDraft, importVars, versionVars
  <2>2. /\ press' \in [Press -> PressState] /\ press'[p].of = v
        /\ press'[p].at = "checked" => draft[v] = "pending"
        /\ \A q \in Press \ {p} : press'[q] = press[q]
    BY <1>1, <2>1 DEF PressState
  <2>3. ProfilesTyped' /\ Inserted'
    BY <2>1, <2>2 DEF ProfilesTyped, Inserted
  <2>4. Told'
    BY <2>1, <2>2 DEF Told
  <2> QED BY <2>3, <2>4
<1>4. CASE DeleteDraft(p)
  <2>1. /\ UNCHANGED <<import, gave, surprised>> /\ press[p].of \in Import
        /\ \/ UNCHANGED <<draft, facts>>
           \/ draft' = [draft EXCEPT ![press[p].of] = "deleted"] /\ facts' = facts \ {press[p].of}
        /\ \E a \in {"done", "refused"} : press' = [press EXCEPT ![p].at = a]
    BY <1>4 DEF DeleteDraft, importVars, versionVars, Told
  <2>2. /\ press' \in [Press -> PressState] /\ press'[p].at # "checked"
        /\ \A q \in Press \ {p} : press'[q] = press[q]
    BY <1>1, <2>1 DEF PressState
  <2>3. ProfilesTyped'
    BY <2>1, <2>2 DEF ProfilesTyped
  <2>4. Inserted'
    BY <2>1 DEF ProfilesTyped, Inserted
  <2>5. Told'
    BY <2>1, <2>2 DEF ProfilesTyped, Told
  <2> QED BY <2>3, <2>4, <2>5
<1> QED BY <1>2, <1>3, <1>4

LEMMA ProfilesNextInvariant ==
  ASSUME ProfilesInv, [ProfilesNext]_profileVars PROVE ProfilesInv'
<1>1. CASE UNCHANGED profileVars \/ Cite
  BY <1>1 DEF profileVars, versionVars, importVars, pressVars, Cite, ProfilesInv, ProfilesTyped,
     Inserted, Told, Exists
<1>2. ASSUME NEW p \in Press, DeleteDraft(p) PROVE ProfilesInv'
  <2>1. press[p].of \in Import
    BY <1>2 DEF DeleteDraft, ProfilesInv, Told
  <2> QED BY <1>2, <2>1, PressesKeep
<1> QED BY <1>1, <1>2, ImportsKeep, PressesKeep DEF ProfilesNext

LEMMA ProfilesInductive == ProfilesSpec => []ProfilesInv
BY ProfilesInitInvariant, ProfilesNextInvariant, PTL DEF ProfilesSpec

-----------------------------------------------------------------------------
(* Profiles: the theorems. *)

\* However many imports of one content race, break off or are cancelled, the
\* version one of them returned has its facts, or its inserter broke off.
THEOREM VersionsAreWhole == ProfilesSpec => []ReturnedIsWhole
<1>1. ProfilesInv => ReturnedIsWhole
  BY DEF ProfilesInv, ProfilesTyped, Inserted, ReturnedIsWhole
<1> QED BY <1>1, ProfilesInductive, PTL

\* A profile in use goes only by a cancellation that had read it as a draft.
THEOREM OnlyARaceLosesAProfile == ProfilesSpec => LostOnlyToARace
<1>1. ASSUME ProfilesInv, [ProfilesNext]_profileVars, NEW v \in Import,
             draft[v] = "activated", draft'[v] = "deleted"
      PROVE  v \notin cited /\ \E p \in surprised : press[p].of = v
  <2>1. draft \in [Import -> {"none", "pending", "activated", "deleted"}]
    BY <1>1 DEF ProfilesInv, ProfilesTyped
  <2>2. \A i \in Import : ~(LookUp(i) \/ InsertVersion(i) \/ InsertFacts(i) \/ ImportBreaks(i))
    BY <1>1, <2>1 DEF LookUp, InsertVersion, InsertFacts, ImportBreaks, versionVars
  <2>3. \A p \in Press, u \in Import : ~(Activate(p, u) \/ CheckDraft(p, u))
    BY <1>1, <2>1 DEF Activate, CheckDraft, versionVars
  <2>4. ~UNCHANGED profileVars /\ ~Cite
    BY <1>1 DEF profileVars, versionVars, Cite
  <2>5. PICK p \in Press : DeleteDraft(p)
    BY <1>1, <2>2, <2>3, <2>4 DEF ProfilesNext
  <2>6. press[p].at = "checked" /\ press[p].of = v /\ v \notin cited
    BY <1>1, <2>1, <2>5 DEF DeleteDraft, versionVars
  <2> QED BY <1>1, <2>6 DEF ProfilesInv, Told
<1>2. ProfilesInv /\ [ProfilesNext]_profileVars =>
        [\A v \in Import :
           draft[v] = "activated" /\ draft'[v] = "deleted"
             => v \notin cited /\ \E p \in surprised : press[p].of = v]_profileVars
  BY <1>1
<1> QED BY <1>2, ProfilesInductive, PTL DEF ProfilesSpec, LostOnlyToARace

\* The activated versions stand in inUse, each once, and no others do; a version
\* with documents is among them.
InUseFits ==
  /\ inUse \in Seq(Import) /\ IsInjective(inUse)
  /\ ToSet(inUse) = {v \in Import : draft[v] = "activated"}
  /\ cited \subseteq ToSet(inUse)
  /\ surprised \subseteq Press /\ breaks \in 0 .. MaxBreaks

LEMMA InUseBegins ==
  ASSUME ProfilesInit PROVE InUseFits
<1>1. inUse = <<>> /\ inUse \in Seq(Import) /\ DOMAIN inUse = {}
  BY DEF ProfilesInit
<1> QED BY <1>1, ProfilesAssumption DEF ProfilesInit, InUseFits, IsInjective, ToSet

LEMMA InUseStays ==
  ASSUME ProfilesInv, InUseFits, [ProfilesNext]_profileVars
  PROVE  InUseFits'
<1>1. /\ draft \in [Import -> {"none", "pending", "activated", "deleted"}]
      /\ press \in [Press -> PressState]
  BY DEF ProfilesInv, ProfilesTyped
<1>2. ASSUME UNCHANGED <<inUse, cited, surprised>>, breaks' \in 0 .. MaxBreaks,
             \A v \in Import : draft'[v] = "activated" <=> draft[v] = "activated"
      PROVE  InUseFits'
  BY <1>2 DEF InUseFits
<1>3. CASE UNCHANGED profileVars
  BY <1>2, <1>3 DEF InUseFits, profileVars, versionVars, importVars, pressVars
<1>4. ASSUME NEW i \in Import, LookUp(i) \/ InsertVersion(i) \/ InsertFacts(i) \/ ImportBreaks(i)
      PROVE  InUseFits'
  <2>1. UNCHANGED <<inUse, cited, surprised>> /\ breaks' \in 0 .. MaxBreaks
    BY <1>4, ProfilesAssumption
       DEF LookUp, InsertVersion, InsertFacts, ImportBreaks, versionVars, pressVars, InUseFits
  <2>2. draft' = draft \/ (InsertVersion(i) /\ draft' = [draft EXCEPT ![i] = "pending"])
    BY <1>4 DEF LookUp, InsertVersion, InsertFacts, ImportBreaks, versionVars
  <2>3. InsertVersion(i) => draft[i] # "activated"
    BY DEF InsertVersion, ProfilesInv, Inserted, Exists
  <2> QED BY <1>1, <1>2, <2>1, <2>2, <2>3
<1>5. ASSUME NEW p \in Press, NEW v \in Import, CheckDraft(p, v) PROVE InUseFits'
  BY <1>2, <1>5 DEF CheckDraft, versionVars, importVars, InUseFits
<1>6. ASSUME NEW p \in Press, NEW v \in Import, Activate(p, v) PROVE InUseFits'
  <2>1. CASE ~Exists(v)
    BY <1>2, <1>6, <2>1 DEF Activate, importVars, InUseFits
  <2>2. CASE Exists(v)
    <3>1. /\ draft' = [draft EXCEPT ![v] = "activated"] /\ inUse' = Append(RemoveFirst(inUse, v), v)
          /\ surprised' \subseteq surprised \cup Press /\ UNCHANGED <<cited, breaks>>
      BY <1>6, <2>2 DEF Activate, importVars
    <3> DEFINE rest == RemoveFirst(inUse, v)
    <3>2. rest \in Seq(Import) /\ IsInjective(rest) /\ ToSet(rest) = ToSet(inUse) \ {v}
      BY RemovedLeavesRest DEF InUseFits
    <3> HIDE DEF rest
    <3>3. /\ Append(rest, v) \in Seq(Import) /\ IsInjective(Append(rest, v))
          /\ ToSet(Append(rest, v)) = ToSet(rest) \cup {v}
      BY <3>2, LengthenedList
    <3>4. inUse' = Append(rest, v)
      BY <3>1 DEF rest
    <3>5. ToSet(inUse') = {u \in Import : draft'[u] = "activated"}
      BY <1>1, <3>1, <3>2, <3>3, <3>4 DEF InUseFits
    <3> QED BY <3>1, <3>2, <3>3, <3>4, <3>5 DEF InUseFits
  <2> QED BY <2>1, <2>2
<1>7. ASSUME NEW p \in Press, DeleteDraft(p) PROVE InUseFits'
  <2> DEFINE v == press[p].of
  <2>1. v \in Import
    BY <1>7 DEF DeleteDraft, ProfilesInv, Told
  <2>2. CASE v \in cited
    BY <1>2, <1>7, <2>2 DEF DeleteDraft, versionVars, importVars, InUseFits
  <2>3. CASE v \notin cited
    <3>1. /\ draft' = [draft EXCEPT ![v] = "deleted"] /\ inUse' = RemoveFirst(inUse, v)
          /\ UNCHANGED <<cited, breaks, surprised>>
      BY <1>7, <2>3 DEF DeleteDraft, importVars
    <3>2. /\ inUse' \in Seq(Import) /\ IsInjective(inUse')
          /\ ToSet(inUse') = ToSet(inUse) \ {v}
      <4>1. \A u \in Import : LET rest == RemoveFirst(inUse, u) IN
              /\ rest \in Seq(Import) /\ IsInjective(rest)
              /\ ToSet(rest) = ToSet(inUse) \ {u}
        BY RemovedLeavesRest DEF InUseFits
      <4> QED BY <2>1, <3>1, <4>1
    <3>3. ToSet(inUse') = {u \in Import : draft'[u] = "activated"}
      BY <1>1, <2>1, <3>1, <3>2 DEF InUseFits
    <3> QED BY <2>3, <3>1, <3>2, <3>3 DEF InUseFits
  <2> QED BY <2>2, <2>3
<1>8. CASE Cite
  <2>1. Last(inUse) \in ToSet(inUse)
    <3>1. inUse # <<>> /\ inUse \in Seq(Import)
      BY <1>8 DEF Cite, InUseFits
    <3>2. Len(inUse) \in DOMAIN inUse
      BY <3>1
    <3> QED BY <3>2 DEF Last, ToSet
  <2>2. /\ UNCHANGED <<draft, inUse, surprised, breaks>>
        /\ cited' = cited \cup {Last(inUse)}
    BY <1>8 DEF Cite, importVars, pressVars
  <2> QED BY <2>1, <2>2 DEF InUseFits
<1> QED BY <1>3, <1>4, <1>5, <1>6, <1>7, <1>8 DEF ProfilesNext

LEMMA InUseInductive == ProfilesSpec => []InUseFits
BY InUseBegins, InUseStays, ProfilesInductive, PTL DEF ProfilesSpec

\* The types of the versions, the presses and the list of profiles in use.
THEOREM ProfilesTyping == ProfilesSpec => []ProfilesTypeOK
<1>1. ProfilesInv /\ InUseFits => ProfilesTypeOK
  <2>1. ASSUME ProfilesInv, InUseFits PROVE ProfilesTypeOK
    <3>1. cited \subseteq Import
      BY <2>1 DEF InUseFits
    <3> QED BY <2>1, <3>1 DEF ProfilesInv, ProfilesTyped, InUseFits, ProfilesTypeOK
  <2> QED BY <2>1
<1> QED BY <1>1, InUseInductive, ProfilesInductive, PTL

\* A profile that documents were made from stays activated, and stands once in
\* the list of those in use, whatever is pressed meanwhile.
THEOREM CitedProfilesStay ==
  ProfilesSpec => [](/\ \A v \in cited : draft[v] = "activated" /\ v \in ToSet(inUse)
                     /\ IsInjective(inUse))
<1>1. InUseFits => /\ \A v \in cited : draft[v] = "activated" /\ v \in ToSet(inUse)
                   /\ IsInjective(inUse)
  BY DEF InUseFits
<1> QED BY <1>1, InUseInductive, PTL

-----------------------------------------------------------------------------
(* The registry: the inductive invariant. *)

\* Rows are as the upserts left them: no first_seen without a row, and what was
\* seen since the cutoff is active.
RowsFit ==
  /\ \A p \in Posting : row[p] = "none" => firstSeen[p] = "none"
  /\ \A p \in recent : row[p] = "active"

\* What a tick has fetched is being written, or written; only an upsert under
\* way in the writing stage is neither.
TickFits ==
  /\ tick # "writing" => unwritten = {} /\ inflight = NoPosting
  /\ unwritten \subseteq fetch.got
  /\ tick \in {"writing", "closing", "saving"} => fetch.got \subseteq recent \cup unwritten
  /\ inflight # NoPosting => inflight \in unwritten
  /\ tick = "fetching" => fetch.outcome = "none" /\ ~fetch.ended
  /\ tick = "confirming" => kind = "whole" /\ fetch.outcome = "not_modified"
  /\ sweep.on => kind = "sweep"

\* A board of one request: what was read is all there is of the poll, and is
\* complete.
WholeFits ==
  kind = "whole" =>
    /\ tick \in {"idle", "fetching", "confirming"} => fetch.got = {}
    /\ recent \subseteq fetch.got
    /\ tick \in {"writing", "closing"} => fetch.outcome = "ok"
    /\ tick \in {"writing", "closing"} \/ (tick = "saving" /\ fetch.outcome = "ok") => steady \subseteq fetch.got
    /\ tick = "saving" /\ fetch.outcome = "ok" => \A p \in Posting : row[p] = "active" => p \in recent
    /\ ~calm

\* One etag at most is saved, of a board of one request; the rows agree with its
\* edition unless those of another were written since.
TagsFit ==
  /\ tag # {} => kind = "whole"
  /\ \A s, e \in tag : s = e
  /\ ~mixed => \A e \in tag : {p \in Posting : row[p] = "active"} = e

\* A board of several pages that has stood still: whatever lies before the cursor
\* has been seen, in this tick or since the sweep began.
PagesFit ==
  /\ steady \subseteq Listed(board)
  /\ kind # "whole" /\ fetch.outcome = "ok" => kind = "sweep" \/ fetch.ended
  /\ kind # "whole" /\ calm =>
       /\ tick \in {"fetching", "writing", "closing", "saving"} =>
            \A i \in 1 .. Len(board) : i < fetch.page => board[i] \in fetch.got \cup recent
       /\ sweep.on => \A i \in 1 .. Len(board) : i < sweep.page => board[i] \in recent
       /\ tick \in {"writing", "closing", "saving"} /\ fetch.ended => fetch.page > Len(board)
       /\ tick = "idle" => sweep.on

\* The search: what lies behind the watermark has its verdict, and what a match
\* will leave behind has one too or is still in its hands.
Final == {"excused", "omitted", "weighed", "published"}
DueToPass(p) == firstSeen[p] = "mid" \/ (p = inflight /\ row[p] = "none" /\ stamp = "mid")

MatchFits ==
  /\ \A p \in Suiting : Behind(p) => verdict[p] \in Final
  /\ match \in {"scoring", "publishing"} =>
       \A p \in Suiting : DueToPass(p) => verdict[p] \in Final \/ p \in found
  /\ \A p \in found : row[p] # "none" /\ firstSeen[p] \in {"mid", "new"}

SiteTyped ==
  /\ IsInjective(board) /\ kind \in Kind /\ budget \in Nat /\ board \in Seq(Posting)
  /\ steady \subseteq Posting /\ calm \in BOOLEAN

RowsTyped ==
  /\ row \in [Posting -> {"none", "active", "closed"}] /\ firstSeen \in [Posting -> Moment]
  /\ recent \subseteq Posting /\ aged \subseteq Posting /\ mixed \in BOOLEAN

TickTyped ==
  /\ tag \subseteq SUBSET Posting /\ sweep \in [page : Nat \ {0}, on : BOOLEAN, saw : BOOLEAN]
  /\ tick \in {"idle", "fetching", "writing", "closing", "confirming", "saving", "penalizing"}
  /\ fetch \in [outcome : Outcome, page : Nat \ {0}, got : SUBSET Posting, ended : BOOLEAN]
  /\ unwritten \subseteq Posting /\ inflight \in Posting \cup {NoPosting} /\ stamp \in Moment

MatchTyped ==
  /\ match \in {"idle", "reading", "scoring", "publishing"} /\ found \subseteq Suiting
  /\ verdict \in [Suiting -> Verdict]

RegistryTyped == SiteTyped /\ RowsTyped /\ TickTyped /\ MatchTyped

RegistryInv ==
  RegistryTyped /\ RowsFit /\ TickFits /\ WholeFits /\ TagsFit /\ PagesFit /\ MatchFits

LEMMA RegistryInitInvariant ==
  ASSUME RegistryInit PROVE RegistryInv
<1> USE RegistryAssumption DEF RegistryInit
<1>1. board = <<>> /\ Len(board) = 0 /\ Listed(board) = {}
  BY DEF Listed
<1>2. fetch = NoFetch /\ NoFetch \in [outcome : Outcome, page : Nat \ {0}, got : SUBSET Posting, ended : BOOLEAN]
  BY DEF NoFetch, Outcome
<1>3. RegistryTyped
  <2>1. Cardinality(Posting) \in Nat
    BY FS_CardinalityType
  <2>2. PICK n \in (IF kind = "sweep" THEN Page ELSE {1}) :
          sweep = [page |-> n, on |-> FALSE, saw |-> FALSE]
    OBVIOUS
  <2>3. n \in Nat \ {0}
    BY <2>1 DEF Page
  <2>4. sweep \in [page : Nat \ {0}, on : BOOLEAN, saw : BOOLEAN]
    BY <2>2, <2>3
  <2>5. TickTyped
    BY <1>2, <2>4 DEF TickTyped, Moment
  <2>6. SiteTyped
    <3>1. budget \in Nat /\ board \in Seq(Posting)
      BY <1>1
    <3>2. IsInjective(board)
      BY ONLY <1>1, <3>1 DEF IsInjective
    <3> QED BY <3>1, <3>2 DEF SiteTyped
  <2>7. RowsTyped /\ MatchTyped
    BY DEF RowsTyped, MatchTyped, Moment, Verdict
  <2> QED BY <2>5, <2>6, <2>7 DEF RegistryTyped
<1>4. ~sweep.on
  OBVIOUS
<1>5. RowsFit /\ MatchFits
  BY DEF RowsFit, MatchFits, Behind
<1>6. TickFits /\ WholeFits /\ TagsFit
  BY <1>1, <1>4 DEF TickFits, WholeFits, TagsFit, NoFetch
<1>7. PagesFit
  BY <1>1, <1>4 DEF PagesFit, NoFetch
<1> QED BY <1>3, <1>5, <1>6, <1>7 DEF RegistryInv

\* A step of the site or of the poller that moves no posting towards the watermark
\* leaves the search's half as it is.
LEMMA SearchStands ==
  ASSUME RegistryInv, UNCHANGED matchVars,
         \A p \in Posting : Behind(p)' => Behind(p),
         \A p \in Posting : DueToPass(p)' => DueToPass(p),
         \A p \in Posting : row[p] # "none" => row'[p] # "none" /\ firstSeen'[p] = firstSeen[p]
  PROVE  MatchFits'
<1>1. /\ UNCHANGED <<match, found, verdict>> /\ MatchFits /\ found \subseteq Suiting
      /\ Suiting \subseteq Posting
  BY RegistryAssumption DEF matchVars, RegistryInv, RegistryTyped, MatchTyped
<1>2. \A p \in Suiting : Behind(p)' => verdict'[p] \in Final
  BY <1>1 DEF MatchFits
<1>3. match' \in {"scoring", "publishing"} =>
        \A p \in Suiting : DueToPass(p)' => verdict'[p] \in Final \/ p \in found'
  BY <1>1 DEF MatchFits
<1>4. \A p \in found' : row'[p] # "none" /\ firstSeen'[p] \in {"mid", "new"}
  BY <1>1 DEF MatchFits
<1> QED BY <1>2, <1>3, <1>4 DEF MatchFits

\* In particular one that leaves the rows and the upsert alone.
LEMMA SearchUntouched ==
  ASSUME RegistryInv, UNCHANGED <<matchVars, row, firstSeen, inflight, stamp>>
  PROVE  MatchFits'
<1>1. \A p \in Posting : (Behind(p)' <=> Behind(p)) /\ (DueToPass(p)' <=> DueToPass(p))
  BY DEF Behind, DueToPass
<1> QED BY <1>1, SearchStands

LEMMA RelistKeeps ==
  ASSUME RegistryInv, NEW b \in Seq(Posting), IsInjective(b), Relist(b)
  PROVE  RegistryInv'
<1> USE DEF RegistryInv
<1>1. /\ board' = b /\ calm' = FALSE /\ steady' = steady \cap Listed(b)
      /\ UNCHANGED <<kind, budget, row, recent, aged, firstSeen, mixed, tag, sweep, tick, fetch,
                     unwritten, inflight, stamp, matchVars>>
  BY DEF Relist, rowVars, boardVars, tickVars
<1>2. RegistryTyped'
  BY <1>1 DEF RegistryTyped, SiteTyped, RowsTyped, TickTyped, MatchTyped, matchVars
<1>3. RowsFit' /\ TickFits' /\ WholeFits'
  BY <1>1 DEF RowsFit, TickFits, WholeFits
<1>4. TagsFit' /\ PagesFit'
  BY <1>1 DEF TagsFit, PagesFit
<1>5. MatchFits'
  BY <1>1, SearchUntouched
<1> QED BY <1>2, <1>3, <1>4, <1>5

LEMMA SiteKeeps ==
  ASSUME RegistryInv, NEW p \in Posting, PostJob(p) \/ TakeDown(p) \/ SevenDaysPass(p)
  PROVE  RegistryInv'
<1>1. board \in Seq(Posting) /\ IsInjective(board)
  BY DEF RegistryInv, RegistryTyped, SiteTyped
<1>2. CASE PostJob(p)
  <2>1. <<p>> \o board \in Seq(Posting) /\ IsInjective(<<p>> \o board)
    BY <1>1, <1>2, HeadedList DEF PostJob, Listed, ToSet
  <2> QED BY <1>2, <2>1, RelistKeeps DEF PostJob
<1>3. CASE TakeDown(p)
  <2>1. RemoveFirst(board, p) \in Seq(Posting) /\ IsInjective(RemoveFirst(board, p))
    BY <1>1, RemovedLeavesRest
  <2> QED BY <1>3, <2>1, RelistKeeps DEF TakeDown
<1>4. CASE SevenDaysPass(p)
  <2> USE DEF RegistryInv
  <2>1. aged' = aged \cup {p}
        /\ UNCHANGED <<kind, budget, board, steady, calm, row, recent, firstSeen, mixed, tag,
                       sweep, tick, fetch, unwritten, inflight, stamp, matchVars>>
    BY <1>4 DEF SevenDaysPass, siteVars, boardVars, tickVars
  <2>2. RegistryTyped' /\ RowsFit' /\ TickFits' /\ WholeFits'
    BY <2>1 DEF RegistryTyped, SiteTyped, RowsTyped, TickTyped, MatchTyped, RowsFit, TickFits, WholeFits, matchVars
  <2>3. TagsFit' /\ PagesFit'
    BY <2>1 DEF TagsFit, PagesFit
  <2>4. MatchFits'
    BY <2>1, SearchUntouched
  <2> QED BY <2>2, <2>3, <2>4
<1> QED BY <1>2, <1>3, <1>4

-----------------------------------------------------------------------------
(* The registry: a tick of the poller. *)

\* What a fetch step may leave in the fetch.
FetchFits(f) ==
  /\ f.outcome = "none" => ~f.ended
  /\ f.outcome = "not_modified" => kind = "whole"
  /\ kind = "whole" =>
       /\ f.outcome # "partial"
       /\ f.outcome = "ok" => f.got = Listed(board)
       /\ f.outcome # "ok" => f.got = {}
  /\ kind # "whole" =>
       /\ f.outcome = "ok" => kind = "sweep" \/ f.ended
       /\ calm => /\ f.outcome \in {"none", "ok", "partial"} =>
                       \A i \in 1 .. Len(board) : i < f.page => board[i] \in f.got \cup recent
                  /\ f.ended => f.page > Len(board)

FetchType == [outcome : Outcome, page : Nat \ {0}, got : SUBSET Posting, ended : BOOLEAN]

LEMMA ClassifiedKeeps ==
  ASSUME RegistryInv, tick = "fetching", NEW f \in FetchType, FetchFits(f), Classified(f)
  PROVE  RegistryInv'
<1> USE DEF RegistryInv
<1>1. /\ fetch' = f
      /\ UNCHANGED <<kind, budget, board, steady, calm, row, recent, aged, firstSeen, mixed, tag,
                     sweep, inflight, stamp, matchVars>>
  BY DEF Classified, siteVars, rowVars, boardVars
<1>2. f.outcome \in Outcome /\ f.got \subseteq Posting /\ f.page \in Nat
  BY DEF FetchType
<1>3. /\ f.outcome = "none" => tick' = "fetching" /\ unwritten' = {}
      /\ f.outcome \in {"gone", "failed"} => tick' = "penalizing" /\ unwritten' = {}
      /\ f.outcome = "not_modified" => tick' = "confirming" /\ unwritten' = {}
      /\ f.outcome \in {"ok", "partial"} => tick' = "writing" /\ unwritten' = f.got
  BY DEF Classified
<1>4. inflight = NoPosting /\ (kind = "whole" => recent = {}) /\ steady \subseteq Listed(board)
  BY DEF TickFits, WholeFits, PagesFit
<1>5. \/ f.outcome = "none" /\ tick' = "fetching" /\ unwritten' = {}
      \/ f.outcome \in {"gone", "failed"} /\ tick' = "penalizing" /\ unwritten' = {}
      \/ f.outcome = "not_modified" /\ tick' = "confirming" /\ unwritten' = {}
      \/ f.outcome \in {"ok", "partial"} /\ tick' = "writing" /\ unwritten' = f.got
  BY <1>2, <1>3 DEF Outcome
<1>6. RegistryTyped'
  <2>1. TickTyped'
    BY <1>1, <1>2, <1>5 DEF RegistryTyped, TickTyped, FetchType
  <2>2. SiteTyped' /\ RowsTyped' /\ MatchTyped'
    BY <1>1 DEF RegistryTyped, SiteTyped, RowsTyped, MatchTyped, matchVars
  <2> QED BY <2>1, <2>2 DEF RegistryTyped
<1>7. RowsFit' /\ TickFits'
  BY <1>1, <1>4, <1>5 DEF RowsFit, TickFits, FetchFits
<1>8. WholeFits'
  BY <1>1, <1>4, <1>5 DEF WholeFits, FetchFits
<1>9. TagsFit'
  BY <1>1, <1>5 DEF TagsFit, FetchFits
<1>10. PagesFit'
  BY <1>1, <1>4, <1>5 DEF PagesFit, FetchFits
<1>11. MatchFits'
  BY <1>1, SearchUntouched
<1> QED BY <1>6, <1>7, <1>8, <1>9, <1>10, <1>11

\* What is known of the fetch while pages are read.
LEMMA AtFetching ==
  ASSUME RegistryInv, tick = "fetching"
  PROVE  /\ fetch \in FetchType /\ fetch.outcome = "none" /\ ~fetch.ended
         /\ kind = "whole" => fetch.got = {}
         /\ kind # "whole" /\ calm =>
              \A i \in 1 .. Len(board) : i < fetch.page => board[i] \in fetch.got \cup recent
BY DEF RegistryInv, RegistryTyped, TickTyped, FetchType, TickFits, WholeFits, PagesFit

LEMMA FetchesKeep ==
  ASSUME RegistryInv, FetchWhole \/ FetchBreaks \/ BoardIsGone
  PROVE  RegistryInv'
<1>1. tick = "fetching"
  BY DEF FetchWhole, FetchBreaks, BoardIsGone
<1> USE AtFetching, <1>1
<1>2. CASE FetchWhole
  <2>1. kind = "whole" /\ board \in Seq(Posting) /\ Listed(board) \subseteq Posting
    BY <1>2 DEF FetchWhole, Listed, RegistryInv, RegistryTyped, SiteTyped
  <2>2. CASE Classified([fetch EXCEPT !.outcome = "not_modified"])
    <3> DEFINE f == [fetch EXCEPT !.outcome = "not_modified"]
    <3>1. f \in FetchType /\ f.outcome = "not_modified" /\ f.got = {}
      BY <2>1 DEF FetchType, Outcome
    <3>2. Classified(f)
      BY <2>2
    <3> HIDE DEF f
    <3> QED BY <2>1, <3>1, <3>2, ClassifiedKeeps DEF FetchFits
  <2>3. CASE Classified([fetch EXCEPT !.outcome = "ok", !.got = Listed(board), !.ended = TRUE])
    <3> DEFINE f == [fetch EXCEPT !.outcome = "ok", !.got = Listed(board), !.ended = TRUE]
    <3>1. f \in FetchType /\ f.outcome = "ok" /\ f.got = Listed(board)
      BY <2>1 DEF FetchType, Outcome
    <3>2. Classified(f)
      BY <2>3
    <3> HIDE DEF f
    <3> QED BY <2>1, <3>1, <3>2, ClassifiedKeeps DEF FetchFits
  <2> QED BY <1>2, <2>2, <2>3 DEF FetchWhole
<1>3. ASSUME NEW o \in {"failed", "ok", "partial", "gone"}, NEW g \in {{}, fetch.got},
             o \in {"ok", "partial"} => g = fetch.got /\ kind # "whole",
             o = "ok" => kind = "sweep",
             Classified([fetch EXCEPT !.outcome = o, !.got = g])
      PROVE  RegistryInv'
  <2> DEFINE f == [fetch EXCEPT !.outcome = o, !.got = g]
  <2>1. /\ f \in FetchType /\ f.outcome = o /\ f.got = g /\ f.page = fetch.page
        /\ ~f.ended
    BY DEF FetchType, Outcome
  <2>2. Classified(f)
    BY <1>3
  <2> HIDE DEF f
  <2>3. FetchFits(f)
    BY <1>3, <2>1 DEF FetchFits
  <2> QED BY <2>1, <2>2, <2>3, ClassifiedKeeps
<1>4. [fetch EXCEPT !.outcome = "failed", !.got = {}] = [fetch EXCEPT !.outcome = "failed", !.got = {}]
  OBVIOUS
<1>5. \A o \in Outcome : [fetch EXCEPT !.outcome = o] = [fetch EXCEPT !.outcome = o, !.got = fetch.got]
  BY DEF FetchType
<1>6. CASE FetchBreaks
  <2>1. CASE Classified([fetch EXCEPT !.outcome = ShortOutcome(fetch)])
    <3>1. ShortOutcome(fetch) \in {"failed", "ok", "partial"}
          /\ (ShortOutcome(fetch) \in {"ok", "partial"} => kind # "whole")
          /\ (ShortOutcome(fetch) = "ok" => kind = "sweep")
      BY DEF ShortOutcome
    <3>2. Classified([fetch EXCEPT !.outcome = ShortOutcome(fetch), !.got = fetch.got])
      BY <1>5, <2>1, <3>1 DEF Outcome
    <3> QED BY <1>3, <3>1, <3>2
  <2>2. CASE Classified([fetch EXCEPT !.outcome = "failed", !.got = {}])
    BY <1>3, <2>2
  <2> QED BY <1>6, <2>1, <2>2 DEF FetchBreaks
<1>7. CASE BoardIsGone
  <2>1. Classified([fetch EXCEPT !.outcome = "gone", !.got = fetch.got])
    BY <1>5, <1>7 DEF BoardIsGone, Outcome
  <2> QED BY <1>3, <2>1
<1> QED BY <1>2, <1>6, <1>7

LEMMA FetchPageKeeps ==
  ASSUME RegistryInv, FetchPage PROVE RegistryInv'
<1>1. tick = "fetching" /\ kind # "whole"
  BY DEF FetchPage
<1> USE <1>1, AtFetching
<1> DEFINE here == IF fetch.page <= Len(board) THEN {board[fetch.page]} ELSE {}
           n == fetch.page + Cardinality(here)
           g == fetch.got \cup here
           f == [fetch EXCEPT !.got = @ \cup here, !.page = fetch.page + Cardinality(here)]
           first == IF kind = "sweep" THEN sweep.page ELSE 1
<1>2. /\ board \in Seq(Posting) /\ Len(board) \in Nat /\ fetch.page \in Nat \ {0}
      /\ fetch.got \subseteq Posting
  BY DEF RegistryInv, RegistryTyped, SiteTyped, TickTyped
<1>3. /\ here \subseteq Posting
      /\ fetch.page <= Len(board) => here = {board[fetch.page]} /\ Cardinality(here) = 1
      /\ fetch.page > Len(board) => here = {} /\ Cardinality(here) = 0
  <2>1. CASE fetch.page <= Len(board)
    <3>1. here = {board[fetch.page]} /\ board[fetch.page] \in Posting
      BY <1>2, <2>1
    <3>2. Cardinality({board[fetch.page]}) = 1
      BY FS_Singleton
    <3> QED BY <1>2, <2>1, <3>1, <3>2
  <2>2. CASE fetch.page > Len(board)
    <3>1. here = {}
      BY <1>2, <2>2
    <3>2. Cardinality({}) = 0
      BY FS_EmptySet
    <3> QED BY <1>2, <2>2, <3>1, <3>2
  <2> QED BY <1>2, <2>1, <2>2
<1>4. n \in Nat \ {0} /\ g \subseteq Posting
  BY <1>2, <1>3
<1>5. f = [outcome |-> "none", page |-> n, got |-> g, ended |-> FALSE]
  <2>1. f = [fetch EXCEPT !.got = g, !.page = n]
    OBVIOUS
  <2> HIDE DEF g, n, f
  <2>2. [fetch EXCEPT !.got = g, !.page = n] \in FetchType
    BY <1>4 DEF FetchType
  <2>3. f \in FetchType /\ f.outcome = "none" /\ f.page = n /\ f.got = g /\ f.ended = FALSE
    BY <1>2, <2>1, <2>2 DEF FetchType
  <2> QED BY <2>3 DEF FetchType
<1>6. calm => \A i \in 1 .. Len(board) : i < n => board[i] \in g \cup recent
  <2>1. SUFFICES ASSUME calm, NEW i \in 1 .. Len(board), i < n PROVE board[i] \in g \cup recent
    OBVIOUS
  <2>2. CASE i < fetch.page
    BY <2>1, <2>2
  <2>3. CASE i >= fetch.page
    <3>1. i = fetch.page /\ fetch.page <= Len(board)
      BY <1>2, <1>3, <2>1, <2>3
    <3> QED BY <1>3, <3>1
  <2> QED BY <1>2, <2>2, <2>3
<1>7. Classified(IF f.page > Len(board) THEN [f EXCEPT !.outcome = "ok", !.ended = TRUE]
                 ELSE IF f.page - first = budget THEN [f EXCEPT !.outcome = ShortOutcome(f)]
                 ELSE f)
  BY DEF FetchPage
<1>8. ShortOutcome(f) \in {"failed", "ok", "partial"} /\ (ShortOutcome(f) = "ok" => kind = "sweep")
  BY DEF ShortOutcome
<1>9. \E o \in {"none", "ok", "partial", "failed"}, e \in BOOLEAN :
        /\ Classified([outcome |-> o, page |-> n, got |-> g, ended |-> e])
        /\ o = "none" => ~e
        /\ o = "ok" => kind = "sweep" \/ e
        /\ e => n > Len(board)
  <2> DEFINE ended == [f EXCEPT !.outcome = "ok", !.ended = TRUE]
             short == [f EXCEPT !.outcome = ShortOutcome(f)]
  <2>1. Classified(IF f.page > Len(board) THEN ended ELSE IF f.page - first = budget THEN short ELSE f)
    BY <1>7
  <2> HIDE DEF here, n, g, first, f
  <2>2. f \in FetchType /\ f.page = n /\ f.got = g /\ f.ended = FALSE
    BY <1>4, <1>5 DEF FetchType, Outcome
  <2>3. ended = [outcome |-> "ok", page |-> n, got |-> g, ended |-> TRUE]
    <3>1. ended \in FetchType /\ ended.outcome = "ok" /\ ended.page = n /\ ended.got = g
          /\ ended.ended = TRUE
      BY <2>2 DEF FetchType, Outcome
    <3> HIDE DEF ended
    <3> QED BY <3>1 DEF FetchType
  <2>4. short = [outcome |-> ShortOutcome(f), page |-> n, got |-> g, ended |-> FALSE]
    <3> DEFINE o == ShortOutcome(f)
    <3>1. o \in Outcome
      BY <1>8 DEF Outcome
    <3> HIDE DEF o
    <3>2. short = [f EXCEPT !.outcome = o]
      BY DEF o
    <3>3. short \in FetchType /\ short.outcome = o /\ short.page = n /\ short.got = g
          /\ short.ended = FALSE
      BY <2>2, <3>1, <3>2 DEF FetchType
    <3> HIDE DEF short
    <3>4. short = [outcome |-> o, page |-> n, got |-> g, ended |-> FALSE]
      BY <3>3 DEF FetchType
    <3> QED BY <3>4 DEF o
  <2> HIDE DEF ended, short
  <2>5. CASE f.page > Len(board)
    <3>1. n > Len(board)
      BY <2>2, <2>5
    <3>2. Classified(ended)
      BY <2>1, <2>5
    <3>3. Classified([outcome |-> "ok", page |-> n, got |-> g, ended |-> TRUE])
      BY <2>3, <3>2
    <3> QED BY <3>1, <3>3
  <2>6. CASE ~(f.page > Len(board)) /\ f.page - first = budget
    <3>1. Classified(short)
      BY <2>1, <2>6
    <3>2. Classified([outcome |-> ShortOutcome(f), page |-> n, got |-> g, ended |-> FALSE])
      BY <2>4, <3>1
    <3> QED BY <1>8, <3>2
  <2>7. CASE ~(f.page > Len(board)) /\ ~(f.page - first = budget)
    <3>1. Classified(f)
      BY <2>1, <2>7
    <3>2. Classified([outcome |-> "none", page |-> n, got |-> g, ended |-> FALSE])
      BY <1>5, <3>1
    <3> QED BY <3>2
  <2> QED BY <2>5, <2>6, <2>7
<1> HIDE DEF f, here, n, g, first
<1>10. PICK o \in {"none", "ok", "partial", "failed"}, e \in BOOLEAN :
        /\ Classified([outcome |-> o, page |-> n, got |-> g, ended |-> e])
        /\ o = "none" => ~e
        /\ o = "ok" => kind = "sweep" \/ e
        /\ e => n > Len(board)
  BY <1>9
<1> DEFINE h == [outcome |-> o, page |-> n, got |-> g, ended |-> e]
<1>11. h \in FetchType
  BY <1>4 DEF FetchType, Outcome
<1>12. FetchFits(h)
  BY <1>1, <1>6, <1>10 DEF FetchFits
<1> QED BY <1>10, <1>11, <1>12, ClassifiedKeeps

LEMMA StartPollKeeps ==
  ASSUME RegistryInv, StartPoll PROVE RegistryInv'
<1> USE DEF RegistryInv
<1> DEFINE n == IF kind = "sweep" THEN sweep.page ELSE 1
<1>1. /\ tick = "idle" /\ tick' = "fetching"
      /\ UNCHANGED <<kind, budget, board, row, aged, firstSeen, mixed, tag, sweep, unwritten,
                     inflight, stamp, matchVars>>
  BY DEF StartPoll, boardVars
<1>2. sweep.page \in Nat \ {0} /\ board \in Seq(Posting)
  BY DEF RegistryTyped, TickTyped, SiteTyped
<1>3. /\ fetch' = [NoFetch EXCEPT !.page = n]
      /\ \/ kind = "sweep" /\ sweep.on /\ UNCHANGED <<recent, steady, calm>>
         \/ /\ ~(kind = "sweep" /\ sweep.on)
            /\ recent' = {} /\ steady' = Listed(board) /\ calm' = (kind # "whole" /\ fetch'.page = 1)
  BY DEF StartPoll
<1>4. /\ fetch' \in FetchType /\ fetch'.outcome = "none" /\ fetch'.page = n /\ fetch'.got = {}
      /\ ~fetch'.ended
  <2>1. n \in Nat \ {0}
    BY <1>2
  <2> HIDE DEF n
  <2>2. NoFetch \in FetchType /\ NoFetch.outcome = "none" /\ NoFetch.got = {} /\ ~NoFetch.ended
    BY DEF NoFetch, FetchType, Outcome
  <2>3. fetch' = [NoFetch EXCEPT !.page = n]
    BY <1>3
  <2> QED BY <2>1, <2>2, <2>3 DEF FetchType
<1>5. ~sweep.on => recent' = {} /\ steady' = Listed(board) /\ calm' = (kind # "whole" /\ n = 1)
  BY <1>3, <1>4
<1>6. sweep.on => kind = "sweep" /\ UNCHANGED <<recent, steady, calm>>
  BY <1>3 DEF TickFits
<1> HIDE <1>3
<1>7. RegistryTyped'
  <2>1. Listed(board) \subseteq Posting
    BY <1>2 DEF Listed
  <2>2. SiteTyped'
    BY <1>1, <1>5, <1>6, <2>1 DEF RegistryTyped, SiteTyped
  <2>3. RowsTyped' /\ MatchTyped'
    BY <1>1, <1>5, <1>6 DEF RegistryTyped, RowsTyped, MatchTyped, matchVars
  <2>4. TickTyped'
    BY <1>1, <1>4 DEF RegistryTyped, TickTyped, FetchType
  <2> QED BY <2>2, <2>3, <2>4 DEF RegistryTyped
<1>8. RowsFit' /\ TickFits'
  BY <1>1, <1>4, <1>5, <1>6 DEF RowsFit, TickFits
<1>9. WholeFits'
  BY <1>1, <1>4, <1>5, <1>6 DEF WholeFits
<1>10. TagsFit'
  BY <1>1, <1>4 DEF TagsFit
<1>11. PagesFit'
  <2>1. CASE sweep.on
    BY <1>1, <1>4, <1>6, <2>1 DEF PagesFit
  <2>2. CASE ~sweep.on
    <3>2. calm' => kind # "whole" /\ fetch'.page = 1
      BY <1>4, <1>5, <2>2
    <3>3. ~(\E i \in 1 .. Len(board') : i < 1)
      BY <1>1, <1>2
    <3>4. fetch'.outcome = "none" /\ tick' = "fetching" /\ ~sweep'.on
      BY <1>1, <1>4, <2>2
    <3>5. steady' \subseteq Listed(board)'
      BY <1>1, <1>5, <2>2
    <3> HIDE DEF n
    <3> QED BY <3>2, <3>3, <3>4, <3>5 DEF PagesFit
  <2> QED BY <2>1, <2>2
<1>12. MatchFits'
  BY <1>1, SearchUntouched
<1> QED BY <1>7, <1>8, <1>9, <1>10, <1>11, <1>12

LEMMA BeginUpsertKeeps ==
  ASSUME RegistryInv, NEW p \in Posting, BeginUpsert(p) PROVE RegistryInv'
<1> USE DEF RegistryInv
<1>1. /\ tick = "writing" /\ p \in unwritten /\ inflight' = p /\ stamp' = "new"
      /\ UNCHANGED <<kind, budget, board, steady, calm, row, recent, aged, firstSeen, mixed, tag,
                     sweep, tick, fetch, unwritten, matchVars>>
  BY DEF BeginUpsert, siteVars, rowVars, boardVars
<1>2. RegistryTyped'
  <2>1. SiteTyped' /\ RowsTyped' /\ MatchTyped'
    BY <1>1 DEF RegistryTyped, SiteTyped, RowsTyped, MatchTyped, matchVars
  <2>2. TickTyped'
    BY <1>1 DEF RegistryTyped, TickTyped, Moment
  <2> QED BY <2>1, <2>2 DEF RegistryTyped
<1>3. RowsFit' /\ TickFits' /\ WholeFits'
  BY <1>1 DEF RowsFit, TickFits, WholeFits
<1>4. TagsFit' /\ PagesFit'
  BY <1>1 DEF TagsFit, PagesFit
<1>5. \A q \in Posting : (Behind(q)' => Behind(q)) /\ (DueToPass(q)' => DueToPass(q))
  BY <1>1 DEF Behind, DueToPass
<1>6. MatchFits'
  BY <1>1, <1>5, SearchStands
<1> QED BY <1>2, <1>3, <1>4, <1>6

\* What an upsert under way does to the rows, when it commits.
LEMMA UpsertedRows ==
  ASSUME RegistryInv, inflight # NoPosting, Upserted(inflight)
  PROVE  /\ inflight \in Posting /\ tick = "writing" /\ inflight \in fetch.got
         /\ row' \in [Posting -> {"none", "active", "closed"}] /\ firstSeen' \in [Posting -> Moment]
         /\ aged' \subseteq Posting /\ row'[inflight] = "active"
         /\ firstSeen'[inflight] = IF row[inflight] = "none" THEN stamp ELSE firstSeen[inflight]
         /\ \A q \in Posting \ {inflight} : row'[q] = row[q] /\ firstSeen'[q] = firstSeen[q]
<1>1. inflight \in Posting /\ stamp \in Moment /\ tick = "writing" /\ inflight \in fetch.got
  BY DEF RegistryInv, RegistryTyped, TickTyped, TickFits
<1>2. row \in [Posting -> {"none", "active", "closed"}] /\ firstSeen \in [Posting -> Moment] /\ aged \subseteq Posting
  BY DEF RegistryInv, RegistryTyped, RowsTyped
<1> QED BY <1>1, <1>2 DEF Upserted

\* The upsert that has ended moves no posting towards the watermark.
LEMMA UpsertEnds ==
  ASSUME RegistryInv, UNCHANGED matchVars, inflight' = NoPosting,
         UNCHANGED <<row, firstSeen>> \/ (inflight # NoPosting /\ Upserted(inflight))
  PROVE  MatchFits'
<1>1. NoPosting \notin Posting
  BY RegistryAssumption
<1>2. CASE UNCHANGED <<row, firstSeen>>
  <2>1. \A q \in Posting : (Behind(q)' => Behind(q)) /\ (DueToPass(q)' => DueToPass(q))
    BY <1>1, <1>2 DEF Behind, DueToPass
  <2> QED BY <1>2, <2>1, SearchStands
<1>3. CASE inflight # NoPosting /\ Upserted(inflight)
  <2>1. \A q \in Posting : row[q] # "none" => row'[q] # "none" /\ firstSeen'[q] = firstSeen[q]
    BY <1>3, UpsertedRows
  <2>2. \A q \in Posting : (Behind(q)' => Behind(q)) /\ (DueToPass(q)' => DueToPass(q))
    BY <1>1, <1>3, UpsertedRows DEF Behind, DueToPass
  <2> QED BY <2>1, <2>2, SearchStands
<1> QED BY <1>2, <1>3

\* A tick that does not mix editions writes the saved one, which the rows agree with.
LEMMA SameEdition ==
  ASSUME RegistryInv, ~mixed, ~Mixes, NEW e \in tag
  PROVE  kind = "whole" /\ fetch.got = e /\ {p \in Posting : row[p] = "active"} = e
BY DEF RegistryInv, TagsFit, Mixes

\* An upsert that commits leaves them agreeing, or mixes.
LEMMA UpsertMixesOrAgrees ==
  ASSUME RegistryInv, inflight # NoPosting, Upserted(inflight),
         mixed' = (mixed \/ Mixes), UNCHANGED <<kind, tag>>
  PROVE  TagsFit' /\ mixed' \in BOOLEAN
<1>1. mixed' \in BOOLEAN
  BY Zenon
<1>2. ASSUME ~mixed', NEW e \in tag PROVE {p \in Posting : row'[p] = "active"} = e
  <2>1. ~mixed /\ ~Mixes
    BY <1>2
  <2>2. fetch.got = e /\ {p \in Posting : row[p] = "active"} = e
    BY <2>1, SameEdition
  <2>3. \A p \in Posting : row'[p] = "active" <=> row[p] = "active"
    BY <2>2, UpsertedRows
  <2> QED BY <2>2, <2>3
<1> QED BY <1>1, <1>2 DEF RegistryInv, TagsFit

LEMMA CommitUpsertKeeps ==
  ASSUME RegistryInv, CommitUpsert PROVE RegistryInv'
<1> USE DEF RegistryInv
<1>1. /\ inflight # NoPosting /\ Upserted(inflight) /\ recent' = recent \cup {inflight}
      /\ unwritten' = unwritten \ {inflight} /\ inflight' = NoPosting /\ stamp' = "none"
      /\ mixed' = (mixed \/ Mixes)
      /\ UNCHANGED <<kind, budget, board, steady, calm, tag, sweep, tick, fetch, matchVars>>
  BY DEF CommitUpsert, siteVars, boardVars
<1>2. /\ inflight \in Posting /\ tick = "writing" /\ inflight \in fetch.got
      /\ row' \in [Posting -> {"none", "active", "closed"}] /\ firstSeen' \in [Posting -> Moment]
      /\ aged' \subseteq Posting /\ row'[inflight] = "active"
      /\ \A q \in Posting \ {inflight} : row'[q] = row[q] /\ firstSeen'[q] = firstSeen[q]
  BY <1>1, UpsertedRows
<1>3. TagsFit' /\ mixed' \in BOOLEAN
  BY <1>1, UpsertMixesOrAgrees
<1>4. RegistryTyped'
  <2>1. SiteTyped' /\ MatchTyped'
    BY <1>1 DEF RegistryTyped, SiteTyped, MatchTyped, matchVars
  <2>2. RowsTyped'
    BY <1>1, <1>2, <1>3 DEF RegistryTyped, RowsTyped
  <2>3. TickTyped'
    BY <1>1 DEF RegistryTyped, TickTyped, Moment
  <2> QED BY <2>1, <2>2, <2>3 DEF RegistryTyped
<1>5. RowsFit' /\ TickFits'
  <2>1. RowsFit'
    BY <1>1, <1>2 DEF RowsFit, RegistryTyped, RowsTyped
  <2>2. TickFits'
    BY <1>1, <1>2 DEF TickFits
  <2> QED BY <2>1, <2>2
<1>6. WholeFits'
  BY <1>1, <1>2 DEF WholeFits
<1>7. PagesFit'
  BY <1>1, <1>2 DEF PagesFit
<1>8. MatchFits'
  BY <1>1, UpsertEnds
<1> QED BY <1>4, <1>5, <1>6, <1>7, <1>8, <1>3

LEMMA WritesDoneKeeps ==
  ASSUME RegistryInv, WritesDone PROVE RegistryInv'
<1> USE DEF RegistryInv
<1>1. /\ tick = "writing" /\ unwritten = {} /\ inflight = NoPosting /\ tick' = "closing"
      /\ UNCHANGED <<kind, budget, board, steady, calm, row, recent, aged, firstSeen, mixed, tag,
                     sweep, fetch, unwritten, inflight, stamp, matchVars>>
  BY DEF WritesDone, siteVars, rowVars, boardVars
<1>2. RegistryTyped'
  BY <1>1 DEF RegistryTyped, SiteTyped, RowsTyped, TickTyped, MatchTyped, matchVars
<1>3. RowsFit' /\ TickFits' /\ WholeFits'
  BY <1>1 DEF RowsFit, TickFits, WholeFits
<1>4. TagsFit' /\ PagesFit'
  BY <1>1 DEF TagsFit, PagesFit
<1>5. MatchFits'
  BY <1>1, SearchUntouched
<1> QED BY <1>2, <1>3, <1>4, <1>5

LEMMA CloseStaleKeeps ==
  ASSUME RegistryInv, CloseStale PROVE RegistryInv'
<1> USE DEF RegistryInv
<1>1. /\ tick = "closing" /\ tick' = "saving"
      /\ UNCHANGED <<kind, budget, board, steady, calm, recent, aged, firstSeen, tag, sweep, fetch,
                     unwritten, inflight, stamp, matchVars>>
      /\ mixed' = (mixed \/ Mixes)
  BY DEF CloseStale, siteVars, boardVars
<1>2. row' = [p \in Posting |-> IF MayClose /\ row[p] = "active" /\ p \notin recent
                                THEN "closed" ELSE row[p]]
  BY DEF CloseStale
<1>3. /\ row' \in [Posting -> {"none", "active", "closed"}]
      /\ \A p \in Posting : row'[p] = "none" <=> row[p] = "none"
      /\ \A p \in recent : row'[p] = row[p]
      /\ \A p \in Posting : row'[p] = "active" => row[p] = "active"
      /\ MayClose => \A p \in Posting : row'[p] = "active" => p \in recent
      /\ recent \subseteq Posting
  BY <1>2 DEF RegistryTyped, RowsTyped
<1>4. RegistryTyped'
  <2>1. SiteTyped' /\ MatchTyped' /\ TickTyped'
    BY <1>1 DEF RegistryTyped, SiteTyped, MatchTyped, TickTyped, matchVars
  <2>2. mixed' \in BOOLEAN
    BY <1>1, Zenon
  <2>3. RowsTyped'
    BY <1>1, <1>3, <2>2 DEF RegistryTyped, RowsTyped
  <2> QED BY <2>1, <2>3 DEF RegistryTyped
<1>5. RowsFit' /\ TickFits'
  BY <1>1, <1>3 DEF RowsFit, TickFits
<1>6. WholeFits'
  BY <1>1, <1>3 DEF WholeFits, MayClose
<1>7. TagsFit' /\ PagesFit'
  <2>1. ASSUME ~mixed', NEW e \in tag PROVE {p \in Posting : row'[p] = "active"} = e
    <3>1. ~mixed /\ ~Mixes
      BY <1>1, <2>1
    <3>2. fetch.got = e /\ {p \in Posting : row[p] = "active"} = e
      BY <3>1, SameEdition
    <3>3. fetch.got \subseteq recent
      BY <1>1 DEF TickFits
    <3>4. \A p \in Posting : row'[p] = "active" <=> row[p] = "active"
      BY <1>3, <3>2, <3>3
    <3> QED BY <3>2, <3>4
  <2>2. TagsFit'
    BY <1>1, <2>1 DEF TagsFit
  <2>3. PagesFit'
    BY <1>1 DEF PagesFit
  <2> QED BY <2>2, <2>3
<1>8. MatchFits'
  <2>1. \A q \in Posting : (Behind(q)' => Behind(q)) /\ (DueToPass(q)' => DueToPass(q))
    BY <1>1, <1>3 DEF Behind, DueToPass
  <2> QED BY <1>1, <1>3, <2>1, SearchStands
<1> QED BY <1>4, <1>5, <1>6, <1>7, <1>8

LEMMA ConfirmKeeps ==
  ASSUME RegistryInv, Confirm PROVE RegistryInv'
<1> USE DEF RegistryInv
<1>1. /\ tick = "confirming" /\ tick' = "saving" /\ aged' \subseteq aged
      /\ UNCHANGED <<kind, budget, board, steady, calm, row, recent, firstSeen, mixed, tag, sweep,
                     fetch, unwritten, inflight, stamp, matchVars>>
  BY DEF Confirm, siteVars, boardVars
<1>2. kind = "whole" /\ fetch.outcome = "not_modified" /\ fetch.got = {} /\ recent = {}
  BY <1>1 DEF TickFits, WholeFits
<1>3. RegistryTyped'
  BY <1>1 DEF RegistryTyped, SiteTyped, RowsTyped, TickTyped, MatchTyped, matchVars
<1>4. RowsFit' /\ TickFits' /\ WholeFits'
  BY <1>1, <1>2 DEF RowsFit, TickFits, WholeFits
<1>5. TagsFit' /\ PagesFit'
  BY <1>1, <1>2 DEF TagsFit, PagesFit
<1>6. MatchFits'
  BY <1>1, SearchUntouched
<1> QED BY <1>3, <1>4, <1>5, <1>6

LEMMA SavePollStateKeeps ==
  ASSUME RegistryInv, SavePollState PROVE RegistryInv'
<1> USE DEF RegistryInv
<1>1. /\ tick = "saving" /\ tick' = "idle" /\ fetch' = NoFetch
      /\ UNCHANGED <<kind, budget, board, row, aged, firstSeen, unwritten, inflight, stamp, matchVars>>
  BY DEF SavePollState
<1>2. /\ \/ UNCHANGED <<tag, mixed>>
         \/ kind = "whole" /\ fetch.outcome = "ok" /\ tag' = {fetch.got} /\ mixed' = FALSE
      /\ \/ /\ kind # "sweep" \/ fetch.ended
            /\ sweep' = [page |-> 1, on |-> FALSE, saw |-> FALSE]
         \/ /\ kind = "sweep" /\ ~fetch.ended
            /\ sweep' = [page |-> fetch.page, on |-> TRUE, saw |-> sweep.saw \/ fetch.got # {}]
      /\ sweep'.on => UNCHANGED <<recent, steady, calm>>
      /\ ~sweep'.on => recent' = {} /\ steady' = {} /\ calm' = FALSE
  BY DEF SavePollState, Forget
<1>3. /\ fetch.page \in Nat \ {0} /\ fetch.ended \in BOOLEAN
      /\ fetch.got \subseteq recent /\ recent \subseteq Posting
  BY <1>1 DEF RegistryTyped, TickTyped, RowsTyped, TickFits
<1>4. /\ fetch' \in FetchType /\ fetch'.outcome = "none" /\ fetch'.got = {}
      /\ ~fetch'.ended
  BY <1>1 DEF NoFetch, FetchType, Outcome
<1>5. /\ sweep'.on => /\ kind = "sweep" /\ ~fetch.ended /\ sweep'.page = fetch.page
                      /\ UNCHANGED <<recent, steady, calm>>
      /\ ~sweep'.on => recent' = {} /\ steady' = {} /\ calm' = FALSE
  BY <1>2
<1>6. RegistryTyped'
  <2>1. sweep' \in [page : Nat \ {0}, on : BOOLEAN, saw : BOOLEAN]
    <3> DEFINE b == sweep.saw \/ fetch.got # {}
    <3>1. sweep' = [page |-> 1, on |-> FALSE, saw |-> FALSE]
          \/ sweep' = [page |-> fetch.page, on |-> TRUE, saw |-> b]
      BY <1>2
    <3>2. b \in BOOLEAN
      BY Zenon
    <3> HIDE DEF b
    <3>3. fetch.page \in Nat \ {0}
      BY <1>3
    <3>4. sweep' = [page |-> fetch.page, on |-> TRUE, saw |-> b] => sweep' \in [page : Nat \ {0}, on : BOOLEAN, saw : BOOLEAN]
      <4>1. \A m \in Nat \ {0}, c \in BOOLEAN :
              [page |-> m, on |-> TRUE, saw |-> c] \in [page : Nat \ {0}, on : BOOLEAN, saw : BOOLEAN]
        OBVIOUS
      <4> QED BY <3>2, <3>3, <4>1
    <3>5. sweep' = [page |-> 1, on |-> FALSE, saw |-> FALSE] => sweep' \in [page : Nat \ {0}, on : BOOLEAN, saw : BOOLEAN]
      OBVIOUS
    <3> QED BY <3>1, <3>4, <3>5
  <2>2. tag' \subseteq SUBSET Posting /\ mixed' \in BOOLEAN
    BY <1>2, <1>3 DEF RegistryTyped, TickTyped, RowsTyped
  <2>3. TickTyped'
    BY <1>1, <1>4, <2>1, <2>2 DEF RegistryTyped, TickTyped, FetchType
  <2>4. SiteTyped' /\ RowsTyped' /\ MatchTyped'
    BY <1>1, <1>5, <2>2 DEF RegistryTyped, SiteTyped, RowsTyped, MatchTyped, matchVars
  <2> QED BY <2>3, <2>4 DEF RegistryTyped
<1>7. RowsFit' /\ TickFits'
  BY <1>1, <1>4, <1>5 DEF RowsFit, TickFits
<1>8. WholeFits'
  BY <1>1, <1>4, <1>5 DEF WholeFits
<1>9. TagsFit'
  <2>1. CASE UNCHANGED <<tag, mixed>>
    BY <1>1, <2>1 DEF TagsFit
  <2>2. CASE kind = "whole" /\ fetch.outcome = "ok" /\ tag' = {fetch.got} /\ mixed' = FALSE
    <3>1. \A p \in Posting : row[p] = "active" => p \in fetch.got
      BY <1>1, <2>2 DEF WholeFits
    <3>2. \A p \in fetch.got : p \in Posting /\ row[p] = "active"
      BY <1>3 DEF RowsFit
    <3>3. {p \in Posting : row'[p] = "active"} = fetch.got
      BY <1>1, <3>1, <3>2
    <3> QED BY <1>1, <2>2, <3>3 DEF TagsFit
  <2> QED BY <1>2, <2>1, <2>2
<1>10. PagesFit'
  <2>1. CASE sweep'.on
    BY <1>1, <1>3, <1>4, <1>5, <2>1 DEF PagesFit
  <2>2. CASE ~sweep'.on
    BY <1>1, <1>4, <1>5, <2>2 DEF PagesFit
  <2> QED BY <2>1, <2>2
<1>11. MatchFits'
  BY <1>1, SearchUntouched
<1> QED BY <1>6, <1>7, <1>8, <1>9, <1>10, <1>11

\* A tick that ends without saving its board's state.
LEMMA TickAbandoned ==
  ASSUME RegistryInv, tick \in {"fetching", "writing", "closing", "confirming", "saving", "penalizing"},
         tick' = "idle", fetch' = NoFetch,
         Forget(sweep.on), unwritten' = {}, inflight' = NoPosting, stamp' \in Moment,
         \/ UNCHANGED <<row, firstSeen, aged, mixed>>
         \/ inflight # NoPosting /\ Upserted(inflight) /\ mixed' = (mixed \/ Mixes),
         UNCHANGED <<kind, budget, board, boardVars, matchVars>>
  PROVE  RegistryInv'
<1> USE DEF RegistryInv
<1>1. UNCHANGED <<kind, budget, board, tag, sweep, matchVars>>
  BY DEF boardVars
<1>2. /\ sweep.on => kind = "sweep" /\ UNCHANGED <<recent, steady, calm>>
      /\ ~sweep.on => recent' = {} /\ steady' = {} /\ calm' = FALSE
  BY DEF Forget, TickFits
<1>3. /\ fetch' \in FetchType /\ fetch'.outcome = "none" /\ fetch'.got = {}
      /\ ~fetch'.ended
  BY DEF NoFetch, FetchType, Outcome
<1>4. /\ row' \in [Posting -> {"none", "active", "closed"}] /\ firstSeen' \in [Posting -> Moment]
      /\ aged' \subseteq Posting
      /\ \A q \in Posting : row'[q] = "none" => firstSeen'[q] = "none"
      /\ \A q \in recent : row'[q] = "active"
      /\ mixed' \in BOOLEAN /\ TagsFit'
  <2>1. CASE UNCHANGED <<row, firstSeen, aged, mixed>>
    BY <1>1, <2>1 DEF RegistryTyped, RowsTyped, RowsFit, TagsFit
  <2>2. CASE inflight # NoPosting /\ Upserted(inflight) /\ mixed' = (mixed \/ Mixes)
    BY <1>1, <2>2, UpsertedRows, UpsertMixesOrAgrees DEF RegistryTyped, RowsTyped, RowsFit
  <2> QED BY <2>1, <2>2
<1>5. RegistryTyped'
  <2>1. TickTyped'
    BY <1>1, <1>3 DEF RegistryTyped, TickTyped, FetchType
  <2>2. SiteTyped' /\ MatchTyped'
    BY <1>1, <1>2 DEF RegistryTyped, SiteTyped, MatchTyped, matchVars
  <2>3. RowsTyped'
    BY <1>2, <1>4 DEF RegistryTyped, RowsTyped
  <2> QED BY <2>1, <2>2, <2>3 DEF RegistryTyped
<1>6. RowsFit'
  BY <1>2, <1>4 DEF RowsFit
<1>7. TickFits'
  BY <1>1, <1>3 DEF TickFits
<1>8. WholeFits'
  BY <1>1, <1>2, <1>3 DEF WholeFits
<1>9. PagesFit'
  BY <1>1, <1>2, <1>3 DEF PagesFit
<1>10. MatchFits'
  BY UpsertEnds
<1> QED BY <1>4, <1>5, <1>6, <1>7, <1>8, <1>9, <1>10

LEMMA PollStepKeeps ==
  ASSUME RegistryInv, PollStep PROVE RegistryInv'
<1>1. CASE Penalize
  <2>1. tick = "penalizing" /\ unwritten = {} /\ inflight = NoPosting /\ stamp \in Moment
    BY <1>1 DEF Penalize, RegistryInv, RegistryTyped, TickTyped, TickFits
  <2> QED BY <1>1, <2>1, TickAbandoned DEF Penalize
<1>2. CASE PollBreaksOff
  <2>1. tick \in {"fetching", "writing", "closing", "confirming", "saving", "penalizing"}
    BY <1>2 DEF PollBreaksOff, RegistryInv, RegistryTyped, TickTyped
  <2>2. stamp' \in Moment
    BY <1>2 DEF PollBreaksOff, Moment
  <2> QED BY <1>2, <2>1, <2>2, TickAbandoned DEF PollBreaksOff
<1> QED BY <1>1, <1>2, StartPollKeeps, FetchesKeep, FetchPageKeeps, BeginUpsertKeeps, CommitUpsertKeeps,
        WritesDoneKeeps, CloseStaleKeeps, ConfirmKeeps, SavePollStateKeeps DEF PollStep

-----------------------------------------------------------------------------
(* The registry: a match. *)

\* A step of the search leaves the poller's half as it is, if it gives no first_seen
\* to a posting without a row.
LEMMA PollerStands ==
  ASSUME RegistryInv,
         UNCHANGED <<siteVars, row, recent, aged, mixed, boardVars, tick, fetch, unwritten, inflight>>,
         firstSeen' \in [Posting -> Moment], stamp' \in Moment,
         \A p \in Posting : firstSeen[p] = "none" => firstSeen'[p] = "none",
         MatchTyped', MatchFits'
  PROVE  RegistryInv'
<1> USE DEF RegistryInv
<1>1. UNCHANGED <<kind, budget, board, steady, calm, row, recent, aged, mixed, tag, sweep, tick,
                  fetch, unwritten, inflight>>
  BY DEF siteVars, boardVars
<1>2. RegistryTyped'
  BY <1>1 DEF RegistryTyped, SiteTyped, RowsTyped, TickTyped
<1>3. RowsFit' /\ TickFits' /\ WholeFits'
  BY <1>1 DEF RowsFit, TickFits, WholeFits
<1>4. TagsFit' /\ PagesFit'
  BY <1>1 DEF TagsFit, PagesFit
<1> QED BY <1>2, <1>3, <1>4

\* What is known when a match begins its step.
LEMMA AtMatch ==
  ASSUME RegistryInv
  PROVE  /\ firstSeen \in [Posting -> Moment] /\ stamp \in Moment
         /\ row \in [Posting -> {"none", "active", "closed"}]
         /\ MatchTyped /\ MatchFits /\ Suiting \subseteq Posting
         /\ \A p \in Posting : row[p] = "none" => firstSeen[p] = "none"
BY RegistryAssumption DEF RegistryInv, RegistryTyped, RowsTyped, TickTyped, RowsFit

\* A step that leaves the moments alone leaves them where they were.
LEMMA MomentsStand ==
  ASSUME UNCHANGED <<row, firstSeen, inflight, stamp>>
  PROVE  \A p \in Posting : (Behind(p)' <=> Behind(p)) /\ (DueToPass(p)' <=> DueToPass(p))
BY DEF Behind, DueToPass

LEMMA StartMatchKeeps ==
  ASSUME RegistryInv, StartMatch PROVE RegistryInv'
<1> USE AtMatch
<1>1. /\ match' = "reading" /\ firstSeen' = Moved({"new"}, "mid")
      /\ stamp' = IF stamp = "new" THEN "mid" ELSE stamp
      /\ UNCHANGED <<siteVars, row, recent, aged, mixed, boardVars, tick, fetch, unwritten, inflight,
                     found, verdict>>
  BY DEF StartMatch
<1>2. /\ firstSeen' \in [Posting -> Moment] /\ stamp' \in Moment
      /\ \A p \in Posting : firstSeen'[p] = IF firstSeen[p] = "new" THEN "mid" ELSE firstSeen[p]
  BY <1>1 DEF Moved, Moment
<1>3. MatchTyped'
  BY <1>1 DEF MatchTyped
<1>4. \A p \in Posting : Behind(p)' => Behind(p)
  BY <1>1, <1>2 DEF Behind
<1>5. MatchFits'
  BY <1>1, <1>2, <1>4 DEF MatchFits, MatchTyped
<1> QED BY <1>1, <1>2, <1>3, <1>5, PollerStands

LEMMA ReadKeeps ==
  ASSUME RegistryInv, Read PROVE RegistryInv'
<1> USE AtMatch
<1>1. /\ match' = "scoring"
      /\ UNCHANGED <<siteVars, row, recent, aged, firstSeen, mixed, boardVars, tick, fetch, unwritten,
                     inflight, stamp>>
  BY DEF Read, rowVars, tickVars
<1>2. PICK window \in UpTo(MaxWindow, Unread) : \E c \in UpTo(MaxCandidates, window \ aged) :
        /\ found' = c \cap Suiting
        /\ verdict' = [p \in Suiting |-> IF Behind(p) THEN verdict[p]
                                         ELSE IF Excused(p, window, c) THEN "excused" ELSE "none"]
  BY DEF Read
<1>3. PICK c \in UpTo(MaxCandidates, window \ aged) :
        /\ found' = c \cap Suiting
        /\ verdict' = [p \in Suiting |-> IF Behind(p) THEN verdict[p]
                                         ELSE IF Excused(p, window, c) THEN "excused" ELSE "none"]
  BY <1>2
<1>4. window \subseteq Unread /\ Unread \subseteq Posting /\ c \subseteq window \ aged
  BY DEF UpTo, Unread
<1>5. /\ window = Unread \/ Cardinality(window) = MaxWindow
      /\ c = window \ aged \/ Cardinality(c) = MaxCandidates
  <2>1. IsFiniteSet(window) /\ IsFiniteSet(c)
    BY <1>4, RegistryAssumption, FS_Subset
  <2>2. Cardinality(window) \in Nat /\ Cardinality(c) \in Nat /\ MaxWindow \in Nat /\ MaxCandidates \in Nat
    BY <2>1, RegistryAssumption, FS_CardinalityType
  <2>3. /\ Cardinality(window) <= MaxWindow /\ (Cardinality(window) < MaxWindow => window = Unread)
        /\ Cardinality(c) <= MaxCandidates /\ (Cardinality(c) < MaxCandidates => c = window \ aged)
    BY DEF UpTo
  <2> QED BY <2>2, <2>3
<1>6. MatchTyped'
  BY <1>1, <1>3 DEF MatchTyped, Verdict
<1>7. \A p \in Suiting : Behind(p)' => verdict'[p] \in Final
  BY <1>1, <1>3, MomentsStand DEF MatchFits
<1>8. \A p \in Suiting : DueToPass(p)' => verdict'[p] \in Final \/ p \in found'
  <2>1. SUFFICES ASSUME NEW p \in Suiting, DueToPass(p), p \notin c
                 PROVE  Behind(p) \/ Excused(p, window, c)
    <3>1. \A p \in Suiting : Behind(p) => verdict'[p] \in Final
      BY <1>3 DEF MatchFits
    <3>2. \A p \in Suiting : ~Behind(p) /\ Excused(p, window, c) => verdict'[p] \in Final
      BY <1>3 DEF Final
    <3> QED BY <1>1, <1>3, <3>1, <3>2, MomentsStand
  <2>2. CASE firstSeen[p] = "mid"
    <3>1. row[p] \in {"active", "closed"}
      BY <2>2
    <3>2. row[p] = "active" => p \in Unread
      BY <2>1, <2>2 DEF Unread
    <3> QED BY <1>5, <2>1, <3>1, <3>2 DEF Excused
  <2>3. CASE p = inflight /\ row[p] = "none" /\ stamp = "mid"
    BY <2>3 DEF Excused
  <2> QED BY <2>1, <2>2, <2>3 DEF DueToPass
<1>9. \A p \in found' : row'[p] # "none" /\ firstSeen'[p] \in {"mid", "new"}
  BY <1>1, <1>3, <1>4 DEF Unread
<1>10. MatchFits'
  BY <1>7, <1>8, <1>9 DEF MatchFits
<1> QED BY <1>1, <1>6, <1>10, PollerStands

\* Scoring and publishing: what was found keeps its row and its moment, and what
\* leaves the match's hands has its verdict.
LEMMA HandedOn ==
  ASSUME RegistryInv, match \in {"scoring", "publishing"}, match' = "publishing",
         found' \subseteq found, verdict' \in [Suiting -> Verdict],
         \A p \in Suiting \ found : verdict'[p] = verdict[p],
         \A p \in found \ found' : verdict'[p] \in Final,
         UNCHANGED <<siteVars, rowVars, boardVars, tickVars>>
  PROVE  RegistryInv'
<1> USE AtMatch
<1>1. UNCHANGED <<siteVars, row, recent, aged, firstSeen, mixed, boardVars, tick, fetch, unwritten, inflight, stamp>>
  BY DEF rowVars, tickVars
<1>2. MatchTyped'
  BY DEF MatchTyped
<1>3. \A p \in Suiting : Behind(p)' => verdict'[p] \in Final
  <2>1. \A p \in found : p \in Posting /\ ~Behind(p)
    BY DEF MatchFits, MatchTyped, Behind
  <2> QED BY <1>1, <2>1, MomentsStand DEF MatchFits
<1>4. \A p \in Suiting : DueToPass(p)' => verdict'[p] \in Final \/ p \in found'
  BY <1>1, MomentsStand DEF MatchFits
<1>5. \A p \in found' : row'[p] # "none" /\ firstSeen'[p] \in {"mid", "new"}
  BY <1>1 DEF MatchFits
<1>6. MatchFits'
  BY <1>3, <1>4, <1>5 DEF MatchFits
<1> QED BY <1>1, <1>2, <1>6, PollerStands

LEMMA ScoresKeep ==
  ASSUME RegistryInv, Unequipped \/ Score \/ \E p \in Posting : Publish(p)
  PROVE  RegistryInv'
<1>1. verdict \in [Suiting -> Verdict] /\ found \subseteq Suiting
  BY AtMatch DEF MatchTyped
<1>2. CASE Unequipped
  <2>1. /\ match = "scoring" /\ match' = "publishing" /\ found' = {}
        /\ verdict' = [p \in Suiting |-> IF p \in found THEN "excused" ELSE verdict[p]]
        /\ UNCHANGED <<siteVars, rowVars, boardVars, tickVars>>
    BY <1>2 DEF Unequipped
  <2> QED BY <1>1, <2>1, HandedOn DEF Verdict, Final
<1>3. CASE Score
  <2>1. PICK scored \in SUBSET found, strong \in SUBSET found :
          /\ strong \subseteq scored /\ found' = strong
          /\ verdict' = [p \in Suiting |-> CASE p \in strong -> "picked"
                                             [] p \in scored \ strong -> "weighed"
                                             [] p \in found \ scored -> "omitted"
                                             [] OTHER -> verdict[p]]
    BY <1>3 DEF Score
  <2>2. match = "scoring" /\ match' = "publishing" /\ UNCHANGED <<siteVars, rowVars, boardVars, tickVars>>
    BY <1>3 DEF Score
  <2> QED BY <1>1, <2>1, <2>2, HandedOn DEF Verdict, Final
<1>4. CASE \E p \in Posting : Publish(p)
  <2>1. PICK p \in Posting : Publish(p)
    BY <1>4
  <2>2. /\ match = "publishing" /\ match' = "publishing" /\ p \in found /\ found' = found \ {p}
        /\ verdict' = [verdict EXCEPT ![p] = "published"]
        /\ UNCHANGED <<siteVars, rowVars, boardVars, tickVars>>
    BY <2>1 DEF Publish
  <2> QED BY <1>1, <2>2, HandedOn DEF Verdict, Final
<1> QED BY <1>2, <1>3, <1>4

\* A match that ends leaves behind what was behind, and, if the watermark moves to
\* its start, what was due to pass.
LEMMA EndMatchKeeps ==
  ASSUME RegistryInv, NEW to \in {"old", "new"}, EndMatch(to),
         to = "old" => match = "publishing" /\ found = {}
  PROVE  RegistryInv'
<1> USE AtMatch
<1>1. /\ match' = "idle" /\ found' = {} /\ firstSeen' = Moved({"mid"}, to)
      /\ stamp' = IF stamp = "mid" THEN to ELSE stamp
      /\ UNCHANGED <<siteVars, row, recent, aged, mixed, boardVars, tick, fetch, unwritten, inflight>>
      /\ verdict' = [p \in Suiting |-> IF Behind(p)' THEN verdict[p] ELSE "none"]
  BY DEF EndMatch
<1>2. /\ firstSeen' \in [Posting -> Moment] /\ stamp' \in Moment
      /\ \A p \in Posting : firstSeen'[p] = IF firstSeen[p] = "mid" THEN to ELSE firstSeen[p]
  BY <1>1 DEF Moved, Moment
<1>3. MatchTyped'
  BY <1>1 DEF MatchTyped, Verdict
<1>4. \A p \in Posting : Behind(p)' => Behind(p) \/ (to = "old" /\ DueToPass(p))
  BY <1>1, <1>2 DEF Behind, DueToPass
<1>5. \A p \in Suiting : Behind(p)' => verdict[p] \in Final
  BY <1>4 DEF MatchFits
<1>6. \A p \in Suiting : Behind(p)' => verdict'[p] \in Final
  BY <1>1, <1>5
<1>7. MatchFits'
  BY <1>1, <1>6 DEF MatchFits
<1> QED BY <1>1, <1>2, <1>3, <1>7, PollerStands

LEMMA RegistryNextInvariant ==
  ASSUME RegistryInv, [RegistryNext]_registryVars PROVE RegistryInv'
<1>1. CASE UNCHANGED registryVars
  <2>1. UNCHANGED <<siteVars, row, recent, aged, mixed, boardVars, tick, fetch, unwritten, inflight,
                    firstSeen, stamp, matchVars>>
    BY <1>1 DEF registryVars, rowVars, tickVars
  <2>2. MatchFits'
    BY <2>1, SearchUntouched
  <2>3. MatchTyped'
    BY <2>1, AtMatch DEF MatchTyped, matchVars
  <2> QED BY <2>1, <2>2, <2>3, AtMatch, PollerStands
<1>2. CASE MatchStep
  <2>1. AdvanceWatermark => EndMatch("old") /\ match = "publishing" /\ found = {}
    BY DEF AdvanceWatermark
  <2>2. MatchFails => EndMatch("new")
    BY DEF MatchFails
  <2> QED BY <1>2, <2>1, <2>2, StartMatchKeeps, ReadKeeps, ScoresKeep, EndMatchKeeps DEF MatchStep
<1> QED BY <1>1, <1>2, SiteKeeps, PollStepKeeps DEF RegistryNext

LEMMA RegistryInductive == RegistrySpec => []RegistryInv
BY RegistryInitInvariant, RegistryNextInvariant, PTL DEF RegistrySpec

-----------------------------------------------------------------------------
(* The registry: the theorems. *)

\* A board that the next poll may leave unread has the rows it lists, unless those of
\* another edition were written since its etag was saved.
THEOREM UnchangedBoards == RegistrySpec => []UnchangedBoardIsSettled
<1>1. RegistryInv => UnchangedBoardIsSettled
  BY DEF RegistryInv, TagsFit, UnchangedBoardIsSettled
<1> QED BY <1>1, RegistryInductive, PTL

\* No posting is left behind a saved search's watermark but for the reasons named.
THEOREM WatermarkPassesNothing == RegistrySpec => []NothingPassedOver
<1>1. RegistryInv => NothingPassedOver
  BY DEF RegistryInv, MatchFits, NothingPassedOver, Behind, Final
<1> QED BY <1>1, RegistryInductive, PTL

\* Only the closing step closes a posting, and then one the poll has missed: it is
\* not among the listed ones that the poll has read, which are all that stayed.
THEOREM ClosingIsJustified == RegistrySpec => ClosedOnlyWhenGone
<1>1. ASSUME RegistryInv, [RegistryNext]_registryVars, NEW p \in Posting,
             row[p] = "active", row'[p] = "closed"
      PROVE  p \notin steady \/ (kind # "whole" /\ ~calm)
  <2> USE DEF RegistryInv
  <2>1. row \in [Posting -> {"none", "active", "closed"}]
    BY <1>1 DEF RegistryTyped, RowsTyped
  <2>2. CloseStale
    <3>1. row' # row
      BY <1>1
    <3>2. ~CommitUpsert /\ ~PollBreaksOff
      <4>1. inflight # NoPosting /\ Upserted(inflight) => row'[p] \in {row[p], "active"}
        BY <1>1, <2>1, UpsertedRows
      <4> QED BY <1>1, <4>1 DEF CommitUpsert, PollBreaksOff
    <3>3. UNCHANGED rowVars \/ UNCHANGED <<row, recent, aged, mixed, boardVars>> => row' = row
      BY DEF rowVars
    <3>4. ~StartPoll /\ ~FetchWhole /\ ~FetchPage /\ ~FetchBreaks /\ ~BoardIsGone
      BY <3>1, <3>3 DEF StartPoll, FetchWhole, FetchPage, FetchBreaks, BoardIsGone, Classified
    <3>5. ~(\E q \in Posting : BeginUpsert(q)) /\ ~WritesDone /\ ~Confirm /\ ~SavePollState /\ ~Penalize
      BY <3>1, <3>3 DEF BeginUpsert, WritesDone, Confirm, SavePollState, Penalize
    <3>6. ~(\E q \in Posting : PostJob(q) \/ TakeDown(q) \/ SevenDaysPass(q))
      BY <3>1, <3>3 DEF PostJob, TakeDown, SevenDaysPass, Relist
    <3>7. ~MatchStep
      BY <3>1, <3>3 DEF MatchStep, StartMatch, Read, Unequipped, Score, Publish, AdvanceWatermark, MatchFails,
         EndMatch
    <3>8. ~UNCHANGED registryVars
      BY <3>1, <3>3 DEF registryVars
    <3> QED BY <1>1, <3>2, <3>4, <3>5, <3>6, <3>7, <3>8 DEF RegistryNext, PollStep
  <2>3. MayClose /\ p \notin recent /\ tick = "closing"
    BY <1>1, <2>1, <2>2 DEF CloseStale
  <2>4. fetch.got \subseteq recent /\ steady \subseteq Listed(board)
    BY <1>1, <2>3 DEF TickFits, PagesFit
  <2>5. CASE kind = "whole"
    BY <1>1, <2>3, <2>4, <2>5 DEF WholeFits
  <2>6. CASE kind # "whole" /\ calm
    <3>1. fetch.ended
      BY <1>1, <2>3, <2>6 DEF MayClose, PagesFit
    <3>2. fetch.page > Len(board) /\ \A i \in 1 .. Len(board) : i < fetch.page => board[i] \in fetch.got \cup recent
      BY <1>1, <2>3, <2>6, <3>1 DEF PagesFit
    <3>3. \A i \in 1 .. Len(board) : i < fetch.page
      BY <1>1, <3>2 DEF RegistryTyped, SiteTyped, TickTyped
    <3> QED BY <2>3, <2>4, <3>2, <3>3 DEF Listed
  <2> QED BY <2>5, <2>6
<1>2. RegistryInv /\ [RegistryNext]_registryVars =>
        [\A p \in Posting :
           row[p] = "active" /\ row'[p] = "closed"
             => p \notin steady \/ (kind # "whole" /\ ~calm)]_registryVars
  BY <1>1
<1> QED BY <1>2, RegistryInductive, PTL DEF RegistrySpec, ClosedOnlyWhenGone

-----------------------------------------------------------------------------

\* What the run's type invariant says besides: pages are no more than the postings
\* there are, because a board lists none twice.
PagesInRange ==
  /\ budget \in 1 .. MaxPages /\ searching \in BOOLEAN
  /\ fetch.page \in Page /\ sweep.page \in Page

LEMMA BoardIsShort ==
  ASSUME SiteTyped
  PROVE  /\ Cardinality(Posting) \in Nat /\ Len(board) \in Nat
         /\ Len(board) <= Cardinality(Posting)
<1> USE RegistryAssumption
<1>1. /\ Len(board) \in Nat /\ board \in [1 .. Len(board) -> Posting]
  BY DEF SiteTyped
<1>2. board \in Injection(1 .. Len(board), Posting)
  BY <1>1 DEF Injection, SiteTyped
<1>3. Cardinality(1 .. Len(board)) <= Cardinality(Posting)
  BY ONLY <1>2, FS_Injection, RegistryAssumption
<1>4. Cardinality(1 .. Len(board)) = Len(board)
  <2>1. 1 \in Int /\ Len(board) \in Int
    BY <1>1
  <2>2. Cardinality(1 .. Len(board)) = IF 1 > Len(board) THEN 0 ELSE Len(board) - 1 + 1
    BY ONLY <2>1, FS_Interval
  <2> QED BY <1>1, <2>2
<1> QED BY <1>1, <1>3, <1>4, FS_CardinalityType

LEMMA FewPostings == Cardinality(Posting) \in Nat /\ 1 \in Page
BY RegistryAssumption, FS_CardinalityType DEF Page

LEMMA PagesStayInRange ==
  ASSUME RegistryInv, PagesInRange, [RegistryNext]_registryVars
  PROVE  PagesInRange'
<1> USE FewPostings
<1>1. /\ board \in Seq(Posting) /\ Len(board) \in Nat /\ Len(board) <= Cardinality(Posting)
      /\ fetch \in FetchType /\ sweep \in [page : Nat \ {0}, on : BOOLEAN, saw : BOOLEAN]
      /\ SiteTyped
  BY BoardIsShort DEF RegistryInv, RegistryTyped, SiteTyped, TickTyped, FetchType
<1>2. ASSUME UNCHANGED <<budget, searching>>, fetch'.page \in {1, fetch.page, sweep.page},
             sweep'.page \in {1, fetch.page, sweep.page}
      PROVE  PagesInRange'
  BY <1>2 DEF PagesInRange, Page
<1>3. CASE UNCHANGED registryVars
  BY <1>2, <1>3 DEF registryVars, siteVars, tickVars, boardVars, matchVars, PagesInRange
<1>4. ASSUME NEW p \in Posting, PostJob(p) \/ TakeDown(p) PROVE PagesInRange'
  BY <1>1, <1>2, <1>4 DEF PostJob, TakeDown, Relist, matchVars, boardVars, tickVars
<1>5. CASE FetchPage
  <2>1. /\ UNCHANGED <<budget, searching, sweep, board>>
        /\ fetch'.page = IF fetch.page <= Len(board) THEN fetch.page + 1 ELSE fetch.page
    <3> DEFINE here == IF fetch.page <= Len(board) THEN {board[fetch.page]} ELSE {}
    <3>1. Cardinality(here) = IF fetch.page <= Len(board) THEN 1 ELSE 0
      BY FS_EmptySet, FS_Singleton
    <3> QED BY <1>1, <1>5, <3>1 DEF FetchPage, Classified, siteVars, boardVars, matchVars, FetchType
  <2>2. fetch'.page \in Page
    BY <1>1, <2>1 DEF PagesInRange, Page
  <2> QED BY <2>1, <2>2 DEF PagesInRange
<1>6. ASSUME FetchWhole \/ FetchBreaks \/ BoardIsGone PROVE PagesInRange'
  <2>1. UNCHANGED <<budget, searching, sweep, board>> /\ fetch'.page = fetch.page
    BY <1>1, <1>6 DEF FetchWhole, FetchBreaks, BoardIsGone, Classified, siteVars, boardVars, matchVars, FetchType
  <2> QED BY <1>2, <2>1 DEF PagesInRange
<1>7. ASSUME StartPoll \/ SavePollState \/ Penalize \/ PollBreaksOff PROVE PagesInRange'
  <2>1. UNCHANGED <<budget, searching, board>> /\ fetch'.page \in {1, sweep.page}
    BY <1>1, <1>7 DEF StartPoll, SavePollState, Penalize, PollBreaksOff, NoFetch, matchVars, siteVars
  <2>2. sweep'.page \in {1, fetch.page, sweep.page}
    BY <1>1, <1>7 DEF StartPoll, SavePollState, Penalize, PollBreaksOff, boardVars
  <2> QED BY <1>2, <2>1, <2>2 DEF PagesInRange
<1>8. ASSUME UNCHANGED <<siteVars, boardVars, fetch, searching>> PROVE PagesInRange'
  BY <1>2, <1>8 DEF siteVars, boardVars, PagesInRange
<1>9. CASE MatchStep
  BY <1>8, <1>9 DEF MatchStep, StartMatch, Read, Unequipped, Score, Publish, AdvanceWatermark,
     MatchFails, EndMatch, tickVars
<1>10. ASSUME NEW p \in Posting, SevenDaysPass(p) \/ BeginUpsert(p) PROVE PagesInRange'
  BY <1>8, <1>10 DEF SevenDaysPass, BeginUpsert, tickVars, matchVars
<1>11. ASSUME CommitUpsert \/ WritesDone \/ CloseStale \/ Confirm PROVE PagesInRange'
  BY <1>8, <1>11 DEF CommitUpsert, WritesDone, CloseStale, Confirm, matchVars
<1> QED BY <1>3, <1>4, <1>5, <1>6, <1>7, <1>9, <1>10, <1>11 DEF RegistryNext, PollStep

LEMMA PagesBeginInRange ==
  ASSUME RegistryInit PROVE PagesInRange
BY FewPostings, RegistryAssumption DEF RegistryInit, PagesInRange, NoFetch

\* The types of the registry, down to the pages.
THEOREM RegistryTyping == RegistrySpec => []RegistryTypeOK
<1>1. RegistryInv /\ PagesInRange => RegistryTypeOK
  <2>1. ASSUME RegistryInv, PagesInRange PROVE RegistryTypeOK
    BY <2>1, RegistryAssumption DEF RegistryInv, RegistryTyped, SiteTyped, RowsTyped, TickTyped, MatchTyped, PagesInRange, RegistryTypeOK,
       FetchType
  <2> QED BY <2>1
<1>2. RegistryInit => PagesInRange
  BY PagesBeginInRange
<1>3. RegistryInv /\ PagesInRange /\ [RegistryNext]_registryVars => PagesInRange'
  BY PagesStayInRange
<1> QED BY <1>1, <1>2, <1>3, RegistryInductive, PTL DEF RegistrySpec

-----------------------------------------------------------------------------
(* The parts together. *)

\* The parts share nothing: side by side each does what it does alone, so that every
\* theorem about one of them holds of the whole.
THEOREM PartsStandAlone ==
  ServicesSpec => DeletionSpec /\ LinkSpec /\ ChatSpec /\ RegistrySpec /\ ProfilesSpec
<1>1. ServicesInit => DeletionInit /\ LinkInit /\ ChatInit /\ RegistryInit /\ ProfilesInit
  BY DEF ServicesInit
<1>2. ASSUME [ServicesNext]_serviceVars
      PROVE  /\ [DeletionNext]_bothVars /\ [LinkNext]_linkVars /\ [ChatNext]_chatVars
             /\ [RegistryNext]_registryVars /\ [ProfilesNext]_profileVars
  <2>1. CASE UNCHANGED serviceVars
    BY <2>1 DEF serviceVars
  <2>2. CASE DeletionMoves
    BY <2>2 DEF DeletionMoves
  <2>3. CASE LinkMoves
    BY <2>3 DEF LinkMoves
  <2>4. CASE ChatMoves
    BY <2>4 DEF ChatMoves
  <2>5. CASE RegistryMoves
    BY <2>5 DEF RegistryMoves
  <2>6. CASE ProfilesMove
    BY <2>6 DEF ProfilesMove
  <2> QED BY <1>2, <2>1, <2>2, <2>3, <2>4, <2>5, <2>6 DEF ServicesNext
<1> QED
  BY <1>1, <1>2, PTL
     DEF ServicesSpec, DeletionSpec, LinkSpec, ChatSpec, RegistrySpec, ProfilesSpec

\* The types of every part, in every state of the whole.
THEOREM ServicesTyping == ServicesSpec => []TypesOK
<1>1. /\ PrepareTypeOK /\ DeletionTypeOK /\ LinkTypeOK /\ ChatTypeOK
      /\ RegistryTypeOK /\ ProfilesTypeOK
      => TypesOK
  BY DEF TypesOK
<1> QED
  BY <1>1, PartsStandAlone, DeletionTyping, LinkTyping, ChatTyping, RegistryTyping,
     ProfilesTyping, PTL

=============================================================================
