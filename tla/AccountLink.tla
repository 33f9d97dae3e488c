----------------------------- MODULE AccountLink -----------------------------
(***************************************************************************)
(* Linking a chat to a web account: mint_code, consume_link_code with      *)
(* merge_user_data (one transaction), and finish_link, which moves the     *)
(* stored files one request at a time and then retires the emptied chat    *)
(* account.  The same /link may be sent again, arrive twice, or die        *)
(* anywhere; calls that resolved the chat account before the link still    *)
(* upload and insert under it.                                             *)
(***************************************************************************)
EXTENDS Naturals, FiniteSets

CONSTANTS
  Chat,         \* chat subjects; each is also the account made for it at first contact
  Web,          \* the web account
  Code,         \* codes, one per call of mint_code
  Attempt,      \* deliveries of a /link
  Item,         \* documents
  HomeOf,       \* the chat account each document is made for
  Late,         \* documents whose create_version is still to come
  Nobody, NoItem,
  MaxFailed,    \* v_max_attempts
  MaxMishaps    \* bound: deliveries that die or run out of time, calls that die

ASSUME LinkAssumption ==
  /\ Web \notin Chat /\ Nobody \notin Chat \cup {Web} /\ NoItem \notin Item
  /\ HomeOf \in [Item -> Chat]
  /\ Late \subseteq Item /\ MaxFailed \in Nat \ {0} /\ MaxMishaps \in Nat

Account == Chat \cup {Web}
MaxLinkPasses == 2

VARIABLES
  live,         \* accounts in auth.users
  owner,        \* channel_identities: whose the chat is
  code,         \* link_codes: each code's state
  usedBy,       \* consumed_by_user_id and consumed_by_subject (the same name here)
  wrong,        \* link_code_attempts.failed_count; locked at MaxFailed
  artifact,     \* artifact_versions: a document's row, its user_id, its storage_key's prefix
  object,       \* the bucket: a document under an account, in its own place or with the orphans
  creating,     \* where the late create_version calls are
  young,        \* objects uploaded less than five minutes ago
  place,        \* where each delivery is
  work,         \* its source, its pass, what it listed, what it is moving where
  mishaps

linkTables == <<live, owner, code, usedBy, wrong>>
linkFiles  == <<artifact, object, creating, young>>
linkRun    == <<place, work>>
linkVars   == <<linkTables, linkFiles, linkRun, mishaps>>

ArtifactRow == [item : Item, user : Account, under : Account]
Object      == [item : Item, under : Account, dir : {"own", "orphans"}]
CodeState   == {"unminted", "minting", "pending", "expired", "consumed", "deleted"}
LinkPlace   == {"waiting", "resolved", "merging", "listing", "moving", "copying",
                "repointing", "rechecking", "removing", "counting",
                "retiring", "retired", "unfinished", "refused", "died"}
Work == [chat : Chat \cup {Nobody}, src : Chat \cup {Nobody},
         pass : 0 .. MaxLinkPasses, todo : SUBSET Item,
         item : Item \cup {NoItem}, dir : {"own", "orphans"}, blocked : BOOLEAN,
         calm : BOOLEAN]   \* history: nothing else was under way when it began

LinkTypeOK ==
  /\ live \subseteq Account
  /\ owner \in [Chat -> Account \cup {Nobody}]
  /\ code \in [Code -> CodeState]
  /\ usedBy \in [Code -> Chat \cup {Nobody}]
  /\ wrong \in [Chat -> 0 .. MaxFailed]
  /\ artifact \subseteq ArtifactRow /\ object \subseteq Object
  /\ creating \in [Late -> {"before", "uploaded", "inserted", "undone", "died"}]
  /\ young \subseteq Late
  /\ place \in [Attempt -> LinkPlace]
  /\ work \in [Attempt -> Work] /\ mishaps \in Nat

-----------------------------------------------------------------------------
(* mint_code, a delete and an insert; the person, and time. *)

BeginMint(k) ==
  /\ code[k] = "unminted"
  /\ code' = [c \in Code |-> IF c = k THEN "minting"
                             ELSE IF code[c] \in {"pending", "expired"} THEN "deleted"
                             ELSE code[c]]
  /\ UNCHANGED <<live, owner, usedBy, wrong, linkFiles, linkRun, mishaps>>

EndMint(k) ==
  /\ code[k] = "minting"
  /\ code' = [code EXCEPT ![k] = "pending"]
  /\ UNCHANGED <<live, owner, usedBy, wrong, linkFiles, linkRun, mishaps>>

Expire(k) ==
  /\ code[k] = "pending"
  /\ code' = [code EXCEPT ![k] = "expired"]
  /\ UNCHANGED <<live, owner, usedBy, wrong, linkFiles, linkRun, mishaps>>

\* Fifteen minutes without a failure: the count starts over and a lock ends.
CoolDown(s) ==
  /\ wrong[s] > 0
  /\ wrong' = [wrong EXCEPT ![s] = 0]
  /\ UNCHANGED <<live, owner, code, usedBy, linkFiles, linkRun, mishaps>>

\* /unlink, refused for a chat that is not linked to a web account.
Unlink(s) ==
  /\ owner[s] = Web
  /\ owner' = [owner EXCEPT ![s] = Nobody]
  /\ UNCHANGED <<live, code, usedBy, wrong, linkFiles, linkRun, mishaps>>

-----------------------------------------------------------------------------
(* create_version in a call that resolved the chat account earlier. *)

UploadLate(i) ==
  /\ creating[i] = "before"
  /\ object' = object \cup {[item |-> i, under |-> HomeOf[i], dir |-> "own"]}
  /\ young' = young \cup {i}
  /\ creating' = [creating EXCEPT ![i] = "uploaded"]
  /\ UNCHANGED <<linkTables, artifact, linkRun, mishaps>>

\* The row, or the file's removal when the account has gone; the call may die.
InsertLate(i) ==
  /\ creating[i] = "uploaded"
  /\ IF HomeOf[i] \in live
     THEN /\ artifact' = artifact \cup {[item |-> i, user |-> HomeOf[i], under |-> HomeOf[i]]}
          /\ creating' = [creating EXCEPT ![i] = "inserted"]
          /\ UNCHANGED object
     ELSE /\ object' = object \ {[item |-> i, under |-> HomeOf[i], dir |-> "own"]}
          /\ creating' = [creating EXCEPT ![i] = "undone"]
          /\ UNCHANGED artifact
  /\ UNCHANGED <<linkTables, young, linkRun, mishaps>>

\* The insert is committed but answered by an error: create_version removes the
\* file of a row that exists.
LoseInsertAnswer(i) ==
  /\ creating[i] = "uploaded" /\ HomeOf[i] \in live /\ mishaps < MaxMishaps
  /\ artifact' = artifact \cup {[item |-> i, user |-> HomeOf[i], under |-> HomeOf[i]]}
  /\ object' = object \ {[item |-> i, under |-> HomeOf[i], dir |-> "own"]}
  /\ creating' = [creating EXCEPT ![i] = "undone"]
  /\ mishaps' = mishaps + 1
  /\ UNCHANGED <<linkTables, young, linkRun>>

DieLate(i) ==
  /\ creating[i] = "uploaded" /\ mishaps < MaxMishaps
  /\ creating' = [creating EXCEPT ![i] = "died"]
  /\ mishaps' = mishaps + 1
  /\ UNCHANGED <<linkTables, artifact, object, young, linkRun>>

\* Five minutes are far longer than the insert after an upload takes.
GrowOld(i) ==
  /\ i \in young /\ creating[i] # "uploaded"
  /\ young' = young \ {i}
  /\ UNCHANGED <<linkTables, artifact, object, creating, linkRun, mishaps>>

-----------------------------------------------------------------------------
(* consume_link_code. *)

Move(x, p) == place' = [place EXCEPT ![x] = p]

OthersIdle(x) ==
  \A y \in Attempt \ {x} : place[y] \in {"waiting", "retired", "unfinished", "refused", "died"}

LateSettled == young = {} /\ \A i \in Late : creating[i] \notin {"before", "uploaded"}

\* The sender's account is read when the message is taken up.
Resolve(x) ==
  /\ place[x] = "waiting" /\ Move(x, "resolved")
  /\ \E s \in Chat :
       /\ owner[s] # Nobody
       /\ work' = [work EXCEPT ![x].chat = s,
                               ![x].src = IF owner[s] = Web THEN Nobody ELSE owner[s],
                               ![x].calm = OthersIdle(x) /\ LateSettled]
  /\ UNCHANGED <<linkTables, linkFiles, mishaps>>

\* merge_user_data: every row becomes the target's; storage keys stay as they are.
Merged(src) == {[r EXCEPT !.user = IF @ = src THEN Web ELSE @] : r \in artifact}

Refuse(x, s) == Move(x, "refused") /\ UNCHANGED <<owner, usedBy, artifact, work>>

\* A wrong or an expired code, counted; or one this chat has linked with
\* before and is still linked by, which resumes that link.
ConsumeUnusable(x, k) ==
  LET s == work[x].chat
      resumes == code[k] = "consumed" /\ usedBy[k] = s /\ owner[s] = Web IN
  /\ code[k] # "pending" /\ UNCHANGED code
  /\ IF resumes
     THEN /\ Move(x, "merging") /\ work' = [work EXCEPT ![x].src = usedBy[k]]
          /\ UNCHANGED <<owner, usedBy, artifact, wrong>>
     ELSE /\ wrong' = [wrong EXCEPT ![s] = @ + 1]
          /\ Refuse(x, s)

\* Mutation: the code stays pending.
ConsumePendingKept(x, k) ==
  LET s == work[x].chat IN
  /\ code[k] = "pending" /\ UNCHANGED <<code, wrong>>
  /\ IF \E t \in Chat : owner[t] = Web
     THEN Refuse(x, s)
     ELSE /\ usedBy' = [usedBy EXCEPT ![k] = s]
          /\ owner' = [owner EXCEPT ![s] = Web]
          /\ artifact' = Merged(s)
          /\ Move(x, "merging")
          /\ UNCHANGED work

\* A pending code is burned whatever comes of it.  A chat linked to its owner
\* already, or an owner that has another chat, leads to no merge; otherwise the
\* merge runs, in the same transaction.
ConsumePending(x, k) ==
  LET s == work[x].chat IN
  /\ code[k] = "pending" /\ code' = [code EXCEPT ![k] = "consumed"] /\ UNCHANGED wrong
  /\ IF \E t \in Chat : owner[t] = Web
     THEN Refuse(x, s)
     ELSE /\ usedBy' = [usedBy EXCEPT ![k] = s]
          /\ owner' = [owner EXCEPT ![s] = Web]
          /\ artifact' = Merged(s)
          /\ Move(x, "merging")
          /\ UNCHANGED work

\* The identity row is locked first: its owner must be the account resolved
\* before, and a chat that is locked out stays so.
Consume(x) ==
  LET s == work[x].chat
      resolved == IF work[x].src = Nobody THEN Web ELSE work[x].src IN
  /\ place[x] = "resolved"
  /\ IF owner[s] # resolved \/ wrong[s] = MaxFailed
     THEN Refuse(x, s) /\ UNCHANGED <<code, wrong>>
     ELSE \E k \in Code : ConsumeUnusable(x, k) \/ ConsumePending(x, k)
  /\ UNCHANGED <<live, object, creating, young, mishaps>>

-----------------------------------------------------------------------------
(* finish_link: a merge, one pass over the files, a recount; twice at most. *)

FinishMerge(x) ==
  LET s == work[x].src IN
  /\ place[x] = "merging"
  /\ CASE s \notin live -> Move(x, "retired") /\ UNCHANGED <<artifact, work>>
       [] s \in live /\ owner[work[x].chat] # Web ->
            Move(x, "unfinished") /\ UNCHANGED <<artifact, work>>
       [] OTHER -> /\ artifact' = Merged(s)
                   /\ work' = [work EXCEPT ![x].pass = @ + 1]
                   /\ Move(x, "listing")
  /\ UNCHANGED <<linkTables, object, creating, young, mishaps>>

Under(account) == {o \in object : o.under = account}

ListObjects(x) ==
  /\ place[x] = "listing"
  /\ work' = [work EXCEPT ![x].todo = {o.item : o \in Under(work[x].src)}]
  /\ Move(x, "moving")
  /\ UNCHANGED <<linkTables, linkFiles, mishaps>>

RowsNaming(i, account) == {r \in artifact : r.item = i /\ r.under = account}

\* Mutation: an object without a row is an orphan, whatever its age.
PickObjectOfAnyAge(x) ==
  /\ place[x] = "moving"
  /\ \E i \in work[x].todo :
       LET s == work[x].src
           leftover == RowsNaming(i, Web) # {} /\ [item |-> i, under |-> Web, dir |-> "own"] \in object
           onward == RowsNaming(i, s) # {} \/ leftover IN
       /\ work' = [work EXCEPT ![x].todo = @ \ {i}, ![x].item = i,
                               ![x].dir = IF onward THEN "own" ELSE "orphans"]
       /\ Move(x, "copying")
  /\ UNCHANGED <<linkTables, linkFiles, mishaps>>

\* _move_object reads the rows that name the object.  With one, it goes onward
\* with its row; with none but a row and the same bytes at the place onward, it
\* is what an earlier move left; else it is an orphan, unless it is young.
PickObject(x) ==
  /\ place[x] = "moving"
  /\ \E i \in work[x].todo :
       LET s == work[x].src
           leftover == RowsNaming(i, Web) # {} /\ [item |-> i, under |-> Web, dir |-> "own"] \in object
           onward == RowsNaming(i, s) # {} \/ leftover IN
       /\ work' = [work EXCEPT ![x].todo = @ \ {i}, ![x].item = i,
                               ![x].dir = IF onward THEN "own" ELSE "orphans"]
       /\ Move(x, IF onward \/ i \notin young THEN "copying" ELSE "moving")
  /\ UNCHANGED <<linkTables, linkFiles, mishaps>>

\* _copy_or_verify.  An object another delivery has removed fails this one, and
\* the pass goes on with the next.
CopyObject(x) ==
  LET i == work[x].item IN
  /\ place[x] = "copying"
  /\ IF [item |-> i, under |-> work[x].src, dir |-> "own"] \in object
     THEN /\ object' = object \cup {[item |-> i, under |-> Web, dir |-> work[x].dir]}
          /\ Move(x, "repointing")
     ELSE Move(x, "moving") /\ UNCHANGED object
  /\ UNCHANGED <<linkTables, artifact, creating, young, work, mishaps>>

RepointRows(x) ==
  /\ place[x] = "repointing"
  /\ artifact' = IF work[x].dir = "orphans" THEN artifact
                 ELSE {[r EXCEPT !.under = IF r.item = work[x].item /\ @ = work[x].src
                                           THEN Web ELSE @] : r \in artifact}
  /\ Move(x, "rechecking")
  /\ UNCHANGED <<linkTables, object, creating, young, work, mishaps>>

\* A row that names the object now keeps it where it is; a copy made for the
\* orphans is taken back, anything else blocks the link.  An insert that is never
\* five minutes late (GrowOld) leaves nothing for this second look to find.
RecheckRows(x) ==
  LET i == work[x].item
      orphan == work[x].dir = "orphans" IN
  /\ place[x] = "rechecking"
  /\ IF RowsNaming(i, work[x].src) = {}
     THEN Move(x, "removing") /\ UNCHANGED <<object, work>>
     ELSE /\ object' = IF orphan THEN object \ {[item |-> i, under |-> Web, dir |-> "orphans"]}
                       ELSE object
          /\ work' = [work EXCEPT ![x].blocked = ~orphan]
          /\ Move(x, IF orphan THEN "moving" ELSE "counting")
  /\ UNCHANGED <<linkTables, artifact, creating, young, mishaps>>

RemoveOriginal(x) ==
  /\ place[x] = "removing"
  /\ object' = object \ {[item |-> work[x].item, under |-> work[x].src, dir |-> "own"]}
  /\ Move(x, "moving")
  /\ UNCHANGED <<linkTables, artifact, creating, young, work, mishaps>>

\* Mutation: keys whose object is gone stay as they are.
RewriteNothing(x) ==
  /\ place[x] = "moving" /\ work[x].todo = {}
  /\ Move(x, "counting")
  /\ UNCHANGED <<linkTables, linkFiles, work, mishaps>>

\* The end of a pass: _rewrite_dangling_keys, for rows whose object is gone.
RewriteDangling(x) ==
  LET s == work[x].src IN
  /\ place[x] = "moving" /\ work[x].todo = {}
  /\ artifact' = {[r EXCEPT !.under =
                     IF @ = s /\ r.item \notin {o.item : o \in Under(s)} THEN Web ELSE @]
                    : r \in artifact}
  /\ Move(x, "counting")
  /\ UNCHANGED <<linkTables, object, creating, young, work, mishaps>>

\* The time budget ends a pass early; the count then ends the link.
RunOutOfTime(x) ==
  /\ place[x] = "moving" /\ work[x].todo # {} /\ mishaps < MaxMishaps
  /\ mishaps' = mishaps + 1
  /\ work' = [work EXCEPT ![x].pass = MaxLinkPasses]
  /\ Move(x, "counting")
  /\ UNCHANGED <<linkTables, linkFiles>>

\* user_owned_row_counts.
Owns(account) ==
  \/ \E s \in Chat : owner[s] = account
  \/ \E r \in artifact : r.user = account \/ r.under = account
  \/ Under(account) # {}

Recount(x) ==
  /\ place[x] = "counting"
  /\ Move(x, IF ~Owns(work[x].src) THEN "retiring"
             ELSE IF work[x].blocked \/ work[x].pass = MaxLinkPasses THEN "unfinished"
             ELSE "merging")
  /\ UNCHANGED <<linkTables, linkFiles, work, mishaps>>

\* finish_link_delete_source counts again, under a lock of the user's row; the
\* deletion would take with it whatever the source still owned.
Retire(x) ==
  LET s == work[x].src IN
  /\ place[x] = "retiring"
  /\ IF s \in live /\ (owner[work[x].chat] # Web \/ Owns(s))
     THEN Move(x, "unfinished") /\ UNCHANGED <<live, artifact>>
     ELSE /\ Move(x, "retired") /\ live' = live \ {s}
          /\ artifact' = {r \in artifact : r.user # s}
  /\ UNCHANGED <<owner, code, usedBy, wrong, object, creating, young, work, mishaps>>

\* The delivery dies, or a request fails outside what is contained.
Die(x) ==
  /\ place[x] \notin {"waiting", "resolved", "retired", "unfinished", "refused", "died"}
  /\ mishaps < MaxMishaps
  /\ mishaps' = mishaps + 1
  /\ Move(x, "died")
  /\ UNCHANGED <<linkTables, linkFiles, work>>

-----------------------------------------------------------------------------
LinkInit ==
  /\ live = Account /\ owner = [s \in Chat |-> s]
  /\ code = [k \in Code |-> "unminted"] /\ usedBy = [k \in Code |-> Nobody]
  /\ wrong = [s \in Chat |-> 0]
  /\ artifact = {[item |-> i, user |-> HomeOf[i], under |-> HomeOf[i]] : i \in Item \ Late}
  /\ object = {[item |-> i, under |-> HomeOf[i], dir |-> "own"] : i \in Item \ Late}
  /\ creating = [i \in Late |-> "before"] /\ young = {}
  /\ place = [x \in Attempt |-> "waiting"]
  /\ work = [x \in Attempt |->
               [chat |-> Nobody, src |-> Nobody, pass |-> 0, todo |-> {}, item |-> NoItem,
                dir |-> "own", blocked |-> FALSE, calm |-> FALSE]]
  /\ mishaps = 0

FinishStep(x) ==
  \/ FinishMerge(x) \/ ListObjects(x) \/ PickObject(x) \/ CopyObject(x) \/ RepointRows(x)
  \/ RecheckRows(x) \/ RemoveOriginal(x) \/ RewriteDangling(x) \/ RunOutOfTime(x)
  \/ Recount(x) \/ Retire(x) \/ Die(x)

LinkNext ==
  \/ \E k \in Code : BeginMint(k) \/ EndMint(k) \/ Expire(k)
  \/ \E s \in Chat : CoolDown(s) \/ Unlink(s)
  \/ \E i \in Late : UploadLate(i) \/ InsertLate(i) \/ LoseInsertAnswer(i) \/ DieLate(i) \/ GrowOld(i)
  \/ \E x \in Attempt : Resolve(x) \/ Consume(x) \/ FinishStep(x)

LinkSpec == LinkInit /\ [][LinkNext]_linkVars

-----------------------------------------------------------------------------
(* No document is lost: once a document has a row, in every state some row  *)
(* of a living account names an object that exists, wherever a link was     *)
(* interrupted, repeated or run twice at once, and however a late upload    *)
(* and its insert fall between the steps of _move_object and the retiring.  *)
NoDocumentLost ==
  \A i \in Item :
    (i \notin Late \/ creating[i] = "inserted") =>
      \E r \in artifact : /\ r.item = i /\ r.user \in live
                          /\ [item |-> i, under |-> r.under, dir |-> "own"] \in object

(* A chat is linked, and its account emptied, only by a code of its own that *)
(* the web account minted; no code serves two chats, though the identity was *)
(* read before the code is consumed and a chat may be unlinked in between.   *)
(* A chat that was refused keeps its account, alive and with its documents.  *)
RefusedKeepsAccount ==
  \A s \in Chat :
    (\A k \in Code : usedBy[k] # s) =>
      /\ owner[s] = s /\ s \in live
      /\ \A r \in artifact : HomeOf[r.item] = s => r.user = s /\ r.under = s

(* Everything in finish_link may run again: a delivery that has the files to *)
(* itself ends with the source retired, whatever an earlier one left behind  *)
(* when it died between two steps, unless it runs out of time or the chat is *)
(* unlinked meanwhile.  Only late calls and young objects are waited for.    *)
ResentLinkFinishes ==
  [][\A x \in Attempt :
       /\ place[x] \in {"counting", "retiring"} /\ work[x].calm /\ OthersIdle(x)
       /\ work[x].todo = {} /\ owner[work[x].chat] = Web
       => place'[x] # "unfinished"]_linkVars
=============================================================================
