------------------------------- MODULE Prepare -------------------------------
(***************************************************************************)
(* Preparing an application: run_prepare_application with the two stores   *)
(* it writes to, artifact_versions (a file in the bucket, then a row) and  *)
(* application_events (an event, then its outbox row).  One user, one      *)
(* application, several calls at once; nothing spans two requests to the   *)
(* database or the bucket.                                                 *)
(***************************************************************************)
EXTENDS Naturals, FiniteSets, FiniteSetsExt

CONSTANTS
  Call,         \* calls of run_prepare_application
  Key,          \* idempotency keys
  KeyOf,        \* the key each call carries
  NoCall,       \* absence of a call
  MaxTrouble    \* bound: steps that fail for a reason outside the model

ASSUME PrepareAssumption ==
  /\ KeyOf \in [Call -> Key] /\ NoCall \notin Call /\ MaxTrouble \in Nat

VARIABLES
  account,      \* auth.users: "open" or "gone"; every row goes with it
  rows,         \* artifact_versions: which call wrote which version of what
  files,        \* the bucket, likewise: the path is <user>/<artifact>/<version>
  event,        \* application_events: the call whose result the key's event holds
  announced,    \* keys with a row in event_outbox
  at,           \* where each call is
  todo,         \* documents its engine run produced, not stored yet
  version,      \* the version create_version computed
  answer,       \* whose result the call returned
  lost,         \* history: rows whose insert was answered by an error
  stray,        \* history: files whose call broke off before inserting or removing
  trouble       \* steps that failed

Document == {"resume", "cover_letter"}
StoredAt == [doc : Document, version : Nat \ {0}, by : Call]

prepareStores == <<rows, files, event, announced>>
callVars      == <<at, todo, version, answer>>
historyVars   == <<lost, stray, trouble>>
prepareVars   == <<account, prepareStores, callVars, historyVars>>

CallPlace == {"new", "generating", "versioning", "uploading", "inserting", "removing",
              "recording", "writing", "announcing", "answered", "ended"}

PrepareTypeOK ==
  /\ account \in {"open", "gone"}
  /\ rows \subseteq StoredAt /\ files \subseteq StoredAt
  /\ event \in [Key -> Call \cup {NoCall}] /\ announced \subseteq Key
  /\ at \in [Call -> CallPlace]
  /\ todo \in [Call -> SUBSET Document]
  /\ version \in [Call -> Nat]
  /\ answer \in [Call -> Call \cup {NoCall}]
  /\ lost \subseteq StoredAt /\ stray \subseteq StoredAt /\ trouble \in Nat

-----------------------------------------------------------------------------
CallGoto(c, place) == at' = [at EXCEPT ![c] = place]

\* The resume is stored before the cover letter.
Current(c) == IF "resume" \in todo[c] THEN "resume" ELSE "cover_letter"

Stored(c) == [doc |-> Current(c), version |-> version[c], by |-> c]

\* A path is taken, and a row's (artifact_id, version) too, whoever wrote it.
TakenIn(store, c) == \E s \in store : s.doc = Current(c) /\ s.version = version[c]

\* Mutation: the event is recorded after the first document.
AfterStoringOne(left) == "recording"

AfterStoring(left) == IF left = {} THEN "recording" ELSE "versioning"

-----------------------------------------------------------------------------
(* run_prepare_application. *)

\* Mutation: the check of the key is left out.
CheckNothing(c) ==
  /\ at[c] = "new"
  /\ CallGoto(c, IF account = "open" THEN "generating" ELSE "ended")
  /\ UNCHANGED <<account, prepareStores, todo, version, answer, historyVars>>

\* get_event_by_idempotency_key: a key with an event is answered from it; then
\* get_application, which finds nothing once the account has gone.
Check(c) ==
  /\ at[c] = "new"
  /\ LET recorded == event[KeyOf[c]] IN
       IF recorded # NoCall
       THEN /\ CallGoto(c, "answered")
            /\ answer' = [answer EXCEPT ![c] = recorded]
       ELSE /\ CallGoto(c, IF account = "open" THEN "generating" ELSE "ended")
            /\ UNCHANGED answer
  /\ UNCHANGED <<account, prepareStores, todo, version, historyVars>>

\* call_apply ends, minutes later: a gate may decline to write a resume.
Generate(c) ==
  /\ at[c] = "generating"
  /\ \E made \in {{}, {"resume"}, Document} :
       /\ todo' = [todo EXCEPT ![c] = made]
       /\ CallGoto(c, AfterStoring(made))
  /\ UNCHANGED <<account, prepareStores, version, answer, historyVars>>

-----------------------------------------------------------------------------
(* create_version, for one document after the other. *)

\* Mutation: the latest version instead of the one after it.
LatestVersion(c) ==
  /\ at[c] = "versioning"
  /\ version' = [version EXCEPT ![c] =
                   Max({0} \cup {s.version : s \in {t \in rows : t.doc = Current(c)}})]
  /\ CallGoto(c, "uploading")
  /\ UNCHANGED <<account, prepareStores, todo, answer, historyVars>>

NextVersion(c) ==
  /\ at[c] = "versioning"
  /\ version' = [version EXCEPT ![c] =
                   Max({0} \cup {s.version : s \in {t \in rows : t.doc = Current(c)}}) + 1]
  /\ CallGoto(c, "uploading")
  /\ UNCHANGED <<account, prepareStores, todo, answer, historyVars>>

\* Mutation: an upload that replaces what the path holds.
UploadOver(c) ==
  /\ at[c] = "uploading"
  /\ CallGoto(c, "inserting")
  /\ files' = {f \in files : f.doc # Current(c) \/ f.version # version[c]} \cup {Stored(c)}
  /\ UNCHANGED <<account, rows, event, announced, todo, version, answer, historyVars>>

\* The bucket refuses a path that is taken; nothing has been written then, and
\* the exception ends the call.
Upload(c) ==
  /\ at[c] = "uploading"
  /\ IF TakenIn(files, c)
     THEN CallGoto(c, "ended") /\ UNCHANGED files
     ELSE CallGoto(c, "inserting") /\ files' = files \cup {Stored(c)}
  /\ UNCHANGED <<account, rows, event, announced, todo, version, answer, historyVars>>

\* The unique index refuses a second row of one version, the foreign key a row
\* of an account that has gone; the file is then taken out again.
Insert(c) ==
  /\ at[c] = "inserting"
  /\ IF account = "gone" \/ TakenIn(rows, c)
     THEN CallGoto(c, "removing") /\ UNCHANGED <<rows, todo>>
     ELSE /\ rows' = rows \cup {Stored(c)}
          /\ todo' = [todo EXCEPT ![c] = @ \ {Current(c)}]
          /\ CallGoto(c, AfterStoring(todo'[c]))
  /\ UNCHANGED <<account, files, event, announced, version, answer, historyVars>>

\* An exception, though the insert may have been committed: its answer is lost.
InsertFails(c) ==
  /\ at[c] = "inserting" /\ trouble < MaxTrouble
  /\ \/ UNCHANGED <<rows, lost>>
     \/ /\ account = "open" /\ ~TakenIn(rows, c)
        /\ rows' = rows \cup {Stored(c)}
        /\ lost' = lost \cup {Stored(c)}
  /\ CallGoto(c, "removing")
  /\ trouble' = trouble + 1
  /\ UNCHANGED <<account, files, event, announced, todo, version, answer, stray>>

\* bucket.remove takes out what the path holds.
RemoveFile(c) ==
  /\ at[c] = "removing"
  /\ files' = files \ {f \in files : f.doc = Current(c) /\ f.version = version[c]}
  /\ CallGoto(c, "ended")
  /\ UNCHANGED <<account, rows, event, announced, todo, version, answer, historyVars>>

-----------------------------------------------------------------------------
(* record_event: look-ups, the event, its outbox row. *)

\* get_application raises for an account that has gone; an event another call
\* with this key has written ends record_event, and the call returns its own result.
Record(c) ==
  /\ at[c] = "recording"
  /\ CASE account = "gone" -> CallGoto(c, "ended") /\ UNCHANGED answer
       [] account = "open" /\ event[KeyOf[c]] # NoCall ->
            CallGoto(c, "answered") /\ answer' = [answer EXCEPT ![c] = c]
       [] OTHER -> CallGoto(c, "writing") /\ UNCHANGED answer
  /\ UNCHANGED <<account, prepareStores, todo, version, historyVars>>

WriteEvent(c) ==
  /\ at[c] = "writing"
  /\ IF account = "gone" \/ event[KeyOf[c]] # NoCall
     THEN CallGoto(c, "ended") /\ UNCHANGED event
     ELSE CallGoto(c, "announcing") /\ event' = [event EXCEPT ![KeyOf[c]] = c]
  /\ UNCHANGED <<account, rows, files, announced, todo, version, answer, historyVars>>

Announce(c) ==
  /\ at[c] = "announcing"
  /\ IF account = "gone"
     THEN CallGoto(c, "ended") /\ UNCHANGED <<announced, answer>>
     ELSE /\ announced' = announced \cup {KeyOf[c]}
          /\ CallGoto(c, "answered")
          /\ answer' = [answer EXCEPT ![c] = c]
  /\ UNCHANGED <<account, rows, files, event, todo, version, historyVars>>

\* Any other step fails, or the process dies: the call ends where it is.
BreakOff(c) ==
  /\ at[c] \notin {"new", "answered", "ended"} /\ trouble < MaxTrouble
  /\ stray' = IF at[c] \in {"inserting", "removing"} THEN stray \cup {Stored(c)} ELSE stray
  /\ CallGoto(c, "ended")
  /\ trouble' = trouble + 1
  /\ UNCHANGED <<account, prepareStores, todo, version, answer, lost>>

PrepareInit ==
  /\ account = "open" /\ rows = {} /\ files = {}
  /\ event = [k \in Key |-> NoCall] /\ announced = {}
  /\ at = [c \in Call |-> "new"] /\ todo = [c \in Call |-> {}]
  /\ version = [c \in Call |-> 0] /\ answer = [c \in Call |-> NoCall]
  /\ lost = {} /\ stray = {} /\ trouble = 0

PrepareStep(c) ==
  \/ Check(c) \/ Generate(c) \/ NextVersion(c) \/ Upload(c) \/ Insert(c)
  \/ InsertFails(c) \/ RemoveFile(c) \/ Record(c) \/ WriteEvent(c) \/ Announce(c)
  \/ BreakOff(c)

PrepareNext == \E c \in Call : PrepareStep(c)

PrepareSpec == PrepareInit /\ [][PrepareNext]_prepareVars
=============================================================================
