---------------------------- MODULE StageChange ----------------------------
(***************************************************************************)
(* Stage changes of applications: change_application_stage in the database *)
(* (its row lock, its idempotency check, its three writes in one           *)
(* transaction), called by change_stage in applications_store.py from the  *)
(* web routes, the channels and the Gmail checker, several calls at once   *)
(* and the same command more than once: a key belongs to one intent, and a *)
(* double click or a retry sends it again.                                 *)
(***************************************************************************)
CONSTANTS
  Key,          \* (user, idempotency_key): no two users share one, it holds a UUID
  Application,
  Stage,        \* the statuses the function accepts
  Saved,        \* _DEFAULT_STATUS
  Applied,      \* 'applied'
  Never,        \* no event, no date, no such status, no such application
  NoOne,        \* nobody holds the row lock
  Caller        \* calls that may be running at once

ASSUME StageChangeAssumption ==
  /\ Saved \in Stage /\ Applied \in Stage
  /\ Never \notin Stage \cup Key \cup Application
  /\ NoOne \notin Caller

VARIABLES
  intent,       \* what each key asks for: [app, to]
  stage,        \* applications.status
  from,         \* application_events by key: the old stage recorded, or Never
  appliedBy,    \* applications.date_applied: the key that set it, or Never
  announced,    \* keys with a row in event_outbox
  lock,         \* which call's transaction holds the row of each application
  pc,           \* where each call is
  key,          \* the key each call was made with
  old           \* v_old_status of each call

tableVars == <<intent, stage, from, appliedBy, announced>>
callVars  == <<pc, key, old>>
vars      == <<tableVars, lock, callVars>>

\* A callback may name a status or an application that does not exist.
Intent == [app : Application \cup {Never}, to : Stage \cup {Never}]

\* A call that has ended is idle again, or ended "ok", "refused" or "conflict".
Place == {"idle", "locking", "checking", "writing", "ok", "refused", "conflict"}
Ended == {"idle", "ok", "refused", "conflict"}

TypeOK ==
  /\ intent \in [Key -> Intent]
  /\ stage \in [Application -> Stage]
  /\ from \in [Key -> Stage \cup {Never}]
  /\ appliedBy \in [Application -> Key \cup {Never}]
  /\ announced \subseteq Key
  /\ lock \in [Application -> Caller \cup {NoOne}]
  /\ pc \in [Caller -> Place]
  /\ key \in [Caller -> Key \cup {Never}]
  /\ old \in [Caller -> Stage \cup {Never}]

-----------------------------------------------------------------------------
(* One call. *)

App(c) == intent[key[c]].app
To(c)  == intent[key[c]].to

Goto(c, place) == pc' = [pc EXCEPT ![c] = place]

\* The end of a transaction, committed or rolled back.
Release(c) == lock' = [a \in Application |-> IF lock[a] = c THEN NoOne ELSE lock[a]]

\* A command is given for the first time, or again.
Call(c, k) ==
  /\ pc[c] \in Ended
  /\ key' = [key EXCEPT ![c] = k]
  /\ Goto(c, "locking")
  /\ UNCHANGED <<tableVars, lock, old>>

\* An unknown status (22023), or no such application of this user (P0001).
Refuse(c) ==
  /\ pc[c] = "locking"
  /\ To(c) \notin Stage \/ App(c) \notin Application
  /\ Goto(c, "refused")
  /\ UNCHANGED <<tableVars, lock, key, old>>

\* Mutation: the row is read without "for update".
ReadRowUnlocked(c) ==
  /\ pc[c] = "locking"
  /\ To(c) \in Stage /\ App(c) \in Application
  /\ old' = [old EXCEPT ![c] = stage[App(c)]]
  /\ Goto(c, "checking")
  /\ UNCHANGED <<tableVars, lock, key>>

\* Mutation: the status is left to the caller to check.
LockRowAnyStatus(c) ==
  /\ pc[c] = "locking"
  /\ App(c) \in Application
  /\ lock[App(c)] = NoOne
  /\ lock' = [lock EXCEPT ![App(c)] = c]
  /\ old' = [old EXCEPT ![c] = stage[App(c)]]
  /\ Goto(c, "checking")
  /\ UNCHANGED <<tableVars, key>>

\* select status ... for update: waits for the row, then reads it.
LockRow(c) ==
  /\ pc[c] = "locking"
  /\ To(c) \in Stage /\ App(c) \in Application
  /\ lock[App(c)] = NoOne
  /\ lock' = [lock EXCEPT ![App(c)] = c]
  /\ old' = [old EXCEPT ![c] = stage[App(c)]]
  /\ Goto(c, "checking")
  /\ UNCHANGED <<tableVars, key>>

\* The key has an event already: the current row is returned, nothing written.
AlreadyRan(c) ==
  /\ pc[c] = "checking"
  /\ from[key[c]] # Never
  /\ Release(c)
  /\ Goto(c, "ok")
  /\ UNCHANGED <<tableVars, key, old>>

NotYetRun(c) ==
  /\ pc[c] = "checking"
  /\ from[key[c]] = Never
  /\ Goto(c, "writing")
  /\ UNCHANGED <<tableVars, lock, key, old>>

\* Mutation: the outbox row is left to a later call.
EnterUnannounced(c) ==
  /\ stage' = [stage EXCEPT ![App(c)] = To(c)]
  /\ appliedBy' = [appliedBy EXCEPT ![App(c)] =
                     IF To(c) = Applied /\ @ = Never THEN key[c] ELSE @]
  /\ from' = [from EXCEPT ![key[c]] = old[c]]
  /\ UNCHANGED announced

\* Mutation: the date of applying is that of the latest move there.
EnterRedated(c) ==
  /\ stage' = [stage EXCEPT ![App(c)] = To(c)]
  /\ appliedBy' = [appliedBy EXCEPT ![App(c)] = IF To(c) = Applied THEN key[c] ELSE @]
  /\ from' = [from EXCEPT ![key[c]] = old[c]]
  /\ announced' = announced \cup {key[c]}

\* The update of the row and the two inserts.
Enter(c) ==
  /\ stage' = [stage EXCEPT ![App(c)] = To(c)]
  /\ appliedBy' = [appliedBy EXCEPT ![App(c)] =
                     IF To(c) = Applied /\ @ = Never THEN key[c] ELSE @]
  /\ from' = [from EXCEPT ![key[c]] = old[c]]
  /\ announced' = announced \cup {key[c]}

\* The three writes commit together, or unique (user_id, idempotency_key) rolls
\* them all back and 23505 reaches the route.
Write(c) ==
  /\ pc[c] = "writing"
  /\ IF from[key[c]] = Never
       THEN Enter(c) /\ Goto(c, "ok")
       ELSE UNCHANGED <<stage, appliedBy, from, announced>> /\ Goto(c, "conflict")
  /\ Release(c)
  /\ UNCHANGED <<intent, key, old>>

\* The transaction is cut off before it commits, or its answer is lost; the
\* caller cannot tell these apart from each other.
CutOff(c) ==
  /\ pc[c] \in {"locking", "checking", "writing", "ok"}
  /\ Release(c)
  /\ Goto(c, "idle")
  /\ UNCHANGED <<tableVars, key, old>>

Init ==
  /\ intent \in [Key -> Intent]
  /\ stage = [a \in Application |-> Saved]
  /\ from = [k \in Key |-> Never]
  /\ appliedBy = [a \in Application |-> Never]
  /\ announced = {}
  /\ lock = [a \in Application |-> NoOne]
  /\ pc = [c \in Caller |-> "idle"]
  /\ key = [c \in Caller |-> Never]
  /\ old = [c \in Caller |-> Never]

Run(c) ==
  \/ Refuse(c) \/ LockRow(c) \/ AlreadyRan(c) \/ NotYetRun(c) \/ Write(c)

Next ==
  \E c \in Caller : (\E k \in Key : Call(c, k)) \/ Run(c) \/ CutOff(c)

Spec == Init /\ [][Next]_vars

-----------------------------------------------------------------------------
(* Properties. *)

\* No call ever fails because its own command ran meanwhile: two calls with one
\* key wait for the same row, so the second one finds the event of the first.
NeverCollides == \A c \in Caller : pc[c] # "conflict"

\* A call that answers without an error has been carried out, once, by itself
\* or by the call it repeats: the move is in the log and it was announced.
OkIsDone ==
  \A c \in Caller :
    pc[c] = "ok" => from[key[c]] \in Stage /\ key[c] \in announced

\* The tables as a history: see StageLog.
History == INSTANCE StageLog
ImplementsStageLog == History!Spec
=============================================================================
