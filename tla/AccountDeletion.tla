--------------------------- MODULE AccountDeletion ---------------------------
(***************************************************************************)
(* Deleting an account: delete_account, its eight steps in their order,    *)
(* next to calls that prepare an application of the same user.  A step     *)
(* may fail, a request may die, and the person may send it again.          *)
(***************************************************************************)
EXTENDS Prepare

CONSTANTS
  MaxPasses,    \* _MAX_REMOVE_PASSES
  MaxRequests   \* bound: how often the person asks

ASSUME DeletionAssumption == MaxPasses \in Nat \ {0} /\ MaxRequests \in Nat

VARIABLES
  stage,        \* where the request is
  pass,         \* passes of _remove_files begun
  listing,      \* what the last listing of the folder held
  kept,         \* what exists about the person outside their rows and files
  failed,       \* history: best-effort steps that failed
  touched,      \* history: a file was removed from the folder of an open account
  requests      \* requests sent

deletionVars == <<stage, pass, listing, kept, failed, touched, requests>>
bothVars     == <<prepareVars, deletionVars>>

Stage == {"idle", "listing", "removing", "rechecking", "revoking", "forgetting",
          "deleting", "sweeping", "late_removing", "purging", "done"}

\* The grant at Google, the lockout counters (keyed by the chat subject), and
\* the audit log's entries of logins and of the deletion.
Outside == {"grant", "counters", "logins", "deletion_entry"}

DeletionTypeOK ==
  /\ stage \in Stage /\ pass \in 0 .. MaxPasses
  /\ listing \subseteq StoredAt
  /\ kept \subseteq Outside /\ failed \subseteq Outside \cup {"files"}
  /\ touched \in BOOLEAN /\ requests \in 0 .. MaxRequests

StageGoto(s) == stage' = s

\* The first request, or one more after an answer or a request that died.
Ask ==
  /\ stage \in {"idle", "done"} /\ requests < MaxRequests
  /\ StageGoto("listing") /\ pass' = 0 /\ requests' = requests + 1
  /\ UNCHANGED <<prepareVars, listing, kept, failed, touched>>

\* _remove_files: until a listing is empty, three times at most.
ListFolder ==
  /\ stage = "listing" /\ pass < MaxPasses
  /\ pass' = pass + 1 /\ listing' = files
  /\ StageGoto(IF files = {} THEN "revoking" ELSE "removing")
  /\ UNCHANGED <<prepareVars, kept, failed, touched, requests>>

RemoveListed ==
  /\ stage = "removing"
  /\ files' = files \ listing /\ touched' = (touched \/ account = "open")
  /\ StageGoto(IF pass < MaxPasses THEN "listing" ELSE "rechecking")
  /\ UNCHANGED <<account, rows, event, announced, callVars, historyVars,
                 pass, listing, kept, failed, requests>>

\* Files that are there after the last pass end the request, unanswered.
Recheck ==
  /\ stage = "rechecking"
  /\ StageGoto(IF files = {} THEN "revoking" ELSE "idle")
  /\ UNCHANGED <<prepareVars, pass, listing, kept, failed, touched, requests>>

\* A best-effort step deals with what it is for, or fails and is passed over.
\* It needs rows that only an open account has.
BestEffort(from, next, thing) ==
  /\ stage = from
  /\ \/ /\ kept' = IF account = "open" THEN kept \ {thing} ELSE kept
        /\ UNCHANGED <<failed, trouble>>
     \/ /\ trouble < MaxTrouble
        /\ trouble' = trouble + 1
        /\ failed' = failed \cup {thing}
        /\ UNCHANGED kept
  /\ StageGoto(next)
  /\ UNCHANGED <<account, prepareStores, callVars, lost, stray,
                 pass, listing, touched, requests>>

\* _revoke_gmail: the token is read from the user's credentials.
RevokeGmail == BestEffort("revoking", "forgetting", "grant")

\* _forget_link_attempts: the subjects are read from the user's identities.
ForgetLinkAttempts == BestEffort("forgetting", "deleting", "counters")

\* _delete_user: the rows go with it, and Auth writes the deletion down.  A user
\* who has gone is not an error.
DeleteUser ==
  /\ stage = "deleting"
  /\ account' = "gone" /\ rows' = {}
  /\ event' = [k \in Key |-> NoCall] /\ announced' = {}
  /\ kept' = IF account = "open" THEN kept \cup {"deletion_entry"} ELSE kept
  /\ StageGoto("sweeping")
  /\ UNCHANGED <<files, callVars, historyVars, pass, listing, failed, touched, requests>>

\* Mutation: no second look at the folder.
SweepNothing ==
  /\ stage = "sweeping" /\ listing' = {} /\ StageGoto("late_removing")
  /\ UNCHANGED <<prepareVars, pass, kept, failed, touched, requests>>

\* _sweep_late_files.
Sweep ==
  /\ stage = "sweeping" /\ listing' = files /\ StageGoto("late_removing")
  /\ UNCHANGED <<prepareVars, pass, kept, failed, touched, requests>>

RemoveLate ==
  /\ stage = "late_removing"
  /\ \/ files' = files \ listing /\ UNCHANGED <<failed, trouble>>
     \/ /\ trouble < MaxTrouble /\ trouble' = trouble + 1
        /\ failed' = failed \cup {"files"} /\ UNCHANGED files
  /\ StageGoto("purging")
  /\ UNCHANGED <<account, rows, event, announced, callVars, lost, stray,
                 pass, listing, kept, touched, requests>>

\* _purge_audit_log, by the id, which every entry carries.
PurgeAuditLog ==
  /\ stage = "purging"
  /\ \/ kept' = kept \ {"logins", "deletion_entry"} /\ UNCHANGED <<failed, trouble>>
     \/ /\ trouble < MaxTrouble /\ trouble' = trouble + 1
        /\ failed' = failed \cup {"logins", "deletion_entry"} /\ UNCHANGED kept
  /\ StageGoto("done")
  /\ UNCHANGED <<account, prepareStores, callVars, lost, stray,
                 pass, listing, touched, requests>>

\* AccountDeletionBlocked, a failed deletion of the user, or the process dies; a
\* removal that failed may have removed some of what it was given.
StopHalfway ==
  /\ stage \notin {"idle", "done"} /\ trouble < MaxTrouble
  /\ trouble' = trouble + 1
  /\ \E some \in SUBSET (IF stage \in {"removing", "late_removing"} THEN listing ELSE {}) :
       /\ files' = files \ some
       /\ touched' = (touched \/ (some # {} /\ account = "open"))
  /\ StageGoto("idle")
  /\ UNCHANGED <<account, rows, event, announced, callVars, lost, stray,
                 pass, listing, kept, failed, requests>>

-----------------------------------------------------------------------------
DeletionInit ==
  /\ PrepareInit
  /\ stage = "idle" /\ pass = 0 /\ listing = {}
  /\ kept = {"grant", "counters", "logins"} /\ failed = {}
  /\ touched = FALSE /\ requests = 0

DeletionNext ==
  \/ PrepareNext /\ UNCHANGED deletionVars
  \/ Ask \/ ListFolder \/ RemoveListed \/ Recheck \/ RevokeGmail
  \/ ForgetLinkAttempts \/ DeleteUser \/ Sweep \/ RemoveLate \/ PurgeAuditLog
  \/ StopHalfway

DeletionSpec == DeletionInit /\ [][DeletionNext]_bothVars

-----------------------------------------------------------------------------
(* A row of artifact_versions names a file that holds what its call wrote,  *)
(* unless the answer to its insert was lost (create_version then removes    *)
(* the file of a row that exists) or a deletion has begun, which takes the  *)
(* files first: create_version uploads before it inserts, removes only its  *)
(* own file, and the bucket refuses a path that is taken.                   *)
FileBehindRow == touched \/ rows \ lost \subseteq files

(* Once a deletion request has run to its end nothing of the person is left *)
(* but what a best-effort step failed to remove: no file, though calls that *)
(* resolved the account before go on uploading and inserting (the sweep     *)
(* after the deletion and create_version's clean-up share that work), no    *)
(* grant at Google, no counter, no entry of the audit log.  A file whose    *)
(* call has not come to its insert yet, or died there, is the exception.    *)
DeletionLeavesOnlyFailures ==
  stage = "done" =>
    /\ account = "gone" /\ kept \subseteq failed
    /\ \/ "files" \in failed
       \/ \A f \in files : f \in stray \/ at[f.by] \in {"inserting", "removing"}

(* An event of application.prepared is announced on the outbox, unless its  *)
(* call is between the two inserts of _write_event or ended there (the gap  *)
(* its docstring accepts): of two calls with one key exactly the one whose  *)
(* event was written announces it, and only once its documents are stored.  *)
PreparedIsAnnounced ==
  \A k \in Key : event[k] # NoCall =>
    /\ todo[event[k]] = {}
    /\ \/ k \in announced
       \/ at[event[k]] = "announcing"
       \/ at[event[k]] = "ended" /\ trouble > 0

(* A call that begins after one with its key has been answered runs no      *)
(* engine and stores nothing: run_prepare_application is idempotent on the  *)
(* key unless two calls pass its check together.                            *)
RetryRunsNoEngine ==
  [][\A c, d \in Call :
       KeyOf[c] = KeyOf[d] /\ at[d] = "answered" /\ at[c] = "new"
         => at'[c] # "generating"]_bothVars

(* What the docstring of create_version calls harmless: a file no row       *)
(* names, because its call ended before the insert.                         *)
OrphanIsHarmless ==
  [][\A c \in Call :
       at[c] = "uploading" /\ at'[c] = "ended" /\ trouble' = trouble
         => \E f \in files :
              /\ f.doc = Current(c) /\ f.version = version[c]
              /\ f \in rows \/ at[f.by] \in {"inserting", "removing"}]_bothVars
=============================================================================
