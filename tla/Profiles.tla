------------------------------ MODULE Profiles ------------------------------
(***************************************************************************)
(* The versions of one person's profile: create_pending_version (two       *)
(* inserts without a transaction), activate_version and                    *)
(* delete_pending_version (a read, then a delete), called by the profile   *)
(* routes and by the chat's Save and Cancel buttons, all of which may be   *)
(* under way at once.  The profile in use is the version activated last.   *)
(***************************************************************************)
EXTENDS Naturals, SequencesExt

CONSTANTS
  Import,       \* imports, from a pasted text, a file or a chat
  Content,
  ContentOf,    \* the content_hash of each import
  Press,        \* activations and cancellations: buttons pressed, routes called
  NoImport,
  MaxBreaks     \* bound: imports that die or fail halfway

ASSUME ProfilesAssumption ==
  /\ ContentOf \in [Import -> Content] /\ NoImport \notin Import
  /\ MaxBreaks \in Nat

VARIABLES
  draft,        \* profile_versions, under the import that inserted the row
  facts,        \* versions with their career_facts
  inUse,        \* activated versions by activated_at, the latest last
  cited,        \* versions a document refers to: their row cannot be deleted
  import,       \* where each import is
  gave,         \* the version it returned
  press,        \* what each press wants, of which version, and where it is
  surprised,    \* history: presses whose version was activated after they read it
  breaks

versionVars == <<draft, facts, inUse, cited>>
importVars  == <<import, gave, breaks>>
pressVars   == <<press, surprised>>
profileVars == <<versionVars, importVars, pressVars>>

PressState == [want : {"activate", "cancel", "nothing"}, of : Import \cup {NoImport},
               at : {"idle", "checked", "done", "refused"}]

ProfilesTypeOK ==
  /\ draft \in [Import -> {"none", "pending", "activated", "deleted"}]
  /\ facts \subseteq Import /\ cited \subseteq Import
  /\ inUse \in Seq(Import)
  /\ import \in [Import -> {"waiting", "missing", "inserted", "returned", "failed", "died"}]
  /\ gave \in [Import -> Import \cup {NoImport}]
  /\ press \in [Press -> PressState]
  /\ surprised \subseteq Press /\ breaks \in 0 .. MaxBreaks

Exists(v) == draft[v] \in {"pending", "activated"}
Same(i)   == {v \in Import : ContentOf[v] = ContentOf[i] /\ Exists(v)}

-----------------------------------------------------------------------------
(* create_pending_version. *)

\* An identical version is returned as it is.
LookUp(i) ==
  /\ import[i] = "waiting"
  /\ IF Same(i) = {}
     THEN import' = [import EXCEPT ![i] = "missing"] /\ gave' = gave
     ELSE /\ import' = [import EXCEPT ![i] = "returned"]
          /\ \E v \in Same(i) : gave' = [gave EXCEPT ![i] = v]
  /\ UNCHANGED <<versionVars, breaks, pressVars>>

\* unique (user_id, content_hash) decides between imports that both found nothing.
InsertVersion(i) ==
  /\ import[i] = "missing"
  /\ IF Same(i) = {}
     THEN /\ draft' = [draft EXCEPT ![i] = "pending"]
          /\ import' = [import EXCEPT ![i] = "inserted"]
     ELSE draft' = draft /\ import' = [import EXCEPT ![i] = "failed"]
  /\ UNCHANGED <<facts, inUse, cited, gave, breaks, pressVars>>

\* Mutation: facts belong to the person, written once.
InsertFactsByContent(i) ==
  /\ import[i] = "inserted"
  /\ import' = [import EXCEPT ![i] = "returned"]
  /\ gave' = [gave EXCEPT ![i] = i]
  /\ facts' = IF \E v \in Import : v # i /\ ContentOf[v] = ContentOf[i] /\ draft[v] # "none"
              THEN facts ELSE facts \cup {i}
  /\ UNCHANGED <<draft, inUse, cited, breaks, pressVars>>

\* The facts refer to the version, which another caller may have cancelled by now.
InsertFacts(i) ==
  /\ import[i] = "inserted"
  /\ IF Exists(i)
     THEN /\ facts' = facts \cup {i}
          /\ import' = [import EXCEPT ![i] = "returned"]
          /\ gave' = [gave EXCEPT ![i] = i]
     ELSE facts' = facts /\ gave' = gave /\ import' = [import EXCEPT ![i] = "failed"]
  /\ UNCHANGED <<draft, inUse, cited, breaks, pressVars>>

ImportBreaks(i) ==
  /\ import[i] \in {"missing", "inserted"} /\ breaks < MaxBreaks
  /\ import' = [import EXCEPT ![i] = "died"]
  /\ breaks' = breaks + 1
  /\ UNCHANGED <<versionVars, gave, pressVars>>

-----------------------------------------------------------------------------
(* activate_version and delete_pending_version. *)

\* A preview was returned, and its Save or Cancel is pressed, once or twice.
Shown == {gave[i] : i \in Import} \ {NoImport}

Activate(p, v) ==
  /\ press[p].at = "idle" /\ v \in Shown
  /\ IF Exists(v)
     THEN /\ draft' = [draft EXCEPT ![v] = "activated"]
          /\ inUse' = Append(RemoveFirst(inUse, v), v)
          /\ surprised' = surprised \cup
               {q \in Press : press[q].at = "checked" /\ press[q].of = v}
          /\ press' = [press EXCEPT ![p] = [want |-> "activate", of |-> v, at |-> "done"]]
     ELSE /\ UNCHANGED <<draft, inUse, surprised>>
          /\ press' = [press EXCEPT ![p] = [want |-> "activate", of |-> v, at |-> "refused"]]
  /\ UNCHANGED <<facts, cited, importVars>>

\* Mutation: the draft is not told from the profile.
CheckExists(p, v) ==
  /\ press[p].at = "idle" /\ v \in Shown
  /\ press' = [press EXCEPT ![p] = [want |-> "cancel", of |-> v,
                 at |-> IF Exists(v) THEN "checked" ELSE "refused"]]
  /\ UNCHANGED <<versionVars, importVars, surprised>>

\* Refused for a version that has gone or is activated already.
CheckDraft(p, v) ==
  /\ press[p].at = "idle" /\ v \in Shown
  /\ press' = [press EXCEPT ![p] = [want |-> "cancel", of |-> v,
                 at |-> IF draft[v] = "pending" THEN "checked" ELSE "refused"]]
  /\ UNCHANGED <<versionVars, importVars, surprised>>

\* The delete names the version and its owner only; career_facts go with the row.
DeleteDraft(p) ==
  /\ press[p].at = "checked"
  /\ LET v == press[p].of IN
       IF v \in cited
       THEN UNCHANGED versionVars
       ELSE /\ draft' = [draft EXCEPT ![v] = "deleted"]
            /\ facts' = facts \ {v}
            /\ inUse' = RemoveFirst(inUse, v)
            /\ cited' = cited
  /\ press' = [press EXCEPT ![p].at = IF press[p].of \in cited THEN "refused" ELSE "done"]
  /\ UNCHANGED <<importVars, surprised>>

\* A document is made from the profile in use and refers to it.
Cite ==
  /\ inUse # <<>> /\ Last(inUse) \notin cited
  /\ cited' = cited \cup {Last(inUse)}
  /\ UNCHANGED <<draft, facts, inUse, importVars, pressVars>>

-----------------------------------------------------------------------------
ProfilesInit ==
  /\ draft = [i \in Import |-> "none"]
  /\ facts = {} /\ inUse = <<>> /\ cited = {}
  /\ import = [i \in Import |-> "waiting"]
  /\ gave = [i \in Import |-> NoImport]
  /\ press = [p \in Press |-> [want |-> "nothing", of |-> NoImport, at |-> "idle"]]
  /\ surprised = {} /\ breaks = 0

ProfilesNext ==
  \/ \E i \in Import : LookUp(i) \/ InsertVersion(i) \/ InsertFacts(i) \/ ImportBreaks(i)
  \/ \E p \in Press, v \in Import : Activate(p, v) \/ CheckDraft(p, v)
  \/ \E p \in Press : DeleteDraft(p)
  \/ Cite

ProfilesSpec == ProfilesInit /\ [][ProfilesNext]_profileVars

-----------------------------------------------------------------------------
(* Properties. *)

\* A version an import returned has its facts, unless the import that inserted its
\* row broke off, or is still between the two inserts: an identical import is
\* answered with the row as it stands, and never completes it.
ReturnedIsWhole ==
  \A i \in Import : LET v == gave[i] IN
    v # NoImport /\ Exists(v) => v \in facts \/ import[v] \in {"inserted", "died"}

\* A version that was activated is deleted only by a cancellation that had read it
\* as a draft before that: the profile in use is lost to nothing but this race, and
\* a version with documents is not lost at all.
LostOnlyToARace ==
  [][\A v \in Import :
       draft[v] = "activated" /\ draft'[v] = "deleted"
         => v \notin cited /\ \E p \in surprised : press[p].of = v]_profileVars
==============================================================================
