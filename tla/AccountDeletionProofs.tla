------------------------ MODULE AccountDeletionProofs ------------------------
(***************************************************************************)
(* Preparing applications next to the deletion of the account, proved for  *)
(* any number of calls, keys, requests and failures: a row keeps its file, *)
(* an event is announced, a retry runs no engine, and a deletion leaves    *)
(* nothing but what failed.                                                *)
(***************************************************************************)
EXTENDS AccountDeletion, WellFoundedInduction, FiniteSetTheorems, TLAPS

-----------------------------------------------------------------------------
(* The inductive invariant: the calls and their documents. *)

\* The rows go with the account, and come back with no call.
GoneIsEmpty == account = "gone" => rows = {} /\ \A k \in Key : event[k] = NoCall

Storing == {"versioning", "uploading", "inserting", "removing"}

\* A call stores what is still to be stored, under a version that it has; when
\* nothing is left it records.
Paperwork ==
  /\ \A c \in Call : at[c] \in Storing => Current(c) \in todo[c]
  /\ \A c \in Call : at[c] \in {"uploading", "inserting", "removing"} => version[c] > 0
  /\ \A c \in Call : at[c] \in {"recording", "writing", "announcing"} => todo[c] = {}

\* The latest version exists.
Versioned == \E n \in Nat : \A r \in rows : r.version <= n

\* An event is its call's, whose documents are stored, and who is past writing it.
Eventful ==
  /\ \A k \in Key : event[k] # NoCall =>
       /\ KeyOf[event[k]] = k /\ todo[event[k]] = {}
       /\ at[event[k]] \in {"announcing", "answered", "ended"}
       /\ at[event[k]] = "answered" => k \in announced
       /\ at[event[k]] = "ended" => k \in announced \/ trouble > 0
  /\ account = "open" =>
       \A c \in Call : at[c] \in {"announcing", "answered"} => event[KeyOf[c]] # NoCall

\* A path holds one file; while its call is at the insert nobody takes it out but
\* a deletion, and there is no row yet, or one nobody has heard of.
Shelved ==
  /\ \A f, g \in files : f.doc = g.doc /\ f.version = g.version => f = g
  /\ \A c \in Call : at[c] \in {"inserting", "removing"} /\ account = "open" /\ ~touched =>
       Stored(c) \in files
  /\ \A r \in rows :
       /\ at[r.by] \notin {"new", "generating"}
       /\ at[r.by] \in {"versioning", "uploading", "inserting"} => r.doc \notin todo[r.by]
       /\ at[r.by] = "removing" /\ r.doc = Current(r.by) => r \in lost

-----------------------------------------------------------------------------
(* The inductive invariant: the deletion. *)

\* What follows the deletion of the user follows it.
AfterUser == stage \in {"sweeping", "late_removing", "purging", "done"} => account = "gone"

\* The best-effort steps have been taken before the user goes.
Forgotten ==
  /\ account = "gone" \/ stage \in {"forgetting", "deleting"} => "grant" \in failed \cup (Outside \ kept)
  /\ account = "gone" \/ stage = "deleting" => "counters" \in failed \cup (Outside \ kept)
  /\ stage = "done" => kept \subseteq failed

\* A file whose call is at its insert, or broke off there: all there can be of
\* files after the sweep.
Fresh(f) == f \in stray \/ (at[f.by] \in {"inserting", "removing"} /\ f = Stored(f.by))

Swept ==
  /\ stage = "late_removing" => \A f \in files \ listing : Fresh(f)
  /\ stage \in {"purging", "done"} => "files" \in failed \/ \A f \in files : Fresh(f)

DeletionInv ==
  /\ PrepareTypeOK /\ DeletionTypeOK
  /\ GoneIsEmpty /\ Paperwork /\ Versioned /\ Eventful /\ Shelved /\ FileBehindRow
  /\ AfterUser /\ Forgotten /\ Swept

LEMMA DeletionInitInvariant ==
  ASSUME DeletionInit PROVE DeletionInv
<1> USE PrepareAssumption, DeletionAssumption DEF DeletionInit, PrepareInit
<1>1. PrepareTypeOK
  BY DEF PrepareTypeOK, CallPlace
<1>2. DeletionTypeOK
  <2>1. pass \in 0 .. MaxPasses /\ requests \in 0 .. MaxRequests
    OBVIOUS
  <2> QED BY <2>1 DEF DeletionTypeOK, Stage, Outside
<1>3. GoneIsEmpty /\ Paperwork /\ Versioned /\ Eventful
  BY DEF GoneIsEmpty, Paperwork, Storing, Versioned, Eventful
<1>4. Shelved /\ FileBehindRow /\ AfterUser /\ Forgotten /\ Swept
  BY DEF Shelved, FileBehindRow, AfterUser, Forgotten, Swept
<1> QED BY <1>1, <1>2, <1>3, <1>4 DEF DeletionInv

-----------------------------------------------------------------------------
(* Helpers: the latest version, and what a call's step leaves to the others. *)

\* A set of numbers with a bound has a greatest.
LEMMA GreatestExists ==
  ASSUME NEW n \in Nat, NEW S \in SUBSET (0 .. n), S # {}
  PROVE  \E i \in S : \A j \in S : j <= i
<1> DEFINE After(i) == i .. n
           T == {After(i) : i \in S}
           R == StrictSubsetOrdering(0 .. n)
<1>1. \A i \in S : After(i) \subseteq 0 .. n /\ IsFiniteSet(After(i))
  BY FS_Interval
<1>2. T \subseteq FiniteSubsetsOf(0 .. n) /\ T # {}
  BY <1>1 DEF FiniteSubsetsOf
<1>3. IsWellFoundedOn(R, FiniteSubsetsOf(0 .. n))
  BY FS_StrictSubsetOrderingWellFounded
<1>4. PICK x \in T : \A y \in T : ~(<<y, x>> \in R)
  <2> HIDE DEF T, R
  <2> QED BY <1>2, <1>3, WFMin
<1>5. PICK i \in S : x = After(i)
  BY <1>4
<1>6. ASSUME NEW j \in S, i < j
      PROVE  FALSE
  <2>1. After(j) \subseteq After(i) /\ i \in After(i) /\ i \notin After(j)
    BY <1>6
  <2>2. <<After(j), After(i)>> \in R
    BY <1>1, <2>1 DEF StrictSubsetOrdering
  <2> QED BY <1>4, <1>5, <2>2
<1> QED BY <1>6

\* The version after the latest is a version.
LEMMA NextVersionExists ==
  ASSUME PrepareTypeOK, Versioned, NEW d
  PROVE  Max({0} \cup {s.version : s \in {t \in rows : t.doc = d}}) + 1 \in Nat \ {0}
<1> DEFINE S == {0} \cup {s.version : s \in {t \in rows : t.doc = d}}
<1>1. PICK n \in Nat : \A r \in rows : r.version <= n
  BY DEF Versioned
<1>2. S \in SUBSET (0 .. n) /\ S # {}
  BY <1>1 DEF PrepareTypeOK, StoredAt
<1>3. \E i \in S : \A j \in S : i >= j
  <2> HIDE DEF S
  <2>1. PICK i \in S : \A j \in S : j <= i
    BY <1>1, <1>2, GreatestExists
  <2> QED BY <1>1, <1>2, <2>1
<1>4. Max(S) \in S
  <2> HIDE DEF S
  <2> QED BY <1>3 DEF Max
<1> HIDE DEF S
<1>5. Max(S) \in Nat
  <2> DEFINE m == Max(S)
  <2>1. m \in S
    BY <1>4
  <2> HIDE DEF m
  <2>2. m \in 0 .. n
    BY <1>2, <2>1
  <2>3. m \in Nat
    BY <1>1, <2>2
  <2> QED BY <2>3 DEF m
<1> QED BY <1>5 DEF S

\* The step of a call: the others, and the request, stay where they are.
StepOf(c) ==
  /\ \A d \in Call \ {c} : at'[d] = at[d] /\ todo'[d] = todo[d] /\ version'[d] = version[d]
  /\ UNCHANGED <<account, deletionVars>>

LEMMA OthersStay ==
  ASSUME NEW c \in Call, NEW d \in Call \ {c}, StepOf(c)
  PROVE  Current(d)' = Current(d) /\ Stored(d)' = Stored(d)
BY DEF StepOf, Current, Stored

LEMMA CurrentIs ==
  ASSUME PrepareTypeOK, Paperwork, NEW c \in Call
  PROVE  /\ Current(c) \in Document
         /\ at[c] \in {"uploading", "inserting", "removing"} => Stored(c) \in StoredAt
BY DEF PrepareTypeOK, Paperwork, Current, Stored, Document, StoredAt

\* The deletion's own part of the invariant, as the calls see it: what is fresh
\* stays so until it is taken out, and a call adds fresh files only.
LEMMA DeletionStands ==
  ASSUME DeletionInv, NEW c \in Call, StepOf(c), trouble' \in Nat,
         \A f \in files : Fresh(f) /\ f \in files' /\ account = "gone" => Fresh(f)',
         \A f \in files' \ files : Fresh(f)'
  PROVE  DeletionTypeOK' /\ AfterUser' /\ Forgotten' /\ Swept'
<1>1. UNCHANGED <<account, stage, pass, listing, kept, failed, touched, requests>>
  BY DEF StepOf, deletionVars
<1>2. DeletionTypeOK' /\ AfterUser' /\ Forgotten'
  BY <1>1 DEF DeletionInv, DeletionTypeOK, AfterUser, Forgotten
<1>3. Swept'
  BY <1>1 DEF DeletionInv, Swept, AfterUser
<1> QED BY <1>2, <1>3

-----------------------------------------------------------------------------
(* The steps of a call. *)

\* Steps that touch no store: the call looks, runs its engine, takes a version,
\* or breaks off.
LooksOnly(c) == Check(c) \/ Generate(c) \/ NextVersion(c) \/ Record(c) \/ BreakOff(c)

LEMMA LooksKeep ==
  ASSUME DeletionInv, NEW c \in Call, LooksOnly(c), UNCHANGED deletionVars
  PROVE  DeletionInv'
<1> USE PrepareAssumption DEF DeletionInv
<1>1. /\ UNCHANGED <<account, rows, files, event, announced, lost, deletionVars>>
      /\ \/ Check(c) \/ Generate(c) \/ NextVersion(c) \/ Record(c) \/ BreakOff(c)
      /\ at \in [Call -> CallPlace] /\ todo \in [Call -> SUBSET Document] /\ version \in [Call -> Nat]
      /\ answer \in [Call -> Call \cup {NoCall}]
      /\ trouble \in Nat
  BY DEF LooksOnly, Check, Generate, NextVersion, Record, BreakOff, prepareStores, historyVars, PrepareTypeOK
<1>2. StepOf(c)
  <2>1. CASE Check(c) \/ Record(c)
    BY <1>1, <2>1 DEF StepOf, Check, Record, CallGoto
  <2>2. CASE Generate(c) \/ NextVersion(c) \/ BreakOff(c)
    BY <1>1, <2>2 DEF StepOf, Generate, NextVersion, BreakOff, CallGoto
  <2> QED BY <1>1, <2>1, <2>2
<1>3. /\ at[c] \notin {"announcing", "answered", "ended"} \/ BreakOff(c)
      /\ at[c] \notin {"answered", "ended"}
  BY <1>1 DEF Check, Generate, NextVersion, Record, BreakOff
<1>4. /\ at' \in [Call -> CallPlace]
      /\ at'[c] \in {"generating", "versioning", "uploading", "recording", "writing", "answered", "ended"}
      /\ at'[c] = "generating" => at[c] = "new"
      /\ at'[c] = "versioning" => at[c] = "generating"
      /\ at'[c] = "uploading" => at[c] = "versioning"
      /\ at'[c] = "recording" => at[c] = "generating"
      /\ at'[c] = "writing" => at[c] = "recording"
      /\ at'[c] = "answered" => at[c] \in {"new", "recording"}
  <2>1. CASE Check(c)
    BY <1>1, <2>1 DEF Check, CallGoto, CallPlace
  <2>2. CASE Generate(c)
    BY <1>1, <2>2 DEF Generate, CallGoto, CallPlace, AfterStoring
  <2>3. CASE NextVersion(c)
    BY <1>1, <2>3 DEF NextVersion, CallGoto, CallPlace
  <2>4. CASE Record(c)
    BY <1>1, <2>4 DEF Record, CallGoto, CallPlace
  <2>5. CASE BreakOff(c)
    BY <1>1, <2>5 DEF BreakOff, CallGoto, CallPlace
  <2> QED BY <1>1, <2>1, <2>2, <2>3, <2>4, <2>5
<1>5. /\ todo' \in [Call -> SUBSET Document]
      /\ todo'[c] # todo[c] => at[c] = "generating"
      /\ at'[c] = "recording" => todo'[c] = {}
      /\ at'[c] = "versioning" => todo'[c] # {}
  BY <1>1 DEF Check, Generate, NextVersion, Record, BreakOff, CallGoto, AfterStoring, Document
<1>6. /\ version' \in [Call -> Nat]
      /\ version'[c] # version[c] => at[c] = "versioning"
      /\ at'[c] = "uploading" => version'[c] > 0
  <2>1. CASE NextVersion(c)
    <3> DEFINE m == Max({0} \cup {s.version : s \in {t \in rows : t.doc = Current(c)}}) + 1
    <3>1. m \in Nat \ {0}
      BY NextVersionExists
    <3>2. version' = [version EXCEPT ![c] = m] /\ at[c] = "versioning"
      BY <2>1 DEF NextVersion
    <3> HIDE DEF m
    <3> QED BY <1>1, <3>1, <3>2
  <2>2. CASE ~NextVersion(c)
    BY <1>1, <1>4, <2>2 DEF Check, Generate, Record, BreakOff, CallGoto, AfterStoring
  <2> QED BY <2>1, <2>2
<1>7. /\ answer' \in [Call -> Call \cup {NoCall}]
      /\ trouble' \in Nat /\ trouble <= trouble'
      /\ BreakOff(c) => trouble' > 0
      /\ stray \subseteq stray' /\ stray' \subseteq StoredAt
      /\ BreakOff(c) /\ at[c] \in {"inserting", "removing"} => Stored(c) \in stray'
  <2>1. CASE BreakOff(c)
    <3>1. stray' \subseteq StoredAt /\ stray \subseteq stray'
      BY <2>1, CurrentIs DEF BreakOff, PrepareTypeOK
    <3> QED BY <1>1, <2>1, <3>1 DEF BreakOff
  <2>2. CASE Check(c) \/ Generate(c) \/ NextVersion(c) \/ Record(c)
    <3>1. UNCHANGED <<stray, trouble>> /\ at[c] \notin {"inserting", "removing"}
      BY <2>2 DEF Check, Generate, NextVersion, Record, historyVars
    <3>2. answer' \in [Call -> Call \cup {NoCall}]
      BY <1>1, <2>2 DEF Check, Generate, NextVersion, Record, PrepareTypeOK
    <3>3. ~BreakOff(c) \/ trouble' > 0
      BY <1>1 DEF BreakOff
    <3> QED BY <1>1, <3>1, <3>2, <3>3 DEF PrepareTypeOK
  <2> QED BY <1>1, <2>1, <2>2
<1>8. PrepareTypeOK'
  <2>1. UNCHANGED <<account, rows, files, event, announced, lost>>
    BY <1>1
  <2> QED BY <2>1, <1>4, <1>5, <1>6, <1>7 DEF PrepareTypeOK
<1>9. \A d \in Call \ {c} : /\ at'[d] = at[d] /\ todo'[d] = todo[d] /\ version'[d] = version[d]
                            /\ Current(d)' = Current(d) /\ Stored(d)' = Stored(d)
  BY <1>2, OthersStay DEF StepOf
<1>10. GoneIsEmpty' /\ Versioned'
  BY <1>1 DEF GoneIsEmpty, Versioned
<1>11. Paperwork'
  <2>1. at'[c] \in Storing => Current(c)' \in todo'[c]
    BY <1>4, <1>5 DEF Paperwork, Storing, Current, Document
  <2>2. /\ at'[c] \in {"uploading", "inserting", "removing"} => version'[c] > 0
        /\ at'[c] \in {"recording", "writing", "announcing"} => todo'[c] = {}
    BY <1>4, <1>5, <1>6 DEF Paperwork
  <2> QED BY <1>9, <2>1, <2>2 DEF Paperwork
<1>12. Eventful'
  <2>1. ASSUME NEW k \in Key, event[k] # NoCall
        PROVE  /\ KeyOf[event[k]] = k /\ todo'[event[k]] = {}
               /\ at'[event[k]] \in {"announcing", "answered", "ended"}
               /\ at'[event[k]] = "answered" => k \in announced
               /\ at'[event[k]] = "ended" => k \in announced \/ trouble' > 0
    <3>1. event[k] \in Call
      BY <2>1 DEF PrepareTypeOK
    <3>2. CASE event[k] # c
      BY <1>7, <1>9, <2>1, <3>1, <3>2 DEF Eventful, PrepareTypeOK
    <3>3. CASE event[k] = c
      <4>1. at[c] = "announcing" /\ todo[c] = {} /\ KeyOf[c] = k
        BY <1>3, <2>1, <3>3 DEF Eventful
      <4>2. BreakOff(c) /\ at'[c] = "ended" /\ todo'[c] = {}
        BY <1>3, <1>4, <1>5, <4>1
      <4> QED BY <1>7, <3>3, <4>1, <4>2
    <3> QED BY <3>2, <3>3
  <2>2. ASSUME account = "open", at'[c] \in {"announcing", "answered"}
        PROVE  event[KeyOf[c]] # NoCall
    BY <1>1, <1>4, <2>2 DEF Check, Record, Generate, NextVersion, BreakOff, CallGoto, Eventful, AfterStoring
  <2> QED BY <1>1, <1>9, <2>1, <2>2 DEF Eventful
<1>13. Shelved' /\ FileBehindRow'
  <2>1. at'[c] \notin {"inserting", "removing", "new"}
    BY <1>4
  <2>2. UNCHANGED touched
    BY <1>1 DEF deletionVars
  <2>3. ASSUME NEW r \in rows
        PROVE  /\ at'[r.by] \notin {"new", "generating"}
               /\ at'[r.by] \in {"versioning", "uploading", "inserting"} => r.doc \notin todo'[r.by]
               /\ at'[r.by] = "removing" /\ r.doc = Current(r.by)' => r \in lost
    <3>1. r.by \in Call
      BY DEF PrepareTypeOK, StoredAt
    <3>2. CASE r.by # c
      BY <1>9, <3>1, <3>2 DEF Shelved
    <3>3. CASE r.by = c
      <4>1. at[c] \notin {"new", "generating"}
        BY <3>3 DEF Shelved
      <4>2. /\ at'[c] \notin {"new", "generating", "versioning", "inserting", "removing"}
            /\ at'[c] = "uploading" => at[c] = "versioning" /\ todo'[c] = todo[c]
        BY <1>4, <1>5, <4>1
      <4> QED BY <3>3, <4>2 DEF Shelved
    <3> QED BY <3>2, <3>3
  <2> QED BY <1>1, <1>9, <2>1, <2>2, <2>3 DEF Shelved, FileBehindRow
<1>14. DeletionTypeOK' /\ AfterUser' /\ Forgotten' /\ Swept'
  <2>1. ASSUME NEW f \in files, Fresh(f)
        PROVE  Fresh(f)'
    <3>1. f.by \in Call
      BY DEF PrepareTypeOK, StoredAt
    <3>2. CASE f \in stray
      BY <1>7, <3>2 DEF Fresh
    <3>3. CASE f.by # c /\ f \notin stray
      BY <1>9, <2>1, <3>1, <3>3 DEF Fresh
    <3>4. CASE f.by = c /\ f \notin stray
      <4>1. at[c] \in {"inserting", "removing"} /\ f = Stored(c)
        BY <2>1, <3>4 DEF Fresh
      <4>2. BreakOff(c)
        BY <1>1, <4>1 DEF Check, Generate, NextVersion, Record
      <4> QED BY <1>7, <4>1, <4>2 DEF Fresh
    <3> QED BY <3>2, <3>3, <3>4
  <2>2. files' = files /\ trouble' \in Nat
    BY <1>1, <1>7
  <2> QED BY <1>2, <2>1, <2>2, DeletionStands
<1> QED BY <1>8, <1>10, <1>11, <1>12, <1>13, <1>14

\* A new file at a path that was free, with its call at the insert and no row.
LEMMA UploadKeeps ==
  ASSUME DeletionInv, NEW c \in Call, Upload(c), UNCHANGED deletionVars
  PROVE  DeletionInv'
<1> USE PrepareAssumption DEF DeletionInv
<1>1. /\ UNCHANGED <<account, rows, event, announced, todo, version, answer, lost, stray, trouble,
                     deletionVars>>
      /\ at[c] = "uploading" /\ at \in [Call -> CallPlace]
      /\ \/ at' = [at EXCEPT ![c] = "ended"] /\ files' = files /\ TakenIn(files, c)
         \/ /\ at' = [at EXCEPT ![c] = "inserting"] /\ files' = files \cup {Stored(c)}
            /\ ~TakenIn(files, c)
  BY DEF Upload, CallGoto, historyVars, PrepareTypeOK
<1>2. at'[c] \in {"ended", "inserting"} /\ at' \in [Call -> CallPlace] /\ StepOf(c)
  BY <1>1 DEF StepOf, CallPlace
<1>3. \A d \in Call : Current(d)' = Current(d) /\ Stored(d)' = Stored(d)
  BY <1>1 DEF Current, Stored
<1>4. Stored(c) \in StoredAt /\ Current(c) \in todo[c] /\ version[c] > 0
  BY <1>1, CurrentIs DEF Paperwork, Storing
<1>5. PrepareTypeOK'
  BY <1>1, <1>2, <1>4 DEF PrepareTypeOK
<1>6. GoneIsEmpty' /\ Versioned' /\ Paperwork'
  BY <1>1, <1>2, <1>3, <1>4 DEF GoneIsEmpty, Versioned, Paperwork, Storing
<1>7. Eventful'
  BY <1>1, <1>2 DEF Eventful, PrepareTypeOK, StepOf
<1>8. Shelved' /\ FileBehindRow'
  <2>1. \A f, g \in files' : f.doc = g.doc /\ f.version = g.version => f = g
    BY <1>1 DEF Shelved, TakenIn, Stored
  <2>2. \A d \in Call : at'[d] \in {"inserting", "removing"} /\ account = "open" /\ ~touched =>
          Stored(d) \in files'
    BY <1>1, <1>2 DEF Shelved, StepOf
  <2>3. ASSUME NEW r \in rows
        PROVE  /\ at'[r.by] \notin {"new", "generating"}
               /\ at'[r.by] \in {"versioning", "uploading", "inserting"} => r.doc \notin todo[r.by]
               /\ at'[r.by] = "removing" /\ r.doc = Current(r.by) => r \in lost
    <3>1. r.by \in Call
      BY DEF PrepareTypeOK, StoredAt
    <3> QED BY <1>1, <1>2, <3>1 DEF Shelved, StepOf
  <2>4. \A r \in rows : Current(r.by)' = Current(r.by)
    BY <1>3 DEF PrepareTypeOK, StoredAt
  <2>5. UNCHANGED touched /\ files \subseteq files'
    BY <1>1 DEF deletionVars
  <2> QED BY <1>1, <1>3, <2>1, <2>2, <2>3, <2>4, <2>5 DEF Shelved, FileBehindRow
<1>9. DeletionTypeOK' /\ AfterUser' /\ Forgotten' /\ Swept'
  <2>1. ASSUME NEW f \in files, Fresh(f)
        PROVE  Fresh(f)'
    <3>1. f.by \in Call
      BY DEF PrepareTypeOK, StoredAt
    <3> QED BY <1>1, <1>2, <1>3, <2>1, <3>1 DEF Fresh, StepOf
  <2>2. ASSUME NEW f \in files' \ files
        PROVE  Fresh(f)'
    <3>1. f = Stored(c) /\ f.by = c /\ at'[c] = "inserting"
      BY <1>1 DEF Stored
    <3> QED BY <1>3, <3>1 DEF Fresh
  <2>3. trouble' \in Nat
    BY <1>5 DEF PrepareTypeOK
  <2> QED BY <1>2, <2>1, <2>2, <2>3, DeletionStands
<1> QED BY <1>5, <1>6, <1>7, <1>8, <1>9

\* What a call does between its upload and the end of create_version: it inserts
\* the row and goes on, or it is to take the file out again.
Inserts(c) == Insert(c) \/ InsertFails(c)

LEMMA InsertsKeep ==
  ASSUME DeletionInv, NEW c \in Call, Inserts(c), UNCHANGED deletionVars
  PROVE  DeletionInv'
<1> USE PrepareAssumption DEF DeletionInv
<1>1. /\ UNCHANGED <<account, files, event, announced, version, answer, stray, deletionVars>>
      /\ at[c] = "inserting" /\ at \in [Call -> CallPlace]
      /\ todo \in [Call -> SUBSET Document] /\ trouble \in Nat
      /\ trouble' \in {trouble, trouble + 1}
      /\ \/ /\ at' = [at EXCEPT ![c] = "removing"] /\ UNCHANGED <<rows, lost, todo>>
         \/ /\ account = "open" /\ rows' = rows \cup {Stored(c)}
            /\ at' = [at EXCEPT ![c] = "removing"]
            /\ lost' = lost \cup {Stored(c)} /\ todo' = todo
         \/ /\ account = "open" /\ rows' = rows \cup {Stored(c)} /\ lost' = lost
            /\ todo' = [todo EXCEPT ![c] = @ \ {Current(c)}]
            /\ at' = [at EXCEPT ![c] = AfterStoring(todo'[c])]
  BY DEF Inserts, Insert, InsertFails, CallGoto, historyVars, PrepareTypeOK
<1>2. /\ at' \in [Call -> CallPlace] /\ todo' \in [Call -> SUBSET Document]
      /\ at'[c] \in {"removing", "recording", "versioning"} /\ StepOf(c)
      /\ at'[c] = "removing" => todo' = todo
      /\ at'[c] = "recording" => todo'[c] = {}
      /\ at'[c] = "versioning" => todo'[c] # {}
      /\ rows \subseteq rows' /\ lost \subseteq lost' /\ trouble' \in Nat
      /\ todo'[c] \subseteq todo[c]
  BY <1>1 DEF StepOf, CallPlace, AfterStoring
<1>3. \A d \in Call \ {c} : /\ at'[d] = at[d] /\ todo'[d] = todo[d]
                            /\ Current(d)' = Current(d) /\ Stored(d)' = Stored(d)
  BY <1>2, OthersStay DEF StepOf
<1>4. Stored(c) \in StoredAt /\ Current(c) \in todo[c] /\ version[c] > 0 /\ version[c] \in Nat
  BY <1>1, CurrentIs DEF Paperwork, Storing, PrepareTypeOK
<1>5. PrepareTypeOK'
  BY <1>1, <1>2, <1>4 DEF PrepareTypeOK
<1>6. GoneIsEmpty' /\ Versioned' /\ Paperwork'
  <2>1. GoneIsEmpty'
    BY <1>1 DEF GoneIsEmpty
  <2>2. Versioned'
    <3>1. PICK n \in Nat : \A r \in rows : r.version <= n
      BY DEF Versioned
    <3>2. CASE version[c] <= n
      BY <1>1, <3>1, <3>2 DEF Versioned, Stored
    <3>3. CASE n <= version[c]
      <4>1. \A r \in rows : r.version <= version[c]
        BY <1>4, <3>1, <3>3 DEF PrepareTypeOK, StoredAt
      <4>2. \A r \in rows' : r.version <= version[c]
        BY <1>1, <1>4, <4>1 DEF Stored
      <4> QED BY <1>4, <4>2 DEF Versioned
    <3> QED BY <1>4, <3>1, <3>2, <3>3
  <2>3. at'[c] \in Storing => Current(c)' \in todo'[c]
    BY <1>2, <1>4 DEF Storing, Current, Document
  <2>4. Paperwork'
    BY <1>1, <1>2, <1>3, <1>4, <2>3 DEF Paperwork
  <2> QED BY <2>1, <2>2, <2>4
<1>7. Eventful'
  <2>1. \A k \in Key : event[k] # NoCall => event[k] \in Call \ {c}
    BY <1>1 DEF Eventful, PrepareTypeOK
  <2> QED BY <1>1, <1>2, <1>3, <2>1 DEF Eventful
<1>8. Shelved' /\ FileBehindRow'
  <2>1. \A d \in Call : at'[d] \in {"inserting", "removing"} /\ account = "open" /\ ~touched =>
          Stored(d)' \in files
    <3>1. at'[c] = "removing" => Stored(c)' = Stored(c)
      BY <1>1, <1>2 DEF Stored, Current
    <3> QED BY <1>1, <1>2, <1>3, <3>1 DEF Shelved
  <2>2. ASSUME NEW r \in rows'
        PROVE  /\ at'[r.by] \notin {"new", "generating"}
               /\ at'[r.by] \in {"versioning", "uploading", "inserting"} => r.doc \notin todo'[r.by]
               /\ at'[r.by] = "removing" /\ r.doc = Current(r.by)' => r \in lost'
    <3>1. r.by \in Call
      BY <1>5 DEF PrepareTypeOK, StoredAt
    <3>2. CASE r.by # c
      <4>1. r \in rows
        BY <1>1, <3>2 DEF Stored
      <4> QED BY <1>2, <1>3, <3>1, <3>2, <4>1 DEF Shelved
    <3>3. CASE r.by = c /\ r \in rows
      <4>1. r.doc \notin todo[c]
        BY <1>1, <3>3 DEF Shelved
      <4>2. at'[c] = "removing" => Current(c)' = Current(c) /\ Current(c) \in todo[c]
        BY <1>2, <1>4 DEF Current
      <4> QED BY <1>2, <3>3, <4>1, <4>2
    <3>4. CASE r = Stored(c) /\ r \notin rows
      <4>1. r.by = c /\ r.doc = Current(c)
        BY <3>4 DEF Stored
      <4>2. /\ at'[c] = "versioning" => todo'[c] = todo[c] \ {Current(c)}
            /\ at'[c] = "removing" => r \in lost'
        BY <1>1, <3>4 DEF AfterStoring
      <4> QED BY <1>2, <4>1, <4>2
    <3> QED BY <1>1, <3>2, <3>3, <3>4
  <2>3. FileBehindRow'
    <3>1. UNCHANGED <<touched, files>>
      BY <1>1 DEF deletionVars
    <3>2. account = "open" /\ ~touched => Stored(c) \in files
      BY <1>1 DEF Shelved
    <3> QED BY <1>1, <3>1, <3>2 DEF FileBehindRow
  <2> QED BY <1>1, <2>1, <2>2, <2>3 DEF Shelved, deletionVars
<1>9. DeletionTypeOK' /\ AfterUser' /\ Forgotten' /\ Swept'
  <2>1. ASSUME NEW f \in files, Fresh(f), account = "gone"
        PROVE  Fresh(f)'
    <3>1. f.by \in Call
      BY DEF PrepareTypeOK, StoredAt
    <3>2. at' = [at EXCEPT ![c] = "removing"] /\ todo' = todo
      BY <1>1, <2>1
    <3>3. \A d \in Call : Stored(d)' = Stored(d)
      BY <1>1, <3>2 DEF Stored, Current
    <3> QED BY <1>1, <2>1, <3>1, <3>2, <3>3 DEF Fresh
  <2>2. files' = files
    BY <1>1
  <2> QED BY <1>2, <2>1, <2>2, DeletionStands
<1> QED BY <1>5, <1>6, <1>7, <1>8, <1>9

\* bucket.remove takes out what the path holds: the call's own file.
LEMMA RemoveFileKeeps ==
  ASSUME DeletionInv, NEW c \in Call, RemoveFile(c), UNCHANGED deletionVars
  PROVE  DeletionInv'
<1> USE PrepareAssumption DEF DeletionInv
<1>1. /\ UNCHANGED <<account, rows, event, announced, todo, version, answer, lost, stray, trouble,
                     deletionVars>>
      /\ at[c] = "removing" /\ at \in [Call -> CallPlace]
      /\ at' = [at EXCEPT ![c] = "ended"]
      /\ files' \subseteq files
      /\ \A f \in files : f \notin files' <=> f.doc = Current(c) /\ f.version = version[c]
  BY DEF RemoveFile, CallGoto, historyVars, PrepareTypeOK
<1>2. at' \in [Call -> CallPlace] /\ StepOf(c)
  BY <1>1 DEF StepOf, CallPlace
<1>3. \A d \in Call : Current(d)' = Current(d) /\ Stored(d)' = Stored(d)
  BY <1>1 DEF Current, Stored
<1>4. PrepareTypeOK'
  BY <1>1, <1>2 DEF PrepareTypeOK
<1>5. GoneIsEmpty' /\ Versioned' /\ Paperwork'
  BY <1>1, <1>3 DEF GoneIsEmpty, Versioned, Paperwork, Storing
<1>6. Eventful'
  BY <1>1 DEF Eventful, PrepareTypeOK
<1>7. Shelved' /\ FileBehindRow'
  <2>1. ASSUME account = "open", ~touched, NEW f \in files, f \notin files'
        PROVE  f = Stored(c)
    <3>1. Stored(c) \in files
      BY <1>1, <2>1 DEF Shelved
    <3> QED BY <1>1, <2>1, <3>1 DEF Shelved, Stored
  <2>2. \A d \in Call : at'[d] \in {"inserting", "removing"} /\ account = "open" /\ ~touched =>
          Stored(d) \in files'
    BY <1>1, <2>1 DEF Shelved, Stored
  <2>3. UNCHANGED touched
    BY <1>1 DEF deletionVars
  <2>4. FileBehindRow'
    <3>1. SUFFICES ASSUME ~touched, NEW r \in rows, r \notin lost
                   PROVE  r \in files'
      BY <1>1, <2>3 DEF FileBehindRow
    <3>2. account = "open" /\ r \in files
      BY <3>1 DEF GoneIsEmpty, FileBehindRow, PrepareTypeOK
    <3>3. r # Stored(c)
      BY <1>1, <3>1 DEF Shelved, Stored
    <3> QED BY <2>1, <3>1, <3>2, <3>3
  <2>5. \A r \in rows : r.by \in Call
    BY DEF PrepareTypeOK, StoredAt
  <2> QED BY <1>1, <1>3, <2>2, <2>3, <2>4, <2>5 DEF Shelved
<1>8. DeletionTypeOK' /\ AfterUser' /\ Forgotten' /\ Swept'
  <2>1. ASSUME NEW f \in files, Fresh(f), f \in files'
        PROVE  Fresh(f)'
    <3>1. f.by \in Call
      BY DEF PrepareTypeOK, StoredAt
    <3>2. f # Stored(c)
      BY <1>1, <2>1 DEF Stored
    <3> QED BY <1>1, <1>3, <2>1, <3>1, <3>2 DEF Fresh
  <2>2. files' \ files = {} /\ trouble' \in Nat
    BY <1>1, <1>4 DEF PrepareTypeOK
  <2> QED BY <1>2, <2>1, <2>2, DeletionStands
<1> QED BY <1>4, <1>5, <1>6, <1>7, <1>8

\* record_event: the event is written where there is none, and announced.
Announces(c) == WriteEvent(c) \/ Announce(c)

LEMMA AnnouncesKeep ==
  ASSUME DeletionInv, NEW c \in Call, Announces(c), UNCHANGED deletionVars
  PROVE  DeletionInv'
<1> USE PrepareAssumption DEF DeletionInv
<1>1. /\ UNCHANGED <<account, rows, files, todo, version, lost, stray, trouble, deletionVars>>
      /\ at \in [Call -> CallPlace] /\ event \in [Key -> Call \cup {NoCall}]
      /\ answer' \in [Call -> Call \cup {NoCall}]
      /\ at[c] \in {"writing", "announcing"} /\ todo[c] = {}
      /\ \/ at' = [at EXCEPT ![c] = "ended"] /\ UNCHANGED <<event, announced>>
            /\ (at[c] = "announcing" => account = "gone")
         \/ /\ at[c] = "writing" /\ account = "open" /\ event[KeyOf[c]] = NoCall
            /\ at' = [at EXCEPT ![c] = "announcing"]
            /\ event' = [event EXCEPT ![KeyOf[c]] = c] /\ UNCHANGED announced
         \/ /\ at[c] = "announcing" /\ account = "open"
            /\ at' = [at EXCEPT ![c] = "answered"]
            /\ announced' = announced \cup {KeyOf[c]} /\ UNCHANGED event
  BY DEF Announces, WriteEvent, Announce, CallGoto, historyVars, PrepareTypeOK, Paperwork
<1>2. /\ at' \in [Call -> CallPlace] /\ StepOf(c) /\ KeyOf[c] \in Key
      /\ at'[c] \in {"ended", "announcing", "answered"}
      /\ event' \in [Key -> Call \cup {NoCall}]
  BY <1>1 DEF StepOf, CallPlace
<1>3. \A d \in Call : Current(d)' = Current(d) /\ Stored(d)' = Stored(d)
  BY <1>1 DEF Current, Stored
<1>4. PrepareTypeOK'
  BY <1>1, <1>2 DEF PrepareTypeOK
<1>5. GoneIsEmpty' /\ Versioned' /\ Paperwork'
  <2>1. Paperwork'
    BY <1>1, <1>2, <1>3 DEF Paperwork, Storing, StepOf
  <2> QED BY <1>1, <2>1 DEF GoneIsEmpty, Versioned
<1>6. Eventful'
  <2>1. CASE at' = [at EXCEPT ![c] = "ended"] /\ UNCHANGED <<event, announced>>
    <3>1. \A k \in Key : event[k] # NoCall => event[k] # c
      BY <1>1, <2>1 DEF Eventful, GoneIsEmpty
    <3> QED BY <1>1, <2>1, <3>1 DEF Eventful, PrepareTypeOK
  <2>2. CASE at[c] = "writing" /\ at' = [at EXCEPT ![c] = "announcing"]
    <3>1. event' = [event EXCEPT ![KeyOf[c]] = c] /\ event[KeyOf[c]] = NoCall /\ announced' = announced
      BY <1>1, <2>2
    <3>2. \A k \in Key : event[k] # NoCall => event[k] # c
      BY <2>2 DEF Eventful
    <3> QED BY <1>1, <1>2, <2>2, <3>1, <3>2 DEF Eventful, PrepareTypeOK
  <2>3. CASE at[c] = "announcing" /\ at' = [at EXCEPT ![c] = "answered"]
    <3>1. announced' = announced \cup {KeyOf[c]} /\ event' = event
      BY <1>1, <2>3
    <3> QED BY <1>1, <1>2, <2>3, <3>1 DEF Eventful, PrepareTypeOK
  <2> QED BY <1>1, <2>1, <2>2, <2>3
<1>7. Shelved' /\ FileBehindRow'
  <2>1. \A r \in rows : r.by \in Call
    BY DEF PrepareTypeOK, StoredAt
  <2>2. UNCHANGED touched
    BY <1>1 DEF deletionVars
  <2> QED BY <1>1, <1>2, <1>3, <2>1, <2>2 DEF Shelved, FileBehindRow, StepOf
<1>8. DeletionTypeOK' /\ AfterUser' /\ Forgotten' /\ Swept'
  <2>1. \A f \in files : Fresh(f) => Fresh(f)'
    <3>1. \A f \in files : f.by \in Call
      BY DEF PrepareTypeOK, StoredAt
    <3> QED BY <1>1, <1>2, <1>3, <3>1 DEF Fresh, StepOf
  <2>2. files' = files /\ trouble' \in Nat
    BY <1>1, <1>4 DEF PrepareTypeOK
  <2> QED BY <1>2, <2>1, <2>2, DeletionStands
<1> QED BY <1>4, <1>5, <1>6, <1>7, <1>8

-----------------------------------------------------------------------------
(* The steps of a deletion. *)

\* Those before and after the deletion of the user: of what the calls work with
\* they change the files only, and of an account that is open not unseen.
LEMMA CallsStand ==
  ASSUME DeletionInv, UNCHANGED <<account, rows, event, announced, callVars, lost, stray>>,
         files' \subseteq files, trouble' \in Nat, trouble <= trouble',
         touched => touched', files' # files => account = "gone" \/ touched'
  PROVE  /\ PrepareTypeOK' /\ GoneIsEmpty' /\ Paperwork' /\ Versioned' /\ Eventful' /\ Shelved'
         /\ FileBehindRow'
         /\ \A f \in files' : Fresh(f) => Fresh(f)'
<1> USE DEF DeletionInv, callVars
<1>1. \A d \in Call : Current(d)' = Current(d) /\ Stored(d)' = Stored(d)
  BY DEF Current, Stored
<1>2. /\ \A r \in rows : r.by \in Call
      /\ \A f \in files : f.by \in Call
  BY DEF PrepareTypeOK, StoredAt
<1>3. PrepareTypeOK' /\ GoneIsEmpty' /\ Versioned'
  BY DEF PrepareTypeOK, GoneIsEmpty, Versioned
<1>4. Paperwork'
  BY <1>1 DEF Paperwork, Storing
<1>5. Eventful'
  BY DEF Eventful, PrepareTypeOK
<1>6. Shelved'
  BY <1>1, <1>2 DEF Shelved
<1>7. FileBehindRow'
  BY DEF FileBehindRow, GoneIsEmpty
<1>8. \A f \in files' : Fresh(f) => Fresh(f)'
  BY <1>1, <1>2 DEF Fresh
<1> QED BY <1>3, <1>4, <1>5, <1>6, <1>7, <1>8

\* The request is sent, looks at the folder, and looks again.
LEMMA FolderKeeps ==
  ASSUME DeletionInv, Ask \/ ListFolder \/ Recheck \/ Sweep PROVE DeletionInv'
<1> USE DeletionAssumption DEF DeletionInv
<1>1. /\ UNCHANGED <<account, rows, files, event, announced, callVars, lost, stray, trouble,
                     kept, failed, touched>>
      /\ stage' \in {"listing", "revoking", "removing", "idle", "late_removing"}
      /\ stage' = "late_removing" => stage = "sweeping" /\ listing' = files
      /\ listing' \in {listing, files}
      /\ trouble \in Nat
  BY DEF Ask, ListFolder, Recheck, Sweep, StageGoto, prepareVars, prepareStores, historyVars, PrepareTypeOK
<1>2. pass' \in 0 .. MaxPasses /\ requests' \in 0 .. MaxRequests
  <2>1. pass \in 0 .. MaxPasses /\ requests \in 0 .. MaxRequests
    BY DEF DeletionTypeOK
  <2>2. CASE Ask
    BY <2>1, <2>2 DEF Ask
  <2>3. CASE ListFolder
    BY <2>1, <2>3 DEF ListFolder
  <2>4. CASE Recheck \/ Sweep
    BY <2>1, <2>4 DEF Recheck, Sweep
  <2> QED BY <2>2, <2>3, <2>4
<1>3. /\ PrepareTypeOK' /\ GoneIsEmpty' /\ Paperwork' /\ Versioned' /\ Eventful' /\ Shelved'
      /\ FileBehindRow'
  BY <1>1, CallsStand
<1>4. DeletionTypeOK'
  BY <1>1, <1>2 DEF DeletionTypeOK, PrepareTypeOK, Stage
<1>5. AfterUser' /\ Forgotten' /\ Swept'
  BY <1>1 DEF AfterUser, Forgotten, Swept
<1> QED BY <1>3, <1>4, <1>5

\* Files are removed, all that were listed or, where the request dies, some.
LEMMA RemovalKeeps ==
  ASSUME DeletionInv, RemoveListed \/ StopHalfway PROVE DeletionInv'
<1> USE DEF DeletionInv
<1>1. /\ UNCHANGED <<account, rows, event, announced, callVars, lost, stray,
                     pass, listing, kept, failed, requests>>
      /\ files' \subseteq files /\ trouble \in Nat
      /\ stage' \in {"listing", "rechecking", "idle"}
  BY DEF RemoveListed, StopHalfway, StageGoto, historyVars, PrepareTypeOK
<1>2. trouble' \in Nat /\ trouble <= trouble'
  BY <1>1 DEF RemoveListed, StopHalfway, historyVars
<1>3. touched' \in BOOLEAN /\ (touched => touched') /\ (files' # files => account = "gone" \/ touched')
  <2>1. account \in {"open", "gone"} /\ touched \in BOOLEAN
    BY DEF PrepareTypeOK, DeletionTypeOK
  <2>2. CASE RemoveListed
    BY <2>1, <2>2 DEF RemoveListed
  <2>3. CASE StopHalfway
    BY <2>1, <2>3 DEF StopHalfway
  <2> QED BY <2>2, <2>3
<1>4. /\ PrepareTypeOK' /\ GoneIsEmpty' /\ Paperwork' /\ Versioned' /\ Eventful' /\ Shelved'
      /\ FileBehindRow'
  BY <1>1, <1>2, <1>3, CallsStand
<1>5. DeletionTypeOK'
  BY <1>1, <1>3 DEF DeletionTypeOK, Stage
<1>6. AfterUser' /\ Forgotten' /\ Swept'
  BY <1>1 DEF AfterUser, Forgotten, Swept
<1> QED BY <1>4, <1>5, <1>6

\* The best-effort steps: what they are for is gone, or they are known to have failed.
LEMMA BestEffortsKeep ==
  ASSUME DeletionInv, RevokeGmail \/ ForgetLinkAttempts \/ PurgeAuditLog PROVE DeletionInv'
<1> USE DEF DeletionInv
<1>1. /\ UNCHANGED <<account, rows, files, event, announced, callVars, lost, stray,
                     pass, listing, touched, requests>>
      /\ trouble \in Nat /\ trouble' \in {trouble, trouble + 1}
      /\ account \in {"open", "gone"} /\ kept \subseteq Outside /\ failed \subseteq Outside \cup {"files"}
      /\ kept' \subseteq kept /\ failed \subseteq failed'
      /\ failed' \subseteq failed \cup {"grant", "counters", "logins", "deletion_entry"}
  BY DEF RevokeGmail, ForgetLinkAttempts, PurgeAuditLog, BestEffort, prepareStores,
         PrepareTypeOK, DeletionTypeOK
<1>2. \/ /\ stage = "revoking" /\ stage' = "forgetting"
         /\ account = "open" => "grant" \notin kept' \/ "grant" \in failed'
      \/ /\ stage = "forgetting" /\ stage' = "deleting"
         /\ account = "open" => "counters" \notin kept' \/ "counters" \in failed'
      \/ /\ stage = "purging" /\ stage' = "done"
         /\ kept' \cap {"logins", "deletion_entry"} \subseteq failed'
  BY <1>1 DEF RevokeGmail, ForgetLinkAttempts, PurgeAuditLog, BestEffort, StageGoto
<1>3. /\ PrepareTypeOK' /\ GoneIsEmpty' /\ Paperwork' /\ Versioned' /\ Eventful' /\ Shelved'
      /\ FileBehindRow' /\ \A f \in files' : Fresh(f) => Fresh(f)'
  <2>1. trouble' \in Nat /\ trouble <= trouble'
    BY <1>1
  <2> QED BY <1>1, <2>1, CallsStand
<1>4. DeletionTypeOK'
  BY <1>1, <1>2 DEF DeletionTypeOK, Stage, Outside
<1>5. AfterUser' /\ Swept'
  BY <1>1, <1>2, <1>3 DEF AfterUser, Swept
<1>6. Forgotten'
  BY <1>1, <1>2 DEF Forgotten, AfterUser, Outside
<1> QED BY <1>3, <1>4, <1>5, <1>6

\* The user goes, and every row with them.
LEMMA DeleteUserKeeps ==
  ASSUME DeletionInv, DeleteUser PROVE DeletionInv'
<1> USE PrepareAssumption DEF DeletionInv
<1>1. /\ stage = "deleting" /\ stage' = "sweeping" /\ account' = "gone" /\ rows' = {}
      /\ event' = [k \in Key |-> NoCall] /\ announced' = {}
      /\ kept' \in {kept, kept \cup {"deletion_entry"}}
      /\ UNCHANGED <<files, at, todo, version, answer, lost, stray, trouble, pass, listing, failed,
                     touched, requests>>
  BY DEF DeleteUser, StageGoto, callVars, historyVars
<1>2. \A d \in Call : Current(d)' = Current(d) /\ Stored(d)' = Stored(d)
  BY <1>1 DEF Current, Stored
<1>3. PrepareTypeOK'
  BY <1>1 DEF PrepareTypeOK
<1>4. DeletionTypeOK'
  BY <1>1 DEF DeletionTypeOK, Stage, Outside
<1>5. GoneIsEmpty' /\ Versioned' /\ Eventful' /\ FileBehindRow'
  BY <1>1 DEF GoneIsEmpty, Versioned, Eventful, FileBehindRow
<1>6. Paperwork' /\ Shelved'
  BY <1>1, <1>2 DEF Paperwork, Storing, Shelved
<1>7. AfterUser' /\ Forgotten' /\ Swept'
  BY <1>1 DEF AfterUser, Forgotten, Swept, Outside
<1> QED BY <1>3, <1>4, <1>5, <1>6, <1>7

\* What the sweep has listed goes, or the removal is known to have failed.
LEMMA RemoveLateKeeps ==
  ASSUME DeletionInv, RemoveLate PROVE DeletionInv'
<1> USE DEF DeletionInv
<1>1. /\ UNCHANGED <<account, rows, event, announced, callVars, lost, stray,
                     pass, listing, kept, touched, requests>>
      /\ trouble \in Nat /\ trouble' \in {trouble, trouble + 1}
      /\ stage = "late_removing" /\ stage' = "purging"
      /\ \/ files' = files \ listing /\ failed' = failed
         \/ files' = files /\ failed' = failed \cup {"files"}
  BY DEF RemoveLate, StageGoto, PrepareTypeOK
<1>2. account = "gone"
  BY <1>1 DEF AfterUser
<1>3. /\ PrepareTypeOK' /\ GoneIsEmpty' /\ Paperwork' /\ Versioned' /\ Eventful' /\ Shelved'
      /\ FileBehindRow' /\ \A f \in files' : Fresh(f) => Fresh(f)'
  <2>1. trouble' \in Nat /\ trouble <= trouble' /\ files' \subseteq files
    BY <1>1
  <2> QED BY <1>1, <1>2, <2>1, CallsStand
<1>4. DeletionTypeOK'
  BY <1>1 DEF DeletionTypeOK, Stage
<1>5. AfterUser' /\ Forgotten' /\ Swept'
  BY <1>1, <1>2, <1>3 DEF AfterUser, Forgotten, Swept
<1> QED BY <1>3, <1>4, <1>5

-----------------------------------------------------------------------------
LEMMA DeletionNextInvariant ==
  ASSUME DeletionInv, [DeletionNext]_bothVars PROVE DeletionInv'
<1>1. CASE UNCHANGED bothVars
  <2>1. /\ UNCHANGED <<account, rows, files, event, announced, callVars, lost, stray, trouble>>
        /\ UNCHANGED <<stage, pass, listing, kept, failed, touched, requests>>
    BY <1>1 DEF bothVars, prepareVars, prepareStores, historyVars, deletionVars
  <2>2. trouble \in Nat
    BY DEF DeletionInv, PrepareTypeOK
  <2>3. /\ PrepareTypeOK' /\ GoneIsEmpty' /\ Paperwork' /\ Versioned' /\ Eventful' /\ Shelved'
        /\ FileBehindRow' /\ \A f \in files' : Fresh(f) => Fresh(f)'
    BY <2>1, <2>2, CallsStand
  <2>4. DeletionTypeOK' /\ AfterUser' /\ Forgotten' /\ Swept'
    BY <2>1, <2>3 DEF DeletionInv, DeletionTypeOK, AfterUser, Forgotten, Swept
  <2> QED BY <2>3, <2>4 DEF DeletionInv
<1>2. CASE PrepareNext /\ UNCHANGED deletionVars
  <2>1. PICK c \in Call : PrepareStep(c)
    BY <1>2 DEF PrepareNext
  <2> QED BY <1>2, <2>1, LooksKeep, UploadKeeps, InsertsKeep, RemoveFileKeeps, AnnouncesKeep
          DEF PrepareStep, LooksOnly, Inserts, Announces
<1> QED BY <1>1, <1>2, FolderKeeps, RemovalKeeps, BestEffortsKeep, DeleteUserKeeps, RemoveLateKeeps
        DEF DeletionNext

LEMMA DeletionInductive == DeletionSpec => []DeletionInv
<1>1. DeletionInit => DeletionInv
  BY DeletionInitInvariant
<1>2. DeletionInv /\ [DeletionNext]_bothVars => DeletionInv'
  BY DeletionNextInvariant
<1> QED BY <1>1, <1>2, PTL DEF DeletionSpec

-----------------------------------------------------------------------------
(* The theorems. *)

\* Every reachable state is well typed.
THEOREM DeletionTyping == DeletionSpec => [](PrepareTypeOK /\ DeletionTypeOK)
<1>1. DeletionInv => PrepareTypeOK /\ DeletionTypeOK
  BY DEF DeletionInv
<1> QED BY <1>1, DeletionInductive, PTL

\* However many calls race for a version, a row whose insert was answered has its
\* file, until a deletion takes the files.
THEOREM RowsHaveFiles == DeletionSpec => []FileBehindRow
<1>1. DeletionInv => FileBehindRow
  BY DEF DeletionInv
<1> QED BY <1>1, DeletionInductive, PTL

\* Of the calls with one key, the one whose event was written announces it, unless
\* it broke off between its two inserts.
THEOREM EventsAreAnnounced == DeletionSpec => []PreparedIsAnnounced
<1>1. DeletionInv => PreparedIsAnnounced
  BY DEF DeletionInv, Eventful, PreparedIsAnnounced, PrepareTypeOK
<1> QED BY <1>1, DeletionInductive, PTL

\* A deletion that has run to its end leaves what is known to have failed, and the
\* files of calls that are at their insert or died there.
THEOREM NothingElseIsLeft == DeletionSpec => []DeletionLeavesOnlyFailures
<1>1. DeletionInv => DeletionLeavesOnlyFailures
  BY DEF DeletionInv, AfterUser, Forgotten, Swept, Fresh, DeletionLeavesOnlyFailures
<1> QED BY <1>1, DeletionInductive, PTL

\* A call that begins when one with its key has been answered starts no engine.
THEOREM RetriesAreFree == DeletionSpec => RetryRunsNoEngine
<1>1. ASSUME DeletionInv, [DeletionNext]_bothVars, NEW c \in Call, NEW d \in Call,
             KeyOf[c] = KeyOf[d], at[d] = "answered", at[c] = "new", at'[c] = "generating"
      PROVE  FALSE
  <2>1. at \in [Call -> CallPlace] /\ account \in {"open", "gone"}
    BY <1>1 DEF DeletionInv, PrepareTypeOK
  <2>2. \E e \in Call : PrepareStep(e)
    BY <1>1 DEF DeletionNext, PrepareNext, bothVars, prepareVars, callVars, Ask, ListFolder,
        RemoveListed, Recheck, RevokeGmail, ForgetLinkAttempts, BestEffort, DeleteUser, Sweep,
        RemoveLate, PurgeAuditLog, StopHalfway
  <2>3. PICK e \in Call : PrepareStep(e)
    BY <2>2
  <2>4. e = c
    BY <1>1, <2>1, <2>3 DEF PrepareStep, Check, Generate, NextVersion, Upload, Insert, InsertFails,
        RemoveFile, Record, WriteEvent, Announce, BreakOff, CallGoto
  <2>5. Check(c)
    BY <1>1, <2>3, <2>4 DEF PrepareStep, Generate, NextVersion, Upload, Insert, InsertFails,
        RemoveFile, Record, WriteEvent, Announce, BreakOff
  <2>6. account = "open" /\ event[KeyOf[c]] = NoCall
    BY <1>1, <2>1, <2>5 DEF Check, CallGoto
  <2> QED BY <1>1, <2>6 DEF DeletionInv, Eventful
<1>2. DeletionInv /\ [DeletionNext]_bothVars =>
        [\A c, d \in Call :
           KeyOf[c] = KeyOf[d] /\ at[d] = "answered" /\ at[c] = "new"
             => at'[c] # "generating"]_bothVars
  BY <1>1
<1> QED BY <1>2, DeletionInductive, PTL DEF DeletionSpec, RetryRunsNoEngine
==============================================================================
