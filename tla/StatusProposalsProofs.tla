----------------------- MODULE StatusProposalsProofs -----------------------
(***************************************************************************)
(* Status proposals proved for any number of proposals, requests and       *)
(* failures: they implement Decisions, and it takes a failure to strand a  *)
(* proposal or to leave one between its move and its acceptance.           *)
(***************************************************************************)
EXTENDS StatusProposals, FiniteSetTheorems, SequenceTheorems, TLAPS

-----------------------------------------------------------------------------
(* The inductive invariant. *)

\* A request under way is about a proposal; who is about to move the
\* application is at a proposal with a stage.
Grounded ==
  /\ \A c \in Call : at[c] # "idle" => about[c] \in Proposal
  /\ \A c \in Call : at[c] = "moving" => about[c] \in Staged
  /\ \A p \in Proposal : rec[p] = "moving" => p \in Staged

\* A proposal recorded as accepted has moved the application.
AcceptedHasMoved == \A p \in Proposal : status[p] = "accepted" => p \in Moved

\* Whoever is past the move has made it, or found it made.
PastTheMove ==
  /\ \A p \in Proposal : rec[p] \in {"resolving", "sweeping"} => p \in Moved
  /\ \A c \in Call :
       at[c] \in {"resolving", "sweeping"} /\ decision[c] = "accepted" => about[c] \in Moved

\* A proposal not recorded yet has no row; one whose siblings the checker
\* sweeps is resolved.
InOrder ==
  \A p \in Proposal :
    /\ rec[p] = "none" => status[p] = "absent"
    /\ rec[p] = "sweeping" => status[p] # "pending"

\* The stranded can be counted whatever the set of proposals.
FewStranded == IsFiniteSet(Stranded) /\ StrandedByFailure

IInv ==
  /\ TypeOK /\ AcceptedHasMoved
  /\ Grounded /\ PastTheMove /\ InOrder /\ FewStranded

-----------------------------------------------------------------------------
(* The three writes. *)

\* change_stage under the proposal's key leaves the moves made before.
LEMMA MoveIsKept ==
  ASSUME TypeOK, NEW p \in Staged, moves' \in {moves, MovedBy(p)}
  PROVE  /\ moves' \in Seq(Staged)
         /\ Moved \subseteq Moved'
         /\ moves' = MovedBy(p) => p \in Moved'
<1>1. CASE moves' = moves
  BY <1>1 DEF TypeOK, Moved, MovedBy
<1>2. CASE moves' = Append(moves, p) /\ p \notin Moved
  <2>1. /\ moves \in Seq(Staged) /\ Len(moves) \in Nat
        /\ moves' \in Seq(Staged) /\ Len(moves') = Len(moves) + 1
        /\ \A i \in 1 .. Len(moves) : moves'[i] = moves[i]
        /\ moves'[Len(moves) + 1] = p
    BY <1>2, AppendProperties, LenProperties DEF TypeOK
  <2>2. Moved \subseteq Moved' /\ p \in Moved'
    BY <2>1 DEF Moved
  <2> QED BY <2>1, <2>2
<1> QED BY <1>1, <1>2 DEF MovedBy

\* What a resolution and a sweep may do to a row: they take a pending one to a
\* decision, and the rest is left alone.
LEMMA RowsChangeOnce ==
  ASSUME TypeOK, NEW p \in Proposal, NEW d \in Decision,
         status' \in {status, Swept(p)} \/ (Resolvable(p) /\ status' = Resolved(p, d))
  PROVE  /\ status' \in [Proposal -> {"absent", "pending"} \cup Decision]
         /\ \A q \in Proposal :
              \/ status'[q] = status[q]
              \/ status[q] = "pending" /\ status'[q] \in Decision
         /\ \A q \in Proposal :
              status'[q] = "accepted" => status[q] = "accepted" \/ (q = p /\ d = "accepted")
BY DEF TypeOK, Swept, Resolvable, Resolved, Decision

\* What failures are counted against: a set that does not grow stays within the
\* count, and one that gains a member with a failure does.
LEMMA WithinTheFailures ==
  ASSUME NEW S, NEW T, NEW p, NEW n \in Nat, NEW m \in Nat,
         IsFiniteSet(S), Cardinality(S) <= n,
         (T \subseteq S /\ n <= m) \/ (T \subseteq S \cup {p} /\ m = n + 1)
  PROVE  IsFiniteSet(T) /\ Cardinality(T) <= m
<1>1. Cardinality(S) \in Nat
  BY FS_CardinalityType
<1>2. CASE T \subseteq S /\ n <= m
  <2>1. IsFiniteSet(T) /\ Cardinality(T) <= Cardinality(S) /\ Cardinality(T) \in Nat
    BY <1>2, FS_Subset, FS_CardinalityType
  <2> QED BY <1>1, <1>2, <2>1
<1>3. CASE T \subseteq S \cup {p} /\ m = n + 1
  <2>1. IsFiniteSet(S \cup {p}) /\ Cardinality(S \cup {p}) <= Cardinality(S) + 1
    BY <1>1, FS_AddElement
  <2>2. /\ IsFiniteSet(T) /\ Cardinality(T) <= Cardinality(S \cup {p})
        /\ Cardinality(T) \in Nat /\ Cardinality(S \cup {p}) \in Nat
    BY <1>3, <2>1, FS_Subset, FS_CardinalityType
  <2> QED BY <1>1, <1>3, <2>1, <2>2
<1> QED BY <1>2, <1>3

LEMMA StrandedCounted ==
  ASSUME TypeOK, FewStranded, NEW p,
         failures' \in Nat,
         \/ Stranded' \subseteq Stranded /\ failures <= failures'
         \/ Stranded' \subseteq Stranded \cup {p} /\ failures' = failures + 1
  PROVE  FewStranded'
<1>1. failures \in Nat /\ IsFiniteSet(Stranded) /\ Cardinality(Stranded) <= failures
  BY DEF TypeOK, FewStranded, StrandedByFailure
<1>2. IsFiniteSet(Stranded') /\ Cardinality(Stranded') <= failures'
  BY <1>1, WithinTheFailures
<1> QED BY <1>2 DEF FewStranded, StrandedByFailure

-----------------------------------------------------------------------------
(* Every step keeps the invariant: the checker's, then the person's. *)

LEMMA InitInvariant ==
  ASSUME Init PROVE IInv
<1>1. moves \in Seq(Staged) /\ Len(moves) = 0
  BY EmptySeq DEF Init
<1>2. TypeOK /\ AcceptedHasMoved /\ Grounded /\ PastTheMove /\ InOrder
  BY <1>1 DEF Init, TypeOK, Decision, Step, AcceptedHasMoved, Grounded,
              PastTheMove, InOrder
<1>3. Stranded = {}
  BY DEF Init, Stranded
<1>4. FewStranded
  BY <1>3, FS_EmptySet DEF Init, FewStranded, StrandedByFailure
<1> QED BY <1>2, <1>4 DEF IInv

LEMMA CheckerKeeps ==
  ASSUME IInv, NEW p \in Proposal, Checker(p)
  PROVE  IInv'
<1> USE StatusProposalsAssumption DEF IInv
<1>1. CASE Propose(p)
  <2>1. TypeOK'
    BY <1>1 DEF Propose, Record, FirstStep, callVars, TypeOK, Step, Decision
  <2>2. AcceptedHasMoved' /\ Grounded' /\ PastTheMove' /\ InOrder'
    BY <1>1 DEF Propose, Record, FirstStep, callVars, TypeOK, Step, Moved,
       AcceptedHasMoved, Grounded, PastTheMove, InOrder
  <2>3. Stranded' \subseteq Stranded
    BY <1>1 DEF Propose, Record, FirstStep, Stranded, TypeOK
  <2>4. failures' = failures /\ failures' \in Nat
    BY <1>1 DEF Propose, TypeOK
  <2> QED BY <2>1, <2>2, <2>3, <2>4, StrandedCounted
<1>2. CASE AutoMove(p)
  <2>1. p \in Staged /\ moves' = MovedBy(p)
    BY <1>2 DEF AutoMove, Grounded
  <2>2. moves' \in Seq(Staged) /\ Moved \subseteq Moved' /\ p \in Moved'
    BY <2>1, MoveIsKept
  <2>3. TypeOK'
    BY <1>2, <2>2 DEF AutoMove, Record, callVars, TypeOK, Step, Decision
  <2>4. AcceptedHasMoved' /\ Grounded' /\ PastTheMove' /\ InOrder'
    BY <1>2, <2>2 DEF AutoMove, Record, callVars, TypeOK,
       AcceptedHasMoved, Grounded, PastTheMove, InOrder
  <2>5. Stranded' \subseteq Stranded
    BY <1>2 DEF AutoMove, Record, Stranded, TypeOK
  <2>6. failures' = failures /\ failures' \in Nat
    BY <1>2 DEF AutoMove, TypeOK
  <2> QED BY <2>2, <2>3, <2>4, <2>5, <2>6, StrandedCounted
<1>3. CASE AutoResolve(p)
  <2>1. moves' = moves /\ Moved' = Moved /\ p \in Moved
    BY <1>3 DEF AutoResolve, Moved, PastTheMove
  <2>2. /\ status' \in [Proposal -> {"absent", "pending"} \cup Decision]
        /\ \A q \in Proposal :
             \/ status'[q] = status[q]
             \/ status[q] = "pending" /\ status'[q] \in Decision
        /\ \A q \in Proposal : status'[q] = "accepted" => status[q] = "accepted" \/ q = p
    BY <1>3, RowsChangeOnce DEF AutoResolve, Decision
  <2>3. TypeOK'
    BY <1>3, <2>2 DEF AutoResolve, Record, callVars, TypeOK, Step
  <2>4. AcceptedHasMoved' /\ Grounded' /\ PastTheMove'
    BY <1>3, <2>1, <2>2 DEF AutoResolve, Record, callVars, TypeOK,
       AcceptedHasMoved, Grounded, PastTheMove
  <2>5. InOrder'
    BY <1>3, <2>2 DEF AutoResolve, Record, Resolvable, Resolved, TypeOK, InOrder, Decision
  <2>6. Stranded' \subseteq Stranded
    BY <1>3, <2>2 DEF AutoResolve, Record, Stranded, TypeOK, Decision
  <2>7. failures' = failures /\ failures' \in Nat
    BY <1>3 DEF AutoResolve, TypeOK
  <2> QED BY <2>3, <2>4, <2>5, <2>6, <2>7, StrandedCounted
<1>4. CASE AutoSweep(p)
  <2>1. moves' = moves /\ Moved' = Moved
    BY <1>4 DEF AutoSweep, Moved
  <2>2. /\ status' \in [Proposal -> {"absent", "pending"} \cup Decision]
        /\ \A q \in Proposal :
             \/ status'[q] = status[q]
             \/ status[q] = "pending" /\ status'[q] \in Decision
        /\ \A q \in Proposal : status'[q] = "accepted" => status[q] = "accepted"
    BY <1>4, RowsChangeOnce DEF AutoSweep, Decision
  <2>3. TypeOK'
    BY <1>4, <2>2 DEF AutoSweep, Record, callVars, TypeOK, Step
  <2>4. AcceptedHasMoved' /\ Grounded' /\ PastTheMove' /\ InOrder'
    BY <1>4, <2>1, <2>2 DEF AutoSweep, Record, callVars, TypeOK, Decision,
       AcceptedHasMoved, Grounded, PastTheMove, InOrder
  <2>5. Stranded' \subseteq Stranded
    BY <1>4, <2>2 DEF AutoSweep, Record, Stranded, TypeOK, Decision, InOrder
  <2>6. failures' = failures /\ failures' \in Nat
    BY <1>4 DEF AutoSweep, TypeOK
  <2> QED BY <2>3, <2>4, <2>5, <2>6, StrandedCounted
<1>5. CASE AutoFails(p)
  <2>1. rec[p] = "moving" => p \in Staged
    BY DEF Grounded
  <2>2. moves' \in Seq(Staged) /\ Moved \subseteq Moved'
    <3>1. CASE moves' = moves
      BY <3>1 DEF TypeOK, Moved
    <3>2. CASE moves' # moves
      <4>1. p \in Staged /\ moves' = MovedBy(p)
        BY <1>5, <2>1, <3>2 DEF AutoFails
      <4> QED BY <4>1, MoveIsKept
    <3> QED BY <3>1, <3>2
  <2>3. status' \in {status, Swept(p)} \/ (Resolvable(p) /\ status' = Resolved(p, "accepted"))
    BY <1>5 DEF AutoFails
  <2>4. /\ status' \in [Proposal -> {"absent", "pending"} \cup Decision]
        /\ \A q \in Proposal :
             \/ status'[q] = status[q]
             \/ status[q] = "pending" /\ status'[q] \in Decision
    BY <2>3, RowsChangeOnce DEF Decision
  <2>5. \A q \in Proposal : status'[q] = "accepted" => status[q] = "accepted" \/ q \in Moved
    <3>1. CASE rec[p] = "resolving"
      BY <2>3, <3>1, RowsChangeOnce DEF Decision, PastTheMove
    <3>2. CASE rec[p] # "resolving"
      BY <1>5, <3>2, RowsChangeOnce DEF AutoFails, Decision
    <3> QED BY <3>1, <3>2
  <2>6. TypeOK'
    <3>1. /\ rec' = [rec EXCEPT ![p] = "publishing"] /\ failures' = failures + 1
          /\ UNCHANGED <<event, item, at, about, decision>>
      BY <1>5 DEF AutoFails, Record, callVars
    <3> QED BY <2>2, <2>4, <3>1 DEF TypeOK
  <2>7. AcceptedHasMoved' /\ Grounded' /\ PastTheMove' /\ InOrder'
    BY <1>5, <2>2, <2>4, <2>5 DEF AutoFails, Record, callVars, TypeOK, Decision,
       AcceptedHasMoved, Grounded, PastTheMove, InOrder
  <2>8. Stranded' \subseteq Stranded
    BY <1>5, <2>4 DEF AutoFails, Record, Stranded, TypeOK, Decision
  <2>9. failures' = failures + 1 /\ failures' \in Nat
    BY <1>5 DEF AutoFails, TypeOK
  <2> QED BY <2>2, <2>6, <2>7, <2>8, <2>9, StrandedCounted DEF TypeOK
<1>6. CASE Publish(p)
  <2>1. TypeOK'
    BY <1>6 DEF Publish, Record, callVars, TypeOK, Step
  <2>2. AcceptedHasMoved' /\ Grounded' /\ PastTheMove' /\ InOrder'
    BY <1>6 DEF Publish, Record, callVars, TypeOK, Moved,
       AcceptedHasMoved, Grounded, PastTheMove, InOrder
  <2>3. Stranded' \subseteq Stranded
    BY <1>6 DEF Publish, Record, Stranded, TypeOK
  <2>4. failures' = failures /\ failures' \in Nat
    BY <1>6 DEF Publish, TypeOK
  <2> QED BY <2>1, <2>2, <2>3, <2>4, StrandedCounted
<1>7. CASE RecordingEnds(p)
  <2>1. TypeOK'
    BY <1>7 DEF RecordingEnds, Record, callVars, tableVars, TypeOK, Step
  <2>2. AcceptedHasMoved' /\ Grounded' /\ PastTheMove' /\ InOrder'
    BY <1>7 DEF RecordingEnds, Record, callVars, tableVars, TypeOK, Step, Moved,
       AcceptedHasMoved, Grounded, PastTheMove, InOrder
  <2>3. Stranded' \subseteq Stranded \cup {p}
    BY <1>7 DEF RecordingEnds, Record, tableVars, Stranded, TypeOK
  <2>4. failures' = failures + 1 /\ failures' \in Nat
    BY <1>7 DEF RecordingEnds, TypeOK
  <2> QED BY <2>1, <2>2, <2>3, <2>4, StrandedCounted
<1> QED BY <1>1, <1>2, <1>3, <1>4, <1>5, <1>6, <1>7 DEF Checker

LEMMA RequestKeeps ==
  ASSUME IInv, NEW c \in Call, Request(c)
  PROVE  IInv'
<1> USE StatusProposalsAssumption DEF IInv
<1>1. ASSUME NEW p \in Proposal, NEW d \in Decision, Press(c, p, d)
      PROVE  IInv'
  <2>1. TypeOK'
    BY <1>1 DEF Press, Goto, tableVars, TypeOK
  <2>2. AcceptedHasMoved' /\ Grounded' /\ PastTheMove' /\ InOrder'
    BY <1>1 DEF Press, Goto, tableVars, TypeOK, Moved,
       AcceptedHasMoved, Grounded, PastTheMove, InOrder
  <2>3. Stranded' = Stranded /\ failures' = failures /\ failures' \in Nat
    BY <1>1 DEF Press, tableVars, Stranded, TypeOK
  <2> QED BY <2>1, <2>2, <2>3, StrandedCounted DEF TypeOK
<1>2. CASE ReadProposal(c)
  <2>1. about[c] \in Proposal
    BY <1>2 DEF ReadProposal, Grounded
  <2>2. TypeOK'
    BY <1>2 DEF ReadProposal, Goto, tableVars, TypeOK, Step
  <2>3. AcceptedHasMoved' /\ Grounded' /\ PastTheMove' /\ InOrder'
    BY <1>2, <2>1 DEF ReadProposal, Goto, tableVars, TypeOK, Moved,
       AcceptedHasMoved, Grounded, PastTheMove, InOrder
  <2>4. Stranded' = Stranded /\ failures' = failures /\ failures' \in Nat
    BY <1>2 DEF ReadProposal, tableVars, Stranded, TypeOK
  <2> QED BY <2>2, <2>3, <2>4, StrandedCounted
<1>3. CASE AcceptMove(c)
  <2>1. about[c] \in Staged /\ moves' = MovedBy(about[c])
    BY <1>3 DEF AcceptMove, Grounded
  <2>2. moves' \in Seq(Staged) /\ Moved \subseteq Moved' /\ about[c] \in Moved'
    BY <2>1, MoveIsKept
  <2>3. TypeOK'
    BY <1>3, <2>2 DEF AcceptMove, Goto, TypeOK, Step
  <2>4. AcceptedHasMoved' /\ Grounded' /\ PastTheMove' /\ InOrder'
    BY <1>3, <2>1, <2>2 DEF AcceptMove, Goto, TypeOK,
       AcceptedHasMoved, Grounded, PastTheMove, InOrder
  <2>5. Stranded' = Stranded /\ failures' = failures /\ failures' \in Nat
    BY <1>3 DEF AcceptMove, Stranded, TypeOK
  <2> QED BY <2>2, <2>3, <2>4, <2>5, StrandedCounted
<1>4. CASE Resolve(c)
  <2>1. /\ about[c] \in Proposal /\ decision[c] \in Decision
        /\ moves' = moves /\ Moved' = Moved
        /\ decision[c] = "accepted" => about[c] \in Moved
    BY <1>4 DEF Resolve, Moved, Grounded, PastTheMove, TypeOK
  <2>2. status' = status \/ (Resolvable(about[c]) /\ status' = Resolved(about[c], decision[c]))
    BY <1>4 DEF Resolve
  <2>3. /\ status' \in [Proposal -> {"absent", "pending"} \cup Decision]
        /\ \A q \in Proposal :
             \/ status'[q] = status[q]
             \/ status[q] = "pending" /\ status'[q] \in Decision
        /\ \A q \in Proposal :
             status'[q] = "accepted" =>
               status[q] = "accepted" \/ (q = about[c] /\ decision[c] = "accepted")
    BY <2>1, <2>2, RowsChangeOnce
  <2>4. TypeOK'
    BY <1>4, <2>3 DEF Resolve, Goto, TypeOK, Step
  <2>5. AcceptedHasMoved' /\ Grounded' /\ PastTheMove' /\ InOrder'
    BY <1>4, <2>1, <2>3 DEF Resolve, Goto, TypeOK, Decision,
       AcceptedHasMoved, Grounded, PastTheMove, InOrder
  <2>6. Stranded' \subseteq Stranded
    BY <1>4, <2>3 DEF Resolve, Stranded, Decision
  <2>7. failures' = failures /\ failures' \in Nat
    BY <1>4 DEF Resolve, TypeOK
  <2> QED BY <2>4, <2>5, <2>6, <2>7, StrandedCounted
<1>5. CASE Sweep(c)
  <2>1. about[c] \in Proposal /\ moves' = moves /\ Moved' = Moved
    BY <1>5 DEF Sweep, Moved, Grounded
  <2>2. /\ status' \in [Proposal -> {"absent", "pending"} \cup Decision]
        /\ \A q \in Proposal :
             \/ status'[q] = status[q]
             \/ status[q] = "pending" /\ status'[q] \in Decision
        /\ \A q \in Proposal : status'[q] = "accepted" => status[q] = "accepted"
    BY <1>5, <2>1, RowsChangeOnce DEF Sweep, Decision
  <2>3. TypeOK'
    BY <1>5, <2>2 DEF Sweep, Goto, TypeOK, Step
  <2>4. AcceptedHasMoved' /\ Grounded' /\ PastTheMove' /\ InOrder'
    BY <1>5, <2>1, <2>2 DEF Sweep, Goto, TypeOK, Decision,
       AcceptedHasMoved, Grounded, PastTheMove, InOrder
  <2>5. Stranded' \subseteq Stranded
    BY <1>5, <2>2 DEF Sweep, Stranded, Decision
  <2>6. failures' = failures /\ failures' \in Nat
    BY <1>5 DEF Sweep, TypeOK
  <2> QED BY <2>3, <2>4, <2>5, <2>6, StrandedCounted
<1>6. CASE Retire(c)
  <2>1. TypeOK'
    BY <1>6 DEF Retire, Goto, TypeOK
  <2>2. AcceptedHasMoved' /\ Grounded' /\ PastTheMove' /\ InOrder'
    BY <1>6 DEF Retire, Goto, TypeOK, Moved,
       AcceptedHasMoved, Grounded, PastTheMove, InOrder
  <2>3. Stranded' = Stranded /\ failures' = failures /\ failures' \in Nat
    BY <1>6 DEF Retire, Stranded, TypeOK
  <2> QED BY <2>1, <2>2, <2>3, StrandedCounted
<1>7. CASE RequestFails(c)
  <2>1. TypeOK'
    BY <1>7 DEF RequestFails, Goto, tableVars, TypeOK
  <2>2. AcceptedHasMoved' /\ Grounded' /\ PastTheMove' /\ InOrder'
    BY <1>7 DEF RequestFails, Goto, tableVars, TypeOK, Moved,
       AcceptedHasMoved, Grounded, PastTheMove, InOrder
  <2>3. Stranded' = Stranded /\ failures' = failures + 1 /\ failures' \in Nat
    BY <1>7 DEF RequestFails, tableVars, Stranded, TypeOK
  <2> QED BY <2>1, <2>2, <2>3, StrandedCounted DEF TypeOK
<1> QED BY <1>1, <1>2, <1>3, <1>4, <1>5, <1>6, <1>7 DEF Request

\* The outbox worker's step and the plain dismissal touch nothing but the items.
LEMMA ItemsKeep ==
  ASSUME IInv, NEW p \in Proposal, ShowItem(p) \/ DismissItem(p)
  PROVE  IInv'
<1>1. /\ item' \in [Proposal -> {"none", "open", "dismissed"}]
      /\ UNCHANGED <<status, moves, event, rec, at, about, decision, failures>>
  BY DEF ShowItem, DismissItem, callVars, IInv, TypeOK
<1> QED BY <1>1 DEF IInv, TypeOK, AcceptedHasMoved, Grounded, PastTheMove, InOrder,
        FewStranded, StrandedByFailure, Stranded, Moved

LEMMA NextInvariant ==
  ASSUME IInv, [Next]_vars
  PROVE  IInv'
<1>1. CASE UNCHANGED vars
  BY <1>1 DEF vars, tableVars, callVars, IInv, TypeOK, AcceptedHasMoved, Grounded,
     PastTheMove, InOrder, FewStranded, StrandedByFailure, Stranded, Moved
<1> QED BY <1>1, CheckerKeeps, RequestKeeps, ItemsKeep DEF Next

\* The invariant holds in every reachable state.
LEMMA Inductive == Spec => []IInv
<1>1. Init => IInv
  BY InitInvariant
<1>2. IInv /\ [Next]_vars => IInv'
  BY NextInvariant
<1> QED BY <1>1, <1>2, PTL DEF Spec

-----------------------------------------------------------------------------
(* The theorems. *)

\* Every reachable state is well typed.
THEOREM Typing == Spec => []TypeOK
<1>1. IInv => TypeOK
  BY DEF IInv
<1> QED BY <1>1, Inductive, PTL

\* Proposals nobody decided on and nobody will see are no more than the failures.
THEOREM FailuresStrand == Spec => []StrandedByFailure
<1>1. IInv => StrandedByFailure
  BY DEF IInv, FewStranded
<1> QED BY <1>1, Inductive, PTL

\* The shape of every step: a proposal gets its row, or a pending one is decided.
LEMMA NextDecides ==
  ASSUME IInv, [Next]_vars, NEW q \in Proposal
  PROVE  \/ status'[q] = status[q]
         \/ status[q] = "absent" /\ status'[q] = "pending"
         \/ status[q] = "pending" /\ status'[q] \in Decision
<1> USE DEF IInv
<1>1. ASSUME NEW p \in Proposal, Propose(p)
      PROVE  status'[q] = status[q] \/ (status[q] = "absent" /\ status'[q] = "pending")
  BY <1>1 DEF Propose, TypeOK, InOrder
<1>2. ASSUME NEW p \in Proposal, AutoResolve(p) \/ AutoSweep(p) \/ AutoFails(p)
      PROVE  status'[q] = status[q] \/ (status[q] = "pending" /\ status'[q] \in Decision)
  <2>1. status' \in {status, Swept(p)} \/ (Resolvable(p) /\ status' = Resolved(p, "accepted"))
    BY <1>2 DEF AutoResolve, AutoSweep, AutoFails
  <2> QED BY <2>1, RowsChangeOnce DEF Decision
<1>3. ASSUME NEW c \in Call, Resolve(c) \/ Sweep(c)
      PROVE  status'[q] = status[q] \/ (status[q] = "pending" /\ status'[q] \in Decision)
  <2>1. about[c] \in Proposal /\ decision[c] \in Decision
    BY <1>3 DEF Resolve, Sweep, Grounded, TypeOK
  <2>2. \/ status' \in {status, Swept(about[c])}
        \/ Resolvable(about[c]) /\ status' = Resolved(about[c], decision[c])
    BY <1>3 DEF Resolve, Sweep
  <2> QED BY <2>1, <2>2, RowsChangeOnce
<1>4. ASSUME NEW p \in Proposal,
             \/ AutoMove(p) \/ Publish(p) \/ RecordingEnds(p) \/ ShowItem(p) \/ DismissItem(p)
      PROVE  status' = status
  BY <1>4 DEF AutoMove, Publish, RecordingEnds, ShowItem, DismissItem, tableVars
<1>5. ASSUME NEW c \in Call,
             \/ \E p \in Proposal, d \in Decision : Press(c, p, d)
             \/ ReadProposal(c) \/ AcceptMove(c) \/ Retire(c) \/ RequestFails(c)
      PROVE  status' = status
  BY <1>5 DEF Press, ReadProposal, AcceptMove, Retire, RequestFails, tableVars
<1>6. CASE UNCHANGED vars
  BY <1>6 DEF vars, tableVars
<1> QED BY <1>1, <1>2, <1>3, <1>4, <1>5, <1>6 DEF Next, Checker, Request

-----------------------------------------------------------------------------
(* The decisions, as Decisions promises them. *)

\* What gives each step its right: the checker moves what it is sure of, a
\* request is about an item that was shown, what was published has its row, and
\* whoever sweeps has accepted.
Entitled ==
  /\ \A p \in Proposal : rec[p] = "moving" => p \in Confident
  /\ \A p \in Proposal : rec[p] # "none" \/ p \in event => status[p] # "absent"
  /\ \A p \in Proposal : item[p] # "none" => p \in event
  /\ \A p \in Proposal : rec[p] = "sweeping" => status[p] = "accepted"
  /\ \A c \in Call : at[c] # "idle" => item[about[c]] # "none"
  /\ \A c \in Call : at[c] = "sweeping" => status[about[c]] = "accepted"

LEMMA EntitledBegins ==
  ASSUME Init PROVE Entitled
BY DEF Init, Entitled

\* Rows only get decided, so what rests on a row rests.
LEMMA CheckerStaysEntitled ==
  ASSUME IInv, Entitled, NEW p \in Proposal, Checker(p)
  PROVE  Entitled'
<1> USE DEF IInv
<1>1. /\ \A q \in Proposal : status[q] # "absent" => status'[q] # "absent"
      /\ \A q \in Proposal : status[q] = "accepted" => status'[q] = "accepted"
  <2>1. [Next]_vars
    BY DEF Next
  <2> QED BY <2>1, NextDecides DEF Decision
<1>2. UNCHANGED <<item, at, about>>
  BY DEF Checker, Propose, AutoMove, AutoResolve, AutoSweep, AutoFails, Publish, RecordingEnds,
     tableVars, callVars
<1>3. \A c \in Call : at[c] # "idle" => about[c] \in Proposal
  BY DEF Grounded
<1>4. CASE Propose(p)
  BY <1>1, <1>2, <1>3, <1>4 DEF Propose, Record, FirstStep, TypeOK, Entitled
<1>5. CASE AutoMove(p)
  BY <1>1, <1>2, <1>3, <1>5 DEF AutoMove, Record, TypeOK, Entitled
<1>6. CASE AutoResolve(p)
  BY <1>1, <1>2, <1>3, <1>6 DEF AutoResolve, Record, Resolved, TypeOK, Entitled
<1>7. CASE AutoSweep(p)
  BY <1>1, <1>2, <1>3, <1>7 DEF AutoSweep, Record, TypeOK, Entitled
<1>8. CASE AutoFails(p)
  BY <1>1, <1>2, <1>3, <1>8 DEF AutoFails, Record, Step, TypeOK, Entitled
<1>9. CASE Publish(p)
  BY <1>1, <1>2, <1>3, <1>9 DEF Publish, Record, TypeOK, Entitled
<1>10. CASE RecordingEnds(p)
  BY <1>1, <1>2, <1>3, <1>10 DEF RecordingEnds, Record, Step, tableVars, TypeOK, Entitled
<1> QED BY <1>4, <1>5, <1>6, <1>7, <1>8, <1>9, <1>10 DEF Checker

LEMMA RequestStaysEntitled ==
  ASSUME IInv, Entitled, NEW c \in Call, Request(c)
  PROVE  Entitled'
<1> USE DEF IInv
<1>1. /\ \A q \in Proposal : status[q] # "absent" => status'[q] # "absent"
      /\ \A q \in Proposal : status[q] = "accepted" => status'[q] = "accepted"
  <2>1. [Next]_vars
    BY DEF Next
  <2> QED BY <2>1, NextDecides DEF Decision
<1>2. UNCHANGED <<event, rec>>
  BY DEF Request, Press, ReadProposal, AcceptMove, Resolve, Sweep, Retire, RequestFails, tableVars
<1>3. \A d \in Call : at[d] # "idle" => about[d] \in Proposal
  BY DEF Grounded
<1>4. ASSUME NEW p \in Proposal, NEW d \in Decision, Press(c, p, d)
      PROVE  Entitled'
  BY <1>1, <1>2, <1>3, <1>4 DEF Press, Goto, tableVars, TypeOK, Entitled
<1>5. CASE ReadProposal(c)
  BY <1>1, <1>2, <1>3, <1>5 DEF ReadProposal, Goto, tableVars, TypeOK, Entitled
<1>6. CASE AcceptMove(c)
  BY <1>1, <1>2, <1>3, <1>6 DEF AcceptMove, Goto, TypeOK, Entitled
<1>7. CASE Resolve(c)
  BY <1>1, <1>2, <1>3, <1>7 DEF Resolve, Resolved, Goto, TypeOK, Entitled
<1>8. CASE Sweep(c)
  BY <1>1, <1>2, <1>3, <1>8 DEF Sweep, Goto, TypeOK, Entitled
<1>9. CASE Retire(c)
  BY <1>1, <1>2, <1>3, <1>9 DEF Retire, Goto, TypeOK, Entitled
<1>10. CASE RequestFails(c)
  BY <1>1, <1>2, <1>3, <1>10 DEF RequestFails, Goto, tableVars, TypeOK, Entitled
<1> QED BY <1>4, <1>5, <1>6, <1>7, <1>8, <1>9, <1>10 DEF Request

LEMMA StaysEntitled ==
  ASSUME IInv, Entitled, [Next]_vars
  PROVE  Entitled'
<1>1. CASE UNCHANGED vars
  BY <1>1 DEF vars, tableVars, callVars, Entitled
<1>2. ASSUME NEW p \in Proposal, ShowItem(p) \/ DismissItem(p)
      PROVE  Entitled'
  BY <1>2 DEF ShowItem, DismissItem, callVars, IInv, TypeOK, Entitled, Grounded
<1> QED BY <1>1, <1>2, CheckerStaysEntitled, RequestStaysEntitled DEF Next

LEMMA AlwaysEntitled == Spec => [](IInv /\ Entitled)
<1>1. Init => Entitled
  BY EntitledBegins
<1>2. IInv /\ Entitled /\ [Next]_vars => Entitled'
  BY StaysEntitled
<1> QED BY <1>1, <1>2, Inductive, PTL DEF Spec

\* The abstract move of a proposal is MovedBy, where it has not moved yet.
LEMMA MoveMaps ==
  ASSUME NEW p \in Staged, status[p] # "absent",
         p \in Confident \/ p \in Shown,
         moves' \in {moves, MovedBy(p)}, UNCHANGED <<status, event, item>>
  PROVE  TheDecisions!Move(p) \/ UNCHANGED TheDecisions!decisionVars
BY DEF MovedBy, Moved, Shown, TheDecisions!Move, TheDecisions!HasMoved, TheDecisions!decisionVars

LEMMA SweepMaps ==
  ASSUME IInv, NEW p \in Proposal, status[p] = "accepted",
         status' = Swept(p), UNCHANGED <<moves, event, item>>
  PROVE  TheDecisions!Settle(p)
BY DEF Swept, Shown, TheDecisions!Settle

LEMMA AcceptMaps ==
  ASSUME NEW p \in Proposal, p \in Moved, Resolvable(p),
         status' = Resolved(p, "accepted"), UNCHANGED <<moves, event, item>>
  PROVE  TheDecisions!Accept(p)
BY DEF Resolvable, Resolved, Moved, Shown, TheDecisions!Accept, TheDecisions!HasMoved

LEMMA NothingMaps ==
  ASSUME UNCHANGED <<status, moves, event>>, Shown' = Shown
  PROVE  UNCHANGED TheDecisions!decisionVars
BY DEF TheDecisions!decisionVars

LEMMA CheckerMaps ==
  ASSUME IInv, Entitled, NEW p \in Proposal, Checker(p)
  PROVE  [TheDecisions!DecisionsNext]_TheDecisions!decisionVars
<1> USE DEF IInv
<1>1. CASE Propose(p)
  BY <1>1 DEF Propose, InOrder, Shown, TheDecisions!Record, TheDecisions!DecisionsNext
<1>2. CASE AutoMove(p)
  <2>1. p \in Staged /\ p \in Confident /\ status[p] # "absent"
    BY <1>2 DEF AutoMove, Grounded, Entitled
  <2> QED BY <1>2, <2>1, MoveMaps DEF AutoMove, TheDecisions!DecisionsNext
<1>3. CASE AutoResolve(p)
  <2>1. p \in Moved
    BY <1>3 DEF AutoResolve, PastTheMove
  <2> QED BY <1>3, <2>1, AcceptMaps, NothingMaps DEF AutoResolve, Shown, TheDecisions!DecisionsNext
<1>4. CASE AutoSweep(p)
  BY <1>4, SweepMaps DEF AutoSweep, Entitled, TheDecisions!DecisionsNext
<1>5. CASE AutoFails(p)
  <2>1. CASE rec[p] = "moving"
    <3>1. p \in Staged /\ p \in Confident /\ status[p] # "absent"
      BY <2>1 DEF Grounded, Entitled
    <3> QED BY <1>5, <2>1, <3>1, MoveMaps DEF AutoFails, TheDecisions!DecisionsNext
  <2>2. CASE rec[p] = "resolving"
    <3>1. p \in Moved
      BY <2>2 DEF PastTheMove
    <3> QED BY <1>5, <2>2, <3>1, AcceptMaps, NothingMaps
            DEF AutoFails, Shown, TheDecisions!DecisionsNext
  <2>3. CASE rec[p] = "sweeping"
    BY <1>5, <2>3, SweepMaps, NothingMaps DEF AutoFails, Entitled, Shown, TheDecisions!DecisionsNext
  <2> QED BY <1>5, <2>1, <2>2, <2>3 DEF AutoFails, Step
<1>6. CASE Publish(p)
  BY <1>6 DEF Publish, Entitled, Shown, TheDecisions!Publish, TheDecisions!DecisionsNext
<1>7. CASE RecordingEnds(p)
  BY <1>7, NothingMaps DEF RecordingEnds, tableVars, Shown
<1> QED BY <1>1, <1>2, <1>3, <1>4, <1>5, <1>6, <1>7 DEF Checker

LEMMA RequestMaps ==
  ASSUME IInv, Entitled, NEW c \in Call, Request(c)
  PROVE  [TheDecisions!DecisionsNext]_TheDecisions!decisionVars
<1> USE DEF IInv
<1>1. CASE \/ \E p \in Proposal, d \in Decision : Press(c, p, d)
           \/ ReadProposal(c) \/ RequestFails(c)
  BY <1>1, NothingMaps DEF Press, ReadProposal, RequestFails, tableVars, Shown
<1>2. CASE AcceptMove(c)
  <2>1. about[c] \in Staged /\ about[c] \in Proposal /\ about[c] \in Shown /\ status[about[c]] # "absent"
    BY <1>2, StatusProposalsAssumption DEF AcceptMove, Grounded, Entitled, Shown
  <2> QED BY <1>2, <2>1, MoveMaps DEF AcceptMove, TheDecisions!DecisionsNext
<1>3. CASE Resolve(c)
  <2>1. about[c] \in Proposal /\ about[c] \in Shown /\ decision[c] \in Decision
    BY <1>3 DEF Resolve, Grounded, Entitled, Shown, TypeOK
  <2>2. CASE ~ Resolvable(about[c])
    BY <1>3, <2>2, NothingMaps DEF Resolve, Shown
  <2>3. CASE Resolvable(about[c]) /\ decision[c] = "accepted"
    <3>1. about[c] \in Moved
      BY <1>3, <2>3 DEF Resolve, PastTheMove
    <3> QED BY <1>3, <2>1, <2>3, <3>1, AcceptMaps DEF Resolve, TheDecisions!DecisionsNext
  <2>4. CASE Resolvable(about[c]) /\ decision[c] = "dismissed"
    <3>1. TheDecisions!Dismiss(about[c])
      BY <1>3, <2>1, <2>4 DEF Resolve, Resolvable, Resolved, Shown, TheDecisions!Dismiss
    <3> QED BY <2>1, <3>1 DEF TheDecisions!DecisionsNext
  <2> QED BY <2>1, <2>2, <2>3, <2>4 DEF Decision
<1>4. CASE Sweep(c)
  <2>1. about[c] \in Proposal /\ status[about[c]] = "accepted"
    BY <1>4 DEF Sweep, Grounded, Entitled
  <2> QED BY <1>4, <2>1, SweepMaps DEF Sweep, TheDecisions!DecisionsNext
<1>5. CASE Retire(c)
  <2>1. Shown' = Shown
    BY <1>5 DEF Retire, Shown, Entitled, Grounded, TypeOK
  <2> QED BY <1>5, <2>1, NothingMaps DEF Retire
<1> QED BY <1>1, <1>2, <1>3, <1>4, <1>5 DEF Request

LEMMA ItemsMap ==
  ASSUME IInv, NEW p \in Proposal, ShowItem(p) \/ DismissItem(p)
  PROVE  [TheDecisions!DecisionsNext]_TheDecisions!decisionVars
<1>1. CASE ShowItem(p)
  <2>1. Shown' = Shown \cup {p}
    BY <1>1 DEF ShowItem, Shown, IInv, TypeOK
  <2> QED BY <1>1, <2>1 DEF ShowItem, TheDecisions!Show, TheDecisions!DecisionsNext
<1>2. CASE DismissItem(p)
  <2>1. Shown' = Shown
    BY <1>2 DEF DismissItem, Shown, IInv, TypeOK
  <2> QED BY <1>2, <2>1, NothingMaps DEF DismissItem
<1> QED BY <1>1, <1>2

\* The checker and the person's tabs decide as Decisions promises, however many
\* proposals and requests there are and wherever a call fails: nothing moves the
\* application that the checker is not sure of and the person was not shown,
\* nothing counts as accepted that has not moved it, and nobody's decision or
\* move is made twice.
THEOREM DecisionsAreImplemented == Spec => ImplementsDecisions
<1>1. Init => TheDecisions!DecisionsInit
  BY DEF Init, Shown, TheDecisions!DecisionsInit
<1>2. IInv /\ Entitled /\ [Next]_vars => [TheDecisions!DecisionsNext]_TheDecisions!decisionVars
  <2>1. CASE UNCHANGED vars
    BY <2>1, NothingMaps DEF vars, tableVars, Shown
  <2> QED BY <2>1, CheckerMaps, RequestMaps, ItemsMap DEF Next
<1> QED BY <1>1, <1>2, AlwaysEntitled, PTL DEF Spec, ImplementsDecisions, TheDecisions!DecisionsSpec

-----------------------------------------------------------------------------
(* Between the move and the acceptance. *)

\* What moved has its row, and a request moves what it was asked to accept; so a
\* proposal that moved is being resolved, decided, or left behind by a failure.
HalfWay ==
  /\ \A p \in Proposal : p \in Moved => status[p] # "absent"
  /\ \A c \in Call : at[c] = "moving" => decision[c] = "accepted"
  /\ IsFiniteSet(HalfAccepted) /\ HalfAcceptedByFailure

LEMMA HalfWayBegins ==
  ASSUME Init PROVE HalfWay
<1>1. Moved = {}
  BY DEF Init, Moved
<1>2. HalfAccepted = {}
  BY <1>1 DEF HalfAccepted
<1> QED BY <1>1, <1>2, FS_EmptySet DEF Init, HalfWay, HalfAcceptedByFailure

LEMMA HalfWayCounted ==
  ASSUME IInv, HalfWay, NEW p,
         failures' \in Nat,
         \/ HalfAccepted' \subseteq HalfAccepted /\ failures <= failures'
         \/ HalfAccepted' \subseteq HalfAccepted \cup {p} /\ failures' = failures + 1
  PROVE  IsFiniteSet(HalfAccepted)' /\ HalfAcceptedByFailure'
<1>1. failures \in Nat /\ IsFiniteSet(HalfAccepted) /\ Cardinality(HalfAccepted) <= failures
  BY DEF IInv, TypeOK, HalfWay, HalfAcceptedByFailure
<1>2. IsFiniteSet(HalfAccepted') /\ Cardinality(HalfAccepted') <= failures'
  BY <1>1, WithinTheFailures
<1> QED BY <1>2 DEF HalfAcceptedByFailure

\* A step that leaves the moves, and undecides nothing.
LEMMA MovedStand ==
  ASSUME moves' = moves PROVE Moved' = Moved
BY DEF Moved

LEMMA MoveAdds ==
  ASSUME IInv, NEW p \in Staged, moves' \in {moves, MovedBy(p)}
  PROVE  Moved' \subseteq Moved \cup {p}
<1>1. CASE moves' = moves
  BY <1>1, MovedStand
<1>2. CASE moves' = Append(moves, p)
  <2>1. /\ moves \in Seq(Staged) /\ Len(moves') = Len(moves) + 1 /\ Len(moves) \in Nat
        /\ \A i \in 1 .. Len(moves) : moves'[i] = moves[i]
        /\ moves'[Len(moves) + 1] = p
    BY <1>2, AppendProperties, LenProperties DEF IInv, TypeOK
  <2> QED BY <2>1 DEF Moved
<1> QED BY <1>1, <1>2 DEF MovedBy

\* The row of a proposal that moved, and what a request that moves was asked.
LEMMA MovedHaveRows ==
  ASSUME IInv, Entitled, HalfWay, [Next]_vars
  PROVE  /\ \A p \in Proposal : p \in Moved' => status'[p] # "absent"
         /\ \A c \in Call : at'[c] = "moving" => decision'[c] = "accepted"
<1> USE StatusProposalsAssumption DEF IInv
<1>1. \A q \in Proposal : status[q] # "absent" => status'[q] # "absent"
  BY NextDecides DEF Decision
<1>2. ASSUME NEW p \in Proposal, Checker(p)
      PROVE  \A q \in Proposal : q \in Moved' => status'[q] # "absent"
  <2>1. CASE rec[p] = "moving"
    <3>1. p \in Staged /\ status[p] # "absent"
      BY <2>1 DEF Grounded, Entitled
    <3>2. moves' \in {moves, MovedBy(p)}
      BY <1>2, <2>1 DEF Checker, Propose, AutoMove, AutoResolve, AutoSweep, AutoFails, Publish,
         RecordingEnds, tableVars
    <3> QED BY <1>1, <3>1, <3>2, MoveAdds DEF HalfWay
  <2>2. CASE rec[p] # "moving"
    <3>1. moves' = moves
      BY <1>2, <2>2 DEF Checker, Propose, AutoMove, AutoResolve, AutoSweep, AutoFails, Publish,
         RecordingEnds, tableVars
    <3> QED BY <1>1, <3>1, MovedStand DEF HalfWay
  <2> QED BY <2>1, <2>2
<1>3. ASSUME NEW c \in Call, Request(c)
      PROVE  \A q \in Proposal : q \in Moved' => status'[q] # "absent"
  <2>1. CASE AcceptMove(c)
    <3>1. about[c] \in Staged /\ status[about[c]] # "absent" /\ moves' = MovedBy(about[c])
      BY <2>1 DEF AcceptMove, Grounded, Entitled
    <3> QED BY <1>1, <3>1, MoveAdds DEF HalfWay
  <2>2. CASE ~ AcceptMove(c)
    <3>1. moves' = moves
      BY <1>3, <2>2 DEF Request, Press, ReadProposal, Resolve, Sweep, Retire, RequestFails, tableVars
    <3> QED BY <1>1, <3>1, MovedStand DEF HalfWay
  <2> QED BY <2>1, <2>2
<1>4. ASSUME NEW p \in Proposal, ShowItem(p) \/ DismissItem(p)
      PROVE  moves' = moves /\ UNCHANGED callVars
  BY <1>4 DEF ShowItem, DismissItem
<1>5. UNCHANGED vars => moves' = moves /\ UNCHANGED callVars
  BY DEF vars, tableVars
<1>6. \A p \in Proposal : p \in Moved' => status'[p] # "absent"
  BY <1>1, <1>2, <1>3, <1>4, <1>5, MovedStand DEF Next, HalfWay
<1>7. ASSUME NEW p \in Proposal, Checker(p)
      PROVE  UNCHANGED callVars
  BY <1>7 DEF Checker, Propose, AutoMove, AutoResolve, AutoSweep, AutoFails, Publish, RecordingEnds
<1>8. ASSUME NEW c \in Call, Request(c), NEW d \in Call, at'[d] = "moving"
      PROVE  decision'[d] = "accepted"
  <2>1. CASE at[d] = "moving"
    BY <1>8, <2>1 DEF Request, Press, ReadProposal, AcceptMove, Resolve, Sweep, Retire, RequestFails,
       Goto, TypeOK, HalfWay
  <2>2. CASE at[d] # "moving"
    <3>1. ReadProposal(c) /\ d = c
      BY <1>8, <2>2 DEF Request, Press, ReadProposal, AcceptMove, Resolve, Sweep, Retire, RequestFails,
         Goto, TypeOK
    <3> QED BY <1>8, <3>1 DEF ReadProposal, Goto, TypeOK, Decision
  <2> QED BY <2>1, <2>2
<1>9. \A c \in Call : at'[c] = "moving" => decision'[c] = "accepted"
  BY <1>4, <1>5, <1>7, <1>8 DEF Next, callVars, HalfWay
<1> QED BY <1>6, <1>9

\* Only a failure takes a proposal from between the two.
LEMMA CheckerHalves ==
  ASSUME IInv, Entitled, HalfWay, NEW p \in Proposal, Checker(p)
  PROVE  \/ HalfAccepted' \subseteq HalfAccepted /\ failures' = failures
         \/ HalfAccepted' \subseteq HalfAccepted \cup {p} /\ failures' = failures + 1
<1> USE DEF IInv
<1>1. UNCHANGED <<at, about, decision>>
  BY DEF Checker, Propose, AutoMove, AutoResolve, AutoSweep, AutoFails, Publish, RecordingEnds, callVars
<1>2. \A q \in Proposal : status'[q] = "pending" => status[q] = "pending" \/ status[q] = "absent"
  <2>1. [Next]_vars
    BY DEF Next
  <2> QED BY <2>1, NextDecides DEF Decision
<1>3. \A q \in Moved' : q \in Proposal
  <2>1. [Next]_vars
    BY DEF Next
  <2>2. TypeOK'
    BY <2>1, NextInvariant
  <2> QED BY <2>2, StatusProposalsAssumption DEF TypeOK, Moved
<1>4. \A q \in Proposal : q # p => rec'[q] = rec[q]
  BY DEF Checker, Propose, AutoMove, AutoResolve, AutoSweep, AutoFails, Publish, RecordingEnds, Record, TypeOK
<1>5. \A q \in Proposal : q # p /\ q \in Moved' => q \in Moved
  <2>1. CASE rec[p] = "moving"
    <3>1. p \in Staged /\ moves' \in {moves, MovedBy(p)}
      BY <2>1 DEF Checker, Propose, AutoMove, AutoResolve, AutoSweep, AutoFails, Publish,
         RecordingEnds, tableVars, Grounded
    <3> QED BY <3>1, MoveAdds
  <2>2. CASE rec[p] # "moving"
    <3>1. moves' = moves
      BY <2>2 DEF Checker, Propose, AutoMove, AutoResolve, AutoSweep, AutoFails, Publish,
         RecordingEnds, tableVars
    <3> QED BY <3>1, MovedStand
  <2> QED BY <2>1, <2>2
<1>6. HalfAccepted' \subseteq HalfAccepted \cup {p}
  <2>1. ASSUME NEW q \in HalfAccepted', q # p
        PROVE  q \in HalfAccepted
    <3>1. q \in Proposal /\ q \in Moved /\ status[q] = "pending"
      BY <1>2, <1>3, <1>5, <2>1 DEF HalfAccepted, HalfWay
    <3> QED BY <1>1, <1>4, <2>1, <3>1 DEF HalfAccepted
  <2> QED BY <2>1
<1>7. CASE AutoFails(p) \/ RecordingEnds(p)
  BY <1>6, <1>7 DEF AutoFails, RecordingEnds
<1>8. CASE ~(AutoFails(p) \/ RecordingEnds(p))
  <2>1. failures' = failures
    BY <1>8 DEF Checker, Propose, AutoMove, AutoResolve, AutoSweep, Publish
  <2>2. p \in HalfAccepted' => p \in HalfAccepted
    <3>1. CASE Propose(p)
      BY <3>1, MovedStand DEF Propose, HalfAccepted, HalfWay, InOrder
    <3>2. CASE AutoMove(p)
      BY <3>2 DEF AutoMove, Record, TypeOK, HalfAccepted
    <3>3. CASE AutoResolve(p)
      BY <3>3 DEF AutoResolve, Resolvable, Resolved, TypeOK, HalfAccepted
    <3>4. CASE AutoSweep(p)
      BY <1>2, <3>4 DEF AutoSweep, Swept, TypeOK, HalfAccepted, InOrder
    <3>5. CASE Publish(p)
      BY <1>1, <3>5, MovedStand DEF Publish, HalfAccepted
    <3> QED BY <1>8, <3>1, <3>2, <3>3, <3>4, <3>5 DEF Checker
  <2> QED BY <1>6, <2>1, <2>2
<1> QED BY <1>7, <1>8

LEMMA RequestHalves ==
  ASSUME IInv, Entitled, HalfWay, NEW c \in Call, Request(c)
  PROVE  \/ HalfAccepted' \subseteq HalfAccepted /\ failures' = failures
         \/ HalfAccepted' \subseteq HalfAccepted \cup {about[c]} /\ failures' = failures + 1
<1> USE DEF IInv
<1>1. rec' = rec
  BY DEF Request, Press, ReadProposal, AcceptMove, Resolve, Sweep, Retire, RequestFails
<1>2. \A q \in Proposal : status'[q] = "pending" => status[q] = "pending" \/ status[q] = "absent"
  <2>1. [Next]_vars
    BY DEF Next
  <2> QED BY <2>1, NextDecides DEF Decision
<1>3. Moved \subseteq Proposal
  BY StatusProposalsAssumption DEF TypeOK, Moved
<1>4. \A d \in Call : d # c => at'[d] = at[d] /\ about'[d] = about[d] /\ decision'[d] = decision[d]
  BY DEF Request, Press, ReadProposal, AcceptMove, Resolve, Sweep, Retire, RequestFails, Goto, TypeOK
<1>5. ASSUME NEW q \in HalfAccepted', q \in Moved,
             at[c] = "resolving" /\ about[c] = q => decision[c] # "accepted"
      PROVE  q \in HalfAccepted
  <2>1. q \in Proposal /\ status[q] = "pending" /\ rec[q] # "resolving"
    BY <1>1, <1>2, <1>3, <1>5 DEF HalfAccepted, HalfWay
  <2>2. ASSUME NEW d \in Call, at[d] = "resolving", about[d] = q, decision[d] = "accepted"
        PROVE  FALSE
    BY <1>4, <1>5, <2>2 DEF HalfAccepted
  <2> QED BY <1>5, <2>1, <2>2 DEF HalfAccepted
<1>6. CASE AcceptMove(c)
  <2>1. about[c] \in Staged /\ moves' = MovedBy(about[c]) /\ decision[c] = "accepted"
    BY <1>6 DEF AcceptMove, Grounded, HalfWay
  <2>2. about[c] \notin HalfAccepted'
    BY <1>6, <2>1 DEF AcceptMove, Goto, TypeOK, HalfAccepted
  <2>3. \A q \in HalfAccepted' : q \in Moved
    BY <2>1, <2>2, MoveAdds DEF HalfAccepted
  <2> QED BY <1>5, <1>6, <2>3 DEF AcceptMove
<1>7. CASE RequestFails(c)
  <2>1. moves' = moves /\ failures' = failures + 1
    BY <1>7 DEF RequestFails, tableVars
  <2> QED BY <1>5, <2>1, MovedStand DEF HalfAccepted
<1>8. CASE Resolve(c)
  <2>1. about[c] \in Proposal /\ decision[c] \in Decision /\ moves' = moves
    BY <1>8 DEF Resolve, Grounded, TypeOK
  <2>2. status'[about[c]] # "pending"
    BY <1>8, <2>1 DEF Resolve, Resolvable, Resolved, TypeOK, Decision
  <2> QED BY <1>5, <1>8, <2>1, <2>2, MovedStand DEF Resolve, HalfAccepted
<1>9. CASE ~(AcceptMove(c) \/ RequestFails(c) \/ Resolve(c))
  <2>1. moves' = moves /\ failures' = failures /\ at[c] # "resolving"
    BY <1>9 DEF Request, Press, ReadProposal, Sweep, Retire, tableVars
  <2> QED BY <1>5, <2>1, MovedStand DEF HalfAccepted
<1> QED BY <1>6, <1>7, <1>8, <1>9

LEMMA StaysHalfWay ==
  ASSUME IInv, Entitled, HalfWay, [Next]_vars
  PROVE  HalfWay'
<1>1. failures' \in Nat /\ failures \in Nat
  BY NextInvariant DEF IInv, TypeOK
<1>2. ASSUME NEW p \in Proposal, ShowItem(p) \/ DismissItem(p)
      PROVE  HalfAccepted' = HalfAccepted /\ failures' = failures
  BY <1>2, MovedStand DEF ShowItem, DismissItem, callVars, HalfAccepted
<1>3. CASE UNCHANGED vars
  <2>1. HalfAccepted' = HalfAccepted /\ failures' = failures
    BY <1>3, MovedStand DEF vars, tableVars, callVars, HalfAccepted
  <2> QED BY <1>1, <2>1, HalfWayCounted, MovedHaveRows DEF HalfWay
<1>4. CASE \E p \in Proposal : Checker(p)
  BY <1>1, <1>4, CheckerHalves, HalfWayCounted, MovedHaveRows DEF HalfWay
<1>5. CASE \E c \in Call : Request(c)
  BY <1>1, <1>5, RequestHalves, HalfWayCounted, MovedHaveRows DEF HalfWay
<1>6. CASE \E p \in Proposal : ShowItem(p) \/ DismissItem(p)
  BY <1>1, <1>2, <1>6, HalfWayCounted, MovedHaveRows DEF HalfWay
<1> QED BY <1>3, <1>4, <1>5, <1>6 DEF Next

\* Proposals that moved the application and are still on offer, with nobody about
\* to resolve them, are no more than the failures: for any number of proposals and
\* tabs, and however the checker, the tabs and the sweeps overtake each other.
THEOREM FailuresHalve == Spec => []HalfAcceptedByFailure
<1>1. Init => HalfWay
  BY HalfWayBegins
<1>2. IInv /\ Entitled /\ HalfWay /\ [Next]_vars => HalfWay'
  BY StaysHalfWay
<1>3. HalfWay => HalfAcceptedByFailure
  BY DEF HalfWay
<1> QED BY <1>1, <1>2, <1>3, AlwaysEntitled, PTL DEF Spec
=============================================================================
