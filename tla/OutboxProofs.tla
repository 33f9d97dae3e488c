---------------------------- MODULE OutboxProofs ----------------------------
(***************************************************************************)
(* The outbox and the digest proved for any number of workers, rows and    *)
(* failures: a row has one handler, a failed tick loses at most one batch, *)
(* and the tables and hands together are the feed that Feed describes.     *)
(***************************************************************************)
EXTENDS Outbox, FiniteSetTheorems, TLAPS

-----------------------------------------------------------------------------
(* The inductive invariant. *)

\* A row is locked by the claim that has it in its batch.
LockedInBatch ==
  \A e \in Event, w \in Worker : lock[e] = w <=> at[w] = "claiming" /\ e \in hand[w]

\* A batch is empty between ticks, waits while it is being claimed and is
\* published after that.
BatchState ==
  \A w \in Worker :
    /\ at[w] = "idle" => hand[w] = {}
    /\ at[w] = "claiming" => \A e \in hand[w] : row[e] = "waiting"
    /\ at[w] \notin {"idle", "claiming"} => \A e \in hand[w] : row[e] = "published"

\* The row being handled has left its batch; its push comes after its item.
CurrentState ==
  \A w \in Worker :
    /\ cur[w] # 0 <=> at[w] \in {"rendering", "inserting", "pushing"}
    /\ cur[w] # 0 => row[cur[w]] = "published" /\ cur[w] \notin hand[w]
    /\ at[w] = "pushing" => cur[w] \in item \cap Match

\* No two workers have a row in common.
Apart ==
  \A w, v \in Worker : w # v => (hand[w] \cup {cur[w]}) \cap (hand[v] \cup {cur[v]}) \subseteq {0}

\* An item is about a published row that is in no batch.
ItemsBehind ==
  /\ \A e \in item : row[e] = "published"
  /\ \A w \in Worker : hand[w] \cap item = {}

\* A push is never about an item the feed does not have.
PushHasItem == pushed \subseteq item

\* A batch and the row taken from it are never more than the limit.
Batch(w) == hand[w] \cup ({cur[w]} \ {0})

BatchesFit ==
  \A w \in Worker : IsFiniteSet(Batch(w)) /\ Cardinality(Batch(w)) <= Limit

IInv ==
  /\ TypeOK /\ LockedInBatch /\ BatchState /\ CurrentState /\ Apart /\ ItemsBehind
  /\ PushHasItem /\ BatchesFit /\ LossIsBounded

\* What a worker's step may disturb besides the types and the counts.
Handling == LockedInBatch /\ BatchState /\ CurrentState /\ Apart /\ ItemsBehind /\ PushHasItem

-----------------------------------------------------------------------------
(* Counting. *)

\* Rows are numbered, so what is lost can be counted.
LEMMA RowsCountable ==
  ASSUME NEW S \in SUBSET Event
  PROVE  IsFiniteSet(S) /\ Cardinality(S) \in Nat
<1>1. IsFiniteSet(Event)
  BY OutboxAssumption, FS_Interval DEF Event
<1> QED BY <1>1, FS_Subset, FS_CardinalityType

\* One more failure allows for one more batch, and never for less.
LEMMA BoundGrows ==
  ASSUME NEW limit \in Nat, NEW f \in Nat, NEW g \in Nat, f <= g
  PROVE  /\ limit * f \in Nat /\ limit * g \in Nat /\ limit * f <= limit * g
         /\ limit * (f + 1) = limit * f + limit
<1>1. PICK d \in Nat : g = f + d
  <2>1. g - f \in Nat /\ g = f + (g - f)
    OBVIOUS
  <2> QED BY <2>1
<1>2. limit * g = limit * f + limit * d
  BY <1>1
<1>3. limit * f \in Nat /\ limit * d \in Nat /\ limit * g \in Nat
  OBVIOUS
<1>4. limit * (f + 1) = limit * f + limit
  OBVIOUS
<1> QED BY <1>2, <1>3, <1>4

\* A step that loses nothing keeps the bound; a failed tick may lose one batch.
LEMMA LossCounted ==
  ASSUME TypeOK, TypeOK', LossIsBounded,
         NEW batch, IsFiniteSet(batch), Cardinality(batch) <= Limit,
         \/ Lost' \subseteq Lost /\ failures <= failures'
         \/ Lost' \subseteq Lost \cup batch /\ failures' = failures + 1
  PROVE  LossIsBounded'
<1>1. /\ IsFiniteSet(Lost) /\ Cardinality(Lost) \in Nat
      /\ IsFiniteSet(Lost') /\ Cardinality(Lost') \in Nat
      /\ Cardinality(batch) \in Nat
  BY RowsCountable, FS_CardinalityType DEF Lost
<1>2. Limit \in Nat /\ failures \in Nat /\ failures' \in Nat
  BY OutboxAssumption DEF TypeOK
<1>3. Cardinality(Lost) <= Limit * failures
  BY DEF LossIsBounded
<1>4. failures <= failures'
  BY <1>2
<1>5. /\ Limit * failures \in Nat /\ Limit * failures' \in Nat
      /\ Limit * failures <= Limit * failures'
      /\ Limit * (failures + 1) = Limit * failures + Limit
  BY <1>2, <1>4, BoundGrows
<1>6. CASE Lost' \subseteq Lost /\ failures <= failures'
  <2>1. Cardinality(Lost') <= Cardinality(Lost)
    BY <1>1, <1>6, FS_Subset
  <2> QED BY <1>1, <1>3, <1>5, <1>6, <2>1 DEF LossIsBounded
<1>7. CASE Lost' \subseteq Lost \cup batch /\ failures' = failures + 1
  <2>1. /\ IsFiniteSet(Lost \cup batch)
        /\ Cardinality(Lost \cup batch)
             = Cardinality(Lost) + Cardinality(batch) - Cardinality(Lost \cap batch)
    BY <1>1, FS_Union
  <2>2. IsFiniteSet(Lost \cap batch) /\ Cardinality(Lost \cap batch) \in Nat
    BY <1>1, FS_Subset, FS_CardinalityType
  <2>3. Cardinality(Lost') <= Cardinality(Lost \cup batch)
    BY <1>7, <2>1, FS_Subset
  <2>4. Cardinality(Lost') <= Limit * failures + Limit
    <3> DEFINE n == Cardinality(Lost)
               m == Cardinality(Lost')
               b == Cardinality(batch)
               o == Cardinality(Lost \cap batch)
               x == Limit * failures
    <3>1. /\ n \in Nat /\ m \in Nat /\ b \in Nat /\ o \in Nat /\ x \in Nat
          /\ m <= n + b - o /\ n <= x /\ b <= Limit
      BY <1>1, <1>3, <1>5, <2>1, <2>2, <2>3
    <3> HIDE DEF n, m, b, o, x
    <3>2. m <= x + Limit
      BY <1>2, <3>1
    <3> QED BY <3>2 DEF m, x
  <2> QED BY <1>5, <1>7, <2>4 DEF LossIsBounded
<1> QED BY <1>6, <1>7

\* A step that loses nothing and fails nothing.
LEMMA LossNotGrown ==
  ASSUME TypeOK, TypeOK', LossIsBounded, Lost' \subseteq Lost, failures' = failures
  PROVE  LossIsBounded'
<1>1. IsFiniteSet({}) /\ Cardinality({}) = 0 /\ 0 <= Limit /\ failures <= failures'
  BY FS_EmptySet, OutboxAssumption DEF TypeOK
<1> QED BY <1>1, LossCounted

\* A batch that does not grow still fits.
LEMMA BatchesShrink ==
  ASSUME BatchesFit, \A w \in Worker : Batch(w)' \subseteq Batch(w)
  PROVE  BatchesFit'
<1>1. SUFFICES ASSUME NEW w \in Worker
               PROVE  IsFiniteSet(Batch(w)') /\ Cardinality(Batch(w)') <= Limit
  BY DEF BatchesFit
<1>2. IsFiniteSet(Batch(w)) /\ Cardinality(Batch(w)) <= Limit /\ Cardinality(Batch(w)) \in Nat
  BY FS_CardinalityType DEF BatchesFit
<1>3. /\ IsFiniteSet(Batch(w)') /\ Cardinality(Batch(w)') <= Cardinality(Batch(w))
      /\ Cardinality(Batch(w)') \in Nat
  BY <1>2, FS_Subset, FS_CardinalityType
<1> QED BY <1>2, <1>3, OutboxAssumption

-----------------------------------------------------------------------------
(* Initially, and for every step. *)

LEMMA InitInvariant ==
  ASSUME Init PROVE IInv
<1> USE OutboxAssumption
<1>1. TypeOK /\ Handling
  BY DEF Init, TypeOK, Handling, Place, Event, LockedInBatch, BatchState, CurrentState, Apart,
         ItemsBehind, PushHasItem
<1>2. BatchesFit
  <2>1. \A w \in Worker : Batch(w) = {}
    BY DEF Init, Batch
  <2> QED BY <2>1, FS_EmptySet DEF BatchesFit
<1>3. LossIsBounded
  <2>1. Lost = {}
    BY DEF Init, Lost
  <2> QED BY <2>1, FS_EmptySet DEF Init, LossIsBounded
<1> QED BY <1>1, <1>2, <1>3 DEF IInv, Handling

\* Rows appear and what they are about goes: nothing in hand changes.
LEMMA OthersKeep ==
  ASSUME IInv, NEW e \in Event, Append(e) \/ Delete(e)
  PROVE  IInv'
<1> USE OutboxAssumption DEF IInv
<1>1. TypeOK'
  BY DEF Append, Delete, workerVars, TypeOK
<1>2. Handling'
  <2>1. UNCHANGED <<lock, item, pushed, at, hand, cur>>
    BY DEF Append, Delete, workerVars
  <2>2. \A f \in Event : row[f] # "absent" => row'[f] = row[f]
    BY DEF Append, Delete, TypeOK
  <2>3. LockedInBatch' /\ Apart' /\ PushHasItem'
    BY <2>1 DEF LockedInBatch, Apart, PushHasItem
  <2>4. BatchState' /\ CurrentState' /\ ItemsBehind'
    BY <2>1, <2>2 DEF TypeOK, BatchState, CurrentState, ItemsBehind
  <2> QED BY <2>3, <2>4 DEF Handling
<1>3. BatchesFit'
  BY DEF Append, Delete, workerVars, BatchesFit, Batch
<1>4. Lost' \subseteq Lost /\ failures' = failures
  BY DEF Append, Delete, workerVars, Lost, TypeOK
<1>5. LossIsBounded'
  BY <1>1, <1>4, LossNotGrown
<1> QED BY <1>1, <1>2, <1>3, <1>5 DEF Handling

-----------------------------------------------------------------------------
(* The claim. *)

LEMMA BeginClaimKeeps ==
  ASSUME IInv, NEW w \in Worker, BeginClaim(w)
  PROVE  IInv'
<1> USE OutboxAssumption DEF IInv
<1>1. /\ at[w] = "idle" /\ at' = [at EXCEPT ![w] = "claiming"] /\ hand[w] = {}
      /\ UNCHANGED <<row, gone, item, pushed, lock, hand, cur, failures>>
  BY DEF BeginClaim, Goto, tableVars, BatchState
<1>2. TypeOK'
  BY <1>1 DEF BeginClaim, TypeOK, Place
<1>3. Handling'
  BY <1>1 DEF TypeOK, Handling, LockedInBatch, BatchState, CurrentState, Apart, ItemsBehind,
              PushHasItem
<1>4. BatchesFit' /\ LossIsBounded'
  BY <1>1 DEF BatchesFit, Batch, LossIsBounded, Lost
<1> QED BY <1>2, <1>3, <1>4 DEF Handling

\* A set grows by one element at most when an element is added.
LEMMA OneMore ==
  ASSUME NEW S, NEW x, IsFiniteSet(S), Cardinality(S) \in Nat
  PROVE  /\ IsFiniteSet(S \cup {x})
         /\ Cardinality(S \cup {x}) <= Cardinality(S) + 1
<1>1. /\ IsFiniteSet(S \cup {x})
      /\ \/ Cardinality(S \cup {x}) = Cardinality(S)
         \/ Cardinality(S \cup {x}) = Cardinality(S) + 1
  BY FS_AddElement
<1> QED BY <1>1


LEMMA LockNextKeeps ==
  ASSUME IInv, NEW w \in Worker, LockNext(w)
  PROVE  IInv'
<1> USE DEF IInv
<1>1. PICK e \in Takeable(w) : /\ lock' = [lock EXCEPT ![e] = w]
                               /\ hand' = [hand EXCEPT ![w] = @ \cup {e}]
  BY DEF LockNext
<1>2. /\ e \in Event /\ row[e] = "waiting" /\ lock[e] = NoOne
      /\ at[w] = "claiming" /\ cur[w] = 0 /\ ~BatchFull(w)
      /\ UNCHANGED <<row, gone, item, pushed, at, seen, cur, failures>>
  BY <1>1 DEF LockNext, Takeable, tableVars, TypeOK, CurrentState
<1>3. e \notin item /\ \A v \in Worker : e \notin hand[v] /\ e # cur[v]
  <2>1. e \notin item
    BY <1>2 DEF ItemsBehind
  <2>2. ASSUME NEW v \in Worker
        PROVE  e \notin hand[v]
    <3>1. CASE at[v] = "claiming"
      BY <1>2, <3>1, OutboxAssumption DEF LockedInBatch
    <3>2. CASE at[v] # "claiming"
      BY <1>2, <3>2 DEF BatchState
    <3> QED BY <3>1, <3>2
  <2>3. ASSUME NEW v \in Worker
        PROVE  e # cur[v]
    BY <1>2, OutboxAssumption DEF CurrentState, Event
  <2> QED BY <2>1, <2>2, <2>3
<1>4. TypeOK'
  BY <1>1, <1>2 DEF TypeOK
<1>5. Handling'
  BY <1>1, <1>2, <1>3 DEF TypeOK, Handling, LockedInBatch, BatchState, CurrentState, Apart,
              ItemsBehind, PushHasItem
<1>6. BatchesFit'
  <2>1. \A v \in Worker : v # w => Batch(v)' = Batch(v)
    BY <1>1, <1>2 DEF Batch, TypeOK
  <2>2. Batch(w) = hand[w] /\ Batch(w)' = Batch(w) \cup {e}
    BY <1>1, <1>2 DEF Batch, TypeOK
  <2>3. /\ IsFiniteSet(Batch(w)) /\ Cardinality(Batch(w)) \in Nat
        /\ Cardinality(Batch(w)) <= Limit /\ Cardinality(Batch(w)) # Limit
    BY <1>2, <2>2, FS_CardinalityType DEF BatchesFit, BatchFull
  <2>4. IsFiniteSet(Batch(w)') /\ Cardinality(Batch(w)') <= Cardinality(Batch(w)) + 1
    BY <2>2, <2>3, OneMore
  <2>5. IsFiniteSet(Batch(w)') /\ Cardinality(Batch(w)') <= Limit
    BY <2>3, <2>4, FS_CardinalityType, OutboxAssumption
  <2> QED BY <2>1, <2>5 DEF BatchesFit
<1>7. LossIsBounded'
  <2>1. Lost' \subseteq Lost
    BY <1>1, <1>2 DEF Lost, TypeOK
  <2> QED BY <1>2, <1>4, <2>1, LossNotGrown
<1> QED BY <1>4, <1>5, <1>6, <1>7 DEF Handling

LEMMA CommitClaimKeeps ==
  ASSUME IInv, NEW w \in Worker, CommitClaim(w)
  PROVE  IInv'
<1> USE OutboxAssumption DEF IInv
<1>1. /\ at[w] = "claiming" /\ at' = [at EXCEPT ![w] = "answering"]
      /\ row' = [e \in Event |-> IF e \in hand[w] THEN "published" ELSE row[e]]
      /\ lock' = [e \in Event |-> IF lock[e] = w THEN NoOne ELSE lock[e]]
      /\ UNCHANGED <<gone, item, pushed, hand, cur, failures>>
  BY DEF CommitClaim, Unlocked, Goto
<1>2. TypeOK'
  BY <1>1 DEF CommitClaim, TypeOK, Place
<1>3. \A v \in Worker : v # w => hand[v] \cap hand[w] = {}
  BY DEF Apart, TypeOK, Event
<1>4. Handling'
  <2>1. LockedInBatch'
    BY <1>1 DEF TypeOK, LockedInBatch
  <2>2. BatchState' /\ CurrentState'
    BY <1>1, <1>3 DEF TypeOK, BatchState, CurrentState
  <2>3. Apart' /\ ItemsBehind' /\ PushHasItem'
    BY <1>1 DEF TypeOK, Apart, ItemsBehind, PushHasItem
  <2> QED BY <2>1, <2>2, <2>3 DEF Handling
<1>5. BatchesFit'
  BY <1>1 DEF BatchesFit, Batch
<1>6. Lost' \subseteq Lost
  BY <1>1 DEF Lost
<1> QED BY <1>1, <1>2, <1>4, <1>5, <1>6, LossNotGrown DEF Handling

LEMMA AbortClaimKeeps ==
  ASSUME IInv, NEW w \in Worker, AbortClaim(w)
  PROVE  IInv'
<1> USE OutboxAssumption DEF IInv
<1>1. /\ at[w] = "claiming" /\ at' = [at EXCEPT ![w] = "idle"]
      /\ lock' = [e \in Event |-> IF lock[e] = w THEN NoOne ELSE lock[e]]
      /\ hand' = [hand EXCEPT ![w] = {}] /\ failures' = failures + 1
      /\ UNCHANGED <<row, gone, item, pushed, cur>>
  BY DEF AbortClaim, Unlocked, Goto, tableVars
<1>2. TypeOK'
  BY <1>1 DEF AbortClaim, TypeOK, Place
<1>3. Handling'
  <2>1. LockedInBatch'
    BY <1>1 DEF TypeOK, LockedInBatch
  <2>2. BatchState' /\ CurrentState' /\ Apart' /\ ItemsBehind' /\ PushHasItem'
    BY <1>1 DEF TypeOK, BatchState, CurrentState, Apart, ItemsBehind, PushHasItem
  <2> QED BY <2>1, <2>2 DEF Handling
<1>4. BatchesFit'
  BY <1>1, BatchesShrink DEF Batch, TypeOK
<1>5. LossIsBounded'
  <2>1. Lost' \subseteq Lost \cup {}
    BY <1>1 DEF Lost, BatchState, TypeOK
  <2>2. IsFiniteSet({}) /\ Cardinality({}) <= Limit
    BY FS_EmptySet
  <2> QED BY <1>1, <1>2, <2>1, <2>2, LossCounted
<1> QED BY <1>2, <1>3, <1>4, <1>5 DEF Handling

-----------------------------------------------------------------------------
(* The listener. *)

\* Steps that hand nothing on and lose nothing: the answer arrives, a batch ends.
LEMMA PassingKeeps ==
  ASSUME IInv, NEW w \in Worker, ReceiveBatch(w) \/ BatchDone(w)
  PROVE  IInv'
<1> USE DEF IInv
<1>1. /\ \/ at[w] = "answering" /\ at' = [at EXCEPT ![w] = "listening"]
         \/ at[w] = "listening" /\ at' = [at EXCEPT ![w] = "idle"] /\ hand[w] = {}
      /\ UNCHANGED <<row, gone, item, pushed, lock, seen, hand, cur, failures>>
  BY DEF ReceiveBatch, BatchDone, Goto, tableVars
<1>2. TypeOK'
  BY <1>1 DEF TypeOK, Place
<1>3. Handling'
  BY <1>1 DEF TypeOK, Handling, LockedInBatch, BatchState, CurrentState, Apart, ItemsBehind,
              PushHasItem
<1>4. BatchesFit' /\ LossIsBounded'
  BY <1>1 DEF BatchesFit, Batch, LossIsBounded, Lost
<1> QED BY <1>2, <1>3, <1>4 DEF Handling

LEMMA NextRowKeeps ==
  ASSUME IInv, NEW w \in Worker, NextRow(w)
  PROVE  IInv'
<1> USE DEF IInv
<1>1. PICK e \in hand[w] : /\ cur' = [cur EXCEPT ![w] = e]
                           /\ hand' = [hand EXCEPT ![w] = @ \ {e}]
  BY DEF NextRow
<1>2. /\ at[w] = "listening" /\ at' = [at EXCEPT ![w] = "rendering"]
      /\ UNCHANGED <<row, gone, item, pushed, lock, seen, failures>>
  BY DEF NextRow, Goto, tableVars
<1>3. /\ e \in Event /\ row[e] = "published" /\ cur[w] = 0
      /\ \A f \in Event : f # 0
  <2>1. e \in Event
    BY <1>1 DEF TypeOK
  <2>2. row[e] = "published" /\ cur[w] = 0
    BY <1>1, <1>2 DEF BatchState, CurrentState
  <2>3. \A f \in Event : f # 0
    BY OutboxAssumption DEF Event
  <2> QED BY <2>1, <2>2, <2>3
<1>4. TypeOK'
  BY <1>1, <1>2, <1>3 DEF TypeOK, Place
<1>5. Handling'
  <2>1. LockedInBatch' /\ BatchState' /\ ItemsBehind' /\ PushHasItem'
    BY <1>1, <1>2, <1>3 DEF TypeOK, LockedInBatch, BatchState, ItemsBehind, PushHasItem
  <2>2. CurrentState'
    BY <1>1, <1>2, <1>3 DEF TypeOK, CurrentState
  <2>3. Apart'
    BY <1>1, <1>2, <1>3 DEF TypeOK, Apart
  <2> QED BY <2>1, <2>2, <2>3 DEF Handling
<1>6. \A v \in Worker : Batch(v)' = Batch(v)
  BY <1>1, <1>2, <1>3 DEF Batch, TypeOK
<1>7. BatchesFit'
  BY <1>6 DEF BatchesFit
<1>8. Lost' \subseteq Lost
  BY <1>1, <1>2, <1>3 DEF Lost, TypeOK
<1> QED BY <1>2, <1>4, <1>5, <1>7, <1>8, LossNotGrown DEF Handling

\* The ways a row is left: its subject has gone, its item exists, its push is over.
LEMMA RowDoneKeeps ==
  ASSUME IInv, NEW w \in Worker, cur[w] # 0,
         item' \in {item, item \cup {cur[w]}},
         pushed' = pushed \/ (pushed' = pushed \cup {cur[w]} /\ at[w] = "pushing"),
         cur[w] \in gone \cup item',
         RowDone(w), UNCHANGED <<row, gone, lock, seen, hand, failures>>
  PROVE  IInv'
<1> USE DEF IInv
<1>1. /\ at' = [at EXCEPT ![w] = "listening"] /\ cur' = [cur EXCEPT ![w] = 0]
      /\ cur[w] \in Event /\ row[cur[w]] = "published" /\ cur[w] \notin hand[w]
      /\ at[w] \in {"rendering", "inserting", "pushing"}
  BY DEF RowDone, Goto, CurrentState, TypeOK
<1>2. \A v \in Worker : cur[w] \notin hand[v]
  BY <1>1 DEF Apart
<1>3. TypeOK'
  BY <1>1 DEF TypeOK, Place, CurrentState
<1>4. Handling'
  <2>1. LockedInBatch' /\ BatchState' /\ Apart'
    BY <1>1 DEF TypeOK, LockedInBatch, BatchState, Apart
  <2>2. CurrentState' /\ ItemsBehind'
    BY <1>1, <1>2 DEF TypeOK, CurrentState, ItemsBehind
  <2>3. PushHasItem'
    BY <1>1 DEF TypeOK, CurrentState, PushHasItem
  <2> QED BY <2>1, <2>2, <2>3 DEF Handling
<1>5. BatchesFit'
  BY <1>1, BatchesShrink DEF Batch, TypeOK
<1>6. Lost' \subseteq Lost
  BY <1>1 DEF Lost, TypeOK
<1> QED BY <1>3, <1>4, <1>5, <1>6, LossNotGrown DEF Handling

\* The ways a row goes on: it is rendered, or its item is new and to be pushed.
LEMMA RowGoesOnKeeps ==
  ASSUME IInv, NEW w \in Worker,
         \/ at[w] = "rendering" /\ at' = [at EXCEPT ![w] = "inserting"] /\ item' = item
         \/ /\ at[w] = "inserting" /\ at' = [at EXCEPT ![w] = "pushing"]
            /\ item' = item \cup {cur[w]} /\ cur[w] \in Match,
         UNCHANGED <<row, gone, pushed, lock, seen, hand, cur, failures>>
  PROVE  IInv'
<1> USE DEF IInv
<1>1. cur[w] \in Event /\ row[cur[w]] = "published" /\ cur[w] # 0
  BY DEF CurrentState, TypeOK
<1>2. \A v \in Worker : cur[w] \notin hand[v]
  BY <1>1 DEF Apart, CurrentState
<1>3. TypeOK'
  BY <1>1 DEF TypeOK, Place
<1>4. Handling'
  <2>1. LockedInBatch' /\ BatchState' /\ Apart' /\ PushHasItem'
    BY DEF TypeOK, LockedInBatch, BatchState, Apart, PushHasItem
  <2>2. CurrentState' /\ ItemsBehind'
    BY <1>1, <1>2 DEF TypeOK, CurrentState, ItemsBehind
  <2> QED BY <2>1, <2>2 DEF Handling
<1>5. BatchesFit'
  BY DEF BatchesFit, Batch
<1>6. Lost' \subseteq Lost
  BY DEF Lost
<1> QED BY <1>3, <1>4, <1>5, <1>6, LossNotGrown DEF Handling

\* A tick that ends early drops what it still had in hand.
LEMMA DropBatchKeeps ==
  ASSUME IInv, NEW w \in Worker, at[w] \notin {"idle", "claiming"}, DropBatch(w),
         item' = item \/ (item' = item \cup {cur[w]} /\ at[w] = "inserting")
  PROVE  IInv'
<1> USE DEF IInv
<1>1. /\ at' = [at EXCEPT ![w] = "idle"] /\ hand' = [hand EXCEPT ![w] = {}]
      /\ cur' = [cur EXCEPT ![w] = 0] /\ failures' = failures + 1
      /\ UNCHANGED <<row, lock, gone, pushed, seen>>
  BY DEF DropBatch, Goto
<1>2. at[w] = "inserting" =>
        /\ cur[w] \in Event /\ row[cur[w]] = "published"
        /\ \A v \in Worker : cur[w] \notin hand[v]
  BY DEF CurrentState, Apart, TypeOK
<1>3. TypeOK'
  BY <1>1, <1>2 DEF TypeOK, Place
<1>4. Handling'
  <2>1. LockedInBatch' /\ BatchState' /\ Apart' /\ PushHasItem'
    BY <1>1 DEF TypeOK, LockedInBatch, BatchState, Apart, PushHasItem
  <2>2. CurrentState' /\ ItemsBehind'
    BY <1>1, <1>2 DEF TypeOK, CurrentState, ItemsBehind
  <2> QED BY <2>1, <2>2 DEF Handling
<1>5. BatchesFit'
  BY <1>1, BatchesShrink DEF Batch, TypeOK
<1>6. LossIsBounded'
  <2>1. Lost' \subseteq Lost \cup Batch(w)
    BY <1>1, OutboxAssumption DEF Lost, Batch, TypeOK, Event
  <2> QED BY <1>1, <1>3, <2>1, LossCounted DEF BatchesFit
<1> QED BY <1>3, <1>4, <1>5, <1>6 DEF Handling

-----------------------------------------------------------------------------
(* Every step keeps the invariant. *)

LEMMA WorkerKeeps ==
  ASSUME IInv, NEW w \in Worker, Work(w) \/ AbortClaim(w) \/ TickFails(w)
  PROVE  IInv'
<1>1. CurrentState
  BY DEF IInv
<1>2. CASE Render(w)
  <2>1. CASE cur[w] \in gone
    BY <1>1, <1>2, <2>1, RowDoneKeeps DEF Render, CurrentState, tableVars
  <2>2. CASE cur[w] \notin gone
    BY <1>2, <2>2, RowGoesOnKeeps DEF Render, Goto, tableVars
  <2> QED BY <2>1, <2>2
<1>3. CASE Insert(w)
  <2>1. CASE cur[w] \in Match \ item
    BY <1>3, <2>1, RowGoesOnKeeps DEF Insert, Goto
  <2>2. CASE cur[w] \notin Match \ item
    BY <1>1, <1>3, <2>2, RowDoneKeeps DEF Insert, CurrentState
  <2> QED BY <2>1, <2>2
<1>4. CASE Push(w)
  BY <1>1, <1>4, RowDoneKeeps DEF Push, CurrentState
<1>5. CASE InsertStale(w)
  BY <1>5, DropBatchKeeps DEF InsertStale
<1>6. CASE TickFails(w)
  BY <1>6, DropBatchKeeps DEF TickFails
<1> QED BY <1>2, <1>3, <1>4, <1>5, <1>6, BeginClaimKeeps, LockNextKeeps, CommitClaimKeeps,
        AbortClaimKeeps, PassingKeeps, NextRowKeeps DEF Work

LEMMA NextInvariant ==
  ASSUME IInv, [Next]_vars
  PROVE  IInv'
<1>1. CASE UNCHANGED vars
  BY <1>1 DEF vars, tableVars, workerVars, IInv, TypeOK, LockedInBatch, BatchState, CurrentState,
     Apart, ItemsBehind, PushHasItem, BatchesFit, Batch, LossIsBounded, Lost
<1> QED BY <1>1, OthersKeep, WorkerKeeps DEF Next

\* The invariant holds in every reachable state.
LEMMA Inductive == Spec => []IInv
<1>1. Init => IInv
  BY InitInvariant
<1>2. IInv /\ [Next]_vars => IInv'
  BY NextInvariant
<1> QED BY <1>1, <1>2, PTL DEF Spec

-----------------------------------------------------------------------------
(* The outbox implements Feed. *)

\* A row on its way to the insert has no item yet.
NotYetShown ==
  \A w \in Worker : at[w] \in {"rendering", "inserting"} => cur[w] \notin item

\* Rows keep their state where the row, its item and the hands are as before.
LEMMA StateStands ==
  ASSUME NEW e \in Event, row'[e] = row[e],
         row[e] = "published" => (e \in item' <=> e \in item) /\ (Held(e)' <=> Held(e))
  PROVE  FeedState'[e] = FeedState[e]
BY DEF FeedState

LEMMA StatesBecome ==
  ASSUME NEW S \in SUBSET Event, NEW s,
         \A e \in Event : FeedState'[e] = IF e \in S THEN s ELSE FeedState[e]
  PROVE  FeedState' = TheFeed!Becomes(S, s)
<1>1. FeedState' = [e \in Event |-> FeedState'[e]]
  BY DEF FeedState
<1>2. [e \in Event |-> FeedState'[e]] = [e \in Event |-> IF e \in S THEN s ELSE FeedState[e]]
  OBVIOUS
<1> QED BY <1>1, <1>2 DEF TheFeed!Becomes

LEMMA StatesStay ==
  ASSUME \A e \in Event : FeedState'[e] = FeedState[e]
  PROVE  FeedState' = FeedState
<1>1. FeedState' = [e \in Event |-> FeedState'[e]] /\ FeedState = [e \in Event |-> FeedState[e]]
  BY DEF FeedState
<1>2. [e \in Event |-> FeedState'[e]] = [e \in Event |-> FeedState[e]]
  OBVIOUS
<1> QED BY <1>1, <1>2

\* Feed counts as the outbox does.
LEMMA SameCount ==
  ASSUME NEW S PROVE TheFeed!Cardinality(S) = Cardinality(S)
BY DEF Cardinality, TheFeed!Cardinality

LEMMA HandsFollow ==
  ASSUME IInv, NEW w \in Worker, NEW H \in SUBSET Event, NEW c \in Event \cup {0},
         hand' = [hand EXCEPT ![w] = H], cur' = [cur EXCEPT ![w] = c], NEW e \in Event
  PROVE  Held(e)' <=> e \in H \cup {c} \/ (Held(e) /\ e \notin hand[w] \cup {cur[w]})
<1>1. /\ hand \in [Worker -> SUBSET Event] /\ cur \in [Worker -> Event \cup {0}]
      /\ e # 0
  BY DEF IInv, TypeOK, Event
<1>2. /\ hand'[w] = H /\ cur'[w] = c
      /\ \A v \in Worker \ {w} : hand'[v] = hand[v] /\ cur'[v] = cur[v]
  BY <1>1
<1>3. ASSUME NEW v \in Worker \ {w}, e \in hand[v] \cup {cur[v]}
      PROVE  e \notin hand[w] \cup {cur[w]}
  BY <1>1, <1>3 DEF IInv, Apart
<1> QED BY <1>2, <1>3 DEF Held

LEMMA PushesFollow ==
  ASSUME IInv, NEW w \in Worker, NEW place, NEW c \in Event \cup {0},
         at' = [at EXCEPT ![w] = place], cur' = [cur EXCEPT ![w] = c]
  PROVE  PushesToCome' = (PushesToCome \ (IF at[w] = "pushing" THEN {cur[w]} ELSE {}))
                           \cup (IF place = "pushing" THEN {c} ELSE {})
<1>1. /\ at \in [Worker -> Place] /\ cur \in [Worker -> Event \cup {0}]
  BY DEF IInv, TypeOK
<1>2. /\ at'[w] = place /\ cur'[w] = c
      /\ \A v \in Worker \ {w} : at'[v] = at[v] /\ cur'[v] = cur[v]
  BY <1>1
<1>3. ASSUME NEW v \in Worker \ {w}, at[v] = "pushing" PROVE cur[v] # cur[w]
  BY <1>1, <1>3 DEF IInv, Apart, CurrentState
<1> QED BY <1>2, <1>3 DEF PushesToCome

LEMMA NotYetShownKept ==
  ASSUME IInv, NotYetShown, [Next]_vars
  PROVE  NotYetShown'
<1>1. at \in [Worker -> Place] /\ cur \in [Worker -> Event \cup {0}] /\ hand \in [Worker -> SUBSET Event]
  BY DEF IInv, TypeOK
<1>2. ASSUME NEW v \in Worker, at'[v] = at[v], cur'[v] = cur[v], at[v] \in {"rendering", "inserting"},
             \/ item' = item
             \/ \E w \in Worker \ {v} : cur[w] # 0 /\ item' = item \cup {cur[w]}
      PROVE  cur'[v] \notin item'
  BY <1>1, <1>2 DEF NotYetShown, IInv, Apart
<1>3. CASE UNCHANGED vars \/ \E e \in Event : Append(e) \/ Delete(e)
  BY <1>3 DEF vars, tableVars, workerVars, Append, Delete, NotYetShown
<1>4. ASSUME NEW w \in Worker, Work(w) \/ AbortClaim(w) \/ TickFails(w),
             NEW v \in Worker, at'[v] \in {"rendering", "inserting"}
      PROVE  cur'[v] \notin item'
  <2>1. item' = item \/ (at[w] = "inserting" /\ item' = item \cup {cur[w]})
    BY <1>4 DEF Work, BeginClaim, LockNext, CommitClaim, ReceiveBatch, NextRow, BatchDone, Render,
                Insert, InsertStale, Push, AbortClaim, TickFails, DropBatch, tableVars
  <2>2. at[w] = "inserting" => cur[w] # 0
    BY DEF IInv, CurrentState
  <2>3. CASE v # w
    <3>1. at'[v] = at[v] /\ cur'[v] = cur[v]
      BY <1>1, <1>4, <2>3
         DEF Work, BeginClaim, LockNext, CommitClaim, ReceiveBatch, NextRow, BatchDone, Render,
             Insert, InsertStale, Push, AbortClaim, TickFails, DropBatch, RowDone, Goto
    <3> QED BY <1>2, <1>4, <2>1, <2>2, <2>3, <3>1
  <2>4. CASE v = w
    <3>1. \/ /\ NextRow(w) /\ at[w] = "listening" /\ cur'[w] \in hand[w] /\ item' = item
          \/ /\ at[w] = "rendering" /\ cur'[w] = cur[w] /\ item' = item
      BY <1>1, <1>4, <2>4
         DEF Work, BeginClaim, LockNext, CommitClaim, ReceiveBatch, NextRow, BatchDone, Render,
             Insert, InsertStale, Push, AbortClaim, TickFails, DropBatch, RowDone, Goto, tableVars
    <3> QED BY <2>4, <3>1 DEF NotYetShown, IInv, ItemsBehind
  <2> QED BY <2>3, <2>4
<1> QED BY <1>3, <1>4 DEF Next, NotYetShown

LEMMA NotYetShownAlways == Spec => []NotYetShown
<1>1. Init => NotYetShown
  BY DEF Init, NotYetShown
<1> QED BY <1>1, NotYetShownKept, Inductive, PTL DEF Spec

\* The feed sees nothing of a claim before it commits, nor of a worker's turn to
\* its next row.
LEMMA UnseenSteps ==
  ASSUME IInv, NEW w \in Worker,
         BeginClaim(w) \/ LockNext(w) \/ ReceiveBatch(w) \/ NextRow(w) \/ BatchDone(w)
  PROVE  UNCHANGED TheFeed!feedVars
<1>1. /\ at \in [Worker -> Place] /\ cur \in [Worker -> Event \cup {0}]
      /\ hand \in [Worker -> SUBSET Event] /\ 0 \notin Event
  BY DEF IInv, TypeOK, Event
<1>2. UNCHANGED <<row, gone, item, pushed, failures>>
  BY DEF BeginClaim, LockNext, ReceiveBatch, NextRow, BatchDone, tableVars
<1>3. PICK place \in Place \ {"pushing"}, H \in SUBSET Event, c \in Event \cup {0} :
        /\ at' = [at EXCEPT ![w] = place]
        /\ hand' = [hand EXCEPT ![w] = H] /\ cur' = [cur EXCEPT ![w] = c]
        /\ \A e \in Event : row[e] = "published" =>
             (e \in H \cup {c} <=> e \in hand[w] \cup {cur[w]})
  <2>1. CASE BeginClaim(w) \/ ReceiveBatch(w) \/ BatchDone(w)
    <3>1. \E place \in {"claiming", "listening", "idle"} : at' = [at EXCEPT ![w] = place]
      BY <2>1 DEF BeginClaim, ReceiveBatch, BatchDone, Goto
    <3>2. hand' = [hand EXCEPT ![w] = hand[w]] /\ cur' = [cur EXCEPT ![w] = cur[w]]
      BY <1>1, <2>1 DEF BeginClaim, ReceiveBatch, BatchDone
    <3> QED BY <1>1, <3>1, <3>2 DEF Place
  <2>2. CASE LockNext(w)
    <3>1. PICK e \in Event : row[e] = "waiting" /\ hand' = [hand EXCEPT ![w] = hand[w] \cup {e}]
      BY <1>1, <2>2 DEF LockNext, Takeable, IInv, TypeOK
    <3>2. at' = [at EXCEPT ![w] = "claiming"] /\ cur' = [cur EXCEPT ![w] = cur[w]]
      BY <1>1, <2>2 DEF LockNext
    <3>3. /\ hand[w] \cup {e} \in SUBSET Event /\ cur[w] \in Event \cup {0}
          /\ "claiming" \in Place \ {"pushing"}
      BY <1>1 DEF Place
    <3>4. \A f \in Event : row[f] = "published" =>
            (f \in (hand[w] \cup {e}) \cup {cur[w]} <=> f \in hand[w] \cup {cur[w]})
      BY <3>1
    <3> QED BY <3>1, <3>2, <3>3, <3>4
  <2>3. CASE NextRow(w)
    <3>1. PICK e \in hand[w] : /\ hand' = [hand EXCEPT ![w] = hand[w] \ {e}]
                               /\ cur' = [cur EXCEPT ![w] = e]
      BY <2>3 DEF NextRow
    <3>2. at' = [at EXCEPT ![w] = "rendering"] /\ cur[w] = 0
      BY <2>3 DEF NextRow, Goto, IInv, CurrentState
    <3>3. hand[w] \ {e} \in SUBSET Event /\ e \in Event \cup {0} /\ "rendering" \in Place \ {"pushing"}
      BY <1>1 DEF Place
    <3>4. \A f \in Event : f \in (hand[w] \ {e}) \cup {e} <=> f \in hand[w] \cup {cur[w]}
      BY <1>1, <3>2
    <3> QED BY <3>1, <3>2, <3>3, <3>4
  <2> QED BY <2>1, <2>2, <2>3
<1>4. ASSUME NEW e \in Event PROVE FeedState'[e] = FeedState[e]
  <2>1. Held(e)' <=> e \in H \cup {c} \/ (Held(e) /\ e \notin hand[w] \cup {cur[w]})
    BY <1>3, HandsFollow
  <2>2. row[e] = "published" => (Held(e)' <=> Held(e))
    BY <1>3, <2>1 DEF Held
  <2> QED BY <1>2, <2>2, StateStands
<1>5. PushesToCome' = PushesToCome
  <2>1. at[w] # "pushing"
    BY DEF BeginClaim, LockNext, ReceiveBatch, NextRow, BatchDone
  <2>2. PushesToCome' = (PushesToCome \ {}) \cup {}
    BY <1>3, <2>1, PushesFollow
  <2> QED BY <2>2
<1> QED BY <1>2, <1>4, <1>5, StatesStay DEF TheFeed!feedVars

\* What is inserted or deleted at the other side.
LEMMA OtherSteps ==
  ASSUME IInv, NEW e \in Event, Append(e) \/ Delete(e)
  PROVE  TheFeed!Write(e) \/ TheFeed!Forget(e)
<1>1. UNCHANGED <<item, pushed, failures, at, hand, cur>>
  BY DEF Append, Delete, workerVars
<1>2. PushesToCome' = PushesToCome /\ \A f \in Event : Held(f)' <=> Held(f)
  BY <1>1 DEF PushesToCome, Held
<1>3. CASE Append(e)
  <2>1. row \in [Event -> {"absent", "waiting", "published"}]
    BY DEF IInv, TypeOK
  <2>2. FeedState[e] = "absent"
    BY <1>3 DEF Append, FeedState
  <2>3. ASSUME NEW f \in Event
        PROVE  FeedState'[f] = IF f \in {e} THEN "waiting" ELSE FeedState[f]
    BY <1>1, <1>2, <1>3, <2>1 DEF Append, FeedState
  <2>4. gone' = gone
    BY <1>3 DEF Append
  <2> QED BY <1>1, <1>2, <2>2, <2>3, <2>4, StatesBecome DEF TheFeed!Write
<1>4. CASE Delete(e)
  <2>1. row' = row /\ row[e] # "absent" /\ gone' = gone \cup {e}
    BY <1>4 DEF Delete
  <2>2. FeedState' = FeedState
    BY <1>1, <1>2, <2>1, StateStands, StatesStay
  <2>3. FeedState[e] # "absent"
    BY <2>1 DEF FeedState
  <2> QED BY <1>1, <1>2, <2>1, <2>2, <2>3 DEF TheFeed!Forget
<1> QED BY <1>3, <1>4

\* A claim takes its batch when it commits.
LEMMA CommitTakes ==
  ASSUME IInv, NEW w \in Worker, CommitClaim(w)
  PROVE  TheFeed!Take(hand[w])
<1>1. /\ row \in [Event -> {"absent", "waiting", "published"}]
      /\ hand[w] \in SUBSET Event /\ cur[w] \in Event \cup {0}
      /\ at \in [Worker -> Place] /\ cur \in [Worker -> Event \cup {0}]
  BY DEF IInv, TypeOK
<1>2. \A e \in hand[w] : row[e] = "waiting" /\ e \notin item
  BY <1>1 DEF CommitClaim, IInv, BatchState, ItemsBehind
<1>3. /\ row' = [e \in Event |-> IF e \in hand[w] THEN "published" ELSE row[e]]
      /\ at' = [at EXCEPT ![w] = "answering"] /\ at[w] = "claiming"
      /\ UNCHANGED <<gone, item, pushed, hand, cur, failures>>
  BY DEF CommitClaim, Goto
<1>4. hand[w] \subseteq TheFeed!In("waiting")
  BY <1>1, <1>2 DEF TheFeed!In, FeedState
<1>5. Cardinality(hand[w]) <= Limit
  <2>1. IsFiniteSet(Batch(w)) /\ Cardinality(Batch(w)) <= Limit /\ hand[w] \subseteq Batch(w)
    BY DEF IInv, BatchesFit, Batch
  <2>2. /\ IsFiniteSet(hand[w]) /\ Cardinality(hand[w]) <= Cardinality(Batch(w))
        /\ Cardinality(hand[w]) \in Nat /\ Cardinality(Batch(w)) \in Nat
    BY <2>1, FS_Subset, FS_CardinalityType
  <2> QED BY <2>1, <2>2, OutboxAssumption
<1>6. FeedState' = TheFeed!Becomes(hand[w], "taken")
  <2>1. \A e \in Event : (Held(e)' <=> Held(e)) /\ (e \in hand[w] => Held(e))
    BY <1>3 DEF Held
  <2>2. ASSUME NEW e \in Event
        PROVE  FeedState'[e] = IF e \in hand[w] THEN "taken" ELSE FeedState[e]
    BY <1>1, <1>2, <1>3, <2>1 DEF FeedState
  <2> QED BY <1>1, <2>2, StatesBecome
<1>7. PushesToCome' = PushesToCome
  <2>1. cur' = [cur EXCEPT ![w] = cur[w]]
    BY <1>1, <1>3
  <2>2. PushesToCome' = (PushesToCome \ (IF at[w] = "pushing" THEN {cur[w]} ELSE {}))
                            \cup (IF "answering" = "pushing" THEN {cur[w]} ELSE {})
    BY <1>1, <1>3, <2>1, PushesFollow
  <2> QED BY <1>3, <2>2
<1> QED BY <1>3, <1>4, <1>5, <1>6, <1>7, SameCount DEF TheFeed!Take

\* What a batch and its current row are to the feed.
LEMMA BatchIsTaken ==
  ASSUME IInv, NotYetShown, NEW w \in Worker, at[w] \notin {"idle", "claiming"},
         NEW e \in Event, e \in hand[w] \/ (e = cur[w] /\ at[w] \in {"rendering", "inserting"})
  PROVE  FeedState[e] = "taken" /\ row[e] = "published" /\ e \notin item
<1>1. row[e] = "published" /\ e \notin item
  BY DEF IInv, BatchState, ItemsBehind, CurrentState, NotYetShown, Event
<1>2. Held(e)
  BY DEF Held
<1> QED BY <1>1, <1>2 DEF FeedState

\* The row being handled leaves the hands, with an item or without.
LEMMA RowLeaves ==
  ASSUME IInv, NotYetShown, NEW w \in Worker, at[w] \in {"rendering", "inserting"},
         NEW c \in {0, cur[w]}, hand' = hand, cur' = [cur EXCEPT ![w] = c], row' = row,
         (item' = item /\ c = 0) \/ item' = item \cup {cur[w]}
  PROVE  /\ cur[w] \in Event /\ FeedState[cur[w]] = "taken"
         /\ FeedState' = TheFeed!Becomes({cur[w]}, IF item' = item THEN "over" ELSE "shown")
<1>1. /\ cur[w] \in Event /\ hand[w] \in SUBSET Event /\ hand \in [Worker -> SUBSET Event]
      /\ cur[w] \notin hand[w] /\ cur[w] \notin item /\ 0 \notin Event
  BY DEF IInv, TypeOK, CurrentState, NotYetShown, Event
<1>2. FeedState[cur[w]] = "taken" /\ row[cur[w]] = "published"
  BY <1>1, BatchIsTaken
<1>3. \A e \in Event : Held(e)' <=> e \in hand[w] \cup {c} \/ (Held(e) /\ e \notin hand[w] \cup {cur[w]})
  <2>1. hand' = [hand EXCEPT ![w] = hand[w]] /\ c \in Event \cup {0} /\ hand[w] \in SUBSET Event
    BY <1>1
  <2>2. ASSUME NEW e \in Event
        PROVE  Held(e)' <=> e \in hand[w] \cup {c} \/ (Held(e) /\ e \notin hand[w] \cup {cur[w]})
    BY <2>1, HandsFollow
  <2> QED BY <2>2
<1>4. ASSUME NEW e \in Event \ {cur[w]} PROVE FeedState'[e] = FeedState[e]
  <2>1. Held(e)' <=> Held(e)
    BY <1>1, <1>3 DEF Held
  <2>2. e \in item' <=> e \in item
    OBVIOUS
  <2> QED BY <2>1, <2>2, StateStands
<1>5. FeedState'[cur[w]] = IF item' = item THEN "over" ELSE "shown"
  <2>1. CASE item' = item
    <3>1. c = 0
      BY <1>1, <2>1
    <3>2. ASSUME NEW e \in Event, e = cur[w] PROVE FeedState'[e] = "over"
      <4>1. ~Held(e)'
        BY <1>1, <1>3, <3>1, <3>2
      <4> QED BY <1>1, <1>2, <2>1, <3>2, <4>1 DEF FeedState
    <3> QED BY <1>1, <2>1, <3>2
  <2>2. CASE item' = item \cup {cur[w]}
    BY <1>1, <1>2, <2>2 DEF FeedState
  <2> QED BY <2>1, <2>2
<1>6. ASSUME NEW e \in Event
      PROVE  FeedState'[e] = IF e \in {cur[w]} THEN (IF item' = item THEN "over" ELSE "shown")
                             ELSE FeedState[e]
  BY <1>4, <1>5
<1> QED BY <1>1, <1>2, <1>6, StatesBecome

LEMMA RenderRefines ==
  ASSUME IInv, NotYetShown, NEW w \in Worker, Render(w)
  PROVE  (TheFeed!Skip(cur[w]) /\ cur[w] \in Event) \/ UNCHANGED TheFeed!feedVars
<1>1. /\ UNCHANGED <<row, gone, item, pushed, hand, failures>> /\ at[w] = "rendering"
      /\ at \in [Worker -> Place] /\ cur \in [Worker -> Event \cup {0}]
  BY DEF Render, tableVars, IInv, TypeOK
<1>2. CASE cur[w] \in gone
  <2>1. at' = [at EXCEPT ![w] = "listening"] /\ cur' = [cur EXCEPT ![w] = 0]
    BY <1>2 DEF Render, RowDone, Goto
  <2>2. PushesToCome' = PushesToCome
    <3>1. PushesToCome' = (PushesToCome \ (IF at[w] = "pushing" THEN {cur[w]} ELSE {}))
                            \cup (IF "listening" = "pushing" THEN {0} ELSE {})
      BY <2>1, PushesFollow
    <3> QED BY <1>1, <3>1
  <2>3. /\ cur[w] \in Event /\ FeedState[cur[w]] = "taken"
        /\ FeedState' = TheFeed!Becomes({cur[w]}, "over")
    BY <1>1, <2>1, RowLeaves
  <2> QED BY <1>1, <1>2, <2>2, <2>3 DEF TheFeed!Skip
<1>3. CASE cur[w] \notin gone
  <2>1. at' = [at EXCEPT ![w] = "inserting"] /\ cur' = cur
    BY <1>3 DEF Render, Goto
  <2>2. PushesToCome' = PushesToCome
    BY <1>1, <2>1 DEF PushesToCome
  <2>3. FeedState' = FeedState
    BY <1>1, <2>1, StateStands, StatesStay DEF Held
  <2> QED BY <1>1, <2>2, <2>3 DEF TheFeed!feedVars
<1> QED BY <1>2, <1>3

LEMMA InsertShows ==
  ASSUME IInv, NotYetShown, NEW w \in Worker, Insert(w)
  PROVE  TheFeed!Show(cur[w]) /\ cur[w] \in Event
<1>1. /\ UNCHANGED <<row, gone, pushed, hand, failures>> /\ at[w] = "inserting"
      /\ item' = item \cup {cur[w]} /\ cur[w] \notin gone /\ cur[w] \notin item
      /\ at \in [Worker -> Place] /\ cur \in [Worker -> Event \cup {0}]
  BY DEF Insert, IInv, TypeOK, NotYetShown
<1>2. CASE cur[w] \in Match
  <2>1. at' = [at EXCEPT ![w] = "pushing"] /\ cur' = [cur EXCEPT ![w] = cur[w]]
    BY <1>1, <1>2 DEF Insert, Goto
  <2>2. PushesToCome' = PushesToCome \cup ({cur[w]} \cap Match)
    <3>1. PushesToCome' = (PushesToCome \ (IF at[w] = "pushing" THEN {cur[w]} ELSE {}))
                            \cup (IF "pushing" = "pushing" THEN {cur[w]} ELSE {})
      BY <1>1, <2>1, PushesFollow
    <3> QED BY <1>1, <1>2, <3>1
  <2>3. /\ cur[w] \in Event /\ FeedState[cur[w]] = "taken"
        /\ FeedState' = TheFeed!Becomes({cur[w]}, "shown")
    BY <1>1, <2>1, RowLeaves
  <2> QED BY <1>1, <2>2, <2>3 DEF TheFeed!Show
<1>3. CASE cur[w] \notin Match
  <2>1. at' = [at EXCEPT ![w] = "listening"] /\ cur' = [cur EXCEPT ![w] = 0]
    BY <1>3 DEF Insert, RowDone, Goto
  <2>2. PushesToCome' = PushesToCome \cup ({cur[w]} \cap Match)
    <3>1. PushesToCome' = (PushesToCome \ (IF at[w] = "pushing" THEN {cur[w]} ELSE {}))
                            \cup (IF "listening" = "pushing" THEN {0} ELSE {})
      BY <2>1, PushesFollow
    <3> QED BY <1>1, <1>3, <3>1
  <2>3. /\ cur[w] \in Event /\ FeedState[cur[w]] = "taken"
        /\ FeedState' = TheFeed!Becomes({cur[w]}, "shown")
    BY <1>1, <2>1, RowLeaves
  <2> QED BY <1>1, <2>2, <2>3 DEF TheFeed!Show
<1> QED BY <1>2, <1>3

LEMMA PushPushes ==
  ASSUME IInv, NEW w \in Worker, Push(w)
  PROVE  TheFeed!Push(cur[w]) /\ cur[w] \in Event
<1>1. /\ UNCHANGED <<row, gone, item, hand, failures>> /\ at[w] = "pushing"
      /\ pushed' \in {pushed, pushed \cup {cur[w]}}
      /\ at' = [at EXCEPT ![w] = "listening"] /\ cur' = [cur EXCEPT ![w] = 0]
  BY DEF Push, RowDone, Goto
<1>2. /\ cur[w] \in Event /\ cur[w] \in item /\ cur[w] \notin hand[w] /\ 0 \notin Event
      /\ hand \in [Worker -> SUBSET Event]
  BY <1>1 DEF IInv, TypeOK, CurrentState, Event
<1>3. PushesToCome' = PushesToCome \ {cur[w]} /\ cur[w] \in PushesToCome
  <2>1. PushesToCome' = (PushesToCome \ (IF at[w] = "pushing" THEN {cur[w]} ELSE {}))
                          \cup (IF "listening" = "pushing" THEN {0} ELSE {})
    BY <1>1, PushesFollow
  <2> QED BY <1>1, <2>1 DEF PushesToCome
<1>4. ASSUME NEW e \in Event PROVE FeedState'[e] = FeedState[e]
  <2>1. Held(e)' <=> e \in hand[w] \cup {0} \/ (Held(e) /\ e \notin hand[w] \cup {cur[w]})
    <3>1. hand' = [hand EXCEPT ![w] = hand[w]] /\ hand[w] \in SUBSET Event
      BY <1>1, <1>2
    <3> QED BY <1>1, <3>1, HandsFollow
  <2>2. e \notin item => (Held(e)' <=> Held(e))
    BY <1>2, <2>1 DEF Held
  <2> QED BY <1>1, <2>2 DEF FeedState
<1> QED BY <1>1, <1>2, <1>3, <1>4, StatesStay DEF TheFeed!Push

\* A claim rolled back fails and loses nothing.
LEMMA AbortFails ==
  ASSUME IInv, NEW w \in Worker, AbortClaim(w)
  PROVE  TheFeed!Fail({})
<1>1. /\ at[w] = "claiming" /\ at' = [at EXCEPT ![w] = "idle"]
      /\ hand' = [hand EXCEPT ![w] = {}] /\ failures' = failures + 1
      /\ UNCHANGED <<row, gone, item, pushed, cur>>
      /\ at \in [Worker -> Place] /\ cur \in [Worker -> Event \cup {0}]
      /\ hand \in [Worker -> SUBSET Event] /\ 0 \notin Event
  BY DEF AbortClaim, Goto, tableVars, IInv, TypeOK, Event
<1>2. cur[w] = 0 /\ \A e \in hand[w] : row[e] = "waiting"
  BY <1>1 DEF IInv, CurrentState, BatchState
<1>3. ASSUME NEW e \in Event PROVE FeedState'[e] = FeedState[e]
  <2>1. cur' = [cur EXCEPT ![w] = cur[w]]
    BY <1>1
  <2>2. Held(e)' <=> e \in {} \cup {cur[w]} \/ (Held(e) /\ e \notin hand[w] \cup {cur[w]})
    BY <1>1, <2>1, HandsFollow
  <2>3. row[e] = "published" => (Held(e)' <=> Held(e))
    BY <1>1, <1>2, <2>2
  <2> QED BY <1>1, <2>3, StateStands
<1>4. PushesToCome' = PushesToCome
  <2>1. cur' = [cur EXCEPT ![w] = cur[w]]
    BY <1>1
  <2>2. PushesToCome' = (PushesToCome \ (IF at[w] = "pushing" THEN {cur[w]} ELSE {}))
                          \cup (IF "idle" = "pushing" THEN {cur[w]} ELSE {})
    BY <1>1, <2>1, PushesFollow
  <2> QED BY <1>1, <2>2
<1>5. FeedState' = [e \in Event |-> IF e \in {} THEN "shown"
                                    ELSE IF e \in {} THEN "over" ELSE FeedState[e]]
  <2>1. FeedState' = [e \in Event |-> FeedState'[e]]
    BY DEF FeedState
  <2> QED BY <1>3, <2>1
<1>6. TheFeed!Cardinality({}) = 0 /\ 0 <= Limit
  BY SameCount, FS_EmptySet, OutboxAssumption
<1>7. \E T \in SUBSET ({} \ gone) :
        /\ TheFeed!Cardinality(T) <= 1
        /\ FeedState' = [e \in Event |-> IF e \in T THEN "shown"
                                         ELSE IF e \in {} THEN "over" ELSE FeedState[e]]
  <2> WITNESS {} \in SUBSET ({} \ gone)
  <2> QED BY <1>5, <1>6
<1>8. \E d \in SUBSET PushesToCome :
        TheFeed!Cardinality(d) <= 1 /\ PushesToCome' = PushesToCome \ d
  <2> WITNESS {} \in SUBSET PushesToCome
  <2> QED BY <1>4, <1>6
<1> QED BY <1>1, <1>6, <1>7, <1>8 DEF TheFeed!Fail, TheFeed!In

\* A tick that ends early loses what it has in hand, but for the row it may have
\* shown.
LEMMA DropFails ==
  ASSUME IInv, NotYetShown, NEW w \in Worker, InsertStale(w) \/ TickFails(w)
  PROVE  \E S \in SUBSET Event : TheFeed!Fail(S)
<1> DEFINE S == {e \in Event : e \in hand[w] \/ (e = cur[w] /\ at[w] \in {"rendering", "inserting"})}
           T == IF item' = item THEN {} ELSE {cur[w]}
           d == IF at[w] = "pushing" THEN {cur[w]} ELSE {}
<1>1. /\ at[w] \notin {"idle", "claiming"} /\ at' = [at EXCEPT ![w] = "idle"]
      /\ hand' = [hand EXCEPT ![w] = {}] /\ cur' = [cur EXCEPT ![w] = 0]
      /\ failures' = failures + 1 /\ UNCHANGED <<row, gone, pushed>>
  BY DEF InsertStale, TickFails, DropBatch, Goto
<1>2. \/ item' = item
      \/ at[w] = "inserting" /\ cur[w] \notin gone /\ item' = item \cup {cur[w]}
  BY DEF InsertStale, TickFails
<1>3. /\ at \in [Worker -> Place] /\ cur \in [Worker -> Event \cup {0}]
      /\ hand \in [Worker -> SUBSET Event] /\ 0 \notin Event
  BY DEF IInv, TypeOK, Event
<1>4. /\ cur[w] # 0 <=> at[w] \in {"rendering", "inserting", "pushing"}
      /\ at[w] = "inserting" => cur[w] \in Event /\ cur[w] \notin item
      /\ at[w] = "pushing" => cur[w] \in item
  BY <1>3 DEF IInv, CurrentState, NotYetShown
<1>5. \A e \in S : FeedState[e] = "taken" /\ row[e] = "published" /\ e \notin item
  BY <1>1, BatchIsTaken
<1>6. T \subseteq S \ gone /\ d \subseteq PushesToCome
  BY <1>2, <1>4 DEF PushesToCome
<1>7. S \subseteq TheFeed!In("taken")
  BY <1>5 DEF TheFeed!In
<1>8. TheFeed!Cardinality(S) <= Limit
  <2>1. IsFiniteSet(Batch(w)) /\ Cardinality(Batch(w)) <= Limit /\ S \subseteq Batch(w)
    BY <1>3 DEF IInv, BatchesFit, Batch
  <2> HIDE DEF S
  <2>2. /\ IsFiniteSet(S) /\ Cardinality(S) <= Cardinality(Batch(w))
        /\ Cardinality(S) \in Nat /\ Cardinality(Batch(w)) \in Nat
    BY <2>1, FS_Subset, FS_CardinalityType
  <2> QED BY <2>1, <2>2, SameCount, OutboxAssumption
<1>9. TheFeed!Cardinality(T) <= 1 /\ TheFeed!Cardinality(d) <= 1
  <2>1. Cardinality({}) = 0 /\ Cardinality({cur[w]}) = 1
    BY FS_EmptySet, FS_Singleton
  <2>2. T \in {{}, {cur[w]}} /\ d \in {{}, {cur[w]}}
    OBVIOUS
  <2> HIDE DEF T, d
  <2> QED BY <2>1, <2>2, SameCount
<1>10. PushesToCome' = PushesToCome \ d
  <2>1. PushesToCome' = (PushesToCome \ (IF at[w] = "pushing" THEN {cur[w]} ELSE {}))
                          \cup (IF "idle" = "pushing" THEN {0} ELSE {})
    BY <1>1, PushesFollow
  <2> QED BY <2>1
<1>11. ASSUME NEW e \in Event
       PROVE  FeedState'[e] = IF e \in T THEN "shown" ELSE IF e \in S THEN "over" ELSE FeedState[e]
  <2>1. Held(e)' <=> e \in {} \cup {0} \/ (Held(e) /\ e \notin hand[w] \cup {cur[w]})
    BY <1>1, HandsFollow
  <2>2. CASE e \in T
    <3>1. item' = item \cup {cur[w]} /\ e = cur[w] /\ e \in S
      BY <1>2, <1>6, <2>2
    <3> QED BY <1>1, <1>5, <2>2, <3>1 DEF FeedState
  <2>3. CASE e \in S \ T
    <3>1. e \notin item' /\ ~Held(e)'
      BY <1>2, <1>3, <1>5, <2>1, <2>3
    <3> QED BY <1>1, <1>5, <2>3, <3>1 DEF FeedState
  <2>4. CASE e \notin S
    <3>1. e \notin T /\ e \notin hand[w] /\ (e = cur[w] => at[w] = "pushing")
      BY <1>3, <1>4, <1>6, <2>4
    <3>2. e \in item' <=> e \in item
      BY <1>2, <3>1
    <3>3. e \notin item => (Held(e)' <=> Held(e))
      BY <1>3, <1>4, <2>1, <3>1
    <3>4. FeedState'[e] = FeedState[e]
      BY <1>1, <3>2, <3>3 DEF FeedState
    <3> QED BY <2>4, <3>1, <3>4
  <2> QED BY <2>2, <2>3, <2>4
<1>12. FeedState' = [e \in Event |-> IF e \in T THEN "shown"
                                     ELSE IF e \in S THEN "over" ELSE FeedState[e]]
  <2> HIDE DEF S, T
  <2>1. FeedState' = [e \in Event |-> FeedState'[e]]
    BY DEF FeedState
  <2> QED BY <1>11, <2>1
<1>13. S \in SUBSET Event
  OBVIOUS
<1> HIDE DEF S, T, d
<1>14. TheFeed!Fail(S)
  <2>1. \E t \in SUBSET (S \ gone) :
          /\ TheFeed!Cardinality(t) <= 1
          /\ FeedState' = [e \in Event |-> IF e \in t THEN "shown"
                                           ELSE IF e \in S THEN "over" ELSE FeedState[e]]
    BY <1>6, <1>9, <1>12
  <2>2. \E p \in SUBSET PushesToCome :
          TheFeed!Cardinality(p) <= 1 /\ PushesToCome' = PushesToCome \ p
    BY <1>6, <1>9, <1>10
  <2> QED BY <1>1, <1>7, <1>8, <2>1, <2>2 DEF TheFeed!Fail
<1> QED BY <1>13, <1>14

LEMMA NextRefines ==
  ASSUME IInv, NotYetShown, [Next]_vars
  PROVE  [TheFeed!FeedNext]_(TheFeed!feedVars)
<1> USE DEF TheFeed!FeedNext
<1>1. CASE UNCHANGED vars
  BY <1>1 DEF vars, tableVars, workerVars, TheFeed!feedVars, FeedState, Held, PushesToCome
<1>2. ASSUME NEW e \in Event, Append(e) \/ Delete(e) PROVE TheFeed!FeedNext
  BY <1>2, OtherSteps
<1>3. ASSUME NEW w \in Worker, Work(w) \/ AbortClaim(w) \/ TickFails(w)
      PROVE  TheFeed!FeedNext \/ UNCHANGED TheFeed!feedVars
  <2>1. CASE CommitClaim(w)
    <3>1. hand[w] \in SUBSET Event
      BY DEF IInv, TypeOK
    <3> QED BY <2>1, <3>1, CommitTakes
  <2>2. CASE AbortClaim(w)
    <3>1. {} \in SUBSET Event
      OBVIOUS
    <3> QED BY <2>2, <3>1, AbortFails
  <2>3. CASE InsertStale(w) \/ TickFails(w)
    BY <2>3, DropFails
  <2>4. CASE Render(w)
    BY <2>4, RenderRefines
  <2>5. CASE Insert(w)
    BY <2>5, InsertShows
  <2>6. CASE Push(w)
    BY <2>6, PushPushes
  <2> QED BY <1>3, <2>1, <2>2, <2>3, <2>4, <2>5, <2>6, UnseenSteps DEF Work
<1> QED BY <1>1, <1>2, <1>3 DEF Next

-----------------------------------------------------------------------------
(* The theorems. *)

\* Every reachable state is well typed.
THEOREM Typing == Spec => []TypeOK
<1>1. IInv => TypeOK
  BY DEF IInv
<1> QED BY <1>1, Inductive, PTL

\* However many processes claim at once, skip each other's rows and abort, a row
\* is in one batch, once, and is not handled again when its item exists.
THEOREM EveryRowHasOneHandler == Spec => []OneHandler
<1>1. IInv => OneHandler
  BY DEF IInv, OneHandler, Apart, ItemsBehind, BatchState
<1> QED BY <1>1, Inductive, PTL

\* Rows that were published and will never become items are at most one batch
\* for every failed tick, whatever interleaves and wherever the ticks fail.
THEOREM OneBatchForEachFailure == Spec => []LossIsBounded
<1>1. IInv => LossIsBounded
  BY DEF IInv
<1> QED BY <1>1, Inductive, PTL

\* However many workers claim, abort and fail, each row goes its way in the feed
\* once: taken in one batch, shown once, pushed once and after that.
THEOREM FeedIsImplemented == Spec => ImplementsFeed
<1>1. Init => TheFeed!FeedInit
  <2>1. ASSUME Init PROVE TheFeed!FeedInit
    <3>1. FeedState = [e \in Event |-> "absent"]
      BY <2>1 DEF Init, FeedState
    <3>2. PushesToCome = {}
      BY <2>1 DEF Init, PushesToCome
    <3> QED BY <2>1, <3>1, <3>2 DEF Init, TheFeed!FeedInit
  <2> QED BY <2>1
<1>2. IInv /\ NotYetShown /\ [Next]_vars => [TheFeed!FeedNext]_(TheFeed!feedVars)
  BY NextRefines
<1> QED BY <1>1, <1>2, Inductive, NotYetShownAlways, PTL DEF Spec, ImplementsFeed, TheFeed!FeedSpec
=============================================================================
