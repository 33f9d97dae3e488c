------------------------- MODULE StageChangeProofs -------------------------
(***************************************************************************)
(* Stage changes proved for any number of calls, keys and applications:    *)
(* no call collides with its own command, an answer without an error means *)
(* the move happened, and the tables implement StageLog.                   *)
(***************************************************************************)
EXTENDS StageChange, TLAPS

-----------------------------------------------------------------------------
(* The inductive invariant. *)

Inside == {"checking", "writing"}

\* A call past the lock holds its row, and what it read is still there.
HoldsItsRow ==
  \A c \in Caller : pc[c] \in Inside =>
    /\ key[c] \in Key
    /\ To(c) \in Stage /\ App(c) \in Application
    /\ lock[App(c)] = c
    /\ old[c] = stage[App(c)]

\* A call about to write is the first of its command.
WritesOnce == \A c \in Caller : pc[c] = "writing" => from[key[c]] = Never

\* The event and the announcement of a command are written together.
Announced == \A k \in Key : from[k] # Never <=> k \in announced

\* A call that is under way has a key.
HasKey == \A c \in Caller : pc[c] \in {"locking", "ok"} => key[c] \in Key

IInv ==
  /\ TypeOK
  /\ HoldsItsRow
  /\ WritesOnce
  /\ Announced
  /\ HasKey
  /\ OkIsDone
  /\ NeverCollides

-----------------------------------------------------------------------------
(* Type correctness. *)

\* Every step keeps the variables in their types, given that a call past the
\* lock has a row to write.
LEMMA NextTyped ==
  ASSUME TypeOK, HoldsItsRow, HasKey, [Next]_vars
  PROVE  TypeOK'
<1> USE DEF TypeOK, Intent
<1>1. ASSUME NEW c \in Caller, NEW k \in Key, Call(c, k)
      PROVE  TypeOK'
  BY <1>1 DEF Call, Goto, tableVars, Place
<1>2. ASSUME NEW c \in Caller, Refuse(c)
      PROVE  TypeOK'
  BY <1>2 DEF Refuse, Goto, tableVars, Place
<1>3. ASSUME NEW c \in Caller, LockRow(c)
      PROVE  TypeOK'
  BY <1>3 DEF LockRow, Goto, tableVars, Place
<1>4. ASSUME NEW c \in Caller, AlreadyRan(c)
      PROVE  TypeOK'
  BY <1>4 DEF AlreadyRan, Release, Goto, tableVars, Place
<1>5. ASSUME NEW c \in Caller, NotYetRun(c)
      PROVE  TypeOK'
  BY <1>5 DEF NotYetRun, Goto, tableVars, Place
<1>6. ASSUME NEW c \in Caller, Write(c)
      PROVE  TypeOK'
  <2>1. key[c] \in Key /\ To(c) \in Stage /\ App(c) \in Application
    BY <1>6 DEF Write, HoldsItsRow, Inside
  <2>2. old[c] \in Stage
    BY <1>6, <2>1 DEF Write, HoldsItsRow, Inside
  <2>3. lock' \in [Application -> Caller \cup {NoOne}]
    BY <1>6 DEF Write, Release
  <2>4. pc' \in [Caller -> Place]
    BY <1>6 DEF Write, Goto, Place
  <2>5. stage' \in [Application -> Stage]
    BY <1>6, <2>1 DEF Write, Enter
  <2>6. from' \in [Key -> Stage \cup {Never}]
    BY <1>6, <2>1, <2>2 DEF Write, Enter
  <2>7. appliedBy' \in [Application -> Key \cup {Never}]
    BY <1>6, <2>1 DEF Write, Enter
  <2>8. announced' \subseteq Key
    BY <1>6, <2>1 DEF Write, Enter
  <2> QED BY <1>6, <2>3, <2>4, <2>5, <2>6, <2>7, <2>8 DEF Write
<1>7. ASSUME NEW c \in Caller, CutOff(c)
      PROVE  TypeOK'
  BY <1>7 DEF CutOff, Release, Goto, tableVars, Place
<1>8. CASE UNCHANGED vars
  BY <1>8 DEF vars, tableVars, callVars
<1> QED BY <1>1, <1>2, <1>3, <1>4, <1>5, <1>6, <1>7, <1>8 DEF Next, Run

-----------------------------------------------------------------------------
(* The invariant. *)

\* The invariant holds of the empty tables.
LEMMA InitInvariant ==
  ASSUME Init PROVE IInv
<1>1. Never \notin Stage /\ Saved \in Stage
  BY StageChangeAssumption
<1>2. TypeOK
  BY <1>1 DEF Init, TypeOK, Place
<1> QED BY <1>2 DEF Init, IInv, HoldsItsRow, WritesOnce, Announced, HasKey,
                    OkIsDone, NeverCollides, Inside

\* Two calls past the lock are at different applications, so at different keys.
LEMMA OneCallPerRow ==
  ASSUME IInv, NEW c \in Caller, NEW d \in Caller, c # d,
         pc[c] \in Inside, pc[d] \in Inside
  PROVE  App(c) # App(d) /\ key[c] # key[d]
BY DEF IInv, HoldsItsRow, App

\* Writing changes one application's row, which nobody else is past the lock
\* of: what the other calls read stays true, and their keys stay unused.
LEMMA WriteKeeps ==
  ASSUME IInv, NEW c \in Caller, Write(c), TypeOK'
  PROVE  IInv'
<1> USE DEF IInv
<1>1. /\ pc[c] = "writing" /\ pc[c] \in Inside
      /\ key[c] \in Key /\ To(c) \in Stage /\ App(c) \in Application
      /\ lock[App(c)] = c /\ old[c] = stage[App(c)]
      /\ from[key[c]] = Never
  BY DEF Write, HoldsItsRow, WritesOnce, Inside
<1>2. Never \notin Stage /\ NoOne \notin Caller
  BY StageChangeAssumption
<1>3. old[c] \in Stage
  BY <1>1 DEF TypeOK
<1>4. /\ pc' = [pc EXCEPT ![c] = "ok"]
      /\ lock' = [a \in Application |-> IF lock[a] = c THEN NoOne ELSE lock[a]]
      /\ stage' = [stage EXCEPT ![App(c)] = To(c)]
      /\ from' = [from EXCEPT ![key[c]] = old[c]]
      /\ announced' = announced \cup {key[c]}
      /\ intent' = intent /\ key' = key /\ old' = old
  BY <1>1 DEF Write, Enter, Release, Goto
<1>5. \A d \in Caller : d # c => pc'[d] = pc[d]
  BY <1>4 DEF TypeOK
<1>6. pc'[c] = "ok"
  BY <1>4 DEF TypeOK
<1>7. \A k \in Key : k # key[c] => from'[k] = from[k]
  BY <1>4 DEF TypeOK
<1>8. from'[key[c]] \in Stage
  BY <1>1, <1>3, <1>4 DEF TypeOK
<1>9. HoldsItsRow'
  <2>1. SUFFICES ASSUME NEW d \in Caller, pc'[d] \in Inside
                 PROVE  /\ key[d] \in Key
                        /\ To(d) \in Stage /\ App(d) \in Application
                        /\ lock'[App(d)] = d
                        /\ old[d] = stage'[App(d)]
    BY <1>4 DEF HoldsItsRow, To, App
  <2>2. d # c /\ pc[d] \in Inside
    BY <1>5, <1>6, <2>1 DEF Inside
  <2>3. App(c) # App(d)
    BY <1>1, <2>2, OneCallPerRow
  <2>4. /\ key[d] \in Key /\ To(d) \in Stage /\ App(d) \in Application
        /\ lock[App(d)] = d /\ old[d] = stage[App(d)]
    BY <2>2 DEF HoldsItsRow
  <2>5. lock'[App(d)] = d
    BY <1>4, <2>2, <2>4 DEF TypeOK
  <2>6. stage'[App(d)] = stage[App(d)]
    BY <1>4, <2>3, <2>4 DEF TypeOK
  <2> QED BY <2>4, <2>5, <2>6
<1>10. WritesOnce'
  <2>1. SUFFICES ASSUME NEW d \in Caller, pc'[d] = "writing"
                 PROVE  from'[key[d]] = Never
    BY <1>4 DEF WritesOnce
  <2>2. d # c /\ pc[d] = "writing" /\ pc[d] \in Inside
    BY <1>5, <1>6, <2>1 DEF Inside
  <2>3. key[c] # key[d] /\ key[d] \in Key
    BY <1>1, <2>2, OneCallPerRow DEF HoldsItsRow
  <2> QED BY <1>7, <2>2, <2>3 DEF WritesOnce
<1>11. Announced'
  BY <1>1, <1>2, <1>4, <1>7, <1>8 DEF Announced
<1>12. HasKey'
  BY <1>1, <1>4, <1>5, <1>6 DEF HasKey
<1>13. OkIsDone'
  <2>1. SUFFICES ASSUME NEW d \in Caller, pc'[d] = "ok"
                 PROVE  from'[key[d]] \in Stage /\ key[d] \in announced'
    BY <1>4 DEF OkIsDone
  <2>2. CASE key[d] = key[c]
    BY <1>4, <1>8, <2>2
  <2>3. CASE key[d] # key[c]
    <3>1. d # c /\ pc[d] = "ok"
      BY <1>5, <2>1, <2>3
    <3>2. key[d] \in Key /\ from[key[d]] \in Stage /\ key[d] \in announced
      BY <3>1 DEF HasKey, OkIsDone
    <3> QED BY <1>4, <1>7, <2>3, <3>2
  <2> QED BY <2>2, <2>3
<1>14. NeverCollides'
  BY <1>5, <1>6 DEF NeverCollides
<1> QED BY <1>9, <1>10, <1>11, <1>12, <1>13, <1>14

\* Every step keeps the invariant.
LEMMA NextInvariant ==
  ASSUME IInv, [Next]_vars
  PROVE  IInv'
<1>1. TypeOK'
  BY NextTyped DEF IInv
<1> USE DEF IInv
<1>2. ASSUME NEW c \in Caller, NEW k \in Key, Call(c, k)
      PROVE  IInv'
  BY <1>1, <1>2 DEF Call, Goto, Ended, tableVars, Inside, App, To, TypeOK,
     HoldsItsRow, WritesOnce, Announced, HasKey, OkIsDone, NeverCollides
<1>3. ASSUME NEW c \in Caller, Refuse(c)
      PROVE  IInv'
  BY <1>1, <1>3 DEF Refuse, Goto, tableVars, Inside, App, To, TypeOK,
     HoldsItsRow, WritesOnce, Announced, HasKey, OkIsDone, NeverCollides
<1>4. ASSUME NEW c \in Caller, LockRow(c)
      PROVE  IInv'
  <2>1. /\ pc[c] = "locking" /\ key[c] \in Key
        /\ To(c) \in Stage /\ App(c) \in Application
        /\ lock[App(c)] = NoOne
        /\ lock' = [lock EXCEPT ![App(c)] = c]
        /\ old' = [old EXCEPT ![c] = stage[App(c)]]
        /\ pc' = [pc EXCEPT ![c] = "checking"]
        /\ UNCHANGED <<intent, stage, from, announced, key>>
    BY <1>4 DEF LockRow, Goto, tableVars, HasKey
  <2>2. NoOne \notin Caller
    BY StageChangeAssumption
  <2>3. HoldsItsRow'
    <3>1. ASSUME NEW d \in Caller, d # c, pc'[d] \in Inside
          PROVE  /\ key[d] \in Key
                 /\ To(d) \in Stage /\ App(d) \in Application
                 /\ lock'[App(d)] = d
                 /\ old'[d] = stage[App(d)]
      <4>1. pc[d] \in Inside
        BY <2>1, <3>1 DEF TypeOK
      <4>2. /\ key[d] \in Key /\ To(d) \in Stage /\ App(d) \in Application
            /\ lock[App(d)] = d /\ old[d] = stage[App(d)]
        BY <4>1 DEF HoldsItsRow
      <4>3. App(d) # App(c)
        BY <2>1, <2>2, <4>2
      <4> QED BY <2>1, <3>1, <4>2, <4>3 DEF TypeOK
    <3>2. lock'[App(c)] = c /\ old'[c] = stage[App(c)]
      BY <2>1 DEF TypeOK
    <3> QED BY <2>1, <3>1, <3>2 DEF HoldsItsRow, To, App
  <2>4. WritesOnce' /\ HasKey' /\ OkIsDone' /\ NeverCollides'
    BY <2>1 DEF TypeOK, WritesOnce, HasKey, OkIsDone, NeverCollides
  <2>5. Announced'
    BY <2>1 DEF Announced
  <2> QED BY <1>1, <2>3, <2>4, <2>5
<1>5. ASSUME NEW c \in Caller, AlreadyRan(c)
      PROVE  IInv'
  <2>1. /\ pc[c] = "checking" /\ pc[c] \in Inside
        /\ key[c] \in Key /\ from[key[c]] # Never
        /\ lock' = [a \in Application |-> IF lock[a] = c THEN NoOne ELSE lock[a]]
        /\ pc' = [pc EXCEPT ![c] = "ok"]
        /\ UNCHANGED <<intent, stage, from, announced, key, old>>
    BY <1>5 DEF AlreadyRan, Release, Goto, tableVars, HoldsItsRow, Inside
  <2>2. from[key[c]] \in Stage /\ key[c] \in announced
    BY <2>1 DEF TypeOK, Announced
  <2>3. HoldsItsRow'
    BY <2>1 DEF TypeOK, HoldsItsRow, Inside, App, To
  <2>4. WritesOnce' /\ HasKey' /\ OkIsDone' /\ NeverCollides'
    BY <2>1, <2>2 DEF TypeOK, WritesOnce, HasKey, OkIsDone, NeverCollides
  <2>5. Announced'
    BY <2>1 DEF Announced
  <2> QED BY <1>1, <2>3, <2>4, <2>5
<1>6. ASSUME NEW c \in Caller, NotYetRun(c)
      PROVE  IInv'
  BY <1>1, <1>6 DEF NotYetRun, Goto, tableVars, Inside, App, To, TypeOK,
     HoldsItsRow, WritesOnce, Announced, HasKey, OkIsDone, NeverCollides
<1>7. ASSUME NEW c \in Caller, Write(c)
      PROVE  IInv'
  BY <1>1, <1>7, WriteKeeps
<1>8. ASSUME NEW c \in Caller, CutOff(c)
      PROVE  IInv'
  <2>1. /\ lock' = [a \in Application |-> IF lock[a] = c THEN NoOne ELSE lock[a]]
        /\ pc' = [pc EXCEPT ![c] = "idle"]
        /\ UNCHANGED <<intent, stage, from, announced, key, old>>
    BY <1>8 DEF CutOff, Release, Goto, tableVars
  <2>2. HoldsItsRow'
    BY <2>1 DEF TypeOK, HoldsItsRow, Inside, App, To
  <2>3. WritesOnce' /\ HasKey' /\ OkIsDone' /\ NeverCollides'
    BY <2>1 DEF TypeOK, WritesOnce, HasKey, OkIsDone, NeverCollides
  <2>4. Announced'
    BY <2>1 DEF Announced
  <2> QED BY <1>1, <2>2, <2>3, <2>4
<1>9. CASE UNCHANGED vars
  BY <1>1, <1>9 DEF vars, tableVars, callVars, App, To,
     HoldsItsRow, WritesOnce, Announced, HasKey, OkIsDone, NeverCollides
<1> QED BY <1>2, <1>3, <1>4, <1>5, <1>6, <1>7, <1>8, <1>9 DEF Next, Run

\* The invariant holds in every reachable state.
LEMMA Inductive == Spec => []IInv
<1>1. Init => IInv
  BY InitInvariant
<1>2. IInv /\ [Next]_vars => IInv'
  BY NextInvariant
<1> QED BY <1>1, <1>2, PTL DEF Spec

-----------------------------------------------------------------------------
(* The theorems. *)

\* Every reachable state is well typed.
THEOREM Typing == Spec => []TypeOK
<1>1. IInv => TypeOK
  BY DEF IInv
<1> QED BY <1>1, Inductive, PTL

\* A command given twice never fails with the unique constraint on its key,
\* however its calls interleave.
THEOREM NoCollision == Spec => []NeverCollides
<1>1. IInv => NeverCollides
  BY DEF IInv
<1> QED BY <1>1, Inductive, PTL

\* A call that answers without an error has been carried out and announced.
THEOREM AnswersAreTrue == Spec => []OkIsDone
<1>1. IInv => OkIsDone
  BY DEF IInv
<1> QED BY <1>1, Inductive, PTL

\* Every step of the calls is a move of the log or changes nothing in it.
LEMMA NextRefines ==
  ASSUME IInv, [Next]_vars
  PROVE  [History!Next]_History!vars
<1> USE DEF History!vars
<1>1. ASSUME NEW c \in Caller, Write(c)
      PROVE  History!Next
  <2>1. /\ key[c] \in Key /\ To(c) \in Stage /\ App(c) \in Application
        /\ old[c] = stage[App(c)] /\ from[key[c]] = Never
    BY <1>1 DEF Write, IInv, HoldsItsRow, WritesOnce, Inside
  <2>2. Enter(c) /\ UNCHANGED intent
    BY <1>1, <2>1 DEF Write
  <2>3. History!Move(key[c])
    BY <2>1, <2>2 DEF Enter, History!Move, App, To
  <2> QED BY <2>1, <2>3 DEF History!Next
<1>2. CASE UNCHANGED tableVars
  BY <1>2 DEF tableVars
<1>3. ASSUME NEW c \in Caller,
             \/ \E k \in Key : Call(c, k)
             \/ Refuse(c) \/ LockRow(c) \/ AlreadyRan(c) \/ NotYetRun(c) \/ CutOff(c)
      PROVE  UNCHANGED tableVars
  BY <1>3 DEF Call, Refuse, LockRow, AlreadyRan, NotYetRun, CutOff
<1>4. UNCHANGED vars => UNCHANGED tableVars
  BY DEF vars
<1> QED BY <1>1, <1>2, <1>3, <1>4 DEF Next, Run

\* The tables, under calls that interleave, repeat and are cut off, are the
\* history StageLog describes.
THEOREM Refinement == Spec => ImplementsStageLog
<1>1. Init => History!Init
  BY DEF Init, Intent, History!Init
<1>2. IInv /\ [Next]_vars => [History!Next]_History!vars
  BY NextRefines
<1> QED BY <1>1, <1>2, Inductive, PTL DEF Spec, ImplementsStageLog, History!Spec
=============================================================================
