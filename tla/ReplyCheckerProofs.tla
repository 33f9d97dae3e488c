------------------------- MODULE ReplyCheckerProofs -------------------------
(***************************************************************************)
(* The reply checker proved for any thread, however many messages and      *)
(* faults: no reply is classified twice, and none is passed over but for a *)
(* newer one or in the ways missed counts.                                 *)
(***************************************************************************)
EXTENDS ReplyChecker, SequenceTheorems, FiniteSetTheorems, WellFoundedInduction, TLAPS

-----------------------------------------------------------------------------
(* The inductive invariant, by positions in the thread. *)

\* A message is delivered once, and the first is the person's.
InThread ==
  /\ \A i, j \in 1 .. Now : thread[i] = thread[j] => i = j
  /\ Now > 0 => thread[1] \in Sent

\* The anchor is the first message, in the row and in what the tick has of it.
AtTheFirst == anchor <= 1 /\ draft.anchor <= 1

\* Between the reading of the row and its mark, nobody else has marked it.
MarkIsOurs ==
  at \in {"token", "thread", "flagging", "anchoring", "marking"} => draft.checked = checked

\* A tick confirms the sending only where it has read a message of the person.
FirstWasRead == at = "anchoring" => seen > 0

\* A reply that was classified is below the mark; the one being classified too,
\* and for the first time.
BelowTheMark ==
  /\ \A m \in Reply : classified[m] > 0 => \E i \in 1 .. checked : thread[i] = m
  /\ at = "classifying" =>
       /\ chosen \in Reply /\ classified[chosen] = 0
       /\ \E i \in 1 .. checked : thread[i] = chosen
  /\ at # "classifying" => chosen = Nothing

\* The reply at position i is answered for: by itself, or by a newer one.
Answered(m) == Handled(m) \/ m \in missed
AnsweredFor(i) ==
  \E j \in 1 .. Now : i <= j /\ thread[j] \in Reply /\ Answered(thread[j])

\* The replies below the mark are answered for.
MarkIsHonest == \A i \in 1 .. checked : thread[i] \in Reply => AnsweredFor(i)

IInv ==
  /\ TypeOK /\ InThread /\ AtTheFirst /\ MarkIsOurs /\ FirstWasRead
  /\ BelowTheMark /\ ClassifiedOnce /\ MarkIsHonest

-----------------------------------------------------------------------------
(* The mark. *)

\* Whatever raises the mark to now keeps it honest, if every reply it passes is
\* answered for, and no answer is forgotten.
LEMMA MarkStaysHonest ==
  ASSUME IInv, UNCHANGED thread, checked' \in 0 .. Now,
         \A m \in Reply : Answered(m) => Answered(m)',
         \A i \in checked + 1 .. checked' : thread[i] \in Reply => AnsweredFor(i)'
  PROVE  MarkIsHonest'
<1>1. SUFFICES ASSUME NEW i \in 1 .. checked', thread[i] \in Reply
               PROVE  AnsweredFor(i)'
  BY DEF MarkIsHonest
<1>2. CASE i > checked
  BY <1>1, <1>2 DEF IInv, TypeOK, Time, Now
<1>3. CASE i <= checked
  <2>1. AnsweredFor(i)
    BY <1>1, <1>3 DEF IInv, TypeOK, Time, Now, MarkIsHonest
  <2> QED BY <2>1 DEF AnsweredFor, Now
<1> QED BY <1>2, <1>3 DEF IInv, TypeOK, Time, Now

\* A set of positions has a last one.
LEMMA GreatestExists ==
  ASSUME NEW n \in Nat, NEW S \in SUBSET (1 .. n), S # {}
  PROVE  \E i \in S : \A j \in S : j <= i
<1> DEFINE After(i) == i .. n
           T == {After(i) : i \in S}
           R == StrictSubsetOrdering(1 .. n)
<1>1. \A i \in S : After(i) \subseteq 1 .. n /\ IsFiniteSet(After(i))
  BY FS_Interval
<1>2. T \subseteq FiniteSubsetsOf(1 .. n) /\ T # {}
  BY <1>1 DEF FiniteSubsetsOf
<1>3. IsWellFoundedOn(R, FiniteSubsetsOf(1 .. n))
  BY FS_StrictSubsetOrderingWellFounded
<1>4. PICK x \in T : \A y \in T : ~(<<y, x>> \in R)
  <2> HIDE DEF T, R
  <2> QED BY <1>2, <1>3, WFMin
<1>5. PICK i \in S : x = After(i)
  BY <1>4
<1>6. ASSUME NEW j \in S, i < j
      PROVE  FALSE
  <2>1. After(j) \subseteq After(i) /\ i \in After(i) /\ i \notin After(j)
    BY <1>6
  <2>2. <<After(j), After(i)>> \in R
    BY <1>1, <2>1 DEF StrictSubsetOrdering
  <2> QED BY <1>4, <1>5, <2>2
<1> QED BY <1>6

\* In a thread without repetitions a message has one position.
LEMMA PositionIs ==
  ASSUME InThread, NEW i \in 1 .. Now
  PROVE  Position(thread[i]) = i
BY DEF InThread, Position

\* The person's first message is at the first place of what was read.
LEMMA FirstIsSent ==
  ASSUME IInv, NEW n \in 1 .. Now
  PROVE  SentAmong(n) # {} /\ AnchorOf(SentAmong(n)) = 1
<1>1. Now \in Nat /\ thread[1] \in Sent
  BY LenProperties DEF IInv, TypeOK, InThread, Now
<1>2. 1 \in SentAmong(n) /\ \A j \in SentAmong(n) : j \in Nat /\ 1 <= j
  BY <1>1 DEF SentAmong
<1> QED BY <1>2 DEF AnchorOf

-----------------------------------------------------------------------------
(* Every step keeps the invariant. *)

LEMMA InitInvariant ==
  ASSUME Init PROVE IInv
BY ReplyCheckerAssumption, EmptySeq
   DEF Init, IInv, TypeOK, Time, Place, Now, InThread, AtTheFirst, MarkIsOurs, FirstWasRead,
       BelowTheMark, ClassifiedOnce, MarkIsHonest

\* A message arrives: every position stays what it was.
LEMMA DeliverKeeps ==
  ASSUME IInv, NEW m \in Sent \cup Reply, Deliver(m)
  PROVE  IInv'
<1> USE DEF IInv
<1>1. /\ thread \in Seq(Sent \cup Reply) /\ Now \in Nat
      /\ thread' \in Seq(Sent \cup Reply) /\ Now' = Now + 1
      /\ \A i \in 1 .. Now : thread'[i] = thread[i]
      /\ thread'[Now + 1] = m
  BY AppendProperties, LenProperties DEF TypeOK, Deliver, Now
<1>2. /\ UNCHANGED <<granted, anchor, checked, validated, classified, at, draft, seen, chosen, missed, faults>>
      /\ m \notin Arrived /\ (m \in Reply => Now > 0)
  BY <1>1, EmptySeq DEF Deliver, tableVars, tickVars, Now
<1>3. TypeOK'
  BY <1>1, <1>2 DEF TypeOK, Time, Now
<1>4. InThread'
  BY <1>1, <1>2, ReplyCheckerAssumption DEF InThread, Arrived
<1>5. AtTheFirst' /\ MarkIsOurs' /\ FirstWasRead' /\ ClassifiedOnce'
  BY <1>2 DEF AtTheFirst, MarkIsOurs, FirstWasRead, ClassifiedOnce
<1>6. \A i \in 1 .. checked : i \in 1 .. Now
  BY <1>1 DEF TypeOK, Time, Now
<1>7. BelowTheMark'
  BY <1>1, <1>2, <1>6 DEF BelowTheMark
<1>8. MarkIsHonest'
  BY <1>1, <1>2, <1>6 DEF MarkIsHonest, AnsweredFor, Answered, Handled
<1> QED BY <1>3, <1>4, <1>5, <1>7, <1>8

\* The connection comes and goes, and the tick reads: no mark moves.
Reads ==
  Revoke \/ Reconnect \/ FlagElsewhere \/ Select \/ GetToken \/ SkipFlagged \/ Refused \/ Flag
  \/ GetThread \/ ConfirmSent

LEMMA ReadsKeep ==
  ASSUME IInv, Reads PROVE IInv'
<1> USE DEF IInv
<1>1. /\ UNCHANGED <<thread, checked, classified, chosen, missed>>
      /\ (at # "classifying" /\ at' # "classifying") \/ UNCHANGED at
  BY DEF Reads, Revoke, Reconnect, FlagElsewhere, Select, GetToken, SkipFlagged, Refused, Flag,
         GetThread, ConfirmSent, mailVars, tableVars, tickVars
<1>2. Now \in Nat
  BY LenProperties DEF TypeOK, Now
<1>3. /\ anchor' \in 0 .. 1 /\ draft'.anchor \in 0 .. 1
      /\ TypeOK' /\ FirstWasRead' /\ MarkIsOurs'
  <2>1. CASE Revoke \/ Reconnect \/ FlagElsewhere \/ GetToken \/ SkipFlagged \/ Refused \/ Flag
    <3>1. /\ UNCHANGED <<thread, anchor, checked, draft, seen, chosen, classified, missed>>
          /\ granted' \in BOOLEAN /\ validated' \in BOOLEAN /\ faults' \in Nat
          /\ at' \in {at, "idle"} \/ (at \in {"token", "thread"} /\ at' \in {"thread", "flagging"})
      <4>1. granted \in BOOLEAN /\ validated \in BOOLEAN /\ faults \in Nat
        BY DEF TypeOK
      <4>2. CASE Revoke \/ Reconnect \/ FlagElsewhere
        <5>1. CASE Revoke
          <6>1. /\ UNCHANGED <<thread, anchor, checked, validated, at, draft, seen, chosen, classified, missed>>
                /\ granted' = FALSE /\ faults' = faults + 1
            BY <5>1 DEF Revoke, tableVars, tickVars
          <6>2. faults' \in Nat
            BY <4>1, <6>1
          <6> QED BY <4>1, <6>1, <6>2
        <5>2. CASE Reconnect
          BY <4>1, <5>2 DEF Reconnect, tickVars
        <5>3. CASE FlagElsewhere
          BY <4>1, <5>3 DEF FlagElsewhere, mailVars, tickVars
        <5> QED BY <4>2, <5>1, <5>2, <5>3
      <4>3. CASE GetToken \/ SkipFlagged \/ Refused \/ Flag
        BY <4>1, <4>3 DEF GetToken, SkipFlagged, Refused, Flag, mailVars, tableVars
      <4> QED BY <2>1, <4>2, <4>3
    <3> QED BY <3>1 DEF TypeOK, Time, Place, AtTheFirst, FirstWasRead, MarkIsOurs
  <2>2. CASE Select
    BY <2>2 DEF Select, mailVars, tableVars, TypeOK, Time, Place, AtTheFirst, FirstWasRead, MarkIsOurs
  <2>3. CASE GetThread
    <3>1. SentAmong(Now) # {} => Now > 0
      BY <1>2 DEF SentAmong
    <3> QED BY <1>2, <2>3, <3>1 DEF GetThread, mailVars, tableVars, TypeOK, Time, Place, Now,
                     AtTheFirst, FirstWasRead, MarkIsOurs
  <2>4. CASE ConfirmSent
    <3>1. anchor' = 1 /\ draft' = [draft EXCEPT !.anchor = 1] /\ Now >= 1
      BY <1>2, <2>4, FirstIsSent DEF ConfirmSent, FirstWasRead, TypeOK, Time, Now
    <3> QED BY <1>2, <2>4, <3>1 DEF ConfirmSent, mailVars, TypeOK, Time, Place, Now,
                     AtTheFirst, FirstWasRead, MarkIsOurs
  <2> QED BY <2>1, <2>2, <2>3, <2>4 DEF Reads
<1>4. InThread' /\ AtTheFirst' /\ BelowTheMark' /\ ClassifiedOnce'
  BY <1>1, <1>3 DEF InThread, Now, AtTheFirst, BelowTheMark, ClassifiedOnce
<1>5. MarkIsHonest'
  BY <1>1 DEF MarkIsHonest, AnsweredFor, Now, Answered, Handled
<1> QED BY <1>3, <1>4, <1>5

\* What the tick chooses is the newest reply above the mark of those it has read.
ChosenAt(k) ==
  /\ at' = "classifying" /\ chosen' = thread[k] /\ thread[k] \in Reply
  /\ \A i \in checked + 1 .. seen : thread[i] \in Reply => i <= k

LEMMA NewestIsChosen ==
  ASSUME IInv, MarkChecked
  PROVE  \/ /\ at' = "idle" /\ chosen' = Nothing
            /\ \A i \in checked + 1 .. seen : thread[i] \notin Reply
         \/ \E k \in checked + 1 .. seen : ChosenAt(k)
<1> DEFINE replies == Candidates(seen, draft)
<1>1. /\ Now \in Nat /\ seen \in 0 .. Now /\ seen \in Nat /\ checked \in 0 .. Now
      /\ draft.checked = checked /\ draft.anchor \in 0 .. 1 /\ chosen = Nothing
  BY LenProperties DEF MarkChecked, IInv, TypeOK, Time, Now, MarkIsOurs, AtTheFirst, BelowTheMark
<1>2. ASSUME NEW i \in checked + 1 .. seen, thread[i] \in Reply
      PROVE  i \in replies
  <2>1. i > 1 /\ SentAmong(seen) # {}
    BY <1>1, <1>2, FirstIsSent, ReplyCheckerAssumption DEF IInv, InThread
  <2> QED BY <1>1, <1>2, <2>1 DEF Candidates, Watermark
<1>3. /\ replies \in SUBSET (checked + 1 .. seen) /\ replies \in SUBSET (1 .. seen)
      /\ \A i \in replies : thread[i] \in Reply
  BY <1>1 DEF Candidates, Watermark
<1>4. CASE replies = {}
  BY <1>1, <1>2, <1>4 DEF MarkChecked
<1>5. CASE replies # {}
  <2> DEFINE newest == CHOOSE i \in replies : \A j \in replies : j <= i
  <2>1. at' = "classifying" /\ chosen' = thread[newest]
    BY <1>5 DEF MarkChecked
  <2>2. newest \in replies /\ \A j \in replies : j <= newest
    <3> HIDE DEF replies
    <3>1. \E i \in replies : \A j \in replies : j <= i
      BY <1>1, <1>3, <1>5, GreatestExists
    <3> QED BY <3>1
  <2>3. \E k \in replies : ChosenAt(k)
    <3> HIDE DEF replies, newest
    <3> QED BY <1>2, <1>3, <2>1, <2>2 DEF ChosenAt
  <2> QED BY <1>3, <2>3
<1> QED BY <1>4, <1>5

\* What the tick read and did not choose has a newer reply that was chosen; what
\* it did not read is missed.
LEMMA MarkCheckedKeeps ==
  ASSUME IInv, MarkChecked PROVE IInv'
<1> USE DEF IInv
<1>1. /\ at = "marking" /\ checked' = Now
      /\ missed' = missed \cup RepliesIn(seen + 1, Now)
      /\ UNCHANGED <<thread, granted, anchor, validated, classified, draft, seen, faults>>
  BY DEF MarkChecked, mailVars
<1>2. /\ Now \in Nat /\ seen \in 0 .. Now /\ checked \in 0 .. Now
      /\ chosen = Nothing
      /\ at' \in {"idle", "classifying"} /\ chosen' \in Reply \cup {Nothing}
  BY <1>1, NewestIsChosen, LenProperties DEF TypeOK, Time, Now, BelowTheMark, ChosenAt
<1>3. TypeOK'
  BY <1>1, <1>2 DEF TypeOK, Time, Now, Place, RepliesIn
<1>4. InThread' /\ AtTheFirst' /\ MarkIsOurs' /\ FirstWasRead' /\ ClassifiedOnce'
  BY <1>1, <1>2 DEF InThread, Now, AtTheFirst, MarkIsOurs, FirstWasRead, ClassifiedOnce
<1>5. BelowTheMark'
  <2>1. \A m \in Reply : classified'[m] > 0 => \E i \in 1 .. checked' : thread'[i] = m
    BY <1>1, <1>2 DEF BelowTheMark
  <2>2. ASSUME NEW k \in checked + 1 .. seen, ChosenAt(k)
        PROVE  chosen' \in Reply /\ classified[chosen'] = 0 /\ k \in 1 .. Now
    <3>1. k \in 1 .. Now /\ k > checked /\ thread[k] \in Reply
      BY <1>2, <2>2 DEF ChosenAt
    <3>2. ~ \E i \in 1 .. checked : thread[i] = thread[k]
      BY <1>2, <3>1 DEF InThread
    <3>3. classified[thread[k]] \in Nat /\ ~(classified[thread[k]] > 0)
      BY <3>1, <3>2 DEF BelowTheMark, TypeOK
    <3> QED BY <2>2, <3>1, <3>3 DEF ChosenAt
  <2> QED BY <1>1, <1>2, <2>1, <2>2, NewestIsChosen DEF BelowTheMark, ChosenAt
<1>6. MarkIsHonest'
  <2>1. \A m \in Reply : Answered(m) => Answered(m)'
    BY <1>1, <1>2, ReplyCheckerAssumption DEF Answered, Handled
  <2>2. ASSUME NEW i \in checked + 1 .. Now, thread[i] \in Reply
        PROVE  AnsweredFor(i)'
    <3>1. CASE i <= seen
      <4>1. PICK k \in checked + 1 .. seen : ChosenAt(k)
        BY <1>2, <2>2, <3>1, NewestIsChosen
      <4>2. i <= k /\ k \in 1 .. Now
        BY <1>2, <2>2, <3>1, <4>1 DEF ChosenAt
      <4> QED BY <1>1, <4>1, <4>2 DEF ChosenAt, AnsweredFor, Answered, Handled, Now
    <3>2. CASE i > seen
      <4>1. thread[i] \in missed' /\ i \in 1 .. Now
        BY <1>1, <1>2, <2>2, <3>2 DEF RepliesIn
      <4> QED BY <1>1, <1>2, <2>2, <4>1 DEF AnsweredFor, Answered, Now
    <3> QED BY <1>2, <3>1, <3>2
  <2> QED BY <1>1, <1>2, <2>1, <2>2, MarkStaysHonest
<1> QED BY <1>3, <1>4, <1>5, <1>6

\* The chosen reply is classified, for the first time.
LEMMA ClassifyKeeps ==
  ASSUME IInv, Classify PROVE IInv'
<1> USE DEF IInv
<1>1. /\ at = "classifying" /\ chosen \in Reply /\ classified[chosen] = 0
      /\ at' = "idle" /\ chosen' = Nothing
      /\ classified' = [classified EXCEPT ![chosen] = 1]
      /\ UNCHANGED <<thread, granted, anchor, checked, validated, draft, seen, missed, faults>>
  BY DEF Classify, mailVars, BelowTheMark, TypeOK
<1>2. TypeOK' /\ ClassifiedOnce'
  BY <1>1 DEF TypeOK, Time, Place, ClassifiedOnce
<1>3. InThread' /\ AtTheFirst' /\ MarkIsOurs' /\ FirstWasRead' /\ BelowTheMark'
  BY <1>1 DEF TypeOK, InThread, Now, AtTheFirst, MarkIsOurs, FirstWasRead, BelowTheMark
<1>4. MarkIsHonest'
  BY <1>1, ReplyCheckerAssumption DEF TypeOK, MarkIsHonest, AnsweredFor, Now, Answered, Handled
<1> QED BY <1>2, <1>3, <1>4

\* A failure marks what nobody has read, or gives up the reply it had chosen:
\* both are missed.
LEMMA FailuresKeep ==
  ASSUME IInv, TransientFailure \/ GiveUp PROVE IInv'
<1> USE DEF IInv
<1>1. /\ at' = "idle" /\ chosen' = Nothing /\ checked' \in {checked, Now}
      /\ faults' = faults + 1 /\ missed \subseteq missed' /\ missed' \subseteq Reply
      /\ chosen \in Reply => chosen \in missed'
      /\ checked' # checked => RepliesIn(checked + 1, Now) \subseteq missed'
      /\ UNCHANGED <<thread, granted, anchor, validated, classified, draft, seen>>
  BY ReplyCheckerAssumption
     DEF TransientFailure, GiveUp, mailVars, tableVars, TypeOK, BelowTheMark, RepliesIn
<1>2. Now \in Nat /\ checked \in 0 .. Now
  BY LenProperties DEF TypeOK, Time, Now
<1>3. TypeOK'
  BY <1>1, <1>2 DEF TypeOK, Time, Place, Now
<1>4. /\ InThread' /\ AtTheFirst' /\ MarkIsOurs' /\ FirstWasRead' /\ BelowTheMark'
      /\ ClassifiedOnce'
  BY <1>1, <1>2 DEF InThread, Now, AtTheFirst, MarkIsOurs, FirstWasRead, BelowTheMark, ClassifiedOnce
<1>5. MarkIsHonest'
  <2>1. \A m \in Reply : Answered(m) => Answered(m)'
    BY <1>1 DEF Answered, Handled
  <2>2. ASSUME NEW i \in checked + 1 .. checked', thread[i] \in Reply
        PROVE  AnsweredFor(i)'
    BY <1>1, <1>2, <2>2 DEF AnsweredFor, Answered, Now, RepliesIn
  <2> QED BY <1>1, <1>2, <2>1, <2>2, MarkStaysHonest
<1> QED BY <1>3, <1>4, <1>5

LEMMA NextInvariant ==
  ASSUME IInv, [Next]_vars PROVE IInv'
<1>1. CASE UNCHANGED vars
  BY <1>1 DEF vars, mailVars, tableVars, tickVars, IInv, TypeOK, Time, Now, InThread, AtTheFirst,
      MarkIsOurs, FirstWasRead, BelowTheMark, ClassifiedOnce, MarkIsHonest, AnsweredFor, Answered, Handled
<1> QED BY <1>1, DeliverKeeps, ReadsKeep, MarkCheckedKeeps, ClassifyKeeps, FailuresKeep
        DEF Next, Check, Reads

LEMMA Inductive == Spec => []IInv
<1>1. Init => IInv
  BY InitInvariant
<1>2. IInv /\ [Next]_vars => IInv'
  BY NextInvariant
<1> QED BY <1>1, <1>2, PTL DEF Spec

-----------------------------------------------------------------------------
(* The theorems. *)

\* Every reachable state is well typed, and the watermark is never ahead of the
\* thread.
THEOREM Typing == Spec => []TypeOK
<1>1. IInv => TypeOK
  BY DEF IInv
<1> QED BY <1>1, Inductive, PTL

\* A reply is classified once, whatever fails between its mark and its
\* classification and however often the connection is renewed.
THEOREM NoReplyClassifiedTwice == Spec => []ClassifiedOnce
<1>1. IInv => ClassifiedOnce
  BY DEF IInv
<1> QED BY <1>1, Inductive, PTL

\* Below the watermark, a reply was classified, gave way to a newer one, or is
\* among the missed: there is no fourth way to lose it.
THEOREM NoOtherLoss == Spec => []LossesAreThese
<1>1. ASSUME IInv PROVE LossesAreThese
  <2>1. SUFFICES ASSUME NEW m \in Reply, PassedOver(m), m \notin missed
                 PROVE  Superseded(m)
    BY DEF LossesAreThese
  <2>2. PICK i \in 1 .. Now : thread[i] = m
    BY <2>1 DEF PassedOver, Arrived
  <2>3. Now \in Nat /\ checked \in 0 .. Now /\ Position(m) = i
    BY <1>1, <2>2, PositionIs, LenProperties DEF IInv, TypeOK, Time, Now
  <2>4. PICK j \in 1 .. Now : i <= j /\ thread[j] \in Reply /\ Answered(thread[j])
    BY <1>1, <2>1, <2>2, <2>3 DEF IInv, MarkIsHonest, AnsweredFor, PassedOver
  <2>5. i # j
    BY <2>1, <2>2, <2>4 DEF Answered, PassedOver
  <2>6. Position(thread[j]) = j
    BY <1>1, PositionIs DEF IInv
  <2> QED BY <2>2, <2>3, <2>4, <2>5, <2>6 DEF Superseded, Arrived, Answered
<1> QED BY <1>1, Inductive, PTL
=============================================================================
