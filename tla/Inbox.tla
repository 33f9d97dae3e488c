------------------------------- MODULE Inbox -------------------------------
(***************************************************************************)
(* What a sender that repeats its messages is promised, whatever becomes   *)
(* of the attempts to handle one: another attempt begins only where every  *)
(* earlier one is known to have failed, or took longer than it may, or     *)
(* where nobody could look; a message is acknowledged only after an        *)
(* attempt at it got to its end; and work is paid for at that end, once an *)
(* attempt.  Nothing fails of itself: trouble may spoil attempts, and is   *)
(* counted.                                                                *)
(***************************************************************************)
EXTENDS Naturals

CONSTANTS Message, Attempt, NoMessage

VARIABLES
  about,         \* the message of each attempt, once it was received
  begun,
  finished,
  spoiled,       \* attempts something went wrong with
  slow,          \* messages with an attempt that took longer than it may
  paid,          \* attempts that started the work that costs
  acknowledged,
  troubles

inboxVars == <<about, begun, finished, spoiled, slow, paid, acknowledged, troubles>>

InboxInit ==
  /\ about = [a \in Attempt |-> NoMessage]
  /\ begun = {} /\ finished = {} /\ spoiled = {} /\ slow = {} /\ paid = {}
  /\ acknowledged = {} /\ troubles = 0

Received(a) == about[a] # NoMessage

Receive(a, m) ==
  /\ ~Received(a) /\ m \notin acknowledged
  /\ about' = [about EXCEPT ![a] = m]
  /\ UNCHANGED <<begun, finished, spoiled, slow, paid, acknowledged, troubles>>

Clear(m) == m \in slow \/ \A b \in begun : about[b] = m => b \in spoiled

Begin(a) ==
  /\ Received(a) /\ a \notin begun /\ Clear(about[a])
  /\ begun' = begun \cup {a}
  /\ UNCHANGED <<about, finished, spoiled, slow, paid, acknowledged, troubles>>

BeginBlindly(a) ==
  /\ Received(a) /\ a \notin begun
  /\ begun' = begun \cup {a} /\ spoiled' = spoiled \cup {a} /\ troubles' = troubles + 1
  /\ UNCHANGED <<about, finished, slow, paid, acknowledged>>

Linger(m) ==
  /\ \E a \in begun : about[a] = m
  /\ slow' = slow \cup {m}
  /\ UNCHANGED <<about, begun, finished, spoiled, paid, acknowledged, troubles>>

Finish(a) ==
  /\ a \in begun \ finished
  /\ finished' = finished \cup {a}
  /\ paid' \in {paid, paid \cup {a}}
  /\ UNCHANGED <<about, begun, spoiled, slow, acknowledged, troubles>>

Acknowledge(m) ==
  /\ \E a \in finished : about[a] = m
  /\ acknowledged' = acknowledged \cup {m}
  /\ UNCHANGED <<about, begun, finished, spoiled, slow, paid, troubles>>

Trouble ==
  /\ troubles' = troubles + 1
  /\ spoiled' \in SUBSET Attempt /\ spoiled \subseteq spoiled'
  /\ \A a \in spoiled' \ spoiled : Received(a)
  /\ UNCHANGED <<about, begun, finished, slow, paid, acknowledged>>

InboxNext ==
  \/ \E a \in Attempt, m \in Message : Receive(a, m)
  \/ \E a \in Attempt : Begin(a) \/ BeginBlindly(a) \/ Finish(a)
  \/ \E m \in Message : Linger(m) \/ Acknowledge(m)
  \/ Trouble

InboxSpec == InboxInit /\ [][InboxNext]_inboxVars
=============================================================================
