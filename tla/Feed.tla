-------------------------------- MODULE Feed --------------------------------
(***************************************************************************)
(* What the outbox promises the Today feed, whoever carries the rows       *)
(* there: a row is taken once, in a batch of at most Limit; what was taken *)
(* is shown, unless what it is about has gone or a failure loses it, which *)
(* costs a batch at the most; a match is pushed after it was shown, and    *)
(* pushed once.                                                            *)
(***************************************************************************)
EXTENDS Naturals, FiniteSets

CONSTANTS Event, Match, Limit

VARIABLES
  state,      \* of a row: "absent", "waiting", "taken", "shown" or "over"
  gone,       \* rows whose subject was deleted
  due,        \* rows shown a moment ago, whose push is to come
  pushed,
  failures

feedVars == <<state, gone, due, pushed, failures>>

In(s) == {e \in Event : state[e] = s}

Becomes(S, s) == [e \in Event |-> IF e \in S THEN s ELSE state[e]]

FeedInit ==
  /\ state = [e \in Event |-> "absent"]
  /\ gone = {} /\ due = {} /\ pushed = {} /\ failures = 0

Write(e) ==
  /\ state[e] = "absent" /\ state' = Becomes({e}, "waiting")
  /\ UNCHANGED <<gone, due, pushed, failures>>

Forget(e) ==
  /\ state[e] # "absent" /\ gone' = gone \cup {e}
  /\ UNCHANGED <<state, due, pushed, failures>>

Take(S) ==
  /\ S \subseteq In("waiting") /\ Cardinality(S) <= Limit
  /\ state' = Becomes(S, "taken")
  /\ UNCHANGED <<gone, due, pushed, failures>>

Show(e) ==
  /\ state[e] = "taken" /\ e \notin gone
  /\ state' = Becomes({e}, "shown")
  /\ due' = due \cup ({e} \cap Match)
  /\ UNCHANGED <<gone, pushed, failures>>

Skip(e) ==
  /\ state[e] = "taken" /\ e \in gone
  /\ state' = Becomes({e}, "over")
  /\ UNCHANGED <<gone, due, pushed, failures>>

\* A push that fails is not tried again.
Push(e) ==
  /\ e \in due /\ due' = due \ {e}
  /\ pushed' \in {pushed, pushed \cup {e}}
  /\ UNCHANGED <<state, gone, failures>>

\* One of the batch may be shown all the same; a push that is to come is lost.
Fail(S) ==
  /\ S \subseteq In("taken") /\ Cardinality(S) <= Limit
  /\ \E T \in SUBSET (S \ gone) :
       /\ Cardinality(T) <= 1
       /\ state' = [e \in Event |-> IF e \in T THEN "shown"
                                    ELSE IF e \in S THEN "over" ELSE state[e]]
  /\ \E d \in SUBSET due : Cardinality(d) <= 1 /\ due' = due \ d
  /\ failures' = failures + 1
  /\ UNCHANGED <<gone, pushed>>

FeedNext ==
  \/ \E e \in Event : Write(e) \/ Forget(e) \/ Show(e) \/ Skip(e) \/ Push(e)
  \/ \E S \in SUBSET Event : Take(S) \/ Fail(S)

FeedSpec == FeedInit /\ [][FeedNext]_feedVars
=============================================================================
