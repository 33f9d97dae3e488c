----------------------------- MODULE MCServices -----------------------------
(***************************************************************************)
(* Services for TLC: a behaviour of the instance is one of the parts, and  *)
(* the others stay in their initial states.                                *)
(***************************************************************************)
EXTENDS Services

VARIABLE part

CONSTANTS c1, c2, s1, k1, k2, x1, x2, d1, d2, d3, p1, p2, m1, m2, m3, b1, b2, b3,
  telegram, discord, other

MCKeyOf     == [c \in Call |-> "key"]
MCHomeOf    == [i \in Item |-> s1]
MCPersonOf  == (telegram :> "ann") @@ (discord :> "bob") @@ (other :> "carl")
MCContentOf == (m1 :> "h1") @@ (m2 :> "h1") @@ (m3 :> "h2")

\* Calls, codes, deliveries, imports of one content and presses differ in
\* name only: they are taken in order.
Taken(f, fresh, first, second) == f[second] # fresh => f[first] # fresh

\* Three copies of the interaction; or two generations, and a third person's message.
OneOnDiscord == {carries[d1], carries[d2], carries[d3]} \subseteq OnDiscord

ThreePeople ==
  /\ <<carries[d1], carries[d2], carries[d3]>> = <<telegram, discord, other>>
  /\ doing[d3] = "claiming" => {d1, d2} \subseteq Paid /\ acked = {}

InOrder ==
  CASE part = "deletion" -> Taken(at, "new", c1, c2)
    [] part = "link"     -> /\ Taken(code, "unminted", k1, k2)
                            /\ Taken(place, "waiting", x1, x2)
                            /\ \A s \in Chat \ {s1} : wrong[s] = 0
    [] part = "chat"     -> /\ Taken(doing, "unsent", d1, d2)
                            /\ Taken(doing, "unsent", d2, d3)
                            /\ other \notin {carries[d1], carries[d2]}
                            /\ carries[d1] # carries[d2] /\ carries[d2] # NoUpdate =>
                                 ripe \cup tooOld = {}
                            /\ carries[d3] # NoUpdate => OneOnDiscord \/ ThreePeople
    [] part = "profiles" -> /\ Taken(import, "waiting", m1, m2)
                            /\ Taken([b \in Press |-> press[b].at], "idle", b1, b2)
                            /\ Taken([b \in Press |-> press[b].at], "idle", b2, b3)
    [] part = "registry" -> IF searching THEN tag = {} /\ Cardinality(aged) <= 1 ELSE aged = {}

\* Not everything happens at once: of two calls, two requests and a failure four; of three
\* deliveries and a failure three, and time passes for one message only; a second code where
\* no late upload and no mishap comes in, and one chat that guesses; the board that a search
\* reads sends no etags, and one of its postings is unseen for seven days.
Begun(f, fresh) == Cardinality({e \in DOMAIN f : f[e] # fresh})

FewEnough ==
  /\ Begun(at, "new") + requests + trouble <= 4
  /\ Begun(code, "unminted") > 1 => Begun(creating, "before") + mishaps = 0
  /\ Begun(doing, "unsent") + misfortunes <= 3

\* A search reads what a board of one request brings; the other boards are polled
\* without one.  Only the part that runs has a choice of initial states.
MCInit ==
  /\ part \in {"deletion", "link", "chat", "registry", "profiles"}
  /\ ServicesInit
  /\ searching => kind = "whole"
  /\ part # "registry" => kind = "whole" /\ searching

MCNext ==
  /\ part' = part
  /\ \/ part = "deletion" /\ DeletionMoves
     \/ part = "link" /\ LinkMoves
     \/ part = "chat" /\ ChatMoves
     \/ part = "registry" /\ RegistryMoves
     \/ part = "profiles" /\ ProfilesMove
  /\ InOrder' /\ FewEnough'

MCSpec == MCInit /\ [][MCNext]_<<part, serviceVars>>
=============================================================================
