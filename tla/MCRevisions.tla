----------------------------- MODULE MCRevisions -----------------------------
(* A small instance of Revisions: one Deployment with four ReplicaSets, of *)
(* which the last is made by a rollout during the run, one whose owner may *)
(* be gone, and one without a controller.                                  *)
EXTENDS Revisions

OwnerOf ==
  [r \in {"w1", "w2", "w3", "w4", "x1", "solo"} |->
     CASE r \in {"w1", "w2", "w3", "w4"} -> "web" [] r = "x1" -> "gone" [] OTHER -> NoController]

\* Every order of web's three ReplicaSets, up to exchanging their names: ties,
\* and annotations that are no numbers, included.
Orders ==
  {<<1, 1, 1>>, <<1, 1, 2>>, <<1, 2, 2>>, <<1, 2, 3>>, <<Unparsable, 1, 1>>,
   <<Unparsable, 1, 2>>, <<Unparsable, Unparsable, 1>>,
   <<Unparsable, Unparsable, Unparsable>>}

Numbering(o) ==
  [r \in ReplicaSets |-> CASE r = "w1" -> o[1] [] r = "w2" -> o[2] [] r = "w3" -> o[3]
                            [] r = "x1" -> 1 [] OTHER -> Unparsable]

\* Web is scaled to zero: all its ReplicaSets are candidates at first.  Its own
\* annotation may lag behind, or be no number.
Start(k, o, v, present) ==
  [keep |-> k, exists |-> present, scaled |-> {}, revision |-> Numbering(o), alive |-> {"web"},
   current |-> [d \in Deployments |-> IF d = "web" THEN v ELSE Unparsable]]

OfWeb == {"w1", "w2", "w3"}
Mixed == {"w1", "w2", "x1", "solo"}

SomeStarts ==
  {Start(k, o, v, OfWeb) : k \in {0, 1, 2}, o \in Orders, v \in {1, 2, 3, Unparsable}}
  \cup {Start(k, <<1, 2, 3>>, 2, Mixed) : k \in {0, 1}}

\* An ordinary history of three revisions, of which the newest is live.
OrdinaryStart == {Start(1, <<1, 2, 3>>, 3, OfWeb)}
=============================================================================
