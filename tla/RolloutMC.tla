----------------------------- MODULE RolloutMC -----------------------------
(***************************************************************************)
(* A chain of three nodes, the first of which is the gateway, in several   *)
(* messages each.                                                          *)
(***************************************************************************)
EXTENDS Rollout, TLC

G == <<1, 1>>
A == <<2, 2>>
B == <<3, 3>>
ThreeNodes == {G, A, B}
AllThree == <<G, A, B>>
AandB == {A, B}

\* Vertex 0 is the sink.  A label is a tuple here.
Chain ==
  [label |-> [v \in 0 .. 3 |-> IF v = 0 THEN <<"sink">> ELSE AllThree[v]],
   edges |-> << <<0, 1>>, <<1, 2>>, <<3, 2>> >>]

\* What Rollout's assumption makes of the chain with two slots a message.
ChainMessages ==
  LET Ext(pairwise, cluster) ==
        [type |-> "extended", pairwise |-> pairwise, cluster |-> cluster]
  IN  G :> <<BasicMessage, Ext({A}, {A})>>
      @@ A :> <<BasicMessage, Ext({G, B}, {}), Ext({}, {G, B})>>
      @@ B :> <<BasicMessage, Ext({A}, {A})>>
=============================================================================
