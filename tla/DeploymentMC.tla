---------------------------- MODULE DeploymentMC ----------------------------
(***************************************************************************)
(* Small networks for Deployment.  All nodes are within reach of one       *)
(* another; Slots is small so that few neighbours need several messages.   *)
(***************************************************************************)
EXTENDS Deployment

G == <<1, 1>>         \* the gateway
A == <<2, 2>>
B == <<3, 3>>
Shared == <<1, 4>>    \* has its first octet in common with the gateway

\* The neighbours of d in a fixed order, as the key store enumerates them.
Neighbours(d, order) == SelectSeq(order, LAMBDA n : n # d)
FullMesh(order) ==
  [d \in Nodes |-> Wrap(Neighbours(d, order), Neighbours(d, order))]

Nobody == {}
OnlyA == {A}
OnlyG == {G}      \* no run: the gateway's reset, section 3 of README.md
TwoNodes == {G, A}
GatewayAndOne == <<G, A>>
OneNode == <<A>>
MeshOfTwo == FullMesh(GatewayAndOne)

ThreeNodes == {G, A, B}
AllThree == <<G, A, B>>
AandB == <<A, B>>
MeshOfThree == FullMesh(AllThree)

SharedNodes == {G, Shared}
OneShared == <<Shared>>
MeshOfShared == FullMesh(<<G, Shared>>)
=============================================================================
