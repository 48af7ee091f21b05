------------------------------ MODULE GatewayMC ------------------------------
(***************************************************************************)
(* Two nodes, room for one neighbor queue less than that, and a ring       *)
(* buffer that holds little more than a line.                              *)
(***************************************************************************)
EXTENDS Gateway

CONSTANTS a, b
TwoPeers == {a, b}
ThreeLines == <<a, b, a>>
OldNumbers == {<<2>>}
=============================================================================
