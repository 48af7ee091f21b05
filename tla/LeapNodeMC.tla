----------------------------- MODULE LeapNodeMC -----------------------------
(***************************************************************************)
(* A node with four neighbours receives the three messages of its wrapper, *)
(* in the first burst and in rounds that repeat only one of them.  Octets  *)
(* are around the limits of a byte, of its sign and of its digits, and one *)
(* label has an octet that does not fit a byte.                            *)
(***************************************************************************)
EXTENDS NodeOnWire

MoteNames == {<<2, 1>>, <<272, 15>>, <<0, 129>>, <<255, 2>>}
InAnyOrder == << <<2, 1>>, <<272, 15>>, <<255, 2>>, <<0, 129>> >>
Network == {SetupAddress(n) : n \in MoteNames}
G == <<2, 1>>

KeysOfNode == [kind \in {"ik", "gk", "ck"} |->
                 IF kind = "ik" THEN <<17>> ELSE IF kind = "gk" THEN <<97>> ELSE <<255>>]
KeysForOthers == [kn \in {"pairwise", "cluster"} \X MoteNames |->
                    <<((IF kn[1] = "pairwise" THEN 97 ELSE 98) + kn[2][1] + 3 * kn[2][2]) % 256>>]

FirstBurstAndAlone == {<<1, 3>>, <<2, 3>>, <<3, 3>>, <<1, 1>>}
=============================================================================
