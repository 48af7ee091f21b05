----------------------------- MODULE NodeOnWire -----------------------------
(***************************************************************************)
(* LeapNode with the bytes its frames and answers are made of: the node    *)
(* receives the messages of one wrapper, each at any of the given places   *)
(* of a list, and what is said here of the frames it has accepted and of   *)
(* the answers it has given is said of their bytes (Wire).                 *)
(***************************************************************************)
EXTENDS LeapNode, Wire

CONSTANTS Neighbours,    \* the names of the node's neighbours, in the order of their keys
          Places,        \* places <<p, size>> of messages in lists
          Source         \* the gateway's address

Messages == Wrap(Neighbours, Neighbours)
Sent == (DOMAIN Messages) \X Places

ASSUME NodeOnWireAssumption ==
  /\ Neighbours \in Seq(Names)
  /\ \A x, y \in 1 .. Len(Neighbours) : Neighbours[x] = Neighbours[y] => x = y
  /\ Source \in Nodes
  /\ \A place \in Places : place[2] \in Nat /\ place[1] \in 1 .. place[2]

\* Message s[1] of the wrapper, as the other modules see it, and as bytes.
FrameOf(s) ==
  LET msg == Messages[s[1]]
      header == GenerateHeader(s[2][1], s[2][2])
  IN  [kind |-> "data", src |-> Source, gen |-> 1, seq |-> header.seq, rem |-> header.rem,
       msg |-> [type |-> msg.type,
                pairwise |-> {SetupAddress(n) : n \in msg.pairwise},
                cluster |-> {SetupAddress(n) : n \in msg.cluster}]]
BytesOf(s) == GenerateMessage(Messages[s[1]], s[2][1], s[2][2])

Frames(S) == {FrameOf(s) : s \in S}
AllSent == Frames(Sent)
ASSUME ArrivingAssumption == Arriving \subseteq AllSent

-----------------------------------------------------------------------------
(* Properties.  What holds of a frame or a mask whatever the state is      *)
(* collected in a set first.                                               *)

\* Two languages, two ways to write the same sum: what the coordinator appends
\* to a message, and what the node computes of it, is the remainder by the
\* "CITT CRC16 polynomial" that the comment at crc16.c:45 names.
SummedRight ==
  Frames({s \in Sent :
            LET bytes == BytesOf(s)
                payload == SubSeq(bytes, 1, Len(bytes) - 2)
            IN  /\ Crc16Data(payload, Short) = CcittRemainder(payload)
                /\ Crc16Int(payload) = CcittRemainder(payload)})
ChecksumIsCcitt == heard \cup answer.frames \subseteq SummedRight

\* The node accepts every message of its wrapper, and what it takes out of the
\* bytes is what the record says: type, number, what remains, and for each
\* neighbour the key that is meant for it, under the address that neighbour has.
ReadRight ==
  LET stored(kind, names) ==
        {[address |-> RimeAddr2Int(SetupAddress(n)), key |-> KeyOf[<<kind, n>>]] : n \in names}
  IN  Frames({s \in Sent :
                LET bytes == BytesOf(s)
                    msg == Messages[s[1]]
                IN  /\ VerifyCrc(bytes)
                    /\ HeaderOf(bytes) = [seq |-> FrameOf(s).seq, rem |-> FrameOf(s).rem]
                    /\ \/ /\ MessageType(bytes) = 0 /\ msg.type = "basic"
                          /\ ParseBasicMessage(bytes) = OwnKeys
                       \/ /\ MessageType(bytes) = 1 /\ msg.type = "extended"
                          /\ ParseExtendedMessage(bytes) =
                               [pairwise |-> stored("pairwise", msg.pairwise),
                                cluster |-> stored("cluster", msg.cluster)]})
FramesUnderstood == heard \cup answer.frames \subseteq ReadRight

\* The coordinator accepts the answer the node has given, and would accept one
\* at any moment; the bits it reads are the messages the node has received.
Masks == {BitsOf(byte) : byte \in 0 .. 255}
MasksReadRight ==
  {mask \in Masks :
     ReceiveString(SendAckNack(mask)) /\ MaskOf(SendAckNack(mask)) = mask}
AnswersUnderstood == {answer.mask, ram.sequence_mask} \subseteq MasksReadRight

\* What is damaged on its way is not taken for something else: a message with
\* one wrong byte is refused by the node, an answer by the coordinator.
Damaged(bytes) ==
  UNION {{[bytes EXCEPT ![x] = byte] : byte \in 0 .. 255 \ {bytes[x]}} : x \in DOMAIN bytes}
FramesGuarded == Frames({s \in Sent : \A bytes \in Damaged(BytesOf(s)) : ~ VerifyCrc(bytes)})
MasksGuarded ==
  {mask \in Masks :
     /\ mask \subseteq {FrameOf(s).seq : s \in Sent}
     /\ \A bytes \in Damaged(SendAckNack(mask)) : ~ ReceiveString(bytes)}
DamageIsSeen ==
  heard \cup answer.frames \subseteq FramesGuarded /\ answer.mask \in MasksGuarded
=============================================================================
