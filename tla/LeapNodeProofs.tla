--------------------------- MODULE LeapNodeProofs ---------------------------
(***************************************************************************)
(* Facts about one receiving node, for every set of addresses and every    *)
(* set of messages that may reach it.                                      *)
(***************************************************************************)
EXTENDS NodeOnWire, WireProofs

\* The type invariant needs to know that nack_process was never started:
\* NodeInv is the two together, and is inductive.
NodeInv == TypeOK /\ NackProcessIdle

\* Power-up establishes the invariant.
LEMMA InitNodeInv == Init => NodeInv
<1> SUFFICES ASSUME Init PROVE NodeInv
  OBVIOUS
<1>1. ram \in NodeState
  BY BootedType DEF Init
<1> QED BY <1>1 DEF Init, NodeInv, TypeOK, NackProcessIdle, Booted

\* No message and no power cycle breaks it.
LEMMA NextNodeInv ==
  ASSUME NodeInv, [Next]_vars
  PROVE  NodeInv'
<1>1. ASSUME NEW f \in Arriving, Receive(f) PROVE NodeInv'
  <2> DEFINE known == KnowSender(ram, f.src)
  <2>1. f \in DataFrame /\ f.src \in Nodes /\ f.seq \in Bits
    BY LeapNodeAssumption DEF DataFrame
  <2>2. /\ known \in NodeState
        /\ known.nack_running = 0 /\ known.nack_process = "idle"
    BY <2>1, KnowSenderFacts DEF NodeInv, TypeOK, NackProcessIdle
  <2>3. /\ ram' \in NodeState
        /\ ram'.nack_running = 0 /\ ram'.nack_process = "idle"
    BY <1>1, <2>1, <2>2, MultiplexFacts DEF Receive
  <2>6. heard' \subseteq Arriving
    BY <1>1 DEF Receive, NodeInv, TypeOK
  <2>7. AnswerMask(known, f) \in SUBSET Bits
    BY <2>1, <2>2 DEF AnswerMask, NodeState
  <2>8. answer' \in [mask : SUBSET Bits, frames : SUBSET Arriving]
    BY <1>1, <2>7 DEF Receive, NodeInv, TypeOK
  <2> QED BY <2>3, <2>6, <2>8 DEF NodeInv, TypeOK, NackProcessIdle
<1>2. ASSUME PowerCycle PROVE NodeInv'
  <2>1. ram' \in NodeState
    BY <1>2, BootedType DEF PowerCycle
  <2> QED BY <1>2, <2>1 DEF PowerCycle, NodeInv, TypeOK, NackProcessIdle, Booted
<1>3. ASSUME UNCHANGED vars PROVE NodeInv'
  BY <1>3 DEF vars, NodeInv, TypeOK, NackProcessIdle
<1> QED BY <1>1, <1>2, <1>3 DEF Next

\* Every state of a node has its type.
THEOREM NodeTyped == Spec => []TypeOK
<1>1. NodeInv => TypeOK
  BY DEF NodeInv
<1> QED BY <1>1, InitNodeInv, NextNodeInv, PTL DEF Spec

\* nack_process, the retry timer of the LEAP receiver, is dead code: whatever
\* messages arrive, process_header never starts it (leap.c:189).
THEOREM NackProcessNeverRuns == Spec => []NackProcessIdle
<1>1. NodeInv => NackProcessIdle
  BY DEF NodeInv
<1> QED BY <1>1, InitNodeInv, NextNodeInv, PTL DEF Spec

-----------------------------------------------------------------------------

\* An answer, and the mask being collected for the next one, name exactly the
\* messages accepted since the answer before: every bit is earned and none is
\* forgotten (process_header, send_ack_nack).
THEOREM AnswersAreTruthful == Spec => []AnswerTruthful
<1>1. Init => AnswerTruthful
  BY DEF Init, AnswerTruthful, Booted
<1>2. NodeInv /\ AnswerTruthful /\ [Next]_vars => AnswerTruthful'
  <2> SUFFICES ASSUME NodeInv, AnswerTruthful, [Next]_vars PROVE AnswerTruthful'
    OBVIOUS
  <2>1. ASSUME NEW f \in Arriving, Receive(f) PROVE AnswerTruthful'
    <3> DEFINE known == KnowSender(ram, f.src)
    <3>1. f \in DataFrame /\ f.src \in Nodes
      BY LeapNodeAssumption DEF DataFrame
    <3>2. /\ known \in NodeState /\ known.sequence_mask = ram.sequence_mask
          /\ known.nack_running = 0 /\ known.nack_process = "idle"
      BY <3>1, KnowSenderFacts DEF NodeInv, TypeOK, NackProcessIdle
    <3>3. ram'.sequence_mask = IF AnswerDue(f) THEN {} ELSE AnswerMask(known, f)
      BY <2>1, <3>1, <3>2, MultiplexFacts DEF Receive
    <3>4. AnswerMask(known, f) = {g.seq : g \in heard \cup {f}}
      BY <3>2 DEF AnswerMask, AnswerTruthful
    <3>5. CASE AnswerDue(f)
      BY <2>1, <3>3, <3>4, <3>5 DEF Receive, AnswerTruthful
    <3>6. CASE ~ AnswerDue(f)
      BY <2>1, <3>3, <3>4, <3>6 DEF Receive, AnswerTruthful
    <3> QED BY <3>5, <3>6
  <2>2. ASSUME PowerCycle PROVE AnswerTruthful'
    BY <2>2 DEF PowerCycle, AnswerTruthful, Booted
  <2>3. ASSUME UNCHANGED vars PROVE AnswerTruthful'
    BY <2>3 DEF vars, AnswerTruthful
  <2> QED BY <2>1, <2>2, <2>3 DEF Next
<1> QED BY <1>1, <1>2, InitNodeInv, NextNodeInv, PTL DEF Spec

\* What the node accepted and has not answered yet is in its key lists.
THEOREM HeardMessagesAreStored == Spec => []HeardIsStored
<1>1. Init => HeardIsStored
  BY DEF Init, HeardIsStored
<1>2. NodeInv /\ HeardIsStored /\ [Next]_vars => HeardIsStored'
  <2> SUFFICES ASSUME NodeInv, HeardIsStored, [Next]_vars PROVE HeardIsStored'
    OBVIOUS
  <2>1. ASSUME NEW f \in Arriving, Receive(f) PROVE HeardIsStored'
    <3> DEFINE known == KnowSender(ram, f.src)
    <3>1. f \in DataFrame /\ f.src \in Nodes /\ f.gen \in Nat \ {0}
      BY LeapNodeAssumption DEF DataFrame
    <3>2. /\ known \in NodeState
          /\ known.nack_running = 0 /\ known.nack_process = "idle"
          /\ known.basic = ram.basic
          /\ known.pairwise = ram.pairwise /\ known.cluster = ram.cluster
      BY <3>1, KnowSenderFacts DEF NodeInv, TypeOK, NackProcessIdle
    <3>3. /\ \A a \in Nodes :
               /\ ram.pairwise[a] # NoKey => ram'.pairwise[a] = ram.pairwise[a]
               /\ ram.cluster[a] # NoKey => ram'.cluster[a] = ram.cluster[a]
          /\ ram'.basic \in {ram.basic, f.gen}
          /\ IF f.msg.type = "basic" THEN ram'.basic = f.gen
             ELSE /\ \A a \in f.msg.pairwise : ram'.pairwise[a] # NoKey
                  /\ \A a \in f.msg.cluster : ram'.cluster[a] # NoKey
      BY <2>1, <3>1, <3>2, MultiplexStores DEF Receive
    <3>4. ASSUME NEW g \in heard'
          PROVE  IF g.msg.type = "basic" THEN ram'.basic # NoKey
                 ELSE /\ \A a \in g.msg.pairwise : ram'.pairwise[a] # NoKey
                      /\ \A a \in g.msg.cluster : ram'.cluster[a] # NoKey
      <4>1. CASE g = f
        BY <3>1, <3>3, <4>1 DEF NoKey
      <4>2. CASE g # f
        <5>1. g \in heard /\ g \in DataFrame
          BY <2>1, <3>4, <4>2, LeapNodeAssumption DEF Receive, NodeInv, TypeOK
        <5>2. g.msg.pairwise \in SUBSET Nodes /\ g.msg.cluster \in SUBSET Nodes
          BY <5>1 DEF DataFrame, Message
        <5> QED BY <3>1, <3>3, <5>1, <5>2 DEF HeardIsStored, NoKey
      <4> QED BY <4>1, <4>2
    <3> QED BY <3>4 DEF HeardIsStored
  <2>2. ASSUME PowerCycle PROVE HeardIsStored'
    BY <2>2 DEF PowerCycle, HeardIsStored
  <2>3. ASSUME UNCHANGED vars PROVE HeardIsStored'
    BY <2>3 DEF vars, HeardIsStored
  <2> QED BY <2>1, <2>2, <2>3 DEF Next
<1> QED BY <1>1, <1>2, InitNodeInv, NextNodeInv, PTL DEF Spec

-----------------------------------------------------------------------------
(* Addresses *)

\* The neighbours' keys are stored where they are looked up, for all labels
\* that transformTo16BitHexString and the setup command are given.
THEOREM NamesAgree == AddressesAgree
<1> SUFFICES ASSUME NEW n \in Names, NEW m \in Names
             PROVE  /\ StoredAddress(n) = RimeAddr2Int(SetupAddress(n))
                    /\ (n # m /\ {n[1], n[2], m[1], m[2]} \subseteq 0 .. 255)
                         => StoredAddress(n) # StoredAddress(m)
  BY DEF AddressesAgree
<1>1. n \in Nat \X Nat /\ m \in Nat \X Nat
  BY NamesAssumption
<1>2. \A x \in Nat : Low(x) \in 0 .. 255 /\ (x \in 0 .. 255 => Low(x) = x)
  BY DEF Low
<1> DEFINE a == n[1]
           b == n[2]
           c == m[1]
           d == m[2]
<1>3. StoredAddress(n) = RimeAddr2Int(SetupAddress(n))
  <2> DEFINE p == Low(a)
             q == Low(b)
  <2>1. p \in 0 .. 255 /\ q \in 0 .. 255
    BY <1>1, <1>2
  <2>2. RimeAddr2Int(SetupAddress(n)) = (p * 256 + q) % 65536
    BY DEF RimeAddr2Int, SetupAddress
  <2>3. StoredAddress(n) = q + 256 * p
    BY DEF StoredAddress, TransformTo16Bit, ShortLE
  <2> HIDE DEF p, q
  <2> QED
    BY <2>1, <2>2, <2>3
<1>4. ASSUME n # m, {a, b, c, d} \subseteq 0 .. 255
      PROVE  StoredAddress(n) # StoredAddress(m)
  <2>1. a \in 0 .. 255 /\ b \in 0 .. 255 /\ c \in 0 .. 255 /\ d \in 0 .. 255
    BY <1>4
  <2>2. StoredAddress(n) = b + 256 * a /\ StoredAddress(m) = d + 256 * c
    BY <1>1, <1>2, <2>1 DEF StoredAddress, TransformTo16Bit, ShortLE
  <2>3. a # c \/ b # d
    BY <1>1, <1>4
  <2> HIDE DEF a, b, c, d
  <2> QED
    BY <2>1, <2>2, <2>3
<1> QED
  BY <1>3, <1>4

\* Two bytes are what the integer made of them says.
LEMMA TwoBytesFit ==
  ASSUME NEW a \in 0 .. 255, NEW b \in 0 .. 255
  PROVE  (a * 256 + b) % 65536 = a * 256 + b
OBVIOUS

LEMMA TwoBytesTellApart ==
  ASSUME NEW a \in 0 .. 255, NEW b \in 0 .. 255, NEW c \in 0 .. 255, NEW e \in 0 .. 255,
         e + 256 * c = a * 256 + b
  PROVE  a = c /\ b = e
OBVIOUS

\* Different addresses of the setup command stay different when a node makes
\* an integer of them.
LEMMA AddressesDiffer ==
  ASSUME NEW n \in Names, NEW m \in Names,
         StoredAddress(m) = RimeAddr2Int(SetupAddress(n))
  PROVE  SetupAddress(m) = SetupAddress(n)
<1>1. n \in Nat \X Nat /\ m \in Nat \X Nat
  BY NamesAssumption
<1> DEFINE a == Low(n[1])
           b == Low(n[2])
           c == Low(m[1])
           e == Low(m[2])
<1>2. a \in 0 .. 255 /\ b \in 0 .. 255 /\ c \in 0 .. 255 /\ e \in 0 .. 255
  BY <1>1 DEF Low
<1>3. StoredAddress(m) = e + 256 * c
  BY DEF StoredAddress, TransformTo16Bit, ShortLE
<1>4. RimeAddr2Int(SetupAddress(n)) = a * 256 + b
  <2>1. RimeAddr2Int(SetupAddress(n)) = (a * 256 + b) % 65536
    BY DEF RimeAddr2Int, SetupAddress
  <2>2. (a * 256 + b) % 65536 = a * 256 + b
    <3> HIDE DEF a, b
    <3> QED
      BY <1>2, TwoBytesFit
  <2> QED
    BY ONLY <2>1, <2>2
<1>5. SetupAddress(n) = <<a, b>> /\ SetupAddress(m) = <<c, e>>
  BY DEF SetupAddress
<1> HIDE DEF a, b, c, e
<1>6. e + 256 * c = a * 256 + b
  BY <1>3, <1>4
<1>7. a = c /\ b = e
  BY <1>2, <1>6, TwoBytesTellApart
<1> QED
  BY <1>5, <1>7

\* A node finds the key it has for a neighbour, and no other neighbour's,
\* under the address from which the neighbour's frames come: the integer under
\* which parse_extended_message stored it (leap.c:226-237) is the one that
\* rimeaddr2int makes of the sender's address, and of no other (srime.c:151-158).
THEOREM KeysAreFound == Spec => []KeysFoundByAddress
<1>1. ASSUME NEW keys, NEW n \in Names
      PROVE  RimeAddr2Int(SetupAddress(n)) \in
               {StoredAddress(m) : m \in {l \in Names : keys[SetupAddress(l)] # NoKey}}
                 <=> keys[SetupAddress(n)] # NoKey
  <2>1. StoredAddress(n) = RimeAddr2Int(SetupAddress(n))
    BY NamesAgree DEF AddressesAgree
  <2> QED
    BY <2>1, AddressesDiffer
<1>2. KeysFoundByAddress
  BY <1>1 DEF KeysFoundByAddress
<1> QED
  BY <1>2, PTL

-----------------------------------------------------------------------------
(* Bytes *)

\* What is in a message of the wrapper.
LEMMA MessageFacts ==
  ASSUME NEW m \in DOMAIN Messages
  PROVE  \/ Messages[m] = BasicMessage
         \/ /\ Messages[m].type = "extended"
            /\ Messages[m].pairwise \subseteq Names /\ IsFiniteSet(Messages[m].pairwise)
            /\ Messages[m].cluster \subseteq Names /\ IsFiniteSet(Messages[m].cluster)
<1>1. Neighbours \in Seq(Names) /\ Distinct(Neighbours)
  BY NodeOnWireAssumption DEF Distinct
<1>2. Messages \in Seq({BasicMessage} \cup ListOf(Neighbours, Neighbours))
  BY <1>1, KeysAreSplitExactly DEF Exact, Messages
<1>3. Messages[m] \in {BasicMessage} \cup ListOf(Neighbours, Neighbours)
  BY <1>2
<1>4. Elements(Neighbours) \subseteq Names /\ IsFiniteSet(Elements(Neighbours))
  <2>1. PICK n \in Nat : n = Len(Neighbours)
    BY <1>1
  <2>2. IsFiniteSet(1 .. n)
    BY FS_Interval
  <2>3. [x \in 1 .. n |-> Neighbours[x]] \in Surjection(1 .. n, Elements(Neighbours))
    BY <2>1 DEF Surjection, Elements
  <2>4. IsFiniteSet(Elements(Neighbours))
    BY <2>2, <2>3, FS_Surjection
  <2> QED BY <1>1, <2>1, <2>4 DEF Elements
<1> QED BY <1>3, <1>4, FS_Subset DEF ListOf

\* The number of a message and what remains fit their three bits.
LEMMA HeaderFits ==
  ASSUME NEW place \in Places
  PROVE  /\ GenerateHeader(place[1], place[2]).seq \in 0 .. 7
         /\ GenerateHeader(place[1], place[2]).rem \in 0 .. 7
<1>1. place[2] \in Nat /\ place[1] \in 1 .. place[2]
  BY NodeOnWireAssumption
<1> QED BY <1>1 DEF GenerateHeader, Field

\* A message of the wrapper at one of its places in a list, on the wire.
LEMMA SentFacts ==
  ASSUME NEW s \in Sent
  PROVE  LET bytes == BytesOf(s)
             msg == Messages[s[1]]
             header == GenerateHeader(s[2][1], s[2][2])
         IN  /\ bytes \in Seq(Byte) /\ SubSeq(bytes, 1, Len(bytes) - 2) \in Seq(Byte)
             /\ VerifyCrc(bytes)
             /\ \A x \in DOMAIN bytes : \A byte \in Byte \ {bytes[x]} :
                  ~ VerifyCrc([bytes EXCEPT ![x] = byte])
             /\ HeaderOf(bytes) = [seq |-> header.seq, rem |-> header.rem]
             /\ \/ /\ MessageType(bytes) = 0 /\ msg.type = "basic"
                   /\ ParseBasicMessage(bytes) = OwnKeys
                \/ /\ MessageType(bytes) = 1 /\ msg.type = "extended"
                   /\ msg.pairwise \subseteq Names /\ msg.cluster \subseteq Names
                   /\ ParseExtendedMessage(bytes)
                        = [pairwise |-> Stored("pairwise", msg.pairwise),
                           cluster |-> Stored("cluster", msg.cluster)]
<1>1. s[1] \in DOMAIN Messages /\ s[2] \in Places
  BY DEF Sent
<1>2. PICK msg, p, size, header :
        /\ msg = Messages[s[1]] /\ p = s[2][1] /\ size = s[2][2]
        /\ header = GenerateHeader(p, size)
  OBVIOUS
<1>3. header.seq \in 0 .. 7 /\ header.rem \in 0 .. 7
  BY <1>1, <1>2, HeaderFits
<1>4. \/ msg = BasicMessage
      \/ /\ msg.type = "extended"
         /\ msg.pairwise \subseteq Names /\ IsFiniteSet(msg.pairwise)
         /\ msg.cluster \subseteq Names /\ IsFiniteSet(msg.cluster)
  BY <1>1, <1>2, MessageFacts
<1>5. PICK keys : keys = Keys(msg)
  OBVIOUS
<1>6. PICK bytes : bytes = BytesOf(s) /\ bytes = GenerateMessage(msg, p, size)
  BY <1>2 DEF BytesOf
<1> DEFINE Carried ==
      /\ bytes \in Seq(Byte) /\ Len(bytes) = Len(keys) + 3
      /\ \A k \in 1 .. Len(keys) : bytes[1 + k] = keys[k]
      /\ SubSeq(bytes, 1, Len(bytes) - 2) \in Seq(Byte) /\ VerifyCrc(bytes)
      /\ \A x \in DOMAIN bytes : \A byte \in Byte \ {bytes[x]} :
           ~ VerifyCrc([bytes EXCEPT ![x] = byte])
      /\ HeaderOf(bytes) = [seq |-> header.seq, rem |-> header.rem]
      /\ MessageType(bytes) = IF msg.type = "basic" THEN 0 ELSE 1
<1>7. ASSUME keys \in Seq(Byte), msg.type \in {"basic", "extended"}
      PROVE  Carried
  BY <1>2, <1>3, <1>5, <1>6, <1>7, MessageOnWire
<1>8. CASE msg = BasicMessage
  <2>1. msg.type = "basic"
    BY <1>8 DEF BasicMessage
  <2>2. keys = OwnKeys["ik"] \o OwnKeys["gk"] \o OwnKeys["ck"]
    BY <1>5, <2>1 DEF Keys
  <2>3. Carried
    <3>1. keys \in Seq(Byte)
      BY <2>2, BasicRead
    <3> QED BY <1>7, <2>1, <3>1
  <2>4. ParseBasicMessage(bytes) = OwnKeys
    BY <2>2, <2>3, BasicRead
  <2>5. MessageType(bytes) = 0
    BY <2>1, <2>3
  <2> QED BY <1>2, <1>6, <2>1, <2>3, <2>4, <2>5
<1>9. CASE /\ msg.type = "extended"
           /\ msg.pairwise \subseteq Names /\ IsFiniteSet(msg.pairwise)
           /\ msg.cluster \subseteq Names /\ IsFiniteSet(msg.cluster)
  <2>1. PICK P \in SUBSET Names, C \in SUBSET Names :
          /\ P = msg.pairwise /\ IsFiniteSet(P) /\ C = msg.cluster /\ IsFiniteSet(C)
    BY <1>9
  <2>2. keys = Entities(98, "cluster", Seqs!SetToSeq(C))
                 \o Entities(97, "pairwise", Seqs!SetToSeq(P))
    <3>1. msg.type # "basic"
      BY <1>9
    <3> QED BY <1>5, <2>1, <3>1 DEF Keys
  <2>3. Carried
    <3>1. keys \in Seq(Byte)
      BY <2>1, <2>2, ExtendedRead
    <3> QED BY <1>7, <1>9, <3>1
  <2>4. ParseExtendedMessage(bytes)
          = [pairwise |-> Stored("pairwise", P), cluster |-> Stored("cluster", C)]
    <3>1. \A b \in Seq(Byte) :
            /\ Len(b) = Len(keys) + 3
            /\ \A k \in 1 .. Len(keys) : b[1 + k] = keys[k]
            => ParseExtendedMessage(b)
                 = [pairwise |-> Stored("pairwise", P), cluster |-> Stored("cluster", C)]
      <4>1. P \in SUBSET Names /\ C \in SUBSET Names /\ IsFiniteSet(P) /\ IsFiniteSet(C)
        BY <2>1
      <4>2. LET row == Entities(98, "cluster", Seqs!SetToSeq(C))
                         \o Entities(97, "pairwise", Seqs!SetToSeq(P))
            IN  \A b \in Seq(Byte) :
                  /\ Len(b) = Len(row) + 3
                  /\ \A k \in 1 .. Len(row) : b[1 + k] = row[k]
                  => ParseExtendedMessage(b)
                       = [pairwise |-> Stored("pairwise", P), cluster |-> Stored("cluster", C)]
        BY ONLY <4>1, ExtendedRead
      <4> QED BY ONLY <2>2, <4>2
    <3>2. /\ bytes \in Seq(Byte) /\ Len(bytes) = Len(keys) + 3
          /\ \A k \in 1 .. Len(keys) : bytes[1 + k] = keys[k]
      BY <2>3
    <3> QED BY ONLY <3>1, <3>2
  <2>5. MessageType(bytes) = 1
    BY <1>9, <2>3
  <2> QED BY <1>2, <1>6, <1>9, <2>1, <2>3, <2>4, <2>5
<1> QED BY <1>4, <1>8, <1>9

\* An answer on the wire.
LEMMA AnswerFacts ==
  ASSUME NEW mask \in SUBSET LowByte
  PROVE  LET bytes == SendAckNack(mask)
         IN  /\ ReceiveString(bytes) /\ MaskOf(bytes) = mask
             /\ \A x \in DOMAIN bytes : \A byte \in Byte \ {bytes[x]} :
                  ~ ReceiveString([bytes EXCEPT ![x] = byte])
<1>1. mask \in SUBSET Short /\ mask \cap LowByte = mask
  <2>1. \A b \in LowByte : b \in Short
    BY DEF LowByte, Short
  <2> QED BY <2>1
<1>2. PICK lo \in Byte, hi \in Byte : BytesLE(mask) = <<lo, hi>> /\ lo = ByteOf(mask)
  <2>1. PICK lo \in Byte, hi \in Byte : BytesLE(mask) = <<lo, hi>>
    BY <1>1, TwoBytes
  <2>2. lo = ByteOf(mask)
    BY <1>1, <2>1 DEF BytesLE
  <2> QED BY <2>1, <2>2
<1>3. PICK type, pair : type = <<128>> /\ pair = <<lo, hi>>
  OBVIOUS
<1>4. /\ type \in Seq(Byte) /\ Len(type) = 1
      /\ pair \in Seq(Byte) /\ Len(pair) = 2 /\ pair[1] = lo
  <2>1. 128 \in Byte
    BY DEF Byte
  <2> QED BY <1>3, <2>1
<1>5. PICK body : body = type \o pair
  OBVIOUS
<1>6. body \in Seq(Byte) /\ Len(body) = 3 /\ body[2] = lo
  <2>1. /\ type \o pair \in Seq(Byte) /\ Len(type \o pair) = Len(type) + Len(pair)
        /\ \A k \in 1 .. Len(pair) : (type \o pair)[Len(type) + k] = pair[k]
    <3>1. type \in Seq(Byte) /\ pair \in Seq(Byte)
      BY <1>4
    <3> QED BY ONLY <3>1, ConcatFacts
  <2>2. 1 \in 1 .. Len(pair) /\ Len(type) + 1 = 2
    BY <1>4
  <2> QED BY <1>4, <1>5, <2>1, <2>2
<1>7. PICK bytes : bytes = SendAckNack(mask)
  OBVIOUS
<1>8. bytes = body \o BytesLE(CcittRemainder(body))
  <2>1. Crc16Data(body, Short) = CcittRemainder(body)
    BY <1>6, SumsAgree
  <2> QED BY <1>2, <1>3, <1>5, <1>7, <2>1 DEF SendAckNack
<1>9. /\ \A k \in 1 .. Len(body) : bytes[k] = body[k]
      /\ ReceiveString(bytes)
      /\ \A x \in DOMAIN bytes : \A byte \in Byte \ {bytes[x]} :
           ~ ReceiveString([bytes EXCEPT ![x] = byte])
  <2>1. body \in Seq(Byte)
    BY <1>6
  <2> QED BY ONLY <1>8, <2>1, SealHolds
<1>10. MaskOf(bytes) = mask
  <2>1. bytes[2] = lo
    BY <1>6, <1>9
  <2> QED BY <1>2, <2>1, ByteAndBits DEF MaskOf
<1> QED BY <1>7, <1>9, <1>10

\* The masks of a node are numbers of one byte.
LEMMA MasksAreBytes == Masks = SUBSET Bits /\ Bits = LowByte
<1>1. Bits = LowByte
  BY DEF Bits, LowByte
<1> QED BY <1>1, ByteAndBits DEF Masks

\* What the node has accepted are messages of the wrapper.
LEMMA AcceptedWereSent ==
  ASSUME NodeInv
  PROVE  heard \cup answer.frames \subseteq AllSent
BY ArrivingAssumption DEF NodeInv, TypeOK

\* The three computations of the checksum of a message, the coordinator's in
\* ints, the node's in unsigned shorts and the division by the polynomial that
\* crc16.c:45 names, give the same for every message of every wrapper.
THEOREM ChecksumsAgree == Spec => []ChecksumIsCcitt
<1>1. SummedRight = AllSent
  <2>1. ASSUME NEW s \in Sent
        PROVE  LET bytes == BytesOf(s)
                   payload == SubSeq(bytes, 1, Len(bytes) - 2)
               IN  /\ Crc16Data(payload, Short) = CcittRemainder(payload)
                   /\ Crc16Int(payload) = CcittRemainder(payload)
    BY SentFacts, SumsAgree
  <2> QED BY <2>1 DEF SummedRight, AllSent
<1>2. NodeInv => ChecksumIsCcitt
  BY <1>1, AcceptedWereSent DEF ChecksumIsCcitt
<1> QED BY <1>2, InitNodeInv, NextNodeInv, PTL DEF Spec

\* A node that has accepted a message reads in its bytes what the wrapper put
\* there, whatever the keys, the names and the number of neighbours are
\* (MessageWrapper.java, Bitter.java; leap.c:164-248).
THEOREM MessagesAreUnderstood == Spec => []FramesUnderstood
<1>1. ReadRight = AllSent
  <2> DEFINE stored(kind, names) ==
        {[address |-> RimeAddr2Int(SetupAddress(n)), key |-> KeyOf[<<kind, n>>]] : n \in names}
      right(s) ==
        LET bytes == BytesOf(s)
            msg == Messages[s[1]]
        IN  /\ VerifyCrc(bytes)
            /\ HeaderOf(bytes) = [seq |-> FrameOf(s).seq, rem |-> FrameOf(s).rem]
            /\ \/ /\ MessageType(bytes) = 0 /\ msg.type = "basic"
                  /\ ParseBasicMessage(bytes) = OwnKeys
               \/ /\ MessageType(bytes) = 1 /\ msg.type = "extended"
                  /\ ParseExtendedMessage(bytes) =
                       [pairwise |-> stored("pairwise", msg.pairwise),
                        cluster |-> stored("cluster", msg.cluster)]
  <2>1. ASSUME NEW names, names \subseteq Names, NEW kind
        PROVE  Stored(kind, names) = stored(kind, names)
    BY <2>1, NamesAgree DEF Stored, AddressesAgree
  <2>2. ASSUME NEW s \in Sent
        PROVE  right(s)
    <3>1. PICK bytes, msg, header :
            /\ bytes = BytesOf(s) /\ msg = Messages[s[1]]
            /\ header = GenerateHeader(s[2][1], s[2][2])
      OBVIOUS
    <3>2. header.seq = FrameOf(s).seq /\ header.rem = FrameOf(s).rem
      BY <3>1 DEF FrameOf
    <3>3. /\ VerifyCrc(bytes)
          /\ HeaderOf(bytes) = [seq |-> header.seq, rem |-> header.rem]
          /\ \/ /\ MessageType(bytes) = 0 /\ msg.type = "basic"
                /\ ParseBasicMessage(bytes) = OwnKeys
             \/ /\ MessageType(bytes) = 1 /\ msg.type = "extended"
                /\ msg.pairwise \subseteq Names /\ msg.cluster \subseteq Names
                /\ ParseExtendedMessage(bytes)
                     = [pairwise |-> Stored("pairwise", msg.pairwise),
                        cluster |-> Stored("cluster", msg.cluster)]
      BY <3>1, SentFacts
    <3>4. ASSUME msg.pairwise \subseteq Names, msg.cluster \subseteq Names
          PROVE  /\ Stored("pairwise", msg.pairwise) = stored("pairwise", msg.pairwise)
                 /\ Stored("cluster", msg.cluster) = stored("cluster", msg.cluster)
      BY <2>1, <3>4
    <3> HIDE DEF stored
    <3> QED BY <3>1, <3>2, <3>3, <3>4
  <2>3. ReadRight = Frames({s \in Sent : right(s)})
    BY DEF ReadRight
  <2> HIDE DEF right
  <2> QED BY <2>2, <2>3 DEF AllSent
<1>2. NodeInv => FramesUnderstood
  BY <1>1, AcceptedWereSent DEF FramesUnderstood
<1> QED BY <1>2, InitNodeInv, NextNodeInv, PTL DEF Spec

\* The coordinator accepts the bytes of every answer a node gives, and reads in
\* them the messages that the node has received since the answer before
\* (send_ack_nack, SendSetup.receiveString, analyseNACK).
THEOREM AnswersAreUnderstood == Spec => []AnswersUnderstood
<1>1. MasksReadRight = SUBSET Bits
  BY AnswerFacts, MasksAreBytes DEF MasksReadRight
<1>2. NodeInv => AnswersUnderstood
  BY <1>1 DEF NodeInv, TypeOK, AnswersUnderstood, NodeState
<1> QED BY <1>2, InitNodeInv, NextNodeInv, PTL DEF Spec

\* One wrong byte in a message, whichever it is, and the node refuses it; one
\* wrong byte in an answer, and the coordinator does (verify_crc, CRC16.verify).
THEOREM OneWrongByteIsSeen == Spec => []DamageIsSeen
<1>1. FramesGuarded = AllSent
  <2>1. ASSUME NEW s \in Sent, NEW bytes \in Damaged(BytesOf(s))
        PROVE  ~ VerifyCrc(bytes)
    <3>1. PICK good : good = BytesOf(s)
      OBVIOUS
    <3>2. \E x \in DOMAIN good : \E byte \in Byte \ {good[x]} :
            bytes = [good EXCEPT ![x] = byte]
      BY <2>1, <3>1 DEF Damaged, Byte
    <3>3. \A y \in DOMAIN good : \A b \in Byte \ {good[y]} : ~ VerifyCrc([good EXCEPT ![y] = b])
      BY <3>1, SentFacts
    <3> QED BY <3>2, <3>3
  <2> QED BY <2>1 DEF FramesGuarded, AllSent
<1>2. MasksGuarded = {mask \in SUBSET Bits : mask \subseteq {FrameOf(s).seq : s \in Sent}}
  <2>1. ASSUME NEW mask \in SUBSET LowByte, NEW bytes \in Damaged(SendAckNack(mask))
        PROVE  ~ ReceiveString(bytes)
    <3>1. PICK good : good = SendAckNack(mask)
      OBVIOUS
    <3>2. \E x \in DOMAIN good : \E byte \in Byte \ {good[x]} :
            bytes = [good EXCEPT ![x] = byte]
      BY <2>1, <3>1 DEF Damaged, Byte
    <3>3. \A y \in DOMAIN good : \A b \in Byte \ {good[y]} : ~ ReceiveString([good EXCEPT ![y] = b])
      BY <3>1, AnswerFacts
    <3> QED BY <3>2, <3>3
  <2> QED BY <2>1, MasksAreBytes DEF MasksGuarded
<1>3. NodeInv /\ AnswerTruthful => DamageIsSeen
  <2> SUFFICES ASSUME NodeInv, AnswerTruthful PROVE DamageIsSeen
    OBVIOUS
  <2>1. answer.frames \subseteq AllSent
    BY AcceptedWereSent
  <2>2. answer.mask \subseteq {FrameOf(s).seq : s \in Sent}
    BY <2>1 DEF AnswerTruthful, AllSent, Frames
  <2>3. answer.mask \in SUBSET Bits
    BY DEF NodeInv, TypeOK
  <2> QED BY <1>1, <1>2, <2>2, <2>3, AcceptedWereSent DEF DamageIsSeen
<1> QED BY <1>3, InitNodeInv, NextNodeInv, AnswersAreTruthful, PTL DEF Spec
==============================================================================
