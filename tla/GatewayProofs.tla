---------------------------- MODULE GatewayProofs ----------------------------
(***************************************************************************)
(* The gateway sleeps only when nothing is left to do, its event queue     *)
(* never overflows, a line is not overwritten before it is read, no line   *)
(* is mixed from two, every packet has a timer, and whatever happens it is *)
(* a LossyRelay: for every network and every size of the buffers that      *)
(* satisfies Gateway's two assumptions.                                    *)
(***************************************************************************)
EXTENDS Gateway, FiniteSetTheorems, SequenceTheorems, TLAPS

\* What the CPU does agrees with the broadcast and with the transmission.
CpuConsistent ==
  /\ cpu \in {"run", "event", "resume", "transmit", "asleep"} => delivering = "nothing"
  /\ cpu = "deliver" => delivering # "nothing"
  /\ sending # Nobody <=> cpu = "transmit"
  /\ ReadsRing => serial = "filling"

\* No event is in the queue twice, and the serial process waits exactly while
\* its CONTINUE is there, behind its line.
EventsInOrder ==
  /\ \A j, k \in 1 .. Len(events) : events[j] = events[k] => j = k
  /\ \A j, k \in 1 .. Len(events) : events[j] = "continue" /\ events[k] = "line" => k < j
  /\ serial = "filling" => delivering = "nothing" /\ Elements(events) \subseteq Peers
  /\ serial = "waiting" => "continue" \in Elements(events)

\* The timers that are posted are those in the queue, and a neighbor queue has
\* a timer or is being sent.
TimersAgree ==
  /\ \A n \in Peers : timer[n] = "posted" <=> n \in Elements(events)
  /\ \A n \in Peers : sending = n => timer[n] # "posted"
  /\ QueueHasTimer
  /\ Cardinality(Neighbors) <= MaxNeighbors

\* Whoever has something to do is flagged, and the flags are about to be looked
\* at.
NothingForgotten ==
  /\ rxbuf # <<>> /\ serial = "filling" => "serial" \in needspoll \/ ReadsRing
  /\ "serial" \in needspoll => poll_requested \/ cpu = "serial"
  /\ "etimer" \in needspoll => poll_requested \/ cpu \in {"serial", "drain", "etimer"}
  /\ \A n \in Peers : timer[n] = "expired" => "etimer" \in needspoll \/ cpu = "expire"
  /\ cpu = "asleep" => events = <<>> /\ ~ poll_requested

GatewayInv ==
  TypeOK /\ CpuConsistent /\ EventsInOrder /\ TimersAgree /\ NothingForgotten

-----------------------------------------------------------------------------
(* Types *)

LEMMA PeersApart == Nobody \notin Peers /\ "line" \notin Peers /\ "continue" \notin Peers
  BY GatewayAssumption

\* A sequence of pieces stays one when more pieces are written.
LEMMA MoreWritten ==
  ASSUME NEW w \in Nat, NEW s \in Seq(1 .. w)
  PROVE  s \in Seq(1 .. w + 1)
<1>1. 1 .. w \subseteq 1 .. w + 1
  OBVIOUS
<1> QED BY <1>1, SeqDef

\* A prefix has the type of the sequence.
LEMMA PrefixTyped ==
  ASSUME NEW S, NEW s \in Seq(S), NEW k \in 0 .. Len(s)
  PROVE  SubSeq(s, 1, k) \in Seq(S)
<1>1. \A j \in 1 .. k : s[j] \in S
  OBVIOUS
<1> QED BY <1>1, SubSeqProperties

\* The packet that is sent is one, and so are those that are left.
LEMMA QueueTyped ==
  ASSUME TypeOK, NEW n \in Peers, queue[n] # <<>>
  PROVE  /\ Tail(queue[n]) \in Seq(Packet) /\ Head(queue[n]) \in Packet
         /\ [queue EXCEPT ![n] = Tail(@)] \in [Peers -> Seq(Packet)]
<1>1. queue[n] \in Seq(Packet)
  BY DEF TypeOK
<1>2. Tail(queue[n]) \in Seq(Packet) /\ Head(queue[n]) \in Packet
  BY <1>1, HeadTailProperties
<1> QED BY <1>2 DEF TypeOK

\* The memory of a node holds sequence numbers, and heard holds lines.
LEMMA AirTyped ==
  ASSUME TypeOK, NEW n \in Peers, queue[n] # <<>>, Air(n)
  PROVE  /\ received_seqnos' \in [Peers -> Seq(0 .. SeqSpace - 1)]
         /\ heard' \in [Peers -> Seq(1 .. Len(Lines))]
<1> DEFINE f == Head(queue[n])
<1>1. f \in Packet
  BY QueueTyped
<1>2. f.seq \in 0 .. SeqSpace - 1 /\ (f.line # Garbage => f.line \in 1 .. Len(Lines))
  BY <1>1, GatewayAssumption DEF Packet, Garbage
<1>3. CASE Hear(n, f)
  <2> DEFINE s == <<f.seq>> \o received_seqnos[n]
             k == IF Len(received_seqnos[n]) < MaxSeqnos THEN Len(received_seqnos[n]) + 1
                                                         ELSE MaxSeqnos
  <2>1. s \in Seq(0 .. SeqSpace - 1) /\ Len(s) = Len(received_seqnos[n]) + 1
    BY <1>2 DEF TypeOK
  <2>2. k \in 0 .. Len(s)
    BY <2>1, GatewayAssumption DEF TypeOK
  <2>3. SubSeq(s, 1, k) \in Seq(0 .. SeqSpace - 1)
    BY <2>1, <2>2, PrefixTyped
  <2>4. received_seqnos' \in [Peers -> Seq(0 .. SeqSpace - 1)]
    BY <1>3, <2>3 DEF Hear, TypeOK
  <2>5. heard' \in [Peers -> Seq(1 .. Len(Lines))]
    <3>1. CASE UNCHANGED heard
      BY <3>1 DEF TypeOK
    <3>2. CASE f.line # Garbage /\ heard' = [heard EXCEPT ![n] = Append(@, f.line)]
      <4>1. Append(heard[n], f.line) \in Seq(1 .. Len(Lines))
        BY <1>2, <3>2 DEF TypeOK
      <4> QED BY <3>2, <4>1 DEF TypeOK
    <3> QED BY <1>3, <3>1, <3>2 DEF Hear
  <2> QED BY <2>4, <2>5
<1>4. CASE UNCHANGED <<received_seqnos, heard>>
  BY <1>4 DEF TypeOK
<1> QED BY <1>3, <1>4 DEF Air

LEMMA FreeFirstPacketTyped ==
  ASSUME TypeOK, NEW n \in Peers, queue[n] # <<>>, FreeFirstPacket(n)
  PROVE  /\ queue' \in [Peers -> Seq(Packet)] /\ transmissions' \in [Peers -> Nat]
         /\ timer' \in [Peers -> {"off", "running", "expired", "posted"}]
         /\ poll_requested' \in BOOLEAN /\ needspoll' \subseteq {"serial", "etimer"}
<1>1. queue' \in [Peers -> Seq(Packet)] /\ transmissions' \in [Peers -> Nat]
  BY QueueTyped DEF FreeFirstPacket, TypeOK
<1>2. timer' \in [Peers -> {"off", "running", "expired", "posted"}]
  BY DEF FreeFirstPacket, SetTimer, TypeOK
<1>3. poll_requested' \in BOOLEAN /\ needspoll' \subseteq {"serial", "etimer"}
  BY DEF FreeFirstPacket, SetTimer, ProcessPoll, TypeOK
<1> QED BY <1>1, <1>2, <1>3

LEMMA SendPacketTyped ==
  ASSUME TypeOK, NEW n \in Peers, NEW k \in 0 .. Len(Lines), SendPacket(n, k)
  PROVE  /\ queue' \in [Peers -> Seq(Packet)] /\ transmissions' \in [Peers -> Nat]
         /\ timer' \in [Peers -> {"off", "running", "expired", "posted"}]
         /\ seqno' \in Nat
         /\ poll_requested' \in BOOLEAN /\ needspoll' \subseteq {"serial", "etimer"}
<1>1. SeqOfPacket \subseteq 0 .. SeqSpace - 1
  <2>1. seqno \in Nat /\ SeqSpace \in Nat \ {0}
    BY GatewayAssumption DEF TypeOK
  <2>2. seqno % SeqSpace \in 0 .. SeqSpace - 1
    BY <2>1
  <2> QED BY <2>2 DEF SeqOfPacket
<1>2. queue' \in [Peers -> Seq(Packet)]
  <2>1. \A s \in SeqOfPacket : [line |-> k, seq |-> s] \in Packet
    BY <1>1 DEF Packet
  <2>2. CASE UNCHANGED queue
    BY <2>2 DEF TypeOK
  <2>3. ASSUME NEW s \in SeqOfPacket,
               queue' = [queue EXCEPT ![n] = Append(@, [line |-> k, seq |-> s])]
        PROVE  queue' \in [Peers -> Seq(Packet)]
    <3> DEFINE p == [line |-> k, seq |-> s]
    <3>1. p \in Packet
      BY <2>1
    <3> HIDE DEF p
    <3>2. Append(queue[n], p) \in Seq(Packet)
      BY <3>1 DEF TypeOK
    <3>3. queue' = [queue EXCEPT ![n] = Append(@, p)]
      BY <2>3 DEF p
    <3> QED BY <3>2, <3>3 DEF TypeOK
  <2> QED BY <2>2, <2>3 DEF SendPacket
<1>3. transmissions' \in [Peers -> Nat] /\ seqno' \in Nat
  <2>1. CASE UNCHANGED transmissions
    BY <2>1 DEF SendPacket, TypeOK
  <2>2. CASE transmissions' = [transmissions EXCEPT ![n] = 0]
    BY <2>2 DEF SendPacket, TypeOK
  <2> QED BY <2>1, <2>2 DEF SendPacket
<1>4. timer' \in [Peers -> {"off", "running", "expired", "posted"}]
  BY DEF SendPacket, TypeOK
<1>5. poll_requested' \in BOOLEAN /\ needspoll' \subseteq {"serial", "etimer"}
  BY DEF SendPacket, ProcessPoll, TypeOK
<1> QED BY <1>1, <1>2, <1>3, <1>4, <1>5

\* Every step keeps the types; a burst has a packet to send.
LEMMA TypeStep == TypeOK /\ CpuConsistent /\ TimersAgree /\ [Next]_vars => TypeOK'
<1> SUFFICES ASSUME TypeOK, CpuConsistent, TimersAgree, [Next]_vars PROVE TypeOK'
  OBVIOUS
<1>0. \A n \in Peers : sending = n => queue[n] # <<>>
  BY DEF TimersAgree, QueueHasTimer
<1> USE GatewayAssumption DEF TypeOK
<1>1. CASE UartInterrupt
  <2>1. written' = written + 1 /\ written' \in 0 .. Len(Lines) * Pieces
    BY <1>1 DEF UartInterrupt
  <2>2. rxbuf \in Seq(1 .. written') /\ buf \in Seq(1 .. written')
    BY <2>1, MoreWritten
  <2>3. rxbuf' \in Seq(1 .. written') /\ Len(rxbuf') <= RingSize
    <3>1. Append(rxbuf, written + 1) \in Seq(1 .. written')
      BY <2>1, <2>2
    <3>2. Len(Append(rxbuf, written + 1)) = Len(rxbuf) + 1
      OBVIOUS
    <3>3. CASE UNCHANGED rxbuf
      BY <2>2, <3>3
    <3>4. CASE rxbuf' = Append(rxbuf, written + 1) /\ Len(rxbuf) < RingSize
      BY <3>1, <3>2, <3>4
    <3> QED BY <1>1, <3>3, <3>4 DEF UartInterrupt, InputByte, RingbufPut
  <2>4. overflow' \in BOOLEAN /\ poll_requested' \in BOOLEAN
        /\ needspoll' \subseteq {"serial", "etimer"}
    BY <1>1 DEF UartInterrupt, InputByte, ProcessPoll
  <2> QED BY <1>1, <2>1, <2>2, <2>3, <2>4 DEF UartInterrupt, Wake, reader, csma, radio
<1>2. CASE UartError
  BY <1>2 DEF UartError, input, reader, csma, radio
<1>3. CASE Sleep
  BY <1>3 DEF Sleep, input, reader, csma, radio
<1>4. CASE ProcessRun
  BY <1>4 DEF ProcessRun, input, reader, csma, radio
<1>5. CASE PollSerial
  BY <1>5 DEF PollSerial, input, reader, csma, radio
<1>6. CASE PollEtimer
  BY <1>6 DEF PollEtimer, AfterPoll, input, reader, csma, radio
<1>7. CASE NoEvent
  BY <1>7 DEF NoEvent, input, reader, csma, radio
<1>8. CASE Continue
  BY <1>8 DEF Continue, input, reader, csma, radio
<1>9. CASE DeliverLine
  <2>1. events' \in Seq({"line", "continue"} \cup Peers)
    BY <1>9, HeadTailProperties DEF DeliverLine
  <2> QED BY <1>9, <2>1 DEF DeliverLine, input, reader, csma, radio
<1>10. CASE PollInBroadcast
  BY <1>10 DEF PollInBroadcast, input, reader, csma, radio
<1>11. CASE EndBroadcast
  BY <1>11 DEF EndBroadcast, input, reader, csma, radio
<1>12. CASE RingEmpty
  BY <1>12 DEF RingEmpty, Yield, input, reader, csma, radio
<1>13. CASE TakePiece
  <2>1. Head(rxbuf) \in 1 .. written /\ Tail(rxbuf) \in Seq(1 .. written)
        /\ Len(Tail(rxbuf)) = Len(rxbuf) - 1
    BY <1>13, HeadTailProperties DEF TakePiece
  <2>2. Append(buf, Head(rxbuf)) \in Seq(1 .. written)
    BY <2>1
  <2>3. buf' \in Seq(1 .. written')
    BY <1>13, <2>2 DEF TakePiece
  <2>4. rxbuf' \in Seq(1 .. written') /\ Len(rxbuf') <= RingSize
    BY <1>13, <2>1 DEF TakePiece
  <2> HIDE DEF TypeOK
  <2> QED BY <1>13, <2>3, <2>4 DEF TakePiece, TypeOK, csma, radio
<1>14. CASE EndLine
  <2>1. Tail(rxbuf) \in Seq(1 .. written) /\ Len(Tail(rxbuf)) = Len(rxbuf) - 1
    BY <1>14, HeadTailProperties DEF EndLine
  <2>2. events \o <<"line", "continue">> \in Seq({"line", "continue"} \cup Peers)
        /\ Append(events, "line") \in Seq({"line", "continue"} \cup Peers)
    OBVIOUS
  <2>3. events' \in Seq({"line", "continue"} \cup Peers)
    BY <1>14, <2>2 DEF EndLine
  <2> HIDE DEF TypeOK
  <2>4. /\ buf' \in Seq(1 .. written') /\ serial' \in {"filling", "waiting"}
        /\ cpu' \in {"run", "serial", "etimer", "expire", "event", "drain", "resume",
                     "deliver", "transmit", "asleep"}
    <3>1. CASE Len(events) + 2 <= NumEvents
      BY <1>14, <3>1 DEF EndLine, Yield, TypeOK
    <3>2. CASE ~ (Len(events) + 2 <= NumEvents)
      <4>1. buf' = <<>> /\ UNCHANGED <<serial, cpu, written>>
        BY <1>14, <3>2 DEF EndLine
      <4>2. <<>> \in Seq(1 .. written)
        OBVIOUS
      <4> QED BY <4>1, <4>2 DEF TypeOK
    <3> QED BY <3>1, <3>2
  <2>5. rxbuf' \in Seq(1 .. written') /\ Len(rxbuf') <= RingSize
    BY <1>14, <2>1 DEF EndLine, TypeOK
  <2> QED BY <1>14, <2>3, <2>4, <2>5 DEF EndLine, TypeOK, csma, radio
<1>15. CASE EndExpire
  BY <1>15 DEF EndExpire, ProcessPoll, AfterPoll, input, reader, csma, radio
<1>16. CASE ShellInput
  <2> HIDE DEF TypeOK
  <2> DEFINE Typed ==
        /\ queue' \in [Peers -> Seq(Packet)] /\ transmissions' \in [Peers -> Nat]
        /\ timer' \in [Peers -> {"off", "running", "expired", "posted"}]
        /\ seqno' \in Nat
        /\ poll_requested' \in BOOLEAN /\ needspoll' \subseteq {"serial", "etimer"}
  <2>1. ASSUME NEW k \in 1 .. Len(Lines), SendPacket(Lines[k], k) PROVE Typed
    <3>1. Lines[k] \in Peers /\ k \in 0 .. Len(Lines)
      OBVIOUS
    <3> QED BY <2>1, <3>1, SendPacketTyped
  <2>2. ASSUME NEW n \in Peers, SendPacket(n, Garbage) PROVE Typed
    <3>1. Garbage \in 0 .. Len(Lines)
      BY DEF Garbage
    <3> QED BY <2>2, <3>1, SendPacketTyped
  <2>3. ASSUME UNCHANGED <<csma, needspoll, poll_requested>> PROVE Typed
    BY <2>3 DEF csma, TypeOK
  <2> HIDE DEF Typed
  <2>4. Typed
    BY <1>16, <2>1, <2>2, <2>3 DEF ShellInput, csma
  <2> QED BY <1>16, <2>4 DEF ShellInput, Typed, TypeOK, input, reader, radio
<1>17. ASSUME NEW n \in Peers, ClockInterrupt(n) PROVE TypeOK'
  BY <1>17 DEF ClockInterrupt, ProcessPoll, Wake, input, reader, csma, radio
<1>18. ASSUME NEW n \in Peers, PostTimer(n) PROVE TypeOK'
  <2>1. events' \in Seq({"line", "continue"} \cup Peers)
    BY <1>18 DEF PostTimer
  <2> QED BY <1>18, <2>1 DEF PostTimer, input, reader, csma, radio
<1>19. ASSUME NEW n \in Peers, TransmitPacketList(n) PROVE TypeOK'
  BY <1>19 DEF TransmitPacketList, input, reader, csma, radio
<1>20. ASSUME NEW n \in Peers, TransmitOK(n) PROVE TypeOK'
  <2> HIDE DEF TypeOK
  <2>1. /\ received_seqnos' \in [Peers -> Seq(0 .. SeqSpace - 1)]
        /\ heard' \in [Peers -> Seq(1 .. Len(Lines))]
    BY <1>0, <1>20, AirTyped DEF TransmitOK
  <2>2. /\ queue' \in [Peers -> Seq(Packet)] /\ transmissions' \in [Peers -> Nat]
        /\ timer' \in [Peers -> {"off", "running", "expired", "posted"}]
        /\ poll_requested' \in BOOLEAN /\ needspoll' \subseteq {"serial", "etimer"}
    BY <1>0, <1>20, FreeFirstPacketTyped DEF TransmitOK
  <2> QED BY <1>20, <2>1, <2>2 DEF TransmitOK, EndBurst, TypeOK, input, reader
<1>21. ASSUME NEW n \in Peers, TransmitNoAck(n) PROVE TypeOK'
  <2> HIDE DEF TypeOK
  <2>1. /\ received_seqnos' \in [Peers -> Seq(0 .. SeqSpace - 1)]
        /\ heard' \in [Peers -> Seq(1 .. Len(Lines))]
    BY <1>0, <1>21, AirTyped DEF TransmitNoAck
  <2>2. /\ queue' \in [Peers -> Seq(Packet)] /\ transmissions' \in [Peers -> Nat]
        /\ timer' \in [Peers -> {"off", "running", "expired", "posted"}]
        /\ poll_requested' \in BOOLEAN /\ needspoll' \subseteq {"serial", "etimer"}
    <3>1. CASE FreeFirstPacket(n) /\ seqno' = seqno
      BY <1>0, <1>21, <3>1, FreeFirstPacketTyped DEF TransmitNoAck
    <3>2. CASE transmissions' = [transmissions EXCEPT ![n] = @ + 1] /\ SetTimer(n)
               /\ UNCHANGED <<queue, seqno>>
      BY <3>2 DEF SetTimer, ProcessPoll, TypeOK
    <3> QED BY <1>21, <3>1, <3>2 DEF TransmitNoAck
  <2> QED BY <1>21, <2>1, <2>2 DEF TransmitNoAck, EndBurst, TypeOK, input, reader
<1>22. ASSUME NEW n \in Peers, TransmitLater(n) PROVE TypeOK'
  <2> HIDE DEF TypeOK
  <2>1. /\ received_seqnos' \in [Peers -> Seq(0 .. SeqSpace - 1)]
        /\ heard' \in [Peers -> Seq(1 .. Len(Lines))]
    BY <1>0, <1>22, AirTyped DEF TransmitLater
  <2>2. /\ queue' \in [Peers -> Seq(Packet)] /\ transmissions' \in [Peers -> Nat]
        /\ timer' \in [Peers -> {"off", "running", "expired", "posted"}]
        /\ poll_requested' \in BOOLEAN /\ needspoll' \subseteq {"serial", "etimer"}
    BY <1>22 DEF TransmitLater, SetTimer, ProcessPoll, TypeOK
  <2> QED BY <1>22, <2>1, <2>2 DEF TransmitLater, EndBurst, TypeOK, input, reader
<1>23. CASE UNCHANGED vars
  BY <1>23 DEF vars
<1> QED BY <1>1, <1>2, <1>3, <1>4, <1>5, <1>6, <1>7, <1>8, <1>9, <1>10, <1>11, <1>12,
       <1>13, <1>14, <1>15, <1>16, <1>17, <1>18, <1>19, <1>20, <1>21, <1>22, <1>23 DEF
       Next, Kernel, Processes

-----------------------------------------------------------------------------
(* The event queue *)

\* The pigeonhole principle for a sequence.
LEMMA WithoutDuplicates ==
  ASSUME NEW S, IsFiniteSet(S), NEW s \in Seq(S),
         \A j, k \in 1 .. Len(s) : s[j] = s[k] => j = k
  PROVE  Len(s) <= Cardinality(S)
<1>1. Len(s) \in Nat /\ s \in [1 .. Len(s) -> S]
  BY LenProperties
<1>2. IsFiniteSet(1 .. Len(s)) /\ Cardinality(1 .. Len(s)) = Len(s)
  BY <1>1, FS_Interval
<1>3. Cardinality(S) \in Nat
  BY FS_CardinalityType
<1>4. ~ (Cardinality(S) < Cardinality(1 .. Len(s)))
  BY <1>1, <1>2, FS_PigeonHole
<1> QED BY <1>1, <1>2, <1>3, <1>4

LEMMA ElementsTyped ==
  ASSUME NEW S, NEW T, NEW s \in Seq(S), Elements(s) \subseteq T
  PROVE  s \in Seq(T)
<1>1. \A j \in 1 .. Len(s) : s[j] \in T
  BY DEF Elements
<1> QED BY <1>1, LenProperties

LEMMA NeighborsFinite ==
  IsFiniteSet(Neighbors) /\ Cardinality(Neighbors) \in Nat
<1>1. Neighbors \subseteq Peers
  BY DEF Neighbors
<1> QED BY <1>1, FS_Subset, FS_CardinalityType, GatewayAssumption

\* At most one event per neighbor queue, one line and one CONTINUE are in the
\* queue, and none for whoever posts.
LEMMA RoomForEvents == GatewayInv => PostsSucceed
<1> SUFFICES ASSUME GatewayInv PROVE PostsSucceed
  OBVIOUS
<1> USE DEF GatewayInv
<1>1. events \in Seq({"line", "continue"} \cup Peers)
  BY DEF TypeOK
<1>2. Elements(events) \cap Peers \subseteq Neighbors
  BY DEF TimersAgree, QueueHasTimer, Neighbors
<1>3. ReadsRing => Len(events) + 2 <= NumEvents
  <2> SUFFICES ASSUME ReadsRing PROVE Len(events) + 2 <= NumEvents
    OBVIOUS
  <2>1. events \in Seq(Neighbors)
    BY <1>1, <1>2, ElementsTyped DEF CpuConsistent, EventsInOrder
  <2>2. Len(events) <= Cardinality(Neighbors)
    BY <2>1, NeighborsFinite, WithoutDuplicates DEF EventsInOrder
  <2> QED BY <2>1, <2>2, NeighborsFinite, GatewayAssumption, QueueAssumption DEF TimersAgree
<1>4. ASSUME NEW n \in Peers, timer[n] = "expired" PROVE Len(events) < NumEvents
  <2> DEFINE others == {"line", "continue"} \cup (Neighbors \ {n})
  <2>1. n \in Neighbors /\ n \notin Elements(events)
    BY <1>4 DEF TimersAgree, QueueHasTimer, Neighbors
  <2>2. events \in Seq(others)
    <3>1. Elements(events) \subseteq {"line", "continue"} \cup Peers
      BY <1>1 DEF Elements
    <3>2. Elements(events) \subseteq others
      BY <1>2, <2>1, <3>1
    <3> QED BY <1>1, <3>2, ElementsTyped
  <2>3. IsFiniteSet(others) /\ Cardinality(others) <= Cardinality(Neighbors) + 1
    <3>1. IsFiniteSet(Neighbors \ {n}) /\ Cardinality(Neighbors \ {n}) = Cardinality(Neighbors) - 1
      BY <2>1, NeighborsFinite, FS_RemoveElement
    <3>2. /\ IsFiniteSet((Neighbors \ {n}) \cup {"line"})
          /\ Cardinality((Neighbors \ {n}) \cup {"line"}) <= Cardinality(Neighbors)
      BY <3>1, NeighborsFinite, FS_AddElement
    <3>3. others = ((Neighbors \ {n}) \cup {"line"}) \cup {"continue"}
      OBVIOUS
    <3> DEFINE D == (Neighbors \ {n}) \cup {"line"}
    <3>4. IsFiniteSet(D \cup {"continue"})
          /\ (Cardinality(D \cup {"continue"}) = Cardinality(D)
              \/ Cardinality(D \cup {"continue"}) = Cardinality(D) + 1)
      BY <3>2, FS_AddElement
    <3>5. Cardinality(D) \in Nat
      BY <3>2, FS_CardinalityType
    <3> HIDE DEF others, D
    <3>6. Cardinality(D) <= Cardinality(Neighbors)
      BY <3>2 DEF D
    <3>7. others = D \cup {"continue"}
      BY <3>3 DEF D
    <3> QED BY <3>4, <3>5, <3>6, <3>7, NeighborsFinite
  <2>4. Len(events) <= Cardinality(others)
    BY <2>2, <2>3, WithoutDuplicates DEF EventsInOrder
  <2> HIDE DEF others
  <2>5. Cardinality(others) \in Nat /\ Len(events) \in Nat
    BY <1>1, <2>3, FS_CardinalityType
  <2> QED BY <2>3, <2>4, <2>5, NeighborsFinite, GatewayAssumption, QueueAssumption DEF TimersAgree
<1> QED BY <1>3, <1>4 DEF PostsSucceed

\* What is in the queue after an event was appended, or the first one taken.
LEMMA AppendElements ==
  ASSUME NEW S, NEW s \in Seq(S), NEW x \in S
  PROVE  Elements(Append(s, x)) = Elements(s) \cup {x}
<1>1. Len(s) \in Nat /\ Len(Append(s, x)) = Len(s) + 1
      /\ \A j \in 1 .. Len(s) + 1 : Append(s, x)[j] = IF j = Len(s) + 1 THEN x ELSE s[j]
  OBVIOUS
<1>2. \A j \in 1 .. Len(s) + 1 : j = Len(s) + 1 \/ j \in 1 .. Len(s)
  BY <1>1
<1>3. Len(s) + 1 \in 1 .. Len(s) + 1 /\ 1 .. Len(s) \subseteq 1 .. Len(s) + 1
      /\ Len(s) + 1 \notin 1 .. Len(s)
  BY <1>1
<1> QED BY <1>1, <1>2, <1>3 DEF Elements

LEMMA TailElements ==
  ASSUME NEW S, NEW s \in Seq(S), s # <<>>,
         \A j, k \in 1 .. Len(s) : s[j] = s[k] => j = k
  PROVE  Elements(Tail(s)) = Elements(s) \ {Head(s)}
<1>1. Len(s) \in Nat /\ Len(s) # 0 /\ Head(s) = s[1] /\ Len(Tail(s)) = Len(s) - 1
      /\ \A j \in 1 .. Len(s) - 1 : Tail(s)[j] = s[j + 1]
  BY EmptySeq, LenProperties, HeadTailProperties
<1>2. \A j \in 1 .. Len(s) - 1 : j + 1 \in 1 .. Len(s) /\ j + 1 # 1
  BY <1>1
<1>3. \A j \in 1 .. Len(s) : j # 1 => j - 1 \in 1 .. Len(s) - 1 /\ (j - 1) + 1 = j
  BY <1>1
<1>4. 1 \in 1 .. Len(s)
  BY <1>1
<1>5. ASSUME NEW x \in Elements(Tail(s)) PROVE x \in Elements(s) /\ x # Head(s)
  <2>0. PICK j \in 1 .. Len(Tail(s)) : x = Tail(s)[j]
    BY DEF Elements
  <2>1. j \in 1 .. Len(s) - 1 /\ x = s[j + 1]
    BY <1>1, <2>0
  <2>2. j + 1 \in 1 .. Len(s) /\ j + 1 # 1
    BY <1>2
  <2> QED BY <1>1, <1>4, <2>1, <2>2 DEF Elements
<1>6. ASSUME NEW x \in Elements(s), x # Head(s) PROVE x \in Elements(Tail(s))
  <2>1. PICK j \in 1 .. Len(s) : x = s[j]
    BY DEF Elements
  <2>2. j - 1 \in 1 .. Len(s) - 1 /\ Tail(s)[j - 1] = x
    BY <1>1, <1>3, <1>6, <2>1
  <2> QED BY <1>1, <2>2 DEF Elements
<1> QED BY <1>5, <1>6

-----------------------------------------------------------------------------
(* The invariant *)

LEMMA GatewayInitially == Init => GatewayInv
<1> SUFFICES ASSUME Init PROVE GatewayInv
  OBVIOUS
<1>1. TypeOK
  <2>1. received_seqnos \in [Peers -> Seq(0 .. SeqSpace - 1)]
    BY GatewayAssumption DEF Init
  <2>2. /\ written \in 0 .. Len(Lines) * Pieces
        /\ rxbuf \in Seq(1 .. written) /\ Len(rxbuf) <= RingSize
    BY GatewayAssumption DEF Init
  <2>3. queue \in [Peers -> Seq(Packet)] /\ heard \in [Peers -> Seq(1 .. Len(Lines))]
    BY DEF Init
  <2>4. buf \in Seq(1 .. written) /\ events \in Seq({"line", "continue"} \cup Peers)
    BY DEF Init
  <2>5. /\ transmissions \in [Peers -> Nat]
        /\ timer \in [Peers -> {"off", "running", "expired", "posted"}]
    BY DEF Init
  <2>6. overflow \in BOOLEAN /\ poll_requested \in BOOLEAN
        /\ needspoll \subseteq {"serial", "etimer"}
    BY DEF Init
  <2> QED BY <2>1, <2>2, <2>3, <2>4, <2>5, <2>6 DEF Init, TypeOK
<1>2. CpuConsistent
  BY DEF Init, CpuConsistent, ReadsRing
<1>3. EventsInOrder
  BY DEF Init, EventsInOrder, Elements
<1>4. TimersAgree
  <2>1. Neighbors = {} /\ Elements(events) = {}
    BY DEF Init, Neighbors, Elements
  <2>2. Cardinality(Neighbors) <= MaxNeighbors
    BY <2>1, FS_EmptySet, GatewayAssumption
  <2> QED BY <2>1, <2>2, GatewayAssumption DEF Init, TimersAgree, QueueHasTimer
<1>5. NothingForgotten
  BY DEF Init, NothingForgotten, ReadsRing
<1> QED BY <1>1, <1>2, <1>3, <1>4, <1>5 DEF GatewayInv

LEMMA CpuStep == GatewayInv /\ [Next]_vars => CpuConsistent'
<1> SUFFICES ASSUME TypeOK, CpuConsistent, EventsInOrder, [Next]_vars PROVE CpuConsistent'
  BY DEF GatewayInv
<1> USE GatewayAssumption DEF CpuConsistent, ReadsRing
<1>1. CASE UartInterrupt
  BY <1>1 DEF UartInterrupt, Wake, reader, radio
<1>2. CASE UartError
  BY <1>2 DEF UartError, reader, radio
<1>3. CASE Sleep
  BY <1>3 DEF Sleep, reader, radio
<1>4. CASE ProcessRun
  BY <1>4 DEF ProcessRun, reader, radio
<1>5. CASE PollSerial
  BY <1>5 DEF PollSerial, reader, radio
<1>6. CASE PollEtimer
  BY <1>6 DEF PollEtimer, AfterPoll, reader, radio
<1>7. CASE NoEvent
  BY <1>7 DEF NoEvent, reader, radio
<1>8. CASE Continue
  BY <1>8 DEF Continue, reader, radio
<1>9. CASE DeliverLine
  BY <1>9 DEF DeliverLine, reader, radio
<1>10. CASE PollInBroadcast
  BY <1>10 DEF PollInBroadcast, reader, radio
<1>11. CASE EndBroadcast
  BY <1>11 DEF EndBroadcast, reader, radio
<1>12. CASE RingEmpty
  BY <1>12 DEF RingEmpty, Yield, reader, radio
<1>13. CASE TakePiece
  BY <1>13 DEF TakePiece, radio
<1>14. CASE EndLine
  BY <1>14 DEF EndLine, Yield, radio
<1>15. CASE EndExpire
  BY <1>15 DEF EndExpire, AfterPoll, TypeOK, reader, radio
<1>16. CASE ShellInput
  BY <1>16 DEF ShellInput, reader, radio
<1>17. ASSUME NEW n \in Peers, ClockInterrupt(n) PROVE CpuConsistent'
  BY <1>17 DEF ClockInterrupt, Wake, reader, radio
<1>18. ASSUME NEW n \in Peers, PostTimer(n) PROVE CpuConsistent'
  BY <1>18 DEF PostTimer, reader, radio
<1>19. ASSUME NEW n \in Peers, TransmitPacketList(n) PROVE CpuConsistent'
  BY <1>19 DEF TransmitPacketList, reader, radio
<1>20. ASSUME NEW n \in Peers, TransmitOK(n) PROVE CpuConsistent'
  BY <1>20 DEF TransmitOK, EndBurst, reader
<1>21. ASSUME NEW n \in Peers, TransmitNoAck(n) PROVE CpuConsistent'
  BY <1>21 DEF TransmitNoAck, EndBurst, reader
<1>22. ASSUME NEW n \in Peers, TransmitLater(n) PROVE CpuConsistent'
  BY <1>22 DEF TransmitLater, EndBurst, reader
<1>23. CASE UNCHANGED vars
  BY <1>23 DEF vars
<1> QED BY <1>1, <1>2, <1>3, <1>4, <1>5, <1>6, <1>7, <1>8, <1>9, <1>10, <1>11, <1>12,
       <1>13, <1>14, <1>15, <1>16, <1>17, <1>18, <1>19, <1>20, <1>21, <1>22, <1>23 DEF
       Next, Kernel, Processes

\* What the steps that take no event and post none leave alone.
LEMMA EventsUntouched ==
  ASSUME EventsInOrder, UNCHANGED <<events, serial>>,
         delivering' = delivering \/ delivering # "nothing"
  PROVE  EventsInOrder'
  BY DEF EventsInOrder, Elements

\* The first event is taken.
LEMMA EventTaken ==
  ASSUME TypeOK, EventsInOrder, events # <<>>, events' = Tail(events)
  PROVE  /\ \A j, k \in 1 .. Len(events') : events'[j] = events'[k] => j = k
         /\ \A j, k \in 1 .. Len(events') :
              events'[j] = "continue" /\ events'[k] = "line" => k < j
         /\ Elements(events)' = Elements(events) \ {Head(events)}
<1>1. Len(events) \in Nat /\ Len(events) # 0 /\ Len(Tail(events)) = Len(events) - 1
      /\ \A j \in 1 .. Len(events) - 1 : Tail(events)[j] = events[j + 1]
  BY EmptySeq, LenProperties, HeadTailProperties DEF TypeOK
<1>2. \A j \in 1 .. Len(events) - 1 : j \in Int /\ j + 1 \in 1 .. Len(events)
  BY <1>1
<1>3. \A j, k \in Int : (j + 1 = k + 1 => j = k) /\ (k + 1 < j + 1 => k < j)
  OBVIOUS
<1>4. Elements(events)' = Elements(Tail(events))
  BY DEF Elements
<1>5. Elements(Tail(events)) = Elements(events) \ {Head(events)}
  BY TailElements DEF TypeOK, EventsInOrder
<1> QED BY <1>1, <1>2, <1>3, <1>4, <1>5 DEF EventsInOrder

\* An event is appended that is not in the queue yet.
LEMMA EventPosted ==
  ASSUME TypeOK, EventsInOrder, NEW e \in {"line", "continue"} \cup Peers,
         e \notin Elements(events), e # "line" \/ "continue" \notin Elements(events),
         events' = Append(events, e)
  PROVE  /\ \A j, k \in 1 .. Len(events') : events'[j] = events'[k] => j = k
         /\ \A j, k \in 1 .. Len(events') :
              events'[j] = "continue" /\ events'[k] = "line" => k < j
         /\ Elements(events)' = Elements(events) \cup {e}
<1>1. Len(events) \in Nat /\ Len(events') = Len(events) + 1
      /\ \A j \in 1 .. Len(events) + 1 : events'[j] = IF j = Len(events) + 1 THEN e ELSE events[j]
  BY DEF TypeOK
<1>2. \A j \in 1 .. Len(events) + 1 :
         j = Len(events) + 1 \/ (j \in 1 .. Len(events) /\ j < Len(events) + 1)
  BY <1>1
<1>3. \A j \in 1 .. Len(events) : events[j] # e /\ (e = "line" => events[j] # "continue")
  BY DEF Elements
<1>4. \A j, k \in 1 .. Len(events') : events'[j] = events'[k] => j = k
  BY <1>1, <1>2, <1>3 DEF EventsInOrder
<1>5. \A j, k \in 1 .. Len(events') :
         events'[j] = "continue" /\ events'[k] = "line" => k < j
  BY <1>1, <1>2, <1>3 DEF EventsInOrder
<1>6. Elements(events)' = Elements(Append(events, e))
  BY DEF Elements
<1>7. Elements(Append(events, e)) = Elements(events) \cup {e}
  <2>1. events \in Seq({"line", "continue"} \cup Peers)
    BY DEF TypeOK
  <2> QED BY <2>1, AppendElements
<1> QED BY <1>4, <1>5, <1>6, <1>7

LEMMA EventsStep == GatewayInv /\ [Next]_vars => EventsInOrder'
<1> SUFFICES ASSUME GatewayInv, [Next]_vars PROVE EventsInOrder'
  OBVIOUS
<1>0. TypeOK /\ CpuConsistent /\ EventsInOrder /\ TimersAgree /\ PostsSucceed
  BY RoomForEvents DEF GatewayInv
<1>1. CASE Continue
  <2>1. Head(events) = events[1] /\ 1 \in 1 .. Len(events) /\ events[1] = "continue"
        /\ Elements(events) \subseteq {"line", "continue"} \cup Peers
    BY <1>0, <1>1, EmptySeq, LenProperties, HeadTailProperties DEF Continue, TypeOK, Elements
  <2>2. "line" \notin Elements(events)
    <3> SUFFICES ASSUME NEW k \in 1 .. Len(events), events[k] = "line" PROVE FALSE
      BY DEF Elements
    <3>1. k < 1
      BY <1>0, <2>1 DEF EventsInOrder
    <3> QED BY <3>1
  <2>3. /\ \A j, k \in 1 .. Len(events') : events'[j] = events'[k] => j = k
        /\ \A j, k \in 1 .. Len(events') :
             events'[j] = "continue" /\ events'[k] = "line" => k < j
        /\ Elements(events)' = Elements(events) \ {"continue"}
    BY <1>0, <1>1, EventTaken DEF Continue
  <2>4. delivering' = "nothing" /\ serial' = "filling"
    BY <1>0, <1>1 DEF Continue, CpuConsistent
  <2> QED BY <2>1, <2>2, <2>3, <2>4 DEF EventsInOrder, Elements
<1>2. CASE DeliverLine
  <2>1. "line" \in Elements(events)
    BY <1>0, <1>2, EmptySeq, LenProperties, HeadTailProperties DEF DeliverLine, TypeOK, Elements
  <2>2. serial = "waiting" /\ serial' = serial
    BY <1>0, <1>2, <2>1, PeersApart DEF EventsInOrder, DeliverLine, TypeOK, reader
  <2>3. /\ \A j, k \in 1 .. Len(events') : events'[j] = events'[k] => j = k
        /\ \A j, k \in 1 .. Len(events') :
             events'[j] = "continue" /\ events'[k] = "line" => k < j
        /\ Elements(events)' = Elements(events) \ {"line"}
    BY <1>0, <1>2, EventTaken DEF DeliverLine
  <2> QED BY <1>0, <2>2, <2>3 DEF EventsInOrder, Elements
<1>3. ASSUME NEW n \in Peers, TransmitPacketList(n) PROVE EventsInOrder'
  <2>1. /\ \A j, k \in 1 .. Len(events') : events'[j] = events'[k] => j = k
        /\ \A j, k \in 1 .. Len(events') :
             events'[j] = "continue" /\ events'[k] = "line" => k < j
        /\ Elements(events)' = Elements(events) \ {n}
    BY <1>0, <1>3, EventTaken DEF TransmitPacketList
  <2>2. UNCHANGED <<serial, delivering>>
    BY <1>3 DEF TransmitPacketList, reader
  <2> QED BY <1>0, <2>1, <2>2, PeersApart DEF EventsInOrder, Elements
<1>4. ASSUME NEW n \in Peers, PostTimer(n) PROVE EventsInOrder'
  <2>1. n \notin Elements(events)
    BY <1>0, <1>4 DEF TimersAgree, PostTimer
  <2>2. /\ \A j, k \in 1 .. Len(events') : events'[j] = events'[k] => j = k
        /\ \A j, k \in 1 .. Len(events') :
             events'[j] = "continue" /\ events'[k] = "line" => k < j
        /\ Elements(events)' = Elements(events) \cup {n}
    BY <1>0, <1>4, <2>1, EventPosted, PeersApart DEF PostTimer
  <2>3. UNCHANGED <<serial, delivering>>
    BY <1>4 DEF PostTimer, reader
  <2> QED BY <1>0, <2>2, <2>3 DEF EventsInOrder, Elements
<1>5. CASE EndLine
  <2>1. ReadsRing /\ serial = "filling" /\ Elements(events) \subseteq Peers
        /\ Len(events) + 2 <= NumEvents
    BY <1>0, <1>5 DEF EndLine, CpuConsistent, EventsInOrder, PostsSucceed
  <2>2. events' = events \o <<"line", "continue">> /\ serial' = "waiting"
    BY <1>5, <2>1 DEF EndLine
  <2>3. Len(events) \in Nat /\ Len(events') = Len(events) + 2
        /\ \A j \in 1 .. Len(events) + 2 :
             events'[j] = IF j = Len(events) + 1 THEN "line"
                          ELSE IF j = Len(events) + 2 THEN "continue" ELSE events[j]
    <3>1. events \in Seq({"line", "continue"} \cup Peers)
      BY <1>0 DEF TypeOK
    <3> QED BY <2>2, <3>1
  <2>4. \A j \in 1 .. Len(events) + 2 :
          \/ j = Len(events) + 1 \/ j = Len(events) + 2
          \/ j \in 1 .. Len(events) /\ j < Len(events) + 1
    BY <2>3
  <2>5. \A j \in 1 .. Len(events) : events[j] # "line" /\ events[j] # "continue"
    BY <2>1, PeersApart DEF Elements
  <2>6. \A j, k \in 1 .. Len(events') : events'[j] = events'[k] => j = k
    BY <1>0, <2>3, <2>4, <2>5 DEF EventsInOrder
  <2>7. \A j, k \in 1 .. Len(events') :
          events'[j] = "continue" /\ events'[k] = "line" => k < j
    BY <2>3, <2>4, <2>5
  <2>8. "continue" \in Elements(events)'
    BY <2>3 DEF Elements
  <2> QED BY <2>2, <2>6, <2>7, <2>8 DEF EventsInOrder
<1>6. CASE UNCHANGED <<events, serial>> /\ (delivering' = delivering \/ delivering # "nothing")
  BY <1>0, <1>6, EventsUntouched
<1>7. CASE UartInterrupt \/ UartError \/ \E n \in Peers : ClockInterrupt(n)
  BY <1>6, <1>7 DEF UartInterrupt, UartError, ClockInterrupt, reader
<1>8. CASE \/ Sleep \/ ProcessRun \/ PollSerial \/ PollEtimer \/ NoEvent
           \/ PollInBroadcast \/ EndBroadcast
  BY <1>6, <1>8 DEF Sleep, ProcessRun, PollSerial, PollEtimer, NoEvent, PollInBroadcast,
     EndBroadcast, reader
<1>9. CASE RingEmpty \/ TakePiece \/ EndExpire \/ ShellInput
  BY <1>6, <1>9 DEF RingEmpty, TakePiece, EndExpire, ShellInput, reader
<1>10. CASE \E n \in Peers : TransmitOK(n) \/ TransmitNoAck(n) \/ TransmitLater(n)
  BY <1>6, <1>10 DEF TransmitOK, TransmitNoAck, TransmitLater, reader
<1>11. CASE UNCHANGED vars
  BY <1>6, <1>11 DEF vars
<1> QED BY <1>1, <1>2, <1>3, <1>4, <1>5, <1>7, <1>8, <1>9, <1>10, <1>11 DEF Next, Kernel, Processes

\* What keeps the timers and the queues as they are.
LEMMA TimersUntouched ==
  ASSUME TimersAgree, UNCHANGED <<queue, timer, sending>>,
         \A n \in Peers : n \in Elements(events)' <=> n \in Elements(events)
  PROVE  TimersAgree'
  BY DEF TimersAgree, QueueHasTimer, Neighbors

\* A packet of the neighbor that is being sent to is removed, and perhaps the
\* last one.
LEMMA FreedTimers ==
  ASSUME TypeOK, TimersAgree, NEW n \in Peers, sending = n, queue[n] # <<>>,
         FreeFirstPacket(n), UNCHANGED events,
         IF Tail(queue[n]) # <<>> THEN sending' \in {n, Nobody} ELSE sending' = Nobody
  PROVE  TimersAgree'
<1>0. n # Nobody /\ Nobody \notin Peers
  BY PeersApart
<1>1. queue' = [queue EXCEPT ![n] = Tail(@)] /\ queue \in [Peers -> Seq(Packet)]
      /\ timer \in [Peers -> {"off", "running", "expired", "posted"}]
  BY DEF FreeFirstPacket, TypeOK
<1>2. timer' = [timer EXCEPT ![n] = IF Tail(queue[n]) # <<>> THEN "running" ELSE "off"]
  BY DEF FreeFirstPacket, SetTimer
<1>3. Neighbors' \subseteq Neighbors
  BY <1>1 DEF Neighbors
<1>4. Cardinality(Neighbors') <= MaxNeighbors
  <2>1. Cardinality(Neighbors') <= Cardinality(Neighbors) /\ Cardinality(Neighbors') \in Nat
    BY <1>3, NeighborsFinite, FS_Subset, FS_CardinalityType
  <2> QED BY <2>1, NeighborsFinite, GatewayAssumption DEF TimersAgree
<1>5. QueueHasTimer'
  BY <1>0, <1>1, <1>2 DEF TimersAgree, QueueHasTimer
<1>6. \A m \in Peers : timer'[m] = "posted" <=> m \in Elements(events)'
  BY <1>1, <1>2 DEF TimersAgree, Elements
<1>7. \A m \in Peers : sending' = m => timer'[m] # "posted"
  BY <1>0, <1>1, <1>2 DEF TimersAgree
<1> QED BY <1>4, <1>5, <1>6, <1>7 DEF TimersAgree

\* The burst ends and a timer is set for the packet that is left.
LEMMA SetTimers ==
  ASSUME TypeOK, TimersAgree, NEW n \in Peers, sending = n, queue[n] # <<>>,
         SetTimer(n), UNCHANGED <<events, queue>>, sending' = Nobody
  PROVE  TimersAgree'
<1>1. timer' = [timer EXCEPT ![n] = "running"]
      /\ timer \in [Peers -> {"off", "running", "expired", "posted"}]
  BY DEF SetTimer, TypeOK
<1>2. Neighbors' = Neighbors
  BY DEF Neighbors
<1> QED BY <1>1, <1>2, PeersApart DEF TimersAgree, QueueHasTimer, Elements

\* A packet is queued, or there is no room for it.
LEMMA SendPacketTimers ==
  ASSUME TypeOK, TimersAgree, NEW n \in Peers, NEW k \in 0 .. Len(Lines),
         SendPacket(n, k), UNCHANGED <<events, sending>>
  PROVE  TimersAgree'
<1>1. CASE UNCHANGED queue
  <2>1. UNCHANGED timer
    BY <1>1 DEF SendPacket
  <2> QED BY <1>1, <2>1, TimersUntouched DEF Elements
<1>2. CASE queue' # queue
  <2>1. PICK s \in SeqOfPacket : queue' = [queue EXCEPT ![n] = Append(@, [line |-> k, seq |-> s])]
    BY <1>2 DEF SendPacket
  <2>2. n \in Neighbors \/ Cardinality(Neighbors) < MaxNeighbors
    BY <1>2 DEF SendPacket
  <2> DEFINE p == [line |-> k, seq |-> s]
  <2>3. Append(queue[n], p) # <<>>
    <3>1. queue[n] \in Seq(Packet) /\ queue'[n] \in Seq(Packet)
      BY SendPacketTyped DEF TypeOK
    <3>2. Len(Append(queue[n], p)) = Len(queue[n]) + 1 /\ Len(queue[n]) \in Nat
      BY <3>1
    <3>3. Len(Append(queue[n], p)) # 0
      BY ONLY <3>2
    <3>4. Len(<<>>) = 0
      OBVIOUS
    <3> QED BY ONLY <3>3, <3>4
  <2> HIDE DEF p
  <2>4. queue' = [queue EXCEPT ![n] = Append(@, p)] /\ queue \in [Peers -> Seq(Packet)]
    BY <2>1 DEF p, TypeOK
  <2>5. \A m \in Peers : queue'[m] # <<>> <=> queue[m] # <<>> \/ m = n
    BY <2>3, <2>4
  <2>6. timer' = IF queue[n] = <<>> THEN [timer EXCEPT ![n] = "expired"] ELSE timer
    BY <2>5 DEF SendPacket
  <2>7. Neighbors' = Neighbors \cup {n}
    BY <2>5 DEF Neighbors
  <2>8. Cardinality(Neighbors') <= MaxNeighbors
    <3>1. CASE n \in Neighbors
      <4>1. Neighbors' = Neighbors
        BY <2>7, <3>1
      <4> QED BY <4>1 DEF TimersAgree
    <3>2. CASE n \notin Neighbors
      <4>1. Cardinality(Neighbors') = Cardinality(Neighbors) + 1
        BY <2>7, <3>2, NeighborsFinite, FS_AddElement
      <4> QED BY <2>2, <3>2, <4>1, NeighborsFinite, GatewayAssumption
    <3> QED BY <3>1, <3>2
  <2>9. timer \in [Peers -> {"off", "running", "expired", "posted"}]
    BY DEF TypeOK
  <2>10. queue[n] = <<>> => timer[n] = "off" /\ sending # n
    BY DEF TimersAgree, QueueHasTimer
  <2>11. QueueHasTimer'
    BY <2>5, <2>6, <2>9, <2>10 DEF TimersAgree, QueueHasTimer
  <2>12. \A m \in Peers : timer'[m] = "posted" <=> m \in Elements(events)'
    BY <2>6, <2>9, <2>10 DEF TimersAgree, Elements
  <2>13. \A m \in Peers : sending' = m => timer'[m] # "posted"
    BY <2>6, <2>9 DEF TimersAgree
  <2> QED BY <2>8, <2>11, <2>12, <2>13 DEF TimersAgree
<1> QED BY <1>1, <1>2

LEMMA TimersStep == GatewayInv /\ [Next]_vars => TimersAgree'
<1> SUFFICES ASSUME GatewayInv, [Next]_vars PROVE TimersAgree'
  OBVIOUS
<1>0. TypeOK /\ CpuConsistent /\ EventsInOrder /\ TimersAgree /\ PostsSucceed
  BY RoomForEvents DEF GatewayInv
<1>1. CASE UNCHANGED <<events, queue, timer, sending>>
  BY <1>0, <1>1, TimersUntouched DEF Elements
<1>2. CASE UartInterrupt \/ UartError
  BY <1>1, <1>2 DEF UartInterrupt, UartError, csma, radio
<1>3. CASE \/ Sleep \/ ProcessRun \/ PollSerial \/ PollEtimer \/ NoEvent
           \/ PollInBroadcast \/ EndBroadcast
  BY <1>1, <1>3 DEF Sleep, ProcessRun, PollSerial, PollEtimer, NoEvent, PollInBroadcast,
     EndBroadcast, csma, radio
<1>4. CASE RingEmpty \/ TakePiece \/ EndExpire
  BY <1>1, <1>4 DEF RingEmpty, TakePiece, EndExpire, csma, radio
<1>5. CASE Continue \/ DeliverLine
  <2>1. events # <<>> /\ events' = Tail(events) /\ Head(events) \in {"line", "continue"}
        /\ UNCHANGED <<queue, timer, sending>>
    BY <1>5 DEF Continue, DeliverLine, csma, radio
  <2>2. Elements(events)' = Elements(events) \ {Head(events)}
    BY <1>0, <2>1, EventTaken
  <2> QED BY <1>0, <2>1, <2>2, TimersUntouched, PeersApart
<1>6. CASE EndLine
  <2>1. events' = events \o <<"line", "continue">> /\ UNCHANGED <<queue, timer, sending>>
    BY <1>0, <1>6 DEF EndLine, PostsSucceed, csma, radio
  <2>2. events \o <<"line", "continue">> = Append(Append(events, "line"), "continue")
        /\ Append(events, "line") \in Seq({"line", "continue"} \cup Peers)
        /\ events \in Seq({"line", "continue"} \cup Peers)
    <3>1. events \in Seq({"line", "continue"} \cup Peers)
      BY <1>0 DEF TypeOK
    <3>2. Append(events, "line") \in Seq({"line", "continue"} \cup Peers)
      BY <3>1
    <3>3. Len(events \o <<"line", "continue">>) = Len(Append(Append(events, "line"), "continue"))
      BY <3>1, <3>2
    <3>4. \A j \in 1 .. Len(events) + 2 :
            (events \o <<"line", "continue">>)[j] = Append(Append(events, "line"), "continue")[j]
      BY <3>1, <3>2
    <3>5. /\ events \o <<"line", "continue">> \in Seq({"line", "continue"} \cup Peers)
          /\ Append(Append(events, "line"), "continue") \in Seq({"line", "continue"} \cup Peers)
          /\ Len(events \o <<"line", "continue">>) = Len(events) + 2
      BY <3>1, <3>2
    <3>6. events \o <<"line", "continue">> = Append(Append(events, "line"), "continue")
      BY <3>3, <3>4, <3>5, SeqEqual
    <3> QED BY <3>1, <3>2, <3>6
  <2>3. Elements(events)' = Elements(Append(Append(events, "line"), "continue"))
    BY <2>1, <2>2 DEF Elements
  <2>4. Elements(Append(Append(events, "line"), "continue"))
          = Elements(events) \cup {"line"} \cup {"continue"}
    <3>1. Elements(Append(events, "line")) = Elements(events) \cup {"line"}
      BY <2>2, AppendElements
    <3> DEFINE s == Append(events, "line")
    <3> HIDE DEF s
    <3>2. s \in Seq({"line", "continue"} \cup Peers)
      BY <2>2 DEF s
    <3>3. Elements(Append(s, "continue")) = Elements(s) \cup {"continue"}
      BY <3>2, AppendElements
    <3> QED BY <3>1, <3>3 DEF s
  <2> QED BY <1>0, <2>1, <2>3, <2>4, TimersUntouched, PeersApart
<1>7. CASE ShellInput
  <2>1. UNCHANGED <<events, sending>>
    BY <1>7 DEF ShellInput, radio
  <2>2. ASSUME NEW k \in 1 .. Len(Lines), SendPacket(Lines[k], k) PROVE TimersAgree'
    <3>1. Lines[k] \in Peers /\ k \in 0 .. Len(Lines)
      BY GatewayAssumption
    <3> QED BY <1>0, <2>1, <2>2, <3>1, SendPacketTimers
  <2>3. ASSUME NEW n \in Peers, SendPacket(n, Garbage) PROVE TimersAgree'
    <3>1. Garbage \in 0 .. Len(Lines)
      BY GatewayAssumption DEF Garbage
    <3> QED BY <1>0, <2>1, <2>3, <3>1, SendPacketTimers
  <2>4. CASE UNCHANGED <<csma, needspoll, poll_requested>>
    BY <1>1, <2>1, <2>4 DEF csma
  <2> QED BY <1>7, <2>2, <2>3, <2>4 DEF ShellInput
<1>8. ASSUME NEW n \in Peers, ClockInterrupt(n) PROVE TimersAgree'
  <2>1. timer[n] = "running" /\ timer' = [timer EXCEPT ![n] = "expired"]
        /\ UNCHANGED <<events, queue, sending>>
    BY <1>8 DEF ClockInterrupt, radio
  <2> QED BY <1>0, <2>1 DEF TypeOK, TimersAgree, QueueHasTimer, Neighbors, Elements
<1>9. ASSUME NEW n \in Peers, PostTimer(n) PROVE TimersAgree'
  <2>1. n \notin Elements(events) /\ sending = Nobody
    BY <1>0, <1>9 DEF PostTimer, TimersAgree, CpuConsistent
  <2>2. timer[n] = "expired" /\ timer' = [timer EXCEPT ![n] = "posted"]
        /\ UNCHANGED <<queue, sending>>
    BY <1>9 DEF PostTimer, radio
  <2>3. Elements(events)' = Elements(events) \cup {n}
    BY <1>0, <1>9, <2>1, EventPosted, PeersApart DEF PostTimer
  <2> QED BY <1>0, <2>1, <2>2, <2>3, PeersApart DEF TypeOK, TimersAgree, QueueHasTimer, Neighbors
<1>10. ASSUME NEW n \in Peers, TransmitPacketList(n) PROVE TimersAgree'
  <2>1. Elements(events)' = Elements(events) \ {n}
    BY <1>0, <1>10, EventTaken DEF TransmitPacketList
  <2>2. n \in Elements(events)
    BY <1>0, <1>10, EmptySeq, LenProperties, HeadTailProperties
     DEF TransmitPacketList, TypeOK, Elements
  <2>3. sending = Nobody /\ sending' = n /\ timer' = [timer EXCEPT ![n] = "off"]
        /\ UNCHANGED queue
    BY <1>0, <1>10 DEF TransmitPacketList, CpuConsistent
  <2>4. timer[n] = "posted"
    BY <1>0, <2>2 DEF TimersAgree
  <2> QED BY <1>0, <2>1, <2>3, <2>4, PeersApart DEF TypeOK, TimersAgree, QueueHasTimer, Neighbors
<1>11. \A n \in Peers : sending = n => queue[n] # <<>>
  BY <1>0 DEF TimersAgree, QueueHasTimer
<1>12. ASSUME NEW n \in Peers, TransmitOK(n) PROVE TimersAgree'
  <2>1. IF Tail(queue[n]) # <<>> THEN sending' \in {n, Nobody} ELSE sending' = Nobody
    BY <1>12 DEF TransmitOK, EndBurst
  <2> QED BY <1>0, <1>11, <1>12, <2>1, FreedTimers DEF TransmitOK
<1>13. ASSUME NEW n \in Peers, TransmitNoAck(n) PROVE TimersAgree'
  <2>1. sending = n /\ sending' = Nobody /\ UNCHANGED events
    BY <1>13 DEF TransmitNoAck, EndBurst
  <2>2. CASE FreeFirstPacket(n)
    BY <1>0, <1>11, <2>1, <2>2, FreedTimers
  <2>3. CASE SetTimer(n) /\ UNCHANGED queue
    BY <1>0, <1>11, <2>1, <2>3, SetTimers
  <2> QED BY <1>13, <2>2, <2>3 DEF TransmitNoAck
<1>14. ASSUME NEW n \in Peers, TransmitLater(n) PROVE TimersAgree'
  BY <1>0, <1>11, <1>14, SetTimers DEF TransmitLater, EndBurst
<1>15. CASE UNCHANGED vars
  BY <1>1, <1>15 DEF vars
<1> QED BY <1>2, <1>3, <1>4, <1>5, <1>6, <1>7, <1>8, <1>9, <1>10, <1>12, <1>13,
           <1>14, <1>15 DEF Next, Kernel, Processes

LEMMA ForgottenStep == GatewayInv /\ [Next]_vars => NothingForgotten'
<1> SUFFICES ASSUME GatewayInv, [Next]_vars PROVE NothingForgotten'
  OBVIOUS
<1>0. /\ TypeOK /\ CpuConsistent /\ EventsInOrder /\ TimersAgree /\ NothingForgotten
      /\ timer \in [Peers -> {"off", "running", "expired", "posted"}]
  BY DEF GatewayInv, TypeOK
<1> USE <1>0 DEF CpuConsistent, NothingForgotten, ReadsRing
<1>1. CASE UartInterrupt
  BY <1>1 DEF UartInterrupt, ProcessPoll, Wake, reader, csma
<1>2. CASE UartError
  BY <1>2 DEF UartError, reader, csma
<1>3. CASE Sleep
  BY <1>3 DEF Sleep, Idle, input, reader, csma
<1>4. CASE ProcessRun
  BY <1>4 DEF ProcessRun, input, reader, csma
<1>5. CASE PollSerial
  BY <1>5 DEF PollSerial, input, reader, csma
<1>6. CASE PollEtimer
  BY <1>6 DEF PollEtimer, AfterPoll, input, reader, csma
<1>7. CASE NoEvent
  BY <1>7 DEF NoEvent, input, reader, csma
<1>8. CASE Continue
  BY <1>8 DEF Continue, input, csma
<1>9. CASE DeliverLine
  BY <1>9 DEF DeliverLine, input, reader, csma
<1>10. CASE PollInBroadcast
  BY <1>10 DEF PollInBroadcast, input, reader, csma
<1>11. CASE EndBroadcast
  BY <1>11 DEF EndBroadcast, input, reader, csma
<1>12. CASE RingEmpty
  BY <1>12 DEF RingEmpty, Yield, input, reader, csma
<1>13. CASE TakePiece
  BY <1>13 DEF TakePiece, csma
<1>14. CASE EndLine
  <2>1. Len(events) + 2 <= NumEvents
    BY <1>14, RoomForEvents DEF EndLine, PostsSucceed
  <2> QED BY <1>14, <2>1 DEF EndLine, Yield, csma
<1>15. CASE EndExpire
  BY <1>15 DEF EndExpire, ProcessPoll, AfterPoll, input, reader, csma
<1>16. CASE ShellInput
  <2>1. UNCHANGED <<rxbuf, serial, cpu, events>> /\ cpu = "deliver"
    BY <1>16 DEF ShellInput, input, reader
  <2>2. ASSUME NEW n \in Peers, NEW k, SendPacket(n, k) PROVE NothingForgotten'
    <3>1. CASE UNCHANGED <<timer, needspoll, poll_requested>>
      BY <2>1, <3>1
    <3>2. CASE ProcessPoll("etimer")
      BY <2>1, <3>2 DEF ProcessPoll
    <3> QED BY <2>2, <3>1, <3>2 DEF SendPacket
  <2>3. CASE UNCHANGED <<csma, needspoll, poll_requested>>
    BY <2>1, <2>3 DEF csma
  <2>4. \A k \in 1 .. Len(Lines) : Lines[k] \in Peers
    BY GatewayAssumption
  <2> QED BY <1>16, <2>2, <2>3, <2>4 DEF ShellInput
<1>17. ASSUME NEW n \in Peers, ClockInterrupt(n) PROVE NothingForgotten'
  BY <1>17 DEF ClockInterrupt, ProcessPoll, Wake, input, reader
<1>18. ASSUME NEW n \in Peers, PostTimer(n) PROVE NothingForgotten'
  BY <1>18 DEF PostTimer, input, reader
<1>19. ASSUME NEW n \in Peers, TransmitPacketList(n) PROVE NothingForgotten'
  BY <1>19 DEF TransmitPacketList, input, reader
<1>20. ASSUME NEW n \in Peers, cpu = "transmit", cpu' \in {"transmit", "run"},
              UNCHANGED <<rxbuf, serial>>, SetTimer(n) \/ FreeFirstPacket(n)
       PROVE  NothingForgotten'
  BY <1>20 DEF FreeFirstPacket, SetTimer, ProcessPoll
<1>21. ASSUME NEW n \in Peers, TransmitOK(n) \/ TransmitNoAck(n) \/ TransmitLater(n)
       PROVE  NothingForgotten'
  <2>1. cpu = "transmit" /\ cpu' \in {"transmit", "run"} /\ UNCHANGED <<rxbuf, serial>>
    BY <1>21 DEF TransmitOK, TransmitNoAck, TransmitLater, EndBurst, input, reader
  <2>2. SetTimer(n) \/ FreeFirstPacket(n)
    BY <1>21 DEF TransmitOK, TransmitNoAck, TransmitLater
  <2> QED BY <1>20, <2>1, <2>2
<1>22. CASE UNCHANGED vars
  BY <1>22 DEF vars
<1> QED BY <1>1, <1>2, <1>3, <1>4, <1>5, <1>6, <1>7, <1>8, <1>9, <1>10, <1>11, <1>12,
       <1>13, <1>14, <1>15, <1>16, <1>17, <1>18, <1>19, <1>21, <1>22 DEF Next, Kernel,
       Processes

-----------------------------------------------------------------------------
(* The order of what is read *)

\* What may be read after piece p: the next piece, the first one of a line, or
\* the newline with which an overflow ends.
Follows(p, q) ==
  IsNewline(q) \/ IF IsNewline(p) THEN IsNewline(q - 1) ELSE q = p + 1

\* What may come next for buf, while it has room.
Continues(q) ==
  \/ IsNewline(q)
  \/ IF serial = "waiting" \/ buf = <<>> THEN IsNewline(q - 1)
     ELSE Len(buf) < RingSize => q = buf[Len(buf)] + 1

\* buf is a run of pieces that begins a line.
RunFromStart ==
  /\ buf # <<>> => IsNewline(buf[1] - 1)
  /\ \A j \in 1 .. Len(buf) : buf[j] = buf[1] + j - 1 /\ ~ IsNewline(buf[j])

\* When the UART loses nothing, the lines come through rxbuf in order, and one
\* that was cut short by an overflow is followed by a newline.
LinesInOrder ==
  errors = 0 =>
    /\ RunFromStart
    /\ \A j \in 1 .. Len(rxbuf) - 1 : Follows(rxbuf[j], rxbuf[j + 1])
    /\ rxbuf # <<>> => Continues(Head(rxbuf))
    /\ ~ overflow => IF rxbuf = <<>> THEN Continues(written + 1)
                     ELSE rxbuf[Len(rxbuf)] = written

\* A piece from the UART finds its place: behind the last one of its line, or
\* as the newline that ends an overflow.
LEMMA UartOrder ==
  ASSUME TypeOK, LinesInOrder, UartInterrupt
  PROVE  LinesInOrder'
<1> SUFFICES ASSUME errors = 0 PROVE LinesInOrder'
  BY DEF LinesInOrder, UartInterrupt
<1> DEFINE piece == written + 1
<1>1. /\ rxbuf \in Seq(1 .. written) /\ RingSize \in Nat \ {0} /\ written \in Nat
      /\ Len(rxbuf) \in Nat /\ Len(rxbuf) <= RingSize /\ overflow \in BOOLEAN
      /\ \A j \in 1 .. Len(rxbuf) : rxbuf[j] \in Nat
  BY GatewayAssumption DEF TypeOK
<1>2. /\ UNCHANGED <<buf, serial, errors>> /\ written' = piece
      /\ InputByte
  BY DEF UartInterrupt, reader
<1>3. RunFromStart' /\ \A q : Continues(q)' <=> Continues(q)
  BY <1>2 DEF LinesInOrder, RunFromStart, Continues
<1>4. CASE UNCHANGED rxbuf /\ overflow'
  BY <1>2, <1>3, <1>4 DEF LinesInOrder
<1>5. CASE /\ ~ overflow \/ IsNewline(piece)
           /\ rxbuf' = Append(rxbuf, piece)
  <2>1. /\ Len(rxbuf') = Len(rxbuf) + 1 /\ rxbuf'[Len(rxbuf) + 1] = piece
        /\ \A j \in 1 .. Len(rxbuf) : rxbuf'[j] = rxbuf[j]
        /\ rxbuf' # <<>>
    BY <1>1, <1>5
  <2>2. \A j \in 1 .. Len(rxbuf') - 1 : Follows(rxbuf'[j], rxbuf'[j + 1])
    <3> SUFFICES ASSUME NEW j \in 1 .. Len(rxbuf) PROVE Follows(rxbuf'[j], rxbuf'[j + 1])
      BY <1>1, <2>1
    <3>1. CASE j = Len(rxbuf)
      <4>1. rxbuf # <<>> /\ rxbuf'[j] = rxbuf[Len(rxbuf)] /\ rxbuf'[j + 1] = piece
        BY <1>1, <2>1, <3>1
      <4>2. CASE IsNewline(piece)
        BY <4>1, <4>2 DEF Follows
      <4>3. CASE ~ overflow
        <5>1. rxbuf[Len(rxbuf)] = written /\ piece - 1 = written
          BY <1>1, <4>1, <4>3 DEF LinesInOrder
        <5> QED BY <4>1, <5>1 DEF Follows
      <4> QED BY <1>5, <4>2, <4>3
    <3>2. CASE j # Len(rxbuf)
      <4>1. j \in 1 .. Len(rxbuf) - 1 /\ j + 1 \in 1 .. Len(rxbuf)
        BY <1>1, <3>2
      <4> QED BY <2>1, <4>1 DEF LinesInOrder
    <3> QED BY <3>1, <3>2
  <2>3. Continues(Head(rxbuf'))
    <3>1. CASE rxbuf = <<>>
      <4>1. Head(rxbuf') = piece
        BY <1>5, <3>1
      <4>2. CASE IsNewline(piece)
        BY <4>1, <4>2 DEF Continues
      <4>3. CASE ~ overflow
        BY <3>1, <4>1, <4>3 DEF LinesInOrder
      <4> QED BY <1>5, <4>2, <4>3
    <3>2. CASE rxbuf # <<>>
      <4>1. Head(rxbuf') = Head(rxbuf)
        BY <1>1, <1>5, <3>2
      <4> QED BY <3>2, <4>1 DEF LinesInOrder
    <3> QED BY <3>1, <3>2
  <2>4. rxbuf'[Len(rxbuf')] = written'
    BY <1>2, <2>1
  <2>5. Continues(Head(rxbuf))'
    BY <1>2, <2>3 DEF Continues
  <2> QED BY <1>3, <2>1, <2>2, <2>4, <2>5 DEF LinesInOrder
<1>6. CASE ~ (~ overflow \/ IsNewline(piece))
  <2>1. rxbuf' = rxbuf /\ overflow' = TRUE
    BY <1>2, <1>6 DEF InputByte
  <2> QED BY <1>4, <2>1
<1>7. CASE (~ overflow \/ IsNewline(piece)) /\ Len(rxbuf) = RingSize
  <2>1. RingbufPut(piece) = rxbuf
    BY <1>1, <1>7 DEF RingbufPut
  <2>2. rxbuf' = rxbuf
    BY <1>2, <1>7, <2>1 DEF InputByte
  <2>3. overflow' = (Len(rxbuf) = RingSize)
    BY <1>2, <1>7, Zenon DEF InputByte
  <2> QED BY <1>4, <1>7, <2>2, <2>3, Zenon
<1>8. CASE (~ overflow \/ IsNewline(piece)) /\ Len(rxbuf) # RingSize
  <2>1. rxbuf' = Append(rxbuf, piece)
    BY <1>1, <1>2, <1>8 DEF InputByte, RingbufPut
  <2> QED BY <1>5, <1>8, <2>1
<1> QED BY <1>6, <1>7, <1>8

\* What is left of rxbuf when its first piece is read.
LEMMA RestOrder ==
  ASSUME TypeOK, LinesInOrder, errors = 0, rxbuf # <<>>, rxbuf' = Tail(rxbuf),
         UNCHANGED <<written, overflow>>
  PROVE  /\ Head(rxbuf) \in Nat
         /\ \A j \in 1 .. Len(rxbuf') - 1 : Follows(rxbuf'[j], rxbuf'[j + 1])
         /\ rxbuf' # <<>> => Follows(Head(rxbuf), Head(rxbuf'))
         /\ ~ overflow => IF rxbuf' = <<>> THEN Head(rxbuf) = written
                          ELSE rxbuf'[Len(rxbuf')] = written'
<1>1. /\ rxbuf \in Seq(1 .. written) /\ Len(rxbuf) \in Nat /\ Len(rxbuf) # 0
      /\ Head(rxbuf) = rxbuf[1] /\ Head(rxbuf) \in 1 .. written
      /\ rxbuf' \in Seq(1 .. written) /\ Len(rxbuf') = Len(rxbuf) - 1
      /\ \A j \in 1 .. Len(rxbuf) - 1 : rxbuf'[j] = rxbuf[j + 1]
  BY EmptySeq, LenProperties, HeadTailProperties DEF TypeOK
<1>2. \A j \in 1 .. Len(rxbuf) - 1 : Follows(rxbuf[j], rxbuf[j + 1])
  BY DEF LinesInOrder
<1>3. \A j \in 1 .. Len(rxbuf') - 1 : Follows(rxbuf'[j], rxbuf'[j + 1])
  <2> SUFFICES ASSUME NEW j \in 1 .. Len(rxbuf') - 1
               PROVE  Follows(rxbuf'[j], rxbuf'[j + 1])
    OBVIOUS
  <2>1. /\ j \in 1 .. Len(rxbuf) - 1 /\ j + 1 \in 1 .. Len(rxbuf) - 1
    BY <1>1
  <2> QED BY <1>1, <1>2, <2>1
<1>4. ASSUME rxbuf' # <<>> PROVE Follows(Head(rxbuf), Head(rxbuf'))
  <2>1. Len(rxbuf') # 0 /\ Head(rxbuf') = rxbuf'[1]
    BY <1>1, <1>4, EmptySeq
  <2>2. 1 \in 1 .. Len(rxbuf) - 1
    BY <1>1, <2>1
  <2> QED BY <1>1, <1>2, <2>1, <2>2
<1>5. ASSUME ~ overflow
      PROVE  IF rxbuf' = <<>> THEN Head(rxbuf) = written
             ELSE rxbuf'[Len(rxbuf')] = written'
  <2>1. rxbuf[Len(rxbuf)] = written
    BY <1>5 DEF LinesInOrder
  <2>2. CASE rxbuf' = <<>>
    BY <1>1, <2>1, <2>2, EmptySeq
  <2>3. CASE rxbuf' # <<>>
    <3>1. Len(rxbuf') # 0
      BY <1>1, <2>3, EmptySeq
    <3>2. Len(rxbuf) - 1 \in 1 .. Len(rxbuf) - 1 /\ (Len(rxbuf) - 1) + 1 = Len(rxbuf)
      BY <1>1, <3>1
    <3> QED BY <1>1, <2>1, <2>3, <3>2
  <2> QED BY <2>2, <2>3
<1> QED BY <1>1, <1>3, <1>4, <1>5

\* serial_line_process adds a piece to buf, or drops it when buf is full.
LEMMA TakeOrder ==
  ASSUME TypeOK, CpuConsistent, LinesInOrder, TakePiece
  PROVE  LinesInOrder'
<1> SUFFICES ASSUME errors = 0 PROVE LinesInOrder'
  BY DEF LinesInOrder, TakePiece
<1> DEFINE q == Head(rxbuf)
           full == ~ (Len(buf) < RingSize)
<1>1. /\ UNCHANGED <<written, overflow, serial, errors>> /\ rxbuf # <<>>
      /\ rxbuf' = Tail(rxbuf) /\ ~ IsNewline(q)
      /\ buf' = IF Len(buf) < RingSize THEN Append(buf, q) ELSE buf
      /\ serial = "filling"
  BY DEF TakePiece, CpuConsistent
<1>2. /\ q \in Nat
      /\ \A j \in 1 .. Len(rxbuf') - 1 : Follows(rxbuf'[j], rxbuf'[j + 1])
      /\ rxbuf' # <<>> => Follows(q, Head(rxbuf'))
      /\ ~ overflow => IF rxbuf' = <<>> THEN q = written
                       ELSE rxbuf'[Len(rxbuf')] = written'
  BY <1>1, RestOrder
<1>3. /\ buf \in Seq(1 .. written) /\ Len(buf) \in Nat /\ RingSize \in Nat \ {0}
      /\ written \in Nat /\ \A j \in 1 .. Len(buf) : buf[j] \in Nat
  BY GatewayAssumption DEF TypeOK
<1>4. CASE full
  <2>1. buf' = buf /\ buf # <<>>
    BY <1>1, <1>3, <1>4
  <2>2. RunFromStart'
    BY <2>1 DEF LinesInOrder, RunFromStart
  <2>3. \A x : Continues(x)'
    BY <1>1, <1>4, <2>1 DEF Continues
  <2> QED BY <1>1, <1>2, <2>2, <2>3 DEF LinesInOrder
<1>5. CASE ~ full
  <2>1. /\ buf' = Append(buf, q) /\ Len(buf') = Len(buf) + 1 /\ buf' # <<>>
        /\ buf'[Len(buf) + 1] = q /\ \A j \in 1 .. Len(buf) : buf'[j] = buf[j]
    BY <1>1, <1>2, <1>3, <1>5
  <2>2. Continues(q)
    BY <1>1 DEF LinesInOrder
  <2>3. IF buf = <<>> THEN IsNewline(q - 1) ELSE q = buf[Len(buf)] + 1
    BY <1>1, <1>5, <2>2 DEF Continues
  <2>4. RunFromStart'
    <3>1. CASE buf = <<>>
      <4>1. buf' = <<q>> /\ buf'[1] = q /\ Len(buf') = 1
        BY <1>2, <2>1, <3>1
      <4>2. \A j \in 1 .. Len(buf') : j = 1 /\ buf'[j] = buf'[1] + j - 1
        BY <1>2, <4>1
      <4> QED BY <1>1, <2>3, <3>1, <4>1, <4>2 DEF RunFromStart
    <3>2. CASE buf # <<>>
      <4>1. Len(buf) \in 1 .. Len(buf) /\ 1 \in 1 .. Len(buf)
        BY <1>3, <3>2, EmptySeq
      <4>2. buf'[1] = buf[1] /\ IsNewline(buf[1] - 1) /\ buf[1] \in Nat
        BY <1>3, <2>1, <3>2, <4>1 DEF LinesInOrder, RunFromStart
      <4>3. q = buf[1] + (Len(buf) + 1) - 1
        <5>1. buf[Len(buf)] = buf[1] + Len(buf) - 1
          BY <4>1 DEF LinesInOrder, RunFromStart
        <5> QED BY <1>3, <2>3, <3>2, <4>2, <5>1
      <4>4. ASSUME NEW j \in 1 .. Len(buf')
            PROVE  buf'[j] = buf'[1] + j - 1 /\ ~ IsNewline(buf'[j])
        <5>1. CASE j = Len(buf) + 1
          BY <1>1, <2>1, <4>2, <4>3, <5>1
        <5>2. CASE j \in 1 .. Len(buf)
          BY <2>1, <4>2, <5>2 DEF LinesInOrder, RunFromStart
        <5> QED BY <1>3, <2>1, <5>1, <5>2
      <4> QED BY <4>2, <4>4 DEF RunFromStart
    <3> QED BY <3>1, <3>2
  <2>5. ASSUME NEW x, IsNewline(x) \/ x = q + 1 PROVE Continues(x)'
    BY <1>1, <2>1, <2>5 DEF Continues
  <2>6. rxbuf' # <<>> => Continues(Head(rxbuf))'
    <3>1. PICK x : x = Head(rxbuf')
      OBVIOUS
    <3> QED BY <1>1, <1>2, <2>5, <3>1 DEF Follows
  <2>7. rxbuf' = <<>> /\ ~ overflow => Continues(written + 1)'
    <3>1. PICK x : x = written + 1
      OBVIOUS
    <3>2. rxbuf' = <<>> /\ ~ overflow => Continues(x)'
      BY <1>2, <2>5, <3>1
    <3> QED BY <1>1, <3>1, <3>2
  <2> QED BY <1>1, <1>2, <2>4, <2>6, <2>7 DEF LinesInOrder
<1> QED BY <1>4, <1>5

\* A newline is read: a line begins.
LEMMA EndLineOrder ==
  ASSUME TypeOK, LinesInOrder, PostsSucceed, EndLine
  PROVE  LinesInOrder'
<1> SUFFICES ASSUME errors = 0 PROVE LinesInOrder'
  BY DEF LinesInOrder, EndLine
<1>1. /\ UNCHANGED <<written, overflow, errors, buf>> /\ rxbuf # <<>>
      /\ rxbuf' = Tail(rxbuf) /\ IsNewline(Head(rxbuf)) /\ serial' = "waiting"
  BY DEF EndLine, PostsSucceed
<1>2. /\ Head(rxbuf) \in Nat
      /\ \A j \in 1 .. Len(rxbuf') - 1 : Follows(rxbuf'[j], rxbuf'[j + 1])
      /\ rxbuf' # <<>> => Follows(Head(rxbuf), Head(rxbuf'))
      /\ ~ overflow => IF rxbuf' = <<>> THEN Head(rxbuf) = written
                       ELSE rxbuf'[Len(rxbuf')] = written'
  BY <1>1, RestOrder
<1>3. RunFromStart'
  BY <1>1 DEF LinesInOrder, RunFromStart
<1>4. ASSUME NEW x, IsNewline(x) \/ IsNewline(x - 1) PROVE Continues(x)'
  BY <1>1, <1>4 DEF Continues
<1>5. rxbuf' # <<>> => Continues(Head(rxbuf))'
  <2>1. PICK x : x = Head(rxbuf')
    OBVIOUS
  <2> QED BY <1>1, <1>2, <1>4, <2>1 DEF Follows
<1>6. rxbuf' = <<>> /\ ~ overflow => Continues(written + 1)'
  <2>1. PICK x : x = written + 1
    OBVIOUS
  <2>2. written \in Nat /\ x - 1 = written
    BY <2>1 DEF TypeOK
  <2>3. rxbuf' = <<>> /\ ~ overflow => Continues(x)'
    BY <1>1, <1>2, <1>4, <2>2
  <2> QED BY <1>1, <2>1, <2>3
<1> QED BY <1>1, <1>2, <1>3, <1>5, <1>6 DEF LinesInOrder

\* CONTINUE empties buf, and every other step leaves what is read alone.
LEMMA OrderStep == GatewayInv /\ LinesInOrder /\ [Next]_vars => LinesInOrder'
<1> SUFFICES ASSUME GatewayInv, LinesInOrder, [Next]_vars PROVE LinesInOrder'
  OBVIOUS
<1>0. TypeOK /\ CpuConsistent /\ EventsInOrder /\ PostsSucceed
  BY RoomForEvents DEF GatewayInv
<1>1. CASE UNCHANGED <<written, rxbuf, overflow, errors, buf, serial>>
  BY <1>1 DEF LinesInOrder, RunFromStart, Continues
<1>2. CASE UartInterrupt
  BY <1>0, <1>2, UartOrder
<1>3. CASE UartError
  BY <1>0, <1>3 DEF UartError, LinesInOrder, TypeOK
<1>4. CASE Continue
  <2>1. serial = "waiting" /\ serial' = "filling" /\ buf' = <<>> /\ Len(buf') = 0
        /\ UNCHANGED <<written, rxbuf, overflow, errors>>
    <3>1. events \in Seq({"line", "continue"} \cup Peers) /\ events # <<>>
          /\ Head(events) = "continue" /\ serial \in {"filling", "waiting"}
      BY <1>0, <1>4 DEF Continue, TypeOK
    <3>2. "continue" \in Elements(events)
      <4>1. 1 \in 1 .. Len(events) /\ Head(events) = events[1]
        BY <3>1, EmptySeq, LenProperties, HeadTailProperties
      <4> QED BY <3>1, <4>1 DEF Elements
    <3>3. serial # "filling"
      BY <1>0, <3>2, PeersApart DEF EventsInOrder
    <3> QED BY <1>4, <3>1, <3>3 DEF Continue, input
  <2>2. RunFromStart'
    BY <2>1 DEF RunFromStart
  <2>3. (Continues(Head(rxbuf))' <=> Continues(Head(rxbuf)))
        /\ (Continues(written + 1)' <=> Continues(written + 1))
    BY <2>1 DEF Continues
  <2> QED BY <2>1, <2>2, <2>3 DEF LinesInOrder
<1>5. CASE TakePiece
  BY <1>0, <1>5, TakeOrder
<1>6. CASE EndLine
  BY <1>0, <1>6, EndLineOrder
<1>7. CASE \/ Sleep \/ ProcessRun \/ PollSerial \/ PollEtimer \/ NoEvent
           \/ DeliverLine \/ PollInBroadcast \/ EndBroadcast
           \/ RingEmpty \/ EndExpire \/ ShellInput
  <2>1. UNCHANGED <<written, rxbuf, overflow, errors, buf, serial>>
    BY <1>7 DEF Sleep, ProcessRun, PollSerial, PollEtimer, NoEvent, DeliverLine,
       PollInBroadcast, EndBroadcast, RingEmpty, EndExpire, ShellInput, input, reader
  <2> QED BY <1>1, <2>1
<1>8. ASSUME NEW n \in Peers,
             \/ PostTimer(n) \/ TransmitPacketList(n) \/ TransmitOK(n)
             \/ TransmitNoAck(n) \/ TransmitLater(n) \/ ClockInterrupt(n)
      PROVE  LinesInOrder'
  <2>1. UNCHANGED <<written, rxbuf, overflow, errors, buf, serial>>
    BY <1>8 DEF PostTimer, TransmitPacketList, TransmitOK, TransmitNoAck, TransmitLater,
       ClockInterrupt, input, reader
  <2> QED BY <1>1, <2>1
<1>9. CASE UNCHANGED vars
  BY <1>1, <1>9 DEF vars
<1> QED BY <1>2, <1>3, <1>4, <1>5, <1>6, <1>7, <1>8, <1>9 DEF Next, Kernel, Processes

\* The pieces that are newlines are the multiples of Pieces.
LEMMA Multiples ==
  ASSUME NEW P \in Nat \ {0}
  PROVE  /\ \A x \in Nat : x % P = 0 => \E m \in Nat : x = m * P
         /\ \A m \in Nat : (m * P) % P = 0 /\ m * P \in Nat /\ m * P + P = (m + 1) * P
         /\ \A m, l \in Nat : m * P < l * P => m < l
<1>1. ASSUME NEW x \in Nat, x % P = 0 PROVE \E m \in Nat : x = m * P
  <2>1. x \div P \in Nat /\ x = (x \div P) * P
    BY <1>1
  <2> QED BY <2>1
<1>2. ASSUME NEW m \in Nat
      PROVE  (m * P) % P = 0 /\ m * P \in Nat /\ m * P + P = (m + 1) * P
  OBVIOUS
<1>3. ASSUME NEW m \in Nat, NEW l \in Nat, m * P < l * P PROVE m < l
  BY <1>3
<1> QED BY <1>1, <1>2, <1>3

\* A run of pieces that begins a line and has no newline in it is the beginning
\* of that line.
LEMMA RunIsLine ==
  ASSUME TypeOK, RunFromStart, buf # <<>>
  PROVE  \E k \in 1 .. Len(Lines) : buf = SubSeq(Text(k), 1, Len(buf))
<1>1. /\ Pieces \in Nat \ {0} /\ Len(Lines) \in Nat /\ written \in Nat
      /\ written <= Len(Lines) * Pieces
      /\ buf \in Seq(1 .. written) /\ Len(buf) \in Nat /\ Len(buf) # 0
      /\ buf[1] \in Nat /\ 1 <= buf[1] /\ buf[1] <= written
  <2>1. Pieces \in Nat \ {0} /\ Len(Lines) \in Nat
    BY GatewayAssumption
  <2>2. Len(Lines) * Pieces \in Nat
    BY <2>1, Multiples
  <2>3. written \in Nat /\ written <= Len(Lines) * Pieces /\ buf \in Seq(1 .. written)
    BY <2>2 DEF TypeOK
  <2>4. Len(buf) \in Nat /\ Len(buf) # 0
    BY <2>3, EmptySeq
  <2>5. buf[1] \in 1 .. written
    BY <2>3, <2>4
  <2> QED BY <2>1, <2>3, <2>4, <2>5
<1>2. PICK m \in Nat : buf[1] - 1 = m * Pieces
  <2>1. buf[1] - 1 \in Nat /\ (buf[1] - 1) % Pieces = 0
    BY <1>1 DEF RunFromStart, IsNewline
  <2> QED BY <1>1, <2>1, Multiples
<1>3. m < Len(Lines)
  <2>1. m * Pieces \in Nat /\ Len(Lines) * Pieces \in Nat /\ m * Pieces < Len(Lines) * Pieces
    BY <1>1, <1>2
  <2> QED BY <1>1, <2>1, Multiples
<1>4. PICK c \in Nat : c = m * Pieces
  BY <1>1, Multiples
<1>5. buf[1] = c + 1
  BY <1>1, <1>2, <1>4
<1>6. Len(buf) <= Pieces - 1
  <2> SUFFICES ASSUME ~ (Len(buf) <= Pieces - 1) PROVE FALSE
    OBVIOUS
  <2>1. Pieces \in 1 .. Len(buf) /\ Pieces \in Nat
    BY <1>1
  <2>2. buf[Pieces] = buf[1] + Pieces - 1 /\ ~ IsNewline(buf[Pieces])
    BY <2>1 DEF RunFromStart
  <2>3. PICK k \in Nat : k = m + 1 /\ k * Pieces = m * Pieces + Pieces
    BY <1>1, Multiples
  <2>4. (k * Pieces) % Pieces = 0
    BY <1>1, Multiples
  <2>5. buf[Pieces] = c + Pieces
    BY <1>5, <2>1, <2>2
  <2> QED BY <1>4, <2>2, <2>3, <2>4, <2>5 DEF IsNewline
<1>7. \A j \in 1 .. Len(buf) : j \in 1 .. Pieces - 1 /\ buf[j] = Text(m + 1)[j]
  <2> SUFFICES ASSUME NEW j \in 1 .. Len(buf)
               PROVE  j \in 1 .. Pieces - 1 /\ buf[j] = Text(m + 1)[j]
    OBVIOUS
  <2>1. j \in 1 .. Pieces - 1
    BY <1>1, <1>6
  <2>2. buf[j] = buf[1] + j - 1
    BY DEF RunFromStart
  <2>3. buf[j] = c + j
    BY <1>5, <2>2
  <2>4. Text(m + 1)[j] = c + j
    <3>1. (m + 1) - 1 = m
      OBVIOUS
    <3> QED BY <1>4, <2>1, <3>1 DEF Text
  <2> QED BY <2>1, <2>3, <2>4
<1>8. SubSeq(Text(m + 1), 1, Len(buf)) = [j \in 1 .. Len(buf) |-> Text(m + 1)[j]]
  <2>1. Text(m + 1) \in Seq(Int) /\ Len(Text(m + 1)) = Pieces - 1
    <3>1. Pieces - 1 \in Nat /\ \A j \in 1 .. Pieces - 1 : ((m + 1) - 1) * Pieces + j \in Int
      BY <1>1
    <3> QED BY <3>1 DEF Text
  <2> QED BY <1>1, <1>4, <2>1
<1>9. buf = [j \in 1 .. Len(buf) |-> buf[j]]
  BY <1>1
<1>10. buf = SubSeq(Text(m + 1), 1, Len(buf))
  BY <1>7, <1>8, <1>9
<1>11. m + 1 \in 1 .. Len(Lines)
  BY <1>1, <1>3
<1> QED BY <1>10, <1>11

-----------------------------------------------------------------------------
(* The texts of the lines *)

\* The text of line k is a run of pieces without a newline.
LEMMA TextFacts ==
  ASSUME NEW k \in 1 .. Len(Lines)
  PROVE  /\ (k - 1) * Pieces \in Nat
         /\ Elements(Text(k)) = (k - 1) * Pieces + 1 .. (k - 1) * Pieces + Pieces - 1
         /\ \E p \in Elements(Text(k)) : p = (k - 1) * Pieces + 1
         /\ \A p \in Elements(Text(k)) : p \in Nat /\ ~ IsNewline(p)
<1>1. Pieces \in Nat \ {0} /\ Pieces > 1 /\ Len(Lines) \in Nat /\ k - 1 \in Nat
  BY GatewayAssumption
<1>2. PICK c \in Nat : c = (k - 1) * Pieces /\ c % Pieces = 0
  BY <1>1, Multiples
<1>3. Text(k) = [j \in 1 .. Pieces - 1 |-> c + j] /\ Len(Text(k)) = Pieces - 1
  <2>1. Text(k) = [j \in 1 .. Pieces - 1 |-> c + j]
    BY <1>2 DEF Text
  <2>2. Pieces - 1 \in Nat
    BY <1>1
  <2> QED BY <2>1, <2>2
<1>4. Elements(Text(k)) = c + 1 .. c + Pieces - 1
  <2>1. Elements(Text(k)) = {c + j : j \in 1 .. Pieces - 1}
    BY <1>3 DEF Elements
  <2>2. \A p \in c + 1 .. c + Pieces - 1 : p - c \in 1 .. Pieces - 1 /\ p = c + (p - c)
    BY <1>1, <1>2
  <2>3. \A j \in 1 .. Pieces - 1 : c + j \in c + 1 .. c + Pieces - 1
    BY <1>1, <1>2
  <2> QED BY <2>1, <2>2, <2>3
<1>5. ASSUME NEW p \in c + 1 .. c + Pieces - 1 PROVE p \in Nat /\ ~ IsNewline(p)
  <2>1. p \in Nat
    BY <1>2
  <2> SUFFICES ASSUME IsNewline(p) PROVE FALSE
    BY <2>1
  <2>2. PICK m \in Nat : p = m * Pieces
    BY <1>1, <2>1, Multiples DEF IsNewline
  <2>3. k - 1 < m
    <3>1. (k - 1) * Pieces < m * Pieces
      BY <1>1, <1>2, <2>2
    <3> QED BY <1>1, <3>1, Multiples
  <2>4. PICK l \in Nat : l = k /\ l * Pieces = c + Pieces
    <3>1. ((k - 1) + 1) * Pieces = (k - 1) * Pieces + Pieces
      BY <1>1, Multiples
    <3> QED BY <1>2, <3>1
  <2>5. m * Pieces < l * Pieces => m < l
    BY <1>1, Multiples
  <2>6. m * Pieces < l * Pieces
    BY <1>1, <2>2, <2>4
  <2> QED BY <2>3, <2>4, <2>5, <2>6
<1>6. c + 1 \in c + 1 .. c + Pieces - 1
  BY <1>1, <1>2
<1> QED BY <1>2, <1>4, <1>5, <1>6

\* The texts of two lines are apart, in the order of the lines.
LEMMA TextsInOrder ==
  ASSUME NEW j \in 1 .. Len(Lines), NEW k \in 1 .. Len(Lines), j < k,
         NEW p \in Elements(Text(j)), NEW q \in Elements(Text(k))
  PROVE  p < q
<1>1. Pieces \in Nat \ {0} /\ Pieces > 1 /\ Len(Lines) \in Nat /\ j \in Nat /\ k - 1 \in Nat /\ j <= k - 1
  BY GatewayAssumption
<1>2. PICK c \in Nat, d \in Nat : c = (j - 1) * Pieces /\ d = (k - 1) * Pieces
  BY TextFacts
<1>3. c + Pieces = j * Pieces
  <2>1. j - 1 \in Nat /\ (j - 1) * Pieces + Pieces = ((j - 1) + 1) * Pieces
    BY <1>1, Multiples
  <2> QED BY <1>1, <1>2, <2>1
<1>4. j * Pieces \in Nat /\ (d < j * Pieces => k - 1 < j)
  BY <1>1, <1>2, Multiples
<1>5. c + Pieces <= d
  BY <1>1, <1>2, <1>3, <1>4
<1>6. p \in c + 1 .. c + Pieces - 1 /\ q \in d + 1 .. d + Pieces - 1
  BY <1>2, TextFacts
<1> QED BY ONLY <1>1, <1>2, <1>5, <1>6

\* The quotient of a division by P.
LEMMA Quotients ==
  ASSUME NEW P \in Nat \ {0}, NEW x \in Nat
  PROVE  /\ \E m \in Nat, r \in 0 .. P - 1 : x = m * P + r /\ x \div P = m
         /\ \A m \in Nat, r \in 0 .. P - 1 : x = m * P + r => x \div P = m
<1>1. (x \div P) * P <= x /\ x < (x \div P) * P + P /\ x \div P \in Nat
  OBVIOUS
<1>2. PICK c \in Nat : c = (x \div P) * P
  BY <1>1, Multiples
<1>3. x - c \in 0 .. P - 1 /\ x = c + (x - c)
  BY <1>1, <1>2
<1>4. ASSUME NEW m \in Nat, NEW r \in 0 .. P - 1, x = m * P + r
      PROVE  x \div P = m
  BY <1>4
<1> QED BY <1>1, <1>2, <1>3, <1>4

\* A line is begun with its first piece.
LEMMA NextPiece ==
  ASSUME TypeOK, written < Len(Lines) * Pieces, written' = written + 1
  PROVE  \/ /\ Begun \in Nat /\ Begun < Len(Lines) /\ Begun' = Begun + 1
            /\ \A k \in 1 .. Len(Lines) : written' \in Elements(Text(k)) <=> k = Begun'
            /\ \A p \in Elements(Text(Begun')) : p >= written'
         \/ /\ Begun' = Begun
            /\ \A k \in 1 .. Len(Lines) :
                 written' \in Elements(Text(k)) => written \in Elements(Text(k))
<1>1. Pieces \in Nat \ {0} /\ Pieces > 1 /\ Len(Lines) \in Nat /\ written \in Nat
  <2>1. Pieces \in Nat \ {0} /\ Pieces > 1 /\ Len(Lines) \in Nat
    BY GatewayAssumption
  <2>2. Len(Lines) * Pieces \in Nat
    BY <2>1, Multiples
  <2> QED BY <2>1, <2>2 DEF TypeOK
<1>2. PICK b \in Nat, c \in Nat, r \in 0 .. Pieces - 1 :
        c = b * Pieces /\ written + Pieces - 1 = c + r /\ Begun = b
  <2>1. written + Pieces - 1 \in Nat
    BY <1>1
  <2>2. PICK b \in Nat, r \in 0 .. Pieces - 1 :
          written + Pieces - 1 = b * Pieces + r /\ (written + Pieces - 1) \div Pieces = b
    BY <1>1, <2>1, Quotients
  <2>3. b * Pieces \in Nat
    BY <1>1, Multiples
  <2> QED BY <2>2, <2>3 DEF Begun
<1>3. \A x \in Nat, m \in Nat, y \in 0 .. Pieces - 1 : x = m * Pieces + y => x \div Pieces = m
  BY <1>1, Quotients
<1>4. Begun' = (written' + Pieces - 1) \div Pieces
  BY DEF Begun
<1>5. CASE r = Pieces - 1
  <2>1. written = c
    BY <1>1, <1>2, <1>5
  <2>2. Begun' = b + 1
    <3>1. b + 1 \in Nat /\ (b + 1) * Pieces = c + Pieces /\ 0 \in 0 .. Pieces - 1
      BY <1>1, <1>2, Multiples
    <3>2. written' + Pieces - 1 = (b + 1) * Pieces + 0
      BY <1>1, <1>2, <2>1, <3>1
    <3>3. written' + Pieces - 1 \in Nat
      BY <1>1
    <3> QED BY <1>3, <1>4, <3>1, <3>2, <3>3
  <2>3. b < Len(Lines)
    BY <1>1, <1>2, <2>1, Multiples
  <2>4. PICK k \in 1 .. Len(Lines) : k = b + 1 /\ k - 1 = b
    BY <1>1, <2>3
  <2>5. Elements(Text(k)) = c + 1 .. c + Pieces - 1 /\ c + 1 \in Elements(Text(k))
    BY <1>2, <2>4, TextFacts
  <2>6. ASSUME NEW j \in 1 .. Len(Lines), c + 1 \in Elements(Text(j)) PROVE j = k
    <3>1. j < k => c + 1 < c + 1
      BY <2>5, <2>6, TextsInOrder
    <3>2. k < j => c + 1 < c + 1
      BY <2>5, <2>6, TextsInOrder
    <3> QED BY <1>2, <3>1, <3>2
  <2>7. \A p \in Elements(Text(k)) : p >= c + 1
    BY <1>2, <2>5
  <2> QED BY <1>2, <2>1, <2>2, <2>3, <2>4, <2>5, <2>6, <2>7
<1>6. CASE r # Pieces - 1
  <2>1. Begun' = b
    <3>1. r + 1 \in 0 .. Pieces - 1 /\ written' + Pieces - 1 = c + (r + 1)
          /\ written' + Pieces - 1 \in Nat
      BY <1>1, <1>2, <1>6
    <3> QED BY <1>2, <1>3, <1>4, <3>1
  <2>2. ASSUME NEW k \in 1 .. Len(Lines), written' \in Elements(Text(k))
        PROVE  written \in Elements(Text(k))
    <3>1. PICK d \in Nat : d = (k - 1) * Pieces /\ Elements(Text(k)) = d + 1 .. d + Pieces - 1
      BY TextFacts
    <3>2. written # d
      <4> SUFFICES ASSUME written = d PROVE FALSE
        OBVIOUS
      <4>1. k - 1 \in Nat /\ d + Pieces - 1 = (k - 1) * Pieces + (Pieces - 1)
            /\ Pieces - 1 \in 0 .. Pieces - 1 /\ d + Pieces - 1 \in Nat
        BY <1>1, <3>1
      <4>2. b = k - 1
        BY <1>2, <1>3, <4>1 DEF Begun
      <4> QED BY <1>1, <1>2, <1>6, <3>1, <4>2
    <3> QED BY <1>1, <2>2, <3>1, <3>2
  <2> QED BY <1>2, <2>1, <2>2
<1> QED BY <1>2, <1>5, <1>6

-----------------------------------------------------------------------------
(* The order of lines and frames *)

\* Pieces are read in the order they were written, whatever is lost.
StreamInOrder ==
  /\ \A j, k \in 1 .. Len(rxbuf) : j < k => rxbuf[j] < rxbuf[k]
  /\ \A p \in Elements(buf), q \in Elements(rxbuf) : p < q

\* The whole of line k was written, and nothing of it can be read any more.
Behind(k) ==
  k # Garbage => \A p \in Elements(Text(k)) : p <= written /\ \A q \in Stream : p < q

\* The frames for a node are in the order of the lines, and only the first of
\* them may be one that the node has received.
FramesAt(n) ==
  /\ Behind(LastHeard(n)) /\ \A k \in Queued(n) : Behind(k)
  /\ \A x, y \in 1 .. Len(queue[n]) :
       x < y /\ queue[n][y].line # Garbage => queue[n][x].line < queue[n][y].line
  /\ \A x \in 1 .. Len(queue[n]) :
       \/ queue[n][x].line = Garbage \/ queue[n][x].line > LastHeard(n)
       \/ x = 1 /\ queue[n][1].seq \in Elements(received_seqnos[n])
FramesInOrder == \A n \in Peers : FramesAt(n)

\* What the serial process has and what the interrupt has stored for it.
LEMMA RingFacts ==
  ASSUME TypeOK
  PROVE  /\ written \in Nat /\ Elements(rxbuf) \subseteq 1 .. written
         /\ Elements(buf) \subseteq 1 .. written
         /\ Len(rxbuf) \in Nat /\ Stream \subseteq 1 .. written
<1>1. written \in Nat /\ rxbuf \in Seq(1 .. written) /\ buf \in Seq(1 .. written)
  BY DEF TypeOK
<1>2. Elements(rxbuf) \subseteq 1 .. written /\ Elements(buf) \subseteq 1 .. written
  BY <1>1 DEF Elements
<1> QED BY <1>1, <1>2 DEF Stream

\* The first piece is taken from the ring buffer.
LEMMA RingTaken ==
  ASSUME TypeOK, StreamInOrder, rxbuf # <<>>, rxbuf' = Tail(rxbuf)
  PROVE  /\ Elements(rxbuf)' = Elements(rxbuf) \ {Head(rxbuf)}
         /\ Head(rxbuf) \in Elements(rxbuf)
         /\ \A q \in Elements(rxbuf)' : Head(rxbuf) < q
         /\ \A j, k \in 1 .. Len(rxbuf') : j < k => rxbuf'[j] < rxbuf'[k]
<1>1. /\ rxbuf \in Seq(1 .. written) /\ Len(rxbuf) \in Nat /\ Len(rxbuf) # 0
      /\ Head(rxbuf) = rxbuf[1] /\ Len(Tail(rxbuf)) = Len(rxbuf) - 1
      /\ \A j \in 1 .. Len(rxbuf) - 1 : Tail(rxbuf)[j] = rxbuf[j + 1]
      /\ \A j \in 1 .. Len(rxbuf) : rxbuf[j] \in Nat
  BY EmptySeq, LenProperties, HeadTailProperties DEF TypeOK
<1>2. \A j, k \in 1 .. Len(rxbuf) : rxbuf[j] = rxbuf[k] => j = k
  <2> SUFFICES ASSUME NEW j \in 1 .. Len(rxbuf), NEW k \in 1 .. Len(rxbuf), j < k
               PROVE  rxbuf[j] # rxbuf[k]
    BY <1>1
  <2>1. rxbuf[j] < rxbuf[k] /\ rxbuf[j] \in Nat
    BY <1>1 DEF StreamInOrder
  <2> QED BY <2>1
<1>3. Elements(rxbuf)' = Elements(Tail(rxbuf))
  BY DEF Elements
<1>4. Elements(Tail(rxbuf)) = Elements(rxbuf) \ {Head(rxbuf)}
  BY <1>1, <1>2, TailElements
<1>5. 1 \in 1 .. Len(rxbuf) /\ \A j \in 1 .. Len(rxbuf) : j # 1 => 1 < j
  BY <1>1
<1>6. ASSUME NEW q \in Elements(rxbuf), q # Head(rxbuf) PROVE Head(rxbuf) < q
  <2>1. PICK j \in 1 .. Len(rxbuf) : q = rxbuf[j]
    BY DEF Elements
  <2>2. j # 1
    BY <1>1, <1>6, <2>1
  <2> QED BY <1>1, <1>5, <2>1, <2>2 DEF StreamInOrder
<1>7. \A j, k \in 1 .. Len(rxbuf') : j < k => rxbuf'[j] < rxbuf'[k]
  <2> SUFFICES ASSUME NEW j \in 1 .. Len(rxbuf'), NEW k \in 1 .. Len(rxbuf'), j < k
               PROVE  rxbuf'[j] < rxbuf'[k]
    OBVIOUS
  <2>1. /\ j + 1 \in 1 .. Len(rxbuf) /\ k + 1 \in 1 .. Len(rxbuf) /\ j + 1 < k + 1
        /\ rxbuf'[j] = rxbuf[j + 1] /\ rxbuf'[k] = rxbuf[k + 1]
    BY <1>1
  <2> QED BY <2>1 DEF StreamInOrder
<1>8. Head(rxbuf) \in Elements(rxbuf)
  BY <1>1, <1>5 DEF Elements
<1> QED BY <1>3, <1>4, <1>6, <1>7, <1>8

\* Steps that neither write nor read.
LEMMA SameRing ==
  ASSUME UNCHANGED <<rxbuf, buf, serial>>,
         ("line" \in Elements(events))' \/ delivering' = "shell" =>
           serial = "filling" \/ "line" \in Elements(events) \/ delivering = "shell"
  PROVE  Stream' \subseteq Stream /\ (StreamInOrder => StreamInOrder')
  BY DEF Stream, StreamInOrder, Elements

\* Steps that lose pieces at most.
Quiet ==
  /\ UNCHANGED <<written, queue, received_seqnos, heard>>
  /\ Stream' \subseteq Stream /\ StreamInOrder'

LEMMA QuietSteps ==
  ASSUME GatewayInv, StreamInOrder, [Next]_vars
  PROVE  \/ Quiet \/ UartInterrupt \/ UartError \/ ShellInput
         \/ \E n \in Peers : TransmitOK(n) \/ TransmitNoAck(n) \/ TransmitLater(n)
<1>1. TypeOK /\ (ReadsRing => serial = "filling")
  BY DEF GatewayInv, CpuConsistent
<1>2. ASSUME UNCHANGED <<rxbuf, buf, serial, events>>, delivering' \in {delivering, "nothing"}
      PROVE  Stream' \subseteq Stream /\ StreamInOrder'
  <2>1. ("line" \in Elements(events))' <=> "line" \in Elements(events)
    BY <1>2 DEF Elements
  <2> QED BY <1>2, <2>1, SameRing
<1>3. CASE Sleep \/ ProcessRun \/ PollSerial \/ PollEtimer \/ NoEvent
  BY <1>2, <1>3 DEF Sleep, ProcessRun, PollSerial, PollEtimer, NoEvent, Quiet, input,
     reader, csma, radio
<1>4. CASE PollInBroadcast \/ EndBroadcast \/ RingEmpty \/ EndExpire
  BY <1>2, <1>4 DEF PollInBroadcast, EndBroadcast, RingEmpty, EndExpire, Quiet, input,
     reader, csma, radio
<1>5. ASSUME NEW n \in Peers, ClockInterrupt(n) PROVE Quiet
  BY <1>2, <1>5 DEF ClockInterrupt, Quiet, input, reader, radio
<1>6. CASE UNCHANGED vars
  BY <1>2, <1>6 DEF vars, Quiet
<1>7. ASSUME events # <<>>, events' = Tail(events)
      PROVE  /\ Elements(events)' = Elements(events) \ {Head(events)}
             /\ Head(events) \in Elements(events)
  <2>1. events \in Seq({"line", "continue"} \cup Peers)
    BY <1>1 DEF TypeOK
  <2>2. Len(events) \in Nat /\ Len(events) # 0 /\ Head(events) = events[1]
    BY <1>7, <2>1, EmptySeq, LenProperties, HeadTailProperties
  <2>3. 1 \in 1 .. Len(events)
    BY <2>2
  <2>4. Elements(events)' = Elements(events) \ {Head(events)}
    BY <1>1, <1>7, EventTaken DEF GatewayInv
  <2> QED BY <2>2, <2>3, <2>4 DEF Elements
<1>8. CASE DeliverLine
  <2>1. UNCHANGED <<rxbuf, buf, serial, written, queue, received_seqnos, heard>>
    BY <1>8 DEF DeliverLine, input, reader, csma, radio
  <2>2. "line" \in Elements(events)
    BY <1>7, <1>8 DEF DeliverLine
  <2> QED BY <2>1, <2>2, SameRing DEF Quiet
<1>9. ASSUME NEW n \in Peers, TransmitPacketList(n) PROVE Quiet
  <2>1. UNCHANGED <<rxbuf, buf, serial, delivering, written, queue, received_seqnos, heard>>
    BY <1>9 DEF TransmitPacketList, input, reader
  <2>2. ("line" \in Elements(events))' => "line" \in Elements(events)
    BY <1>7, <1>9 DEF TransmitPacketList
  <2> QED BY <2>1, <2>2, SameRing DEF Quiet
<1>10. ASSUME NEW n \in Peers, PostTimer(n) PROVE Quiet
  <2>1. UNCHANGED <<rxbuf, buf, serial, delivering, written, queue, received_seqnos, heard>>
    BY <1>10 DEF PostTimer, input, reader, radio
  <2>2. Elements(events)' = Elements(Append(events, n))
    BY <1>10 DEF PostTimer, Elements
  <2>3. Elements(Append(events, n)) = Elements(events) \cup {n}
    <3>1. events \in Seq({"line", "continue"} \cup Peers)
      BY <1>1 DEF TypeOK
    <3>2. n \in {"line", "continue"} \cup Peers
      OBVIOUS
    <3> QED BY <3>1, <3>2, AppendElements
  <2>4. n # "line"
    BY PeersApart
  <2> QED BY <2>1, <2>2, <2>3, <2>4, SameRing DEF Quiet
<1>11. CASE Continue
  <2>1. /\ UNCHANGED <<rxbuf, written, queue, received_seqnos, heard>>
        /\ buf' = <<>> /\ serial' = "filling"
    BY <1>11 DEF Continue, input, csma, radio
  <2>2. Elements(buf)' = {} /\ Elements(rxbuf)' = Elements(rxbuf)
    BY <2>1 DEF Elements
  <2> QED BY <2>1, <2>2 DEF Quiet, Stream, StreamInOrder
<1>12. CASE TakePiece
  <2>1. /\ UNCHANGED <<serial, written, queue, received_seqnos, heard>> /\ serial = "filling"
        /\ rxbuf # <<>> /\ rxbuf' = Tail(rxbuf) /\ buf' \in {buf, Append(buf, Head(rxbuf))}
    BY <1>1, <1>12 DEF TakePiece, csma, radio
  <2>2. /\ Elements(rxbuf)' = Elements(rxbuf) \ {Head(rxbuf)} /\ Head(rxbuf) \in Elements(rxbuf)
        /\ \A q \in Elements(rxbuf)' : Head(rxbuf) < q
        /\ \A j, k \in 1 .. Len(rxbuf') : j < k => rxbuf'[j] < rxbuf'[k]
    BY <1>1, <2>1, RingTaken
  <2>3. Elements(buf)' \subseteq Elements(buf) \cup {Head(rxbuf)}
    <3>1. Elements(buf)' = Elements(buf')
      BY DEF Elements
    <3>2. PICK S : buf \in Seq(S) /\ Head(rxbuf) \in S
      <4>1. buf \in Seq(1 .. written) /\ Head(rxbuf) \in 1 .. written
        BY <1>1, <2>2, RingFacts DEF TypeOK
      <4> QED BY <4>1
    <3>3. Elements(Append(buf, Head(rxbuf))) = Elements(buf) \cup {Head(rxbuf)}
      BY <3>2, AppendElements
    <3> QED BY <2>1, <3>1, <3>3
  <2>4. Stream' \subseteq Stream
    BY <2>1, <2>2, <2>3 DEF Stream
  <2>5. \A p \in Elements(buf)', q \in Elements(rxbuf)' : p < q
    BY <2>2, <2>3 DEF StreamInOrder
  <2> QED BY <2>1, <2>2, <2>4, <2>5 DEF Quiet, StreamInOrder
<1>13. CASE EndLine
  <2>1. /\ UNCHANGED <<written, queue, received_seqnos, heard>> /\ serial = "filling"
        /\ rxbuf # <<>> /\ rxbuf' = Tail(rxbuf) /\ buf' \in {buf, <<>>}
    BY <1>1, <1>13 DEF EndLine, csma, radio
  <2>2. /\ Elements(rxbuf)' = Elements(rxbuf) \ {Head(rxbuf)}
        /\ \A j, k \in 1 .. Len(rxbuf') : j < k => rxbuf'[j] < rxbuf'[k]
    BY <1>1, <2>1, RingTaken
  <2>3. Elements(buf)' \subseteq Elements(buf)
    BY <2>1 DEF Elements
  <2> QED BY <2>1, <2>2, <2>3 DEF Quiet, Stream, StreamInOrder
<1> QED BY <1>3, <1>4, <1>5, <1>6, <1>8, <1>9, <1>10, <1>11, <1>12, <1>13
     DEF Next, Kernel, Processes

\* The lines that frames are of, and that a node has heard.
LEMMA FramesTyped ==
  ASSUME TypeOK, NEW n \in Peers
  PROVE  /\ Queued(n) \subseteq 0 .. Len(Lines) /\ LastHeard(n) \in 0 .. Len(Lines)
         /\ \A x \in 1 .. Len(queue[n]) : queue[n][x].line \in 0 .. Len(Lines)
         /\ Len(queue[n]) \in Nat /\ Len(Lines) \in Nat
<1>1. queue[n] \in Seq(Packet) /\ Len(Lines) \in Nat /\ heard[n] \in Seq(1 .. Len(Lines))
  BY GatewayAssumption DEF TypeOK
<1>2. \A x \in 1 .. Len(queue[n]) : queue[n][x].line \in 0 .. Len(Lines)
  <2>1. \A x \in 1 .. Len(queue[n]) : queue[n][x] \in Packet
    BY <1>1
  <2> QED BY <2>1 DEF Packet
<1>3. Len(queue[n]) \in Nat
  BY <1>1
<1>4. LastHeard(n) \in 0 .. Len(Lines)
  <2>1. CASE heard[n] = <<>>
    BY <1>1, <2>1 DEF LastHeard
  <2>2. CASE heard[n] # <<>>
    <3>1. Len(heard[n]) \in 1 .. Len(heard[n])
      BY <1>1, <2>2, EmptySeq
    <3>2. heard[n][Len(heard[n])] \in 1 .. Len(Lines)
      BY <1>1, <3>1
    <3> QED BY <1>1, <2>2, <3>2 DEF LastHeard
  <2> QED BY <2>1, <2>2
<1> QED BY <1>1, <1>2, <1>3, <1>4 DEF Queued

\* What another node's frames are.
LEMMA SameFrames ==
  ASSUME TypeOK, NEW n \in Peers, FramesAt(n),
         \A k \in 0 .. Len(Lines) : Behind(k) => Behind(k)',
         queue'[n] = queue[n], heard'[n] = heard[n],
         received_seqnos'[n] = received_seqnos[n]
  PROVE  FramesAt(n)' /\ Flying(n)' = Flying(n)
<1>1. LastHeard(n)' = LastHeard(n) /\ Queued(n)' = Queued(n)
  BY DEF LastHeard, Queued
<1>2. Flying(n)' = Flying(n)
  BY <1>1 DEF Flying
<1>3. Behind(LastHeard(n))' /\ \A k \in Queued(n)' : Behind(k)'
  BY <1>1, FramesTyped DEF FramesAt
<1> QED BY <1>1, <1>2, <1>3 DEF FramesAt, Elements

\* Less to read leaves behind what was behind, and fewer lines to come.
LEMMA LessToRead ==
  ASSUME UNCHANGED written, Stream' \subseteq Stream
  PROVE  Coming' \subseteq Coming /\ Begun' = Begun /\ \A k : Behind(k) => Behind(k)'
<1>1. \A k : Elements(Text(k))' = Elements(Text(k))
  BY DEF Elements, Text
<1>2. \A k : OnItsWay(k)' => OnItsWay(k)
  BY <1>1 DEF OnItsWay
<1> QED BY <1>1, <1>2 DEF Coming, Begun, Behind

\* What neither reads, writes nor sends does nothing to the relay.
LEMMA QuietRelay ==
  ASSUME TypeOK, FramesInOrder, Quiet
  PROVE  FramesInOrder' /\ [Relay!Next]_(Relay!vars)
<1>1. /\ UNCHANGED <<written, queue, received_seqnos, heard>> /\ Coming' \subseteq Coming
      /\ Begun' = Begun /\ \A k : Behind(k) => Behind(k)'
  BY LessToRead DEF Quiet
<1>2. \A n \in Peers : FramesAt(n)' /\ Flying(n)' = Flying(n)
  BY <1>1, SameFrames DEF FramesInOrder
<1>3. Relay!LoseLine
  BY <1>1, <1>2 DEF Relay!LoseLine
<1> QED BY <1>2, <1>3 DEF FramesInOrder, Relay!Next

\* A byte that comes in is written to the relay, or lost.
LEMMA UartRelay ==
  ASSUME TypeOK, StreamInOrder, FramesInOrder, UartInterrupt \/ UartError
  PROVE  StreamInOrder' /\ FramesInOrder' /\ [Relay!Next]_(Relay!vars)
<1>1. /\ written < Len(Lines) * Pieces /\ written' = written + 1
      /\ UNCHANGED <<buf, serial, events, delivering, queue, received_seqnos, heard>>
      /\ rxbuf' \in {rxbuf, Append(rxbuf, written')}
  BY DEF UartInterrupt, UartError, InputByte, RingbufPut, reader, csma, radio
<1>2. /\ written \in Nat /\ Elements(rxbuf) \subseteq 1 .. written
      /\ Elements(buf) \subseteq 1 .. written /\ Len(rxbuf) \in Nat
      /\ Stream \subseteq 1 .. written
  BY RingFacts
<1>3. /\ Elements(rxbuf)' \in {Elements(rxbuf), Elements(rxbuf) \cup {written'}}
      /\ Elements(buf)' = Elements(buf) /\ Elements(events)' = Elements(events)
  <2>1. PICK S : rxbuf \in Seq(S) /\ written' \in S
    <3>1. rxbuf \in Seq(Nat) /\ written' \in Nat
      BY <1>1, <1>2 DEF TypeOK
    <3> QED BY <3>1
  <2>2. Elements(Append(rxbuf, written')) = Elements(rxbuf) \cup {written'}
    BY <2>1, AppendElements
  <2> QED BY <1>1, <2>2 DEF Elements
<1>4. Stream \subseteq Stream' /\ Stream' \subseteq Stream \cup {written'}
  BY <1>1, <1>3 DEF Stream
<1>5. StreamInOrder'
  <2>1. CASE rxbuf' = rxbuf
    BY <1>1, <1>3, <2>1 DEF StreamInOrder
  <2>2. CASE rxbuf' = Append(rxbuf, written')
    <3>1. /\ Len(rxbuf') = Len(rxbuf) + 1
          /\ \A j \in 1 .. Len(rxbuf) + 1 :
               rxbuf'[j] = IF j = Len(rxbuf) + 1 THEN written' ELSE rxbuf[j]
      BY <2>2 DEF TypeOK
    <3>2. \A j \in 1 .. Len(rxbuf) : rxbuf[j] \in 1 .. written
      BY <1>2 DEF Elements
    <3>3. ASSUME NEW j \in 1 .. Len(rxbuf'), NEW k \in 1 .. Len(rxbuf'), j < k
          PROVE  rxbuf'[j] < rxbuf'[k]
      <4>1. j \in 1 .. Len(rxbuf) /\ rxbuf'[j] = rxbuf[j]
        BY <1>2, <3>1, <3>3
      <4>2. CASE k = Len(rxbuf) + 1
        BY <1>1, <1>2, <3>1, <3>2, <4>1, <4>2
      <4>3. CASE k # Len(rxbuf) + 1
        <5>1. k \in 1 .. Len(rxbuf) /\ rxbuf'[k] = rxbuf[k]
          BY <1>2, <3>1, <4>3
        <5> QED BY <3>3, <4>1, <5>1 DEF StreamInOrder
      <4> QED BY <4>2, <4>3
    <3>4. \A p \in Elements(buf), q \in Elements(rxbuf) \cup {written'} : p < q
      BY <1>1, <1>2 DEF StreamInOrder
    <3> QED BY <1>3, <3>3, <3>4 DEF StreamInOrder
  <2> QED BY <1>1, <2>1, <2>2
<1>6. \A k : Elements(Text(k))' = Elements(Text(k))
  BY DEF Elements, Text
<1>7. ASSUME NEW k \in 0 .. Len(Lines), Behind(k) PROVE Behind(k)'
  <2> SUFFICES ASSUME k # Garbage, NEW p \in Elements(Text(k))
               PROVE  p <= written' /\ \A q \in Stream' : p < q
    BY <1>6 DEF Behind
  <2>1. p \in Nat /\ p <= written /\ \A q \in Stream : p < q
    BY <1>7, TextFacts, GatewayAssumption DEF Behind, Garbage
  <2> QED BY <1>1, <1>2, <1>4, <2>1
<1>8. FramesInOrder' /\ \A n \in Peers : Flying(n)' = Flying(n)
  BY <1>1, <1>7, SameFrames DEF FramesInOrder
<1>9. \A k \in 1 .. Len(Lines) : Elements(Text(k)) \subseteq Nat
  BY TextFacts
<1>10. ASSUME NEW k \in 1 .. Len(Lines), written' \notin Elements(Text(k))
       PROVE  OnItsWay(k)' <=> OnItsWay(k)
  <2>1. \A c \in Elements(Text(k)) : c <= written' <=> c <= written
    BY <1>1, <1>2, <1>9, <1>10
  <2>2. \A c \in Elements(Text(k)) : c \in Stream' <=> c \in Stream
    BY <1>4, <1>10
  <2> QED BY <1>6, <2>1, <2>2 DEF OnItsWay
<1>11. CASE /\ Begun \in Nat /\ Begun < Len(Lines) /\ Begun' = Begun + 1
            /\ \A k \in 1 .. Len(Lines) : written' \in Elements(Text(k)) <=> k = Begun'
            /\ \A p \in Elements(Text(Begun')) : p >= written'
  <2>1. Begun' \in 1 .. Len(Lines)
    BY <1>11, GatewayAssumption
  <2>2. ~ OnItsWay(Begun')
    <3>1. \A c \in Elements(Text(Begun')) : ~ (c <= written)
      BY <1>1, <1>2, <1>9, <1>11, <2>1
    <3> QED BY <3>1 DEF OnItsWay
  <2>3. Coming' \in {Coming, Coming \cup {Begun'}}
    BY <1>10, <1>11, <2>1, <2>2 DEF Coming
  <2>4. Relay!Write
    BY <1>1, <1>8, <1>11, <2>3 DEF Relay!Write
  <2> QED BY <1>5, <1>8, <2>4 DEF Relay!Next
<1>12. CASE /\ Begun' = Begun
            /\ \A k \in 1 .. Len(Lines) :
                 written' \in Elements(Text(k)) => written \in Elements(Text(k))
  <2>1. ASSUME NEW k \in 1 .. Len(Lines), written' \in Elements(Text(k)), OnItsWay(k)'
        PROVE  OnItsWay(k)
    <3>1. written \in {c \in Elements(Text(k)) : c <= written}
      BY <1>2, <1>12, <2>1
    <3>2. \A c \in Elements(Text(k)) : c <= written => c <= written' /\ c # written'
      BY <1>1, <1>2, <1>9
    <3>3. \A c \in Elements(Text(k)) : c <= written => c \in Stream
      BY <1>4, <1>6, <2>1, <3>2 DEF OnItsWay
    <3> QED BY <3>1, <3>3 DEF OnItsWay
  <2>2. Coming' \subseteq Coming
    BY <1>10, <2>1 DEF Coming
  <2>3. Relay!LoseLine
    BY <1>1, <1>8, <1>12, <2>2 DEF Relay!LoseLine
  <2> QED BY <1>5, <1>8, <2>3 DEF Relay!Next
<1> QED BY <1>1, <1>11, <1>12, NextPiece

\* A line that is whole and can still be read is after all that is behind.
LEMMA AfterBehind ==
  ASSUME NEW j \in 0 .. Len(Lines), Behind(j), NEW k \in 1 .. Len(Lines),
         Elements(Text(k)) \subseteq Stream
  PROVE  j < k
<1>1. CASE j = Garbage
  BY <1>1, GatewayAssumption DEF Garbage
<1>2. CASE j # Garbage
  <2>1. j \in 1 .. Len(Lines) /\ Len(Lines) \in Nat
    BY <1>2, GatewayAssumption DEF Garbage
  <2>2. PICK p \in Elements(Text(j)), q \in Elements(Text(k)) : p \in Nat /\ q \in Nat /\ p < q
    BY <1>2, <2>1, TextFacts DEF Behind
  <2>3. k < j => q < p
    BY <2>1, <2>2, TextsInOrder
  <2>4. j # k
    <3> SUFFICES ASSUME j = k PROVE FALSE
      OBVIOUS
    <3>1. q \in Elements(Text(j)) /\ q \in Stream
      BY <2>2
    <3>2. q < q
      BY <1>2, <3>1 DEF Behind
    <3> QED BY <2>2, <3>2
  <2> QED BY <2>1, <2>2, <2>3, <2>4
<1> QED BY <1>1, <1>2

\* The event that announces a line is gone when the shell gets the line.
LineTaken == delivering # "nothing" => "line" \notin Elements(events)

\* send_packet appends a packet, or drops it.
LEMMA PacketSent ==
  ASSUME TypeOK, NEW n \in Peers, NEW k, SendPacket(n, k)
  PROVE  \/ queue' = queue
         \/ /\ \A m \in Peers \ {n} : queue'[m] = queue[m]
            /\ Len(queue'[n]) = Len(queue[n]) + 1
            /\ queue'[n][Len(queue[n]) + 1].line = k
            /\ \A x \in 1 .. Len(queue[n]) : queue'[n][x] = queue[n][x]
<1>1. queue[n] \in Seq(Packet) /\ queue \in [Peers -> Seq(Packet)]
  BY DEF TypeOK
<1>2. CASE queue' = queue
  BY <1>2
<1>3. ASSUME NEW s, queue' = [queue EXCEPT ![n] = Append(@, [line |-> k, seq |-> s])]
      PROVE  /\ \A m \in Peers \ {n} : queue'[m] = queue[m]
             /\ Len(queue'[n]) = Len(queue[n]) + 1
             /\ queue'[n][Len(queue[n]) + 1].line = k
             /\ \A x \in 1 .. Len(queue[n]) : queue'[n][x] = queue[n][x]
  <2>1. PICK e : e = [line |-> k, seq |-> s]
    OBVIOUS
  <2>2. queue'[n] = Append(queue[n], e)
    BY <1>1, <1>3, <2>1
  <2>3. /\ Len(Append(queue[n], e)) = Len(queue[n]) + 1
        /\ Append(queue[n], e)[Len(queue[n]) + 1] = e
        /\ \A x \in 1 .. Len(queue[n]) : Append(queue[n], e)[x] = queue[n][x]
    BY <1>1
  <2>4. e.line = k
    BY <2>1
  <2> QED BY <1>1, <1>3, <2>2, <2>3, <2>4
<1> QED BY <1>2, <1>3 DEF SendPacket

\* The frames after a packet with line k was appended.
LEMMA FrameAppended ==
  ASSUME TypeOK, NEW n \in Peers, NEW k \in 0 .. Len(Lines), FramesAt(n),
         Len(queue'[n]) = Len(queue[n]) + 1,
         queue'[n][Len(queue[n]) + 1].line = k,
         \A x \in 1 .. Len(queue[n]) : queue'[n][x] = queue[n][x],
         UNCHANGED <<heard, received_seqnos>>,
         \A j \in 0 .. Len(Lines) : Behind(j) => Behind(j)', Behind(k)',
         k # Garbage => \A j \in 0 .. Len(Lines) : Behind(j) => j < k
  PROVE  /\ FramesAt(n)'
         /\ Flying(n)' = IF k = Garbage THEN Flying(n) ELSE Flying(n) \cup {k}
<1>1. /\ Queued(n) \subseteq 0 .. Len(Lines) /\ LastHeard(n) \in 0 .. Len(Lines)
      /\ Len(queue[n]) \in Nat /\ Len(Lines) \in Nat
      /\ \A x \in 1 .. Len(queue[n]) : queue[n][x].line \in 0 .. Len(Lines)
  BY FramesTyped
<1>2. LastHeard(n)' = LastHeard(n)
  BY DEF LastHeard
<1>3. \A x \in 1 .. Len(queue[n]) + 1 : x = Len(queue[n]) + 1 \/ x \in 1 .. Len(queue[n])
  BY <1>1
<1>4. Queued(n)' = Queued(n) \cup {k}
  <2>1. Queued(n)' = {queue'[n][x].line : x \in 1 .. Len(queue[n]) + 1}
    BY DEF Queued
  <2>2. Len(queue[n]) + 1 \in 1 .. Len(queue[n]) + 1
        /\ 1 .. Len(queue[n]) \subseteq 1 .. Len(queue[n]) + 1
    BY <1>1
  <2> QED BY <1>3, <2>1, <2>2 DEF Queued
<1>5. /\ Behind(LastHeard(n)) /\ (k # Garbage => k > LastHeard(n))
      /\ \A x \in 1 .. Len(queue[n]) : Behind(queue[n][x].line)
      /\ k # Garbage => \A x \in 1 .. Len(queue[n]) : queue[n][x].line < k
  BY <1>1 DEF FramesAt, Queued
<1>6. Flying(n)' = IF k = Garbage THEN Flying(n) ELSE Flying(n) \cup {k}
  <2>1. k = Garbage => ~ (k > LastHeard(n))
    BY <1>1 DEF Garbage
  <2> QED BY <1>2, <1>4, <1>5, <2>1 DEF Flying
<1>7. Behind(LastHeard(n))' /\ \A j \in Queued(n)' : Behind(j)'
  BY <1>1, <1>2, <1>4 DEF FramesAt
<1>8. ASSUME NEW x \in 1 .. Len(queue'[n]), NEW y \in 1 .. Len(queue'[n]), x < y,
             queue'[n][y].line # Garbage
      PROVE  queue'[n][x].line < queue'[n][y].line
  <2>1. x \in 1 .. Len(queue[n]) /\ queue'[n][x] = queue[n][x]
    BY <1>1, <1>8
  <2>2. CASE y = Len(queue[n]) + 1
    BY <1>5, <1>8, <2>1, <2>2
  <2>3. CASE y \in 1 .. Len(queue[n])
    BY <1>8, <2>1, <2>3 DEF FramesAt
  <2> QED BY <1>3, <2>2, <2>3
<1>9. ASSUME NEW x \in 1 .. Len(queue'[n])
      PROVE  \/ queue'[n][x].line = Garbage \/ queue'[n][x].line > LastHeard(n)
             \/ x = 1 /\ queue'[n][1].seq \in Elements(received_seqnos[n])
  <2>1. CASE x = Len(queue[n]) + 1
    BY <1>5, <2>1
  <2>2. CASE x \in 1 .. Len(queue[n])
    BY <2>2 DEF FramesAt
  <2> QED BY <1>3, <2>1, <2>2
<1>10. Elements(received_seqnos[n])' = Elements(received_seqnos[n])
  BY DEF Elements
<1> QED BY <1>2, <1>6, <1>7, <1>8, <1>9, <1>10 DEF FramesAt

\* While a line is with the shell, no other one is announced.
LEMMA LineTakenStep ==
  ASSUME GatewayInv, LineTaken, [Next]_vars
  PROVE  LineTaken'
<1>1. /\ TypeOK /\ EventsInOrder /\ (ReadsRing => serial = "filling")
      /\ (cpu = "event" => delivering = "nothing")
  BY DEF GatewayInv, CpuConsistent
<1>2. ASSUME UNCHANGED events, delivering' = "nothing" \/ delivering # "nothing"
      PROVE  LineTaken'
  BY <1>2 DEF LineTaken, Elements
<1>3. CASE \/ Sleep \/ ProcessRun \/ PollSerial \/ PollEtimer \/ NoEvent
           \/ PollInBroadcast \/ EndBroadcast \/ UartInterrupt \/ UartError
  <2>1. UNCHANGED events /\ delivering' \in {delivering, "nothing"}
    BY <1>3 DEF Sleep, ProcessRun, PollSerial, PollEtimer, NoEvent, PollInBroadcast,
       EndBroadcast, UartInterrupt, UartError
  <2> QED BY <1>2, <2>1
<1>4. CASE RingEmpty \/ TakePiece \/ EndExpire \/ ShellInput \/ UNCHANGED vars
  <2>1. UNCHANGED events /\ (delivering' = delivering \/ delivering # "nothing")
    BY <1>4 DEF RingEmpty, TakePiece, EndExpire, ShellInput, vars
  <2> QED BY <1>2, <2>1
<1>5. ASSUME NEW n \in Peers,
             ClockInterrupt(n) \/ TransmitOK(n) \/ TransmitNoAck(n) \/ TransmitLater(n)
      PROVE  LineTaken'
  <2>1. UNCHANGED <<events, delivering>>
    BY <1>5 DEF ClockInterrupt, TransmitOK, TransmitNoAck, TransmitLater
  <2> QED BY <1>2, <2>1
<1>6. CASE Continue \/ \E n \in Peers : TransmitPacketList(n)
  <2>1. delivering' = "nothing"
    BY <1>1, <1>6 DEF Continue, TransmitPacketList
  <2> QED BY <2>1 DEF LineTaken
<1>7. CASE DeliverLine
  <2>1. events # <<>> /\ events' = Tail(events) /\ Head(events) = "line"
    BY <1>7 DEF DeliverLine
  <2>2. Elements(events)' = Elements(events) \ {"line"}
    BY <1>1, <2>1, EventTaken
  <2> QED BY <2>2 DEF LineTaken
<1>8. CASE EndLine
  <2>1. delivering' = "nothing"
    BY <1>1, <1>8 DEF EndLine, EventsInOrder
  <2> QED BY <2>1 DEF LineTaken
<1>9. ASSUME NEW n \in Peers, PostTimer(n) PROVE LineTaken'
  <2>1. events' = Append(events, n) /\ delivering' = delivering
    BY <1>9 DEF PostTimer
  <2>2. Elements(events)' = Elements(Append(events, n))
    BY <2>1 DEF Elements
  <2>3. Elements(Append(events, n)) = Elements(events) \cup {n}
    <3>1. events \in Seq({"line", "continue"} \cup Peers)
      BY <1>1 DEF TypeOK
    <3>2. n \in {"line", "continue"} \cup Peers
      OBVIOUS
    <3> QED BY <3>1, <3>2, AppendElements
  <2> QED BY <2>1, <2>2, <2>3, PeersApart DEF LineTaken
<1> QED BY <1>3, <1>4, <1>5, <1>6, <1>7, <1>8, <1>9 DEF Next, Kernel, Processes

\* What the setup command makes of a line.
LEMMA ShellRelay ==
  ASSUME GatewayInv, LineTaken, StreamInOrder, FramesInOrder, ShellInput
  PROVE  StreamInOrder' /\ FramesInOrder' /\ [Relay!Next]_(Relay!vars)
<1>1. /\ TypeOK /\ delivering = "shell" /\ delivering' = "others"
      /\ UNCHANGED <<written, rxbuf, buf, serial, events, heard, received_seqnos>>
  BY DEF GatewayInv, ShellInput, input, reader, radio
<1>2. serial = "waiting" /\ "line" \notin Elements(events)
  BY <1>1 DEF GatewayInv, TypeOK, EventsInOrder, LineTaken
<1>3. /\ Elements(buf)' = Elements(buf) /\ Elements(rxbuf)' = Elements(rxbuf)
      /\ Elements(events)' = Elements(events)
  BY <1>1 DEF Elements
<1>4. Stream = Elements(buf) \cup Elements(rxbuf) /\ Stream' = Elements(rxbuf)
  BY <1>1, <1>2, <1>3 DEF Stream
<1>5. StreamInOrder'
  BY <1>1, <1>3 DEF StreamInOrder
<1>6. Coming' \subseteq Coming /\ Begun' = Begun /\ \A j : Behind(j) => Behind(j)'
  BY <1>1, <1>4, LessToRead
<1>7. ASSUME NEW n \in Peers, queue'[n] = queue[n]
      PROVE  FramesAt(n)' /\ Flying(n)' = Flying(n)
  BY <1>1, <1>6, <1>7, SameFrames DEF FramesInOrder
<1>8. CASE \E n \in Peers : SendPacket(n, Garbage)
  <2>1. PICK n \in Peers : SendPacket(n, Garbage)
    BY <1>8
  <2>2. Garbage \in 0 .. Len(Lines) /\ Behind(Garbage)'
    BY GatewayAssumption DEF Behind, Garbage
  <2>3. FramesAt(n)' /\ Flying(n)' = Flying(n)
    <3>1. CASE queue' = queue
      BY <1>7, <3>1
    <3>2. CASE /\ Len(queue'[n]) = Len(queue[n]) + 1
               /\ queue'[n][Len(queue[n]) + 1].line = Garbage
               /\ \A x \in 1 .. Len(queue[n]) : queue'[n][x] = queue[n][x]
      BY <1>1, <1>6, <2>2, <3>2, FrameAppended DEF FramesInOrder
    <3> QED BY <1>1, <2>1, <3>1, <3>2, PacketSent
  <2>4. \A m \in Peers \ {n} : queue'[m] = queue[m]
    BY <1>1, <2>1, PacketSent
  <2>5. \A m \in Peers : FramesAt(m)' /\ Flying(m)' = Flying(m)
    BY <1>7, <2>3, <2>4
  <2>6. Relay!LoseLine
    BY <1>1, <1>6, <2>5 DEF Relay!LoseLine
  <2> QED BY <1>5, <2>5, <2>6 DEF FramesInOrder, Relay!Next
<1>9. CASE UNCHANGED csma
  <2>1. \A m \in Peers : FramesAt(m)' /\ Flying(m)' = Flying(m)
    BY <1>7, <1>9 DEF csma
  <2>2. Relay!LoseLine
    BY <1>1, <1>6, <2>1 DEF Relay!LoseLine
  <2> QED BY <1>5, <2>1, <2>2 DEF FramesInOrder, Relay!Next
<1>10. ASSUME NEW k \in 1 .. Len(Lines), buf = Text(k), SendPacket(Lines[k], k)
       PROVE  FramesInOrder' /\ [Relay!Next]_(Relay!vars)
  <2> DEFINE n == Lines[k]
  <2>1. n \in Peers /\ k \in 0 .. Len(Lines) /\ k # Garbage
    BY GatewayAssumption DEF Garbage
  <2>2. /\ Elements(buf) = Elements(Text(k)) /\ Elements(Text(k)) \subseteq Stream
        /\ Elements(Text(k)) \subseteq Nat
    BY <1>4, <1>10, TextFacts
  <2>3. \A p \in Elements(Text(k)), q \in Elements(rxbuf) : p < q
    BY <2>2 DEF StreamInOrder
  <2>4. \A p \in Elements(Text(k)) : p <= written /\ p \notin Elements(rxbuf)
    <3> SUFFICES ASSUME NEW p \in Elements(Text(k))
                 PROVE  p <= written /\ p \notin Elements(rxbuf)
      OBVIOUS
    <3>1. p \in 1 .. written /\ written \in Nat
      BY <1>1, <2>2, RingFacts
    <3>2. p \in Elements(rxbuf) => p < p
      BY <2>3
    <3> QED BY <3>1, <3>2
  <2>5. PICK first \in Elements(Text(k)) : first \in Nat
    BY <2>2, TextFacts
  <2>6. Relay!FirstOf(k, Coming)
    <3>1. k \in Coming
      BY <2>2, <2>4, <2>5 DEF Coming, OnItsWay
    <3>2. ASSUME NEW j \in Coming PROVE k <= j
      <4>1. j \in 1 .. Len(Lines) /\ OnItsWay(j)
        BY DEF Coming
      <4>2. PICK c \in Elements(Text(j)) : c \in Stream
        BY <4>1 DEF OnItsWay
      <4>3. j < k => c < first
        BY <4>1, <4>2, <2>5, TextsInOrder
      <4>4. c \in Elements(rxbuf) => first < c
        BY <2>3
      <4>5. c \in Nat
        BY <4>1, <4>2, TextFacts
      <4>6. c \in Elements(Text(k)) => ~ (j < k)
        <5>1. j < k /\ c \in Elements(Text(k)) => c < c
          BY <4>1, <4>2, TextsInOrder
        <5> QED BY <4>5, <5>1
      <4> QED BY <1>4, <2>2, <2>5, <4>1, <4>2, <4>3, <4>4, <4>5, <4>6
    <3> QED BY <3>1, <3>2 DEF Relay!FirstOf
  <2>7. Coming' = Coming \ {k}
    <3>1. k \notin Coming'
      <4>1. Elements(Text(k))' = Elements(Text(k))
        BY DEF Elements, Text
      <4>2. ~ OnItsWay(k)'
        BY <1>4, <2>4, <4>1 DEF OnItsWay
      <4> QED BY <4>2 DEF Coming
    <3>2. ASSUME NEW j \in Coming, j # k PROVE j \in Coming'
      <4>1. j \in 1 .. Len(Lines) /\ OnItsWay(j)
        BY DEF Coming
      <4>2. Elements(Text(j))' = Elements(Text(j))
        BY DEF Elements, Text
      <4>3. ASSUME NEW c \in Elements(Text(j)) PROVE c \notin Elements(Text(k))
        <5>1. c \in Nat
          BY <4>1, <4>3, TextFacts
        <5>2. c \in Elements(Text(k)) => (j < k => c < c) /\ (k < j => c < c)
          BY <4>1, <4>3, TextsInOrder
        <5> QED BY <3>2, <4>1, <5>1, <5>2
      <4>4. OnItsWay(j)'
        BY <1>1, <1>4, <2>2, <4>1, <4>2, <4>3 DEF OnItsWay
      <4> QED BY <4>1, <4>4 DEF Coming
    <3> QED BY <1>6, <3>1, <3>2
  <2>8. Behind(k)'
    <3>1. Elements(Text(k))' = Elements(Text(k))
      BY DEF Elements, Text
    <3> QED BY <1>1, <1>4, <2>3, <2>4, <3>1 DEF Behind
  <2>9. \A j \in 0 .. Len(Lines) : Behind(j) => j < k
    BY <2>2, AfterBehind
  <2>10. FramesAt(n)' /\ Flying(n)' \in {Flying(n), Flying(n) \cup {k}}
    <3>1. CASE queue' = queue
      BY <1>7, <2>1, <3>1
    <3>2. CASE /\ Len(queue'[n]) = Len(queue[n]) + 1
               /\ queue'[n][Len(queue[n]) + 1].line = k
               /\ \A x \in 1 .. Len(queue[n]) : queue'[n][x] = queue[n][x]
      <4>1. FramesAt(n)
        BY <2>1 DEF FramesInOrder
      <4> HIDE DEF n
      <4> QED BY <1>1, <1>6, <2>1, <2>8, <2>9, <3>2, <4>1, FrameAppended
    <3> QED BY <1>1, <1>10, <2>1, <3>1, <3>2, PacketSent
  <2>11. \A m \in Peers \ {n} : FramesAt(m)' /\ Flying(m)' = Flying(m)
    <3>1. \A m \in Peers \ {n} : queue'[m] = queue[m]
      BY <1>1, <1>10, <2>1, PacketSent
    <3> QED BY <1>7, <3>1
  <2>12. Relay!Forward(k)
    <3>1. [m \in Peers |-> Flying(m)]' \in
            {[m \in Peers |-> Flying(m)],
             [[m \in Peers |-> Flying(m)] EXCEPT ![n] = @ \cup {k}]}
      <4> HIDE DEF n
      <4> QED BY <2>1, <2>10, <2>11
    <3> QED BY <1>1, <1>6, <2>6, <2>7, <3>1 DEF Relay!Forward
  <2> QED BY <2>10, <2>11, <2>12 DEF FramesInOrder, Relay!Next
<1> QED BY <1>5, <1>8, <1>9, <1>10 DEF ShellInput, Intact

\* The frames after an attempt to send the first packet: d packets are gone.
LEMMA QueueShifted ==
  ASSUME TypeOK, NEW n \in Peers, queue[n] # <<>>,
         queue' \in {queue, [queue EXCEPT ![n] = Tail(@)]}
  PROVE  /\ \A m \in Peers \ {n} : queue'[m] = queue[m]
         /\ \E d \in {0, 1} :
              /\ Len(queue'[n]) = Len(queue[n]) - d
              /\ \A x \in 1 .. Len(queue[n]) - d : queue'[n][x] = queue[n][x + d]
<1>1. /\ queue[n] \in Seq(Packet) /\ queue \in [Peers -> Seq(Packet)]
      /\ Len(queue[n]) \in Nat
  BY DEF TypeOK
<1>2. CASE queue' = queue
  <2>1. Len(queue'[n]) = Len(queue[n]) - 0
        /\ \A x \in 1 .. Len(queue[n]) - 0 : queue'[n][x] = queue[n][x + 0]
    BY <1>1, <1>2
  <2> QED BY <1>2, <2>1
<1>3. CASE queue' = [queue EXCEPT ![n] = Tail(@)]
  <2>1. queue'[n] = Tail(queue[n])
    BY <1>1, <1>3
  <2>2. Len(queue'[n]) = Len(queue[n]) - 1
        /\ \A x \in 1 .. Len(queue[n]) - 1 : queue'[n][x] = queue[n][x + 1]
    BY <1>1, <2>1, EmptySeq, LenProperties, HeadTailProperties
  <2> QED BY <1>1, <1>3, <2>2
<1> QED BY <1>2, <1>3

\* A node's memory holds the number of the frame it has just heard.
LEMMA JustHeard ==
  ASSUME TypeOK, NEW n \in Peers, queue[n] # <<>>, Air(n)
  PROVE  /\ \A m \in Peers \ {n} : heard'[m] = heard[m] /\ received_seqnos'[m] = received_seqnos[m]
         /\ \/ UNCHANGED <<received_seqnos, heard>>
            \/ /\ Head(queue[n]).seq \notin Elements(received_seqnos[n])
               /\ Head(queue[n]).seq \in Elements(received_seqnos[n])'
               /\ heard' = IF Head(queue[n]).line = Garbage THEN heard
                           ELSE [heard EXCEPT ![n] = Append(@, Head(queue[n]).line)]
<1> DEFINE f == Head(queue[n])
<1>1. /\ f.seq \in 0 .. SeqSpace - 1 /\ received_seqnos[n] \in Seq(0 .. SeqSpace - 1)
      /\ received_seqnos \in [Peers -> Seq(0 .. SeqSpace - 1)]
      /\ heard \in [Peers -> Seq(1 .. Len(Lines))] /\ MaxSeqnos \in Nat /\ MaxSeqnos > 0
  <2>1. f \in Packet
    BY QueueTyped
  <2>2. f.seq \in 0 .. SeqSpace - 1
    BY <2>1 DEF Packet
  <2>3. received_seqnos \in [Peers -> Seq(0 .. SeqSpace - 1)]
        /\ heard \in [Peers -> Seq(1 .. Len(Lines))]
    BY DEF TypeOK
  <2>4. MaxSeqnos \in Nat /\ MaxSeqnos > 0
    BY GatewayAssumption
  <2> QED BY <2>2, <2>3, <2>4
<1> HIDE DEF f
<1>2. CASE UNCHANGED <<received_seqnos, heard>>
  BY <1>2
<1>3. CASE /\ f.seq \notin Elements(received_seqnos[n])
           /\ received_seqnos' = [received_seqnos EXCEPT ![n] =
                SubSeq(<<f.seq>> \o @, 1,
                       IF Len(@) < MaxSeqnos THEN Len(@) + 1 ELSE MaxSeqnos)]
           /\ heard' = IF f.line = Garbage THEN heard
                       ELSE [heard EXCEPT ![n] = Append(@, f.line)]
  <2> DEFINE s == <<f.seq>> \o received_seqnos[n]
             k == IF Len(received_seqnos[n]) < MaxSeqnos THEN Len(received_seqnos[n]) + 1
                                                         ELSE MaxSeqnos
  <2>1. s \in Seq(0 .. SeqSpace - 1) /\ Len(s) = Len(received_seqnos[n]) + 1 /\ s[1] = f.seq
    BY <1>1
  <2>2. k \in 1 .. Len(s)
    BY <1>1, <2>1
  <2>3. received_seqnos'[n] = SubSeq(s, 1, k)
    BY <1>1, <1>3
  <2> HIDE DEF s, k
  <2>4. Len(SubSeq(s, 1, k)) = k /\ SubSeq(s, 1, k)[1] = s[1]
    BY <2>1, <2>2
  <2>5. 1 \in 1 .. Len(received_seqnos'[n]) /\ received_seqnos'[n][1] = f.seq
    BY <2>1, <2>2, <2>3, <2>4
  <2>6. f.seq \in Elements(received_seqnos[n])'
    BY <2>5 DEF Elements
  <2>7. \A m \in Peers \ {n} : heard'[m] = heard[m] /\ received_seqnos'[m] = received_seqnos[m]
    BY <1>1, <1>3
  <2> QED BY <1>3, <2>6, <2>7 DEF f
<1> QED BY <1>2, <1>3 DEF Air, Hear, f

\* The first packet for node n is sent, with or without success.
LEMMA RadioRelay ==
  ASSUME GatewayInv, StreamInOrder, FramesInOrder, NEW n \in Peers,
         TransmitOK(n) \/ TransmitNoAck(n) \/ TransmitLater(n)
  PROVE  StreamInOrder' /\ FramesInOrder' /\ [Relay!Next]_(Relay!vars)
<1>1. /\ UNCHANGED <<written, rxbuf, buf, serial, events, delivering>>
      /\ queue' \in {queue, [queue EXCEPT ![n] = Tail(@)]} /\ Air(n) /\ sending = n
  BY DEF TransmitOK, TransmitNoAck, TransmitLater, FreeFirstPacket, input, reader
<1>2. TypeOK /\ queue[n] # <<>> /\ Nobody # n
  BY <1>1, PeersApart DEF GatewayInv, TimersAgree, QueueHasTimer
<1>3. Stream' = Stream /\ StreamInOrder'
  BY <1>1 DEF Stream, StreamInOrder, Elements
<1>4. /\ Coming' = Coming /\ Begun' = Begun /\ \A j : Behind(j) => Behind(j)'
  <2>1. \A k : Elements(Text(k))' = Elements(Text(k))
    BY DEF Elements, Text
  <2>2. \A k : OnItsWay(k)' <=> OnItsWay(k)
    BY <1>1, <1>3, <2>1 DEF OnItsWay
  <2> QED BY <1>1, <1>3, <2>2, LessToRead DEF Coming
<1>5. \A m \in Peers \ {n} : FramesAt(m)' /\ Flying(m)' = Flying(m)
  <2>1. \A m \in Peers \ {n} : /\ queue'[m] = queue[m] /\ heard'[m] = heard[m]
                               /\ received_seqnos'[m] = received_seqnos[m]
    BY <1>1, <1>2, QueueShifted, JustHeard
  <2> QED BY <1>2, <1>4, <2>1, SameFrames DEF FramesInOrder
<1> DEFINE q == queue[n]
           f == Head(queue[n])
<1>6. PICK d \in {0, 1} : /\ Len(queue'[n]) = Len(q) - d
                          /\ \A x \in 1 .. Len(q) - d : queue'[n][x] = q[x + d]
  BY <1>1, <1>2, QueueShifted
<1>7. /\ FramesAt(n) /\ Len(q) \in Nat /\ Len(q) # 0 /\ f = q[1] /\ 1 \in 1 .. Len(q)
      /\ \A x \in 1 .. Len(q) : q[x].line \in 0 .. Len(Lines)
      /\ LastHeard(n) \in 0 .. Len(Lines) /\ Len(Lines) \in Nat
  <2>1. q \in Seq(Packet)
    BY <1>2 DEF TypeOK
  <2>2. Len(q) \in Nat /\ Len(q) # 0 /\ f = q[1]
    BY <1>2, <2>1, EmptySeq, LenProperties, HeadTailProperties
  <2> QED BY <1>2, <2>2, FramesTyped DEF FramesInOrder
<1> HIDE DEF f
<1>8. \A x \in 1 .. Len(queue'[n]) :
        x + d \in 1 .. Len(q) /\ queue'[n][x] = q[x + d] /\ (x + d = 1 => x = 1 /\ d = 0)
  BY <1>6, <1>7
<1>9. Queued(n)' \subseteq Queued(n)
  BY <1>8 DEF Queued
<1>10. ASSUME NEW x \in 1 .. Len(queue'[n]), NEW y \in 1 .. Len(queue'[n]), x < y,
              queue'[n][y].line # Garbage
       PROVE  queue'[n][x].line < queue'[n][y].line
  <2>1. x + d < y + d /\ x + d \in 1 .. Len(q) /\ y + d \in 1 .. Len(q)
    BY <1>8, <1>10
  <2> QED BY <1>7, <1>8, <1>10, <2>1 DEF FramesAt
<1>11. \A k \in Queued(n) : Behind(k) /\ k \in 0 .. Len(Lines)
  BY <1>7 DEF FramesAt, Queued
<1>12. CASE LastHeard(n)' = LastHeard(n) /\ heard' = heard
            /\ \A x \in 1 .. Len(queue'[n]) :
                 \/ queue'[n][x].line = Garbage \/ queue'[n][x].line > LastHeard(n)
                 \/ x = 1 /\ queue'[n][1].seq \in Elements(received_seqnos[n])'
  <2>1. FramesAt(n)'
    <3>1. Behind(LastHeard(n))' /\ \A k \in Queued(n)' : Behind(k)'
      BY <1>4, <1>7, <1>9, <1>11, <1>12 DEF FramesAt
    <3> QED BY <1>10, <1>12, <3>1 DEF FramesAt
  <2>2. Flying(n)' \subseteq Flying(n)
    BY <1>9, <1>12 DEF Flying
  <2>3. [m \in Peers |-> Flying(m)]' = [[m \in Peers |-> Flying(m)] EXCEPT ![n] = Flying(n)']
    BY <1>5
  <2>4. Relay!LoseFrame(n)
    BY <1>4, <1>12, <2>2, <2>3 DEF Relay!LoseFrame
  <2> QED BY <1>3, <1>5, <2>1, <2>4 DEF FramesInOrder, Relay!Next
<1>13. CASE UNCHANGED <<received_seqnos, heard>>
  <2>1. LastHeard(n)' = LastHeard(n) /\ Elements(received_seqnos[n])' = Elements(received_seqnos[n])
    BY <1>13 DEF LastHeard, Elements
  <2>2. ASSUME NEW x \in 1 .. Len(queue'[n])
        PROVE  \/ queue'[n][x].line = Garbage \/ queue'[n][x].line > LastHeard(n)
               \/ x = 1 /\ queue'[n][1].seq \in Elements(received_seqnos[n])'
    <3>1. x + d = 1 => queue'[n][1] = q[1]
      BY <1>8
    <3> QED BY <1>7, <1>8, <2>1, <3>1 DEF FramesAt
  <2> QED BY <1>12, <1>13, <2>1, <2>2
<1>14. CASE /\ f.seq \notin Elements(received_seqnos[n])
            /\ f.seq \in Elements(received_seqnos[n])'
            /\ heard' = IF f.line = Garbage THEN heard
                        ELSE [heard EXCEPT ![n] = Append(@, f.line)]
  <2>1. \A x \in 1 .. Len(q) : q[x].line = Garbage \/ q[x].line > LastHeard(n)
    BY <1>7, <1>14 DEF FramesAt
  <2>2. CASE f.line = Garbage
    <3>1. heard' = heard /\ LastHeard(n)' = LastHeard(n)
      BY <1>14, <2>2 DEF LastHeard
    <3> QED BY <1>8, <1>12, <2>1, <3>1
  <2>3. CASE f.line # Garbage
    <3> DEFINE k == f.line
    <3>1. k \in 1 .. Len(Lines) /\ k > LastHeard(n) /\ k \in Queued(n)
      BY <1>7, <2>1, <2>3 DEF Garbage, Queued
    <3> HIDE DEF k
    <3>2. heard' = [heard EXCEPT ![n] = Append(@, k)] /\ LastHeard(n)' = k
      <4>1. heard \in [Peers -> Seq(1 .. Len(Lines))]
        BY <1>2 DEF TypeOK
      <4>2. heard' = [heard EXCEPT ![n] = Append(@, k)]
        BY <1>14, <2>3 DEF k
      <4>3. heard'[n] = Append(heard[n], k) /\ heard[n] \in Seq(1 .. Len(Lines))
        BY <4>1, <4>2
      <4>4. heard'[n] # <<>> /\ heard'[n][Len(heard'[n])] = k
        BY <3>1, <4>3
      <4> QED BY <4>2, <4>4 DEF LastHeard
    <3>3. \A x \in 1 .. Len(q) : x = 1 \/ q[x].line = Garbage \/ q[x].line > k
      <4> SUFFICES ASSUME NEW x \in 1 .. Len(q), x # 1, q[x].line # Garbage
                   PROVE  q[x].line > k
        OBVIOUS
      <4>1. 1 < x
        BY <1>7
      <4>2. q[1].line < q[x].line
        BY <1>7, <4>1 DEF FramesAt
      <4> QED BY <1>7, <3>1, <4>2 DEF k
    <3>4. Relay!FirstOf(k, Flying(n))
      <4>1. \A j \in Flying(n) : k <= j
        <5> SUFFICES ASSUME NEW j \in Flying(n) PROVE k <= j
          OBVIOUS
        <5>1. PICK x \in 1 .. Len(q) : j = q[x].line /\ j > LastHeard(n)
          BY DEF Flying, Queued
        <5> QED BY <1>7, <3>1, <3>3, <5>1 DEF Garbage, k
      <4> QED BY <3>1, <4>1 DEF Relay!FirstOf, Flying
    <3>5. Flying(n)' = Flying(n) \ {k}
      <4>1. Flying(n)' = {j \in Queued(n)' : j > k}
        BY <3>2 DEF Flying
      <4>2. ASSUME NEW j \in Queued(n)', j > k PROVE j \in Flying(n) /\ j # k
        <5>1. j \in Queued(n) /\ j \in Nat
          BY <1>7, <1>9, <1>11, <4>2
        <5>2. k \in Nat /\ LastHeard(n) \in Nat /\ k > LastHeard(n)
          BY <1>7, <3>1
        <5>3. j > LastHeard(n) /\ j # k
          BY <4>2, <5>1, <5>2
        <5> QED BY <5>1, <5>3 DEF Flying
      <4>3. ASSUME NEW j \in Flying(n), j # k PROVE j \in Queued(n)' /\ j > k
        <5>1. PICK x \in 1 .. Len(q) : j = q[x].line /\ j > LastHeard(n)
          BY DEF Flying, Queued
        <5>2. x # 1 /\ j # Garbage
          BY <1>7, <4>3, <5>1 DEF k, Garbage
        <5>3. j > k
          BY <3>3, <5>1, <5>2
        <5>4. x - d \in 1 .. Len(queue'[n]) /\ (x - d) + d = x
          BY <1>6, <1>7, <5>2
        <5>5. queue'[n][x - d] = q[x]
          BY <1>8, <5>4
        <5> QED BY <5>1, <5>3, <5>4, <5>5 DEF Queued
      <4> QED BY <4>1, <4>2, <4>3
    <3>6. FramesAt(n)'
      <4>1. Behind(LastHeard(n))' /\ \A j \in Queued(n)' : Behind(j)'
        BY <1>4, <1>9, <1>11, <3>1, <3>2
      <4>2. ASSUME NEW x \in 1 .. Len(queue'[n])
            PROVE  \/ queue'[n][x].line = Garbage \/ queue'[n][x].line > LastHeard(n)'
                   \/ x = 1 /\ queue'[n][1].seq \in Elements(received_seqnos[n])'
        <5>1. CASE x + d = 1
          BY <1>7, <1>8, <1>14, <5>1
        <5>2. CASE x + d # 1
          BY <1>8, <3>2, <3>3, <5>2
        <5> QED BY <5>1, <5>2
      <4> QED BY <1>10, <4>1, <4>2 DEF FramesAt
    <3>7. [m \in Peers |-> Flying(m)]' = [[m \in Peers |-> Flying(m)] EXCEPT ![n] = @ \ {k}]
      BY <1>5, <3>5
    <3>8. Relay!Receive(n, k)
      BY <1>4, <3>2, <3>4, <3>7 DEF Relay!Receive
    <3>9. k \in [m \in Peers |-> Flying(m)][n]
      BY <3>4 DEF Relay!FirstOf
    <3> QED BY <1>3, <1>5, <3>6, <3>8, <3>9 DEF FramesInOrder, Relay!Next
  <2> QED BY <2>2, <2>3
<1> QED BY <1>1, <1>2, <1>13, <1>14, JustHeard DEF f

-----------------------------------------------------------------------------
(* Theorems *)

LEMMA GatewayInvariant == Spec => []GatewayInv
<1>1. GatewayInv /\ [Next]_vars => GatewayInv'
  BY TypeStep, CpuStep, EventsStep, TimersStep, ForgottenStep DEF GatewayInv
<1> QED BY GatewayInitially, <1>1, PTL DEF Spec

\* Every variable of the gateway keeps its type: the ring buffer never holds
\* more than RingSize pieces, and no frame leaves with a number or a line that
\* does not exist.
THEOREM GatewayTypes == Spec => []TypeOK
<1>1. GatewayInv => TypeOK
  BY DEF GatewayInv
<1> QED BY GatewayInvariant, <1>1, PTL

\* process_post never finds the event queue full: the posts of the serial
\* process and of the timers, whose result nobody could make up for.
THEOREM GatewayPosts == Spec => []PostsSucceed
  BY GatewayInvariant, RoomForEvents, PTL

\* The CPU goes to sleep only when no byte waits in rxbuf and no timer that has
\* run out waits to be posted: main of contiki-sky-main.c looks at process_nevents
\* and sleeps.
THEOREM GatewaySleeps == Spec => []SleepsOnlyWhenDone
<1>1. GatewayInv => SleepsOnlyWhenDone
  <2> SUFFICES ASSUME GatewayInv, cpu = "asleep"
               PROVE  /\ rxbuf = <<>> /\ serial = "filling" /\ needspoll = {}
                      /\ \A n \in Peers : timer[n] \in {"off", "running"}
    BY DEF SleepsOnlyWhenDone
  <2>1. events = <<>> /\ needspoll = {} /\ Elements(events) = {}
    <3>1. events = <<>> /\ ~ poll_requested /\ needspoll \subseteq {"serial", "etimer"}
      BY DEF GatewayInv, TypeOK, NothingForgotten
    <3>2. "serial" \notin needspoll /\ "etimer" \notin needspoll
      BY <3>1 DEF GatewayInv, NothingForgotten
    <3>3. Elements(events) = {}
      BY <3>1 DEF Elements
    <3> QED BY <3>1, <3>2, <3>3
  <2>2. serial = "filling"
    BY <2>1 DEF GatewayInv, TypeOK, EventsInOrder
  <2>3. rxbuf = <<>>
    BY <2>1, <2>2 DEF GatewayInv, NothingForgotten, ReadsRing
  <2>4. \A n \in Peers : timer[n] \in {"off", "running"}
    BY <2>1 DEF GatewayInv, TypeOK, TimersAgree, NothingForgotten
  <2> QED BY <2>1, <2>2, <2>3, <2>4
<1> QED BY GatewayInvariant, <1>1, PTL

\* serial_line_process does not touch buf between the event that announces a
\* line and the end of the broadcast.
THEOREM GatewayBuffer == Spec => []BufferHeld
<1>1. GatewayInv => BufferHeld
  BY PeersApart DEF GatewayInv, TypeOK, EventsInOrder, BufferHeld, Announced
<1> QED BY GatewayInvariant, <1>1, PTL

\* No packet stays in a neighbor queue without a timer or a burst that sends it.
THEOREM GatewayTimers == Spec => []QueueHasTimer
<1>1. GatewayInv => QueueHasTimer
  BY DEF GatewayInv, TimersAgree
<1> QED BY GatewayInvariant, <1>1, PTL

\* Whatever overflows, the shell never gets the beginning of one line with the
\* end of another one: serial_line_input_byte drops the rest of a line that has
\* lost a byte, up to its newline.
THEOREM GatewayLines == Spec => []NoMixture
<1>1. Init => LinesInOrder
  <2> SUFFICES ASSUME Init PROVE LinesInOrder
    OBVIOUS
  <2>1. /\ errors = 0 /\ buf = <<>> /\ rxbuf = <<>> /\ written = 0 /\ serial = "filling"
        /\ Len(buf) = 0 /\ Len(rxbuf) = 0
    BY DEF Init
  <2>2. IsNewline(0)
    BY GatewayAssumption DEF IsNewline
  <2>3. Continues(written + 1)
    BY <2>1, <2>2 DEF Continues
  <2> QED BY <2>1, <2>3 DEF LinesInOrder, RunFromStart
<1>2. GatewayInv /\ LinesInOrder /\ [Next]_vars => LinesInOrder'
  BY OrderStep
<1>3. GatewayInv /\ LinesInOrder => NoMixture
  BY RunIsLine DEF GatewayInv, LinesInOrder, NoMixture
<1> QED BY <1>1, <1>2, <1>3, GatewayInvariant, PTL DEF Spec

\* The gateway is a lossy relay: whatever overflows, collides, is sent twice or
\* remembered from before, each node gets lines of its own, in the order they
\* were written, each at most once and whole: serial_line_input_byte gives up the
\* rest of a line that overflows, packet_sent keeps the order of the packets, and
\* input_packet drops the duplicates (serial-line.c:61-86, csma.c:187-272,
\* contikimac.c:839-859).
THEOREM GatewayIsLossyRelay == Spec => RelayKept
<1>1. Init => LineTaken /\ StreamInOrder /\ FramesInOrder /\ Relay!Init
  <2> SUFFICES ASSUME Init
               PROVE  LineTaken /\ StreamInOrder /\ FramesInOrder /\ Relay!Init
    OBVIOUS
  <2>1. /\ written = 0 /\ rxbuf = <<>> /\ buf = <<>> /\ delivering = "nothing"
        /\ queue = [n \in Peers |-> <<>>] /\ heard = [n \in Peers |-> <<>>]
        /\ Len(rxbuf) = 0 /\ Elements(rxbuf) = {} /\ Elements(buf) = {} /\ Stream = {}
    BY DEF Init, Elements, Stream
  <2>2. LineTaken /\ StreamInOrder
    BY <2>1 DEF LineTaken, StreamInOrder
  <2>3. \A n \in Peers : /\ queue[n] = <<>> /\ heard[n] = <<>> /\ Len(queue[n]) = 0
                         /\ LastHeard(n) = 0 /\ Queued(n) = {} /\ Flying(n) = {}
    BY <2>1 DEF LastHeard, Queued, Flying
  <2>4. FramesInOrder
    BY <2>3 DEF FramesInOrder, FramesAt, Behind, Garbage
  <2>5. Begun = 0
    <3>1. Pieces \in Nat \ {0} /\ 0 + Pieces - 1 \in Nat
      BY GatewayAssumption
    <3>2. Pieces - 1 \in 0 .. Pieces - 1 /\ 0 + Pieces - 1 = 0 * Pieces + (Pieces - 1)
      BY <3>1
    <3> QED BY <2>1, <3>1, <3>2, Quotients DEF Begun
  <2>6. Coming = {}
    BY <2>1 DEF Coming, OnItsWay
  <2> QED BY <2>1, <2>2, <2>3, <2>4, <2>5, <2>6 DEF Relay!Init
<1>2. GatewayInv /\ LineTaken /\ StreamInOrder /\ FramesInOrder /\ [Next]_vars
        => LineTaken' /\ StreamInOrder' /\ FramesInOrder' /\ [Relay!Next]_(Relay!vars)
  <2> SUFFICES ASSUME GatewayInv, LineTaken, StreamInOrder, FramesInOrder, [Next]_vars
               PROVE  LineTaken' /\ StreamInOrder' /\ FramesInOrder'
                      /\ [Relay!Next]_(Relay!vars)
    OBVIOUS
  <2>1. TypeOK
    BY DEF GatewayInv
  <2>2. LineTaken'
    BY LineTakenStep
  <2>3. CASE Quiet
    BY <2>1, <2>2, <2>3, QuietRelay DEF Quiet
  <2>4. CASE UartInterrupt \/ UartError
    BY <2>1, <2>2, <2>4, UartRelay
  <2>5. CASE ShellInput
    BY <2>2, <2>5, ShellRelay
  <2>6. CASE \E n \in Peers : TransmitOK(n) \/ TransmitNoAck(n) \/ TransmitLater(n)
    BY <2>2, <2>6, RadioRelay
  <2> QED BY <2>3, <2>4, <2>5, <2>6, QuietSteps
<1> QED BY <1>1, <1>2, GatewayInvariant, PTL DEF Spec, RelayKept, Relay!Spec
=============================================================================
