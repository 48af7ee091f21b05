------------------------------- MODULE Gateway -------------------------------
(***************************************************************************)
(* The gateway mote between the coordinator's serial line and the radio:   *)
(* the serial input with its interrupt, Contiki's poll flags and event     *)
(* queue, the setup command, the timers and the packet queues of CSMA, the *)
(* transmissions of ContikiMAC and the duplicate filter of the nodes.      *)
(*                                                                         *)
(* The coordinator's lines are numbered; a line is written in Pieces, the  *)
(* last of which is its newline, and the pieces of all lines are numbered  *)
(* in the order they are written.  Interrupts are atomic and may come      *)
(* between any two steps of the CPU.                                       *)
(***************************************************************************)
EXTENDS Integers, Sequences, FiniteSets

CONSTANTS
  Peers,             \* the nodes the gateway sends to
  Lines,             \* Lines[k] is the destination in the k-th line
  Pieces,            \* pieces of a line, the newline included
  RingSize,          \* what rxbuf holds; BUFSIZE - 1
  NumEvents,         \* PROCESS_CONF_NUMEVENTS
  MaxNeighbors,      \* CSMA_MAX_NEIGHBOR_QUEUES
  MaxPackets,        \* MAX_QUEUED_PACKETS
  MaxTransmissions,  \* CSMA_MAX_MAC_TRANSMISSIONS
  SeqSpace,          \* values of a frame's sequence number
  MaxSeqnos,         \* MAX_SEQNOS, how many of them a node remembers
  Remembered,        \* what it may remember of an earlier life of the gateway
  MaxErrors,         \* bound on bytes lost in the UART
  MaxSetbacks        \* bound on collisions and deferrals

Nobody == "nobody"

ASSUME GatewayAssumption ==
  /\ IsFiniteSet(Peers) /\ Lines \in Seq(Peers)
  /\ Peers \cap {Nobody, "line", "continue"} = {}
  /\ Pieces \in Nat /\ Pieces > 1
  /\ RingSize \in Nat \ {0} /\ NumEvents \in Nat
  /\ MaxNeighbors \in Nat /\ MaxPackets \in Nat
  /\ MaxTransmissions \in Nat \ {0} /\ SeqSpace \in Nat \ {0}
  /\ MaxSeqnos \in Nat \ {0} /\ Remembered \subseteq Seq(0 .. SeqSpace - 1)
  /\ MaxErrors \in Nat /\ MaxSetbacks \in Nat

\* The events that may be outstanding at once fit into the queue: one for the
\* timer of each neighbor queue, the line and the serial process's CONTINUE.
ASSUME QueueAssumption == MaxNeighbors + 2 <= NumEvents

VARIABLES
  written,          \* pieces the coordinator has written
  rxbuf,            \* the ring buffer of the serial input
  overflow,         \* is the rest of the line ignored?
  buf,              \* what serial_line_process has collected
  serial,           \* is it "filling" buf or "waiting" for CONTINUE?
  events,           \* the event queue
  poll_requested,
  needspoll,        \* the processes whose flag is set
  cpu,              \* what the CPU does next
  delivering,       \* how far the broadcast of a line has come
  queue,            \* the packet queue for each neighbor
  transmissions,    \* how often its first packet was sent in vain
  timer,            \* the timer that sends it, CSMA's or the phase module's
  sending,          \* the neighbor being sent to
  seqno,            \* the packets CSMA has numbered
  received_seqnos,  \* what each node remembers of the gateway's numbers
  heard,            \* the lines each node has received, for the properties
  errors,           \* bytes lost in the UART
  setbacks          \* collisions and deferrals so far

input == <<written, rxbuf, overflow, errors>>
reader == <<buf, serial>>
csma == <<queue, transmissions, timer, seqno>>
radio == <<sending, received_seqnos, heard, setbacks>>
vars == <<written, rxbuf, overflow, errors, buf, serial, events, poll_requested,
          needspoll, cpu, delivering, queue, transmissions, timer, seqno,
          sending, received_seqnos, heard, setbacks>>

IsNewline(piece) == piece % Pieces = 0
PiecesOf(k) == (k - 1) * Pieces + 1 .. k * Pieces
Text(k) == [j \in 1 .. Pieces - 1 |-> (k - 1) * Pieces + j]
Elements(s) == {s[x] : x \in 1 .. Len(s)}

Garbage == 0    \* the line number of a frame whose checksum is wrong
Packet == [line : 0 .. Len(Lines), seq : 0 .. SeqSpace - 1]

TypeOK ==
  /\ written \in 0 .. Len(Lines) * Pieces
  /\ rxbuf \in Seq(1 .. written) /\ Len(rxbuf) <= RingSize
  /\ overflow \in BOOLEAN
  /\ buf \in Seq(1 .. written) /\ serial \in {"filling", "waiting"}
  /\ events \in Seq({"line", "continue"} \cup Peers)
  /\ poll_requested \in BOOLEAN /\ needspoll \subseteq {"serial", "etimer"}
  /\ cpu \in {"run", "serial", "etimer", "expire", "event", "drain", "resume",
              "deliver", "transmit", "asleep"}
  /\ delivering \in {"nothing", "shell", "others"}
  /\ queue \in [Peers -> Seq(Packet)]
  /\ transmissions \in [Peers -> Nat]
  /\ timer \in [Peers -> {"off", "running", "expired", "posted"}]
  /\ sending \in Peers \cup {Nobody}
  /\ seqno \in Nat
  /\ received_seqnos \in [Peers -> Seq(0 .. SeqSpace - 1)]
  /\ heard \in [Peers -> Seq(1 .. Len(Lines))]
  /\ errors \in Nat /\ setbacks \in Nat

Init ==
  /\ written = 0 /\ rxbuf = <<>> /\ overflow = FALSE /\ errors = 0
  /\ buf = <<>> /\ serial = "filling"
  /\ events = <<>> /\ poll_requested = FALSE /\ needspoll = {}
  /\ cpu = "run" /\ delivering = "nothing"
  /\ queue = [n \in Peers |-> <<>>] /\ transmissions = [n \in Peers |-> 0]
  /\ timer = [n \in Peers |-> "off"] /\ seqno = 0
  /\ sending = Nobody
  /\ received_seqnos \in [Peers -> Remembered]
  /\ heard = [n \in Peers |-> <<>>] /\ setbacks = 0

-----------------------------------------------------------------------------
(* Interrupts *)

\* process_poll, by an interrupt that wakes the CPU or by the CPU itself.
ProcessPoll(p) == needspoll' = needspoll \cup {p} /\ poll_requested' = TRUE
Wake == cpu' = IF cpu = "asleep" THEN "run" ELSE cpu

\* A slip: a full buffer is not noticed.
RingbufPutAlways(piece) == Append(rxbuf, piece)

RingbufPut(piece) ==
  IF Len(rxbuf) < RingSize THEN Append(rxbuf, piece) ELSE rxbuf

\* A slip: after an overflow the input goes on as soon as there is room.
InputByteAnyRoom ==
  LET piece == written + 1
  IN  /\ rxbuf' = RingbufPut(piece)
      /\ overflow' = (Len(rxbuf) = RingSize)

\* serial_line_input_byte.
InputByte ==
  LET piece == written + 1
      stored == ~ overflow \/ IsNewline(piece)
  IN  /\ rxbuf' = IF stored THEN RingbufPut(piece) ELSE rxbuf
      /\ overflow' = IF stored THEN Len(rxbuf) = RingSize ELSE TRUE

UartInterrupt ==
  /\ written < Len(Lines) * Pieces
  /\ written' = written + 1
  /\ InputByte
  /\ ProcessPoll("serial") /\ Wake
  /\ UNCHANGED <<errors, reader, events, delivering, csma, radio>>

\* A byte with a receive error is read and thrown away.
UartError ==
  /\ written < Len(Lines) * Pieces /\ errors < MaxErrors
  /\ written' = written + 1 /\ errors' = errors + 1
  /\ UNCHANGED <<rxbuf, overflow, reader, events, poll_requested, needspoll, cpu,
                 delivering, csma, radio>>

\* The clock finds that the timer has run out.
ClockInterrupt(n) ==
  /\ timer[n] = "running"
  /\ timer' = [timer EXCEPT ![n] = "expired"]
  /\ ProcessPoll("etimer") /\ Wake
  /\ UNCHANGED <<input, reader, events, delivering, queue, transmissions, seqno,
                 radio>>

-----------------------------------------------------------------------------
(* The kernel: main, process_run, do_poll, do_event *)

Idle == events = <<>> /\ ~ poll_requested

\* A slip: only the event queue is looked at.
SleepHasty ==
  /\ cpu = "run" /\ events = <<>>
  /\ cpu' = "asleep"
  /\ UNCHANGED <<input, reader, events, poll_requested, needspoll, delivering,
                 csma, radio>>

\* Interrupts are off from the test until the CPU sleeps.
Sleep ==
  /\ cpu = "run" /\ Idle
  /\ cpu' = "asleep"
  /\ UNCHANGED <<input, reader, events, poll_requested, needspoll, delivering,
                 csma, radio>>

ProcessRun ==
  /\ cpu = "run" /\ ~ Idle
  /\ poll_requested' = FALSE
  /\ cpu' = IF poll_requested THEN "serial" ELSE "event"
  /\ UNCHANGED <<input, reader, events, needspoll, delivering, csma, radio>>

\* do_poll visits serial_line_process and then etimer_process.
PollSerial ==
  /\ cpu = "serial"
  /\ needspoll' = needspoll \ {"serial"}
  /\ cpu' = IF "serial" \in needspoll /\ serial = "filling" THEN "drain" ELSE "etimer"
  /\ UNCHANGED <<input, reader, events, poll_requested, delivering, csma, radio>>

AfterPoll == IF delivering = "nothing" THEN "event" ELSE "deliver"

PollEtimer ==
  /\ cpu = "etimer"
  /\ needspoll' = needspoll \ {"etimer"}
  /\ cpu' = IF "etimer" \in needspoll THEN "expire" ELSE AfterPoll
  /\ UNCHANGED <<input, reader, events, poll_requested, delivering, csma, radio>>

NoEvent ==
  /\ cpu = "event" /\ events = <<>>
  /\ cpu' = "run"
  /\ UNCHANGED <<input, reader, events, poll_requested, needspoll, delivering,
                 csma, radio>>

\* CONTINUE reaches serial_line_process.
Continue ==
  /\ cpu = "event" /\ events # <<>> /\ Head(events) = "continue"
  /\ events' = Tail(events)
  /\ serial' = "filling" /\ buf' = <<>> /\ cpu' = "resume"
  /\ UNCHANGED <<input, poll_requested, needspoll, delivering, csma, radio>>

\* The broadcast of a line begins.
DeliverLine ==
  /\ cpu = "event" /\ events # <<>> /\ Head(events) = "line"
  /\ events' = Tail(events)
  /\ delivering' = "shell" /\ cpu' = "deliver"
  /\ UNCHANGED <<input, reader, poll_requested, needspoll, csma, radio>>

\* A timer event reaches ctimer_process, which calls transmit_packet_list.
TransmitPacketList(n) ==
  /\ cpu = "event" /\ events # <<>> /\ Head(events) = n
  /\ events' = Tail(events)
  /\ timer' = [timer EXCEPT ![n] = "off"]
  /\ sending' = n /\ cpu' = "transmit"
  /\ UNCHANGED <<input, reader, poll_requested, needspoll, delivering, queue,
                 transmissions, seqno, received_seqnos, heard, setbacks>>

\* In between the processes that get a broadcast the flags are looked at.
PollInBroadcast ==
  /\ cpu = "deliver" /\ poll_requested
  /\ poll_requested' = FALSE /\ cpu' = "serial"
  /\ UNCHANGED <<input, reader, events, needspoll, delivering, csma, radio>>

EndBroadcast ==
  /\ cpu = "deliver" /\ ~ poll_requested /\ delivering = "others"
  /\ delivering' = "nothing" /\ cpu' = "run"
  /\ UNCHANGED <<input, reader, events, poll_requested, needspoll, csma, radio>>

-----------------------------------------------------------------------------
(* serial_line_process *)

ReadsRing == cpu \in {"drain", "resume"}
Yield == cpu' = IF cpu = "drain" THEN "etimer" ELSE "run"

RingEmpty ==
  /\ ReadsRing /\ rxbuf = <<>>
  /\ Yield
  /\ UNCHANGED <<input, reader, events, poll_requested, needspoll, delivering,
                 csma, radio>>

TakePiece ==
  /\ ReadsRing /\ rxbuf # <<>> /\ ~ IsNewline(Head(rxbuf))
  /\ rxbuf' = Tail(rxbuf)
  /\ buf' = IF Len(buf) < RingSize THEN Append(buf, Head(rxbuf)) ELSE buf
  /\ UNCHANGED <<written, overflow, errors, serial, events, poll_requested,
                 needspoll, cpu, delivering, csma, radio>>

\* A slip: the process does not wait until the line is delivered.
EndLineWithoutWaiting ==
  /\ ReadsRing /\ rxbuf # <<>> /\ IsNewline(Head(rxbuf))
  /\ rxbuf' = Tail(rxbuf)
  /\ events' = IF Len(events) < NumEvents THEN Append(events, "line") ELSE events
  /\ buf' = <<>>
  /\ UNCHANGED <<written, overflow, errors, serial, poll_requested, needspoll, cpu,
                 delivering, csma, radio>>

\* The line is announced and CONTINUE posted; the process only waits for it,
\* and leaves buf alone, when there was room for it.
EndLine ==
  /\ ReadsRing /\ rxbuf # <<>> /\ IsNewline(Head(rxbuf))
  /\ rxbuf' = Tail(rxbuf)
  /\ IF Len(events) + 2 <= NumEvents
       THEN /\ events' = events \o <<"line", "continue">>
            /\ serial' = "waiting" /\ Yield
            /\ UNCHANGED buf
       ELSE /\ events' = IF Len(events) < NumEvents THEN Append(events, "line") ELSE events
            /\ buf' = <<>>
            /\ UNCHANGED <<serial, cpu>>
  /\ UNCHANGED <<written, overflow, errors, poll_requested, needspoll, delivering,
                 csma, radio>>

-----------------------------------------------------------------------------
(* etimer_process *)

\* A slip: the timer stays on the list of those that are pending.
PostTimerKeeping(n) ==
  /\ cpu = "expire" /\ timer[n] = "expired" /\ Len(events) < NumEvents
  /\ events' = Append(events, n)
  /\ UNCHANGED <<input, reader, poll_requested, needspoll, cpu, delivering, csma,
                 radio>>

PostTimer(n) ==
  /\ cpu = "expire" /\ timer[n] = "expired" /\ Len(events) < NumEvents
  /\ events' = Append(events, n)
  /\ timer' = [timer EXCEPT ![n] = "posted"]
  /\ UNCHANGED <<input, reader, poll_requested, needspoll, cpu, delivering, queue,
                 transmissions, seqno, radio>>

EndExpire ==
  /\ cpu = "expire"
  /\ \/ /\ \A n \in Peers : timer[n] # "expired"
        /\ UNCHANGED <<poll_requested, needspoll>>
     \/ /\ \E n \in Peers : timer[n] = "expired"
        /\ Len(events) = NumEvents
        /\ ProcessPoll("etimer")
  /\ cpu' = AfterPoll
  /\ UNCHANGED <<input, reader, events, delivering, csma, radio>>

-----------------------------------------------------------------------------
(* The shell, the setup command and csma.send_packet *)

Neighbors == {n \in Peers : queue[n] # <<>>}
Packets == UNION {{n} \X DOMAIN queue[n] : n \in Peers}

\* CSMA numbers its packets from 0; a frame with number 0 gets the framer's,
\* which starts at random.
SeqOfPacket == IF seqno = 0 THEN 0 .. SeqSpace - 1 ELSE {seqno % SeqSpace}

SendPacket(n, k) ==
  /\ seqno' = seqno + 1
  /\ IF /\ n \in Neighbors \/ Cardinality(Neighbors) < MaxNeighbors
        /\ Cardinality(Packets) < MaxPackets
       THEN \E s \in SeqOfPacket :
              queue' = [queue EXCEPT ![n] = Append(@, [line |-> k, seq |-> s])]
       ELSE UNCHANGED queue
  /\ IF queue[n] = <<>> /\ queue'[n] # <<>>
       THEN /\ transmissions' = [transmissions EXCEPT ![n] = 0]
            /\ timer' = [timer EXCEPT ![n] = "expired"]
            /\ ProcessPoll("etimer")
       ELSE UNCHANGED <<transmissions, timer, needspoll, poll_requested>>

Intact(k) == buf = Text(k)

\* shell_input and the setup command.  A line that lost something on the way
\* makes no command, or a frame whose checksum is wrong.
ShellInput ==
  /\ cpu = "deliver" /\ ~ poll_requested /\ delivering = "shell"
  /\ delivering' = "others"
  /\ \/ \E k \in 1 .. Len(Lines) : Intact(k) /\ SendPacket(Lines[k], k)
     \/ /\ \A k \in 1 .. Len(Lines) : ~ Intact(k)
        /\ \/ \E n \in Peers : buf # <<>> /\ SendPacket(n, Garbage)
           \/ UNCHANGED <<csma, needspoll, poll_requested>>
  /\ UNCHANGED <<input, reader, events, cpu, radio>>

-----------------------------------------------------------------------------
(* contikimac: qsend_list, send_packet; csma.packet_sent *)

\* A slip: every frame is passed on.
HearAll(n, f) ==
  /\ received_seqnos' = received_seqnos
  /\ heard' = IF f.line = Garbage THEN heard
              ELSE [heard EXCEPT ![n] = Append(@, f.line)]

\* input_packet at node n: a frame whose number is remembered is dropped.
Hear(n, f) ==
  IF f.seq \in Elements(received_seqnos[n])
    THEN UNCHANGED <<received_seqnos, heard>>
    ELSE /\ received_seqnos' = [received_seqnos EXCEPT ![n] =
              SubSeq(<<f.seq>> \o @, 1,
                     IF Len(@) < MaxSeqnos THEN Len(@) + 1 ELSE MaxSeqnos)]
         /\ heard' = IF f.line = Garbage THEN heard
                     ELSE [heard EXCEPT ![n] = Append(@, f.line)]

\* The frame arrives, or it does not.
Air(n) ==
  \/ Hear(n, Head(queue[n]))
  \/ UNCHANGED <<received_seqnos, heard>>

SetTimer(n) ==
  timer' = [timer EXCEPT ![n] = "running"] /\ ProcessPoll("etimer")

\* A slip: no timer for the next packet.
FreeFirstPacketOnly(n) ==
  /\ queue' = [queue EXCEPT ![n] = Tail(@)]
  /\ transmissions' = [transmissions EXCEPT ![n] = 0]
  /\ UNCHANGED <<timer, needspoll, poll_requested>>

FreeFirstPacket(n) ==
  /\ queue' = [queue EXCEPT ![n] = Tail(@)]
  /\ transmissions' = [transmissions EXCEPT ![n] = 0]
  /\ IF Tail(queue[n]) # <<>> THEN SetTimer(n)
     ELSE /\ timer' = [timer EXCEPT ![n] = "off"]
          /\ UNCHANGED <<needspoll, poll_requested>>

EndBurst == sending' = Nobody /\ cpu' = "run"

TransmitOK(n) ==
  /\ cpu = "transmit" /\ sending = n
  /\ Air(n) /\ FreeFirstPacket(n)
  /\ IF Tail(queue[n]) # <<>> THEN UNCHANGED <<sending, cpu>> ELSE EndBurst
  /\ UNCHANGED <<input, reader, events, delivering, seqno, setbacks>>

\* A slip: a transmission in vain is not counted.
TransmitNoAckUncounted(n) ==
  /\ cpu = "transmit" /\ sending = n
  /\ Air(n) /\ SetTimer(n) /\ EndBurst
  /\ UNCHANGED <<input, reader, events, delivering, queue, transmissions, seqno,
                 setbacks>>

\* No acknowledgement: once more, or the packet is given up.
TransmitNoAck(n) ==
  /\ cpu = "transmit" /\ sending = n
  /\ Air(n)
  /\ IF transmissions[n] + 1 < MaxTransmissions
       THEN /\ transmissions' = [transmissions EXCEPT ![n] = @ + 1]
            /\ SetTimer(n) /\ UNCHANGED queue
       ELSE FreeFirstPacket(n)
  /\ EndBurst
  /\ UNCHANGED <<input, reader, events, delivering, seqno, setbacks>>

\* A collision, or the phase module puts the transmission off: the packet is
\* sent again later, and the attempt does not count.
TransmitLater(n) ==
  /\ cpu = "transmit" /\ sending = n /\ setbacks < MaxSetbacks
  /\ setbacks' = setbacks + 1
  /\ Air(n) /\ SetTimer(n) /\ EndBurst
  /\ UNCHANGED <<input, reader, events, delivering, queue, transmissions, seqno>>

-----------------------------------------------------------------------------
Kernel ==
  \/ Sleep \/ ProcessRun \/ PollSerial \/ PollEtimer \/ NoEvent \/ Continue
  \/ DeliverLine \/ PollInBroadcast \/ EndBroadcast
Processes ==
  \/ RingEmpty \/ TakePiece \/ EndLine \/ EndExpire \/ ShellInput
  \/ \E n \in Peers : \/ PostTimer(n) \/ TransmitPacketList(n)
                      \/ TransmitOK(n) \/ TransmitNoAck(n) \/ TransmitLater(n)
Next ==
  \/ UartInterrupt \/ UartError \/ \E n \in Peers : ClockInterrupt(n)
  \/ Kernel \/ Processes

Spec == Init /\ [][Next]_vars

\* The CPU runs and the clock ticks; nobody has to write anything.
Fairness ==
  WF_vars(Kernel \/ Processes) /\ \A n \in Peers : WF_vars(ClockInterrupt(n))
LiveSpec == Spec /\ Fairness

-----------------------------------------------------------------------------
(* Properties *)

\* process_nevents is 0 while the CPU sleeps, but is nothing left to do either?
\* No byte waits in the ring buffer and no expired timer on the list: the flags
\* are cleared before the processes are called, not after.
SleepsOnlyWhenDone ==
  cpu = "asleep" =>
    /\ rxbuf = <<>> /\ serial = "filling" /\ needspoll = {}
    /\ \A n \in Peers : timer[n] \in {"off", "running"}

\* An announced line stays in buf until the shell has read it: the comment at
\* serial-line.c:119 "Wait until all processes have handled the serial line
\* event".
Announced == "line" \in Elements(events) \/ delivering # "nothing"
BufferHeld == Announced => serial = "waiting"

\* Whoever posts an event finds room for it.
PostsSucceed ==
  /\ ReadsRing => Len(events) + 2 <= NumEvents
  /\ cpu = "expire" /\ (\E n \in Peers : timer[n] = "expired")
       => Len(events) < NumEvents

\* When the UART loses nothing, what the shell gets is the beginning of one
\* line, however often the ring buffer overflowed.
NoMixture ==
  errors = 0 /\ buf # <<>> =>
    \E k \in 1 .. Len(Lines) : buf = SubSeq(Text(k), 1, Len(buf))

\* A packet that is queued will be sent: by the present burst, or by a timer.
QueueHasTimer ==
  \A n \in Peers :
    queue[n] # <<>> <=> timer[n] # "off" \/ sending = n

\* What was written is worked off, or is lost, and the gateway goes to sleep.
ComesToRest ==
  <>[](cpu = "asleep" /\ rxbuf = <<>> /\ \A n \in Peers : queue[n] = <<>>)

\* The lines and frames on their way, for the abstract relay.
Stream ==
  IF serial = "filling" \/ "line" \in Elements(events) \/ delivering = "shell"
    THEN Elements(buf) \cup Elements(rxbuf) ELSE Elements(rxbuf)
OnItsWay(k) ==
  LET begun == {c \in Elements(Text(k)) : c <= written}
  IN  begun # {} /\ begun \subseteq Stream

Coming == {k \in 1 .. Len(Lines) : OnItsWay(k)}
Begun == (written + Pieces - 1) \div Pieces

LastHeard(n) == IF heard[n] = <<>> THEN 0 ELSE heard[n][Len(heard[n])]
Queued(n) == {queue[n][x].line : x \in 1 .. Len(queue[n])}
Flying(n) == {k \in Queued(n) : k > LastHeard(n)}

Relay ==
  INSTANCE LossyRelay WITH
    begun <- Begun, line <- Coming, air <- [n \in Peers |-> Flying(n)]
RelayKept == Relay!Spec
=============================================================================
