----------------------------- MODULE Deployment -----------------------------
(***************************************************************************)
(* One coordinator deploys keys through a gateway mote to the nodes of     *)
(* Queue: SerialWorker's rounds, the gateway's setup command, the radio,   *)
(* the receivers' handlers and the way back of an answer.  SerialWorker    *)
(* keeps its monitor except in this.wait(RTT), so the reader thread        *)
(* changes latestResponse only while pc = "waiting" (SerialLink models the *)
(* monitors themselves).                                                   *)
(***************************************************************************)
EXTENDS Integers, Sequences, FiniteSets, LeapReceiver, MessageWrapper

CONSTANTS
  Gateway,        \* the mote on the serial line
  Queue,          \* the destinations, in the order of the wrappers
  Messages,       \* Messages[d] is the list MessageWrapper builds for d
  Prompt,         \* is RTT longer than any answer takes?
  MayAbort,       \* may the user press the cancel button?
  MaxGeneration,  \* bound on presses of "Generate"
  MaxLosses,      \* bound on frames, lines and answers lost
  Rebooting,      \* the nodes that may be switched off and on
  MaxReboots,     \* bound on the power cycles of each of them
  MaxInFlight     \* bound on lines and frames under way when a wait times out

ASSUME DeploymentAssumption ==
  /\ Gateway \in Nodes
  /\ Queue \in Seq(Nodes)
  /\ \A p, q \in 1 .. Len(Queue) : Queue[p] = Queue[q] => p = q
  /\ Messages \in [Nodes -> Seq(Message)]
  /\ \A d \in Nodes : Len(Messages[d]) > 0 /\ Messages[d][1] = BasicMessage
  /\ Prompt \in BOOLEAN /\ MayAbort \in BOOLEAN
  /\ MaxGeneration \in Nat /\ MaxLosses \in Nat
  /\ Rebooting \subseteq Nodes /\ MaxReboots \in Nat /\ MaxInFlight \in Nat

VARIABLES
  pc,              \* where SerialWorker.run is
  i,               \* its loop variable, from 1
  wrappers,        \* the messages still to be sent to each destination
  sent,            \* how many of the present list are written
  latestResponse,  \* the last answer's mask, or NoResponse
  notified,        \* did the reader thread notify the worker?
  generation,      \* the generation of the keys being deployed
  line,            \* setup commands written and not yet executed by the gateway
  air,             \* frames on their way to each node
  console,         \* NACK lines the gateway printed and nobody has read
  node,            \* the RAM of every node
  losses,          \* how many frames, lines and answers were lost
  reboots          \* how often each node was switched off and on

worker == <<pc, i, wrappers, sent, latestResponse, notified, generation>>
network == <<line, air, console, node>>
vars == <<pc, i, wrappers, sent, latestResponse, notified, generation,
          line, air, console, node, losses, reboots>>

NoResponse == {-1}    \* latestResponse = "", which is no mask
FreshWrappers == [p \in 1 .. Len(Queue) |-> Messages[Queue[p]]]

\* A line "setup <destination> <message>".
SetupLine == [dst : Nodes, msg : Message, gen : Nat \ {0}, seq : Bits, rem : Bits]

Quiescent == line = <<>> /\ console = <<>> /\ \A n \in Nodes : air[n] = <<>>

TypeOK ==
  /\ pc \in {"start", "sending", "waiting", "done", "aborted"}
  /\ i \in 1 .. Len(Queue) + 1
  /\ wrappers \in [1 .. Len(Queue) -> Seq(Message)]
  /\ sent \in Nat
  /\ latestResponse \in {NoResponse} \cup SUBSET Bits
  /\ notified \in BOOLEAN
  /\ generation \in Nat \ {0}
  /\ line \in Seq(SetupLine)
  /\ air \in [Nodes -> Seq(Frame)]
  /\ console \in Seq(SUBSET Bits)
  /\ node \in [Nodes -> NodeState]
  /\ losses \in Nat /\ reboots \in [Nodes -> Nat]

Init ==
  /\ pc = "start" /\ i = 1 /\ wrappers = FreshWrappers /\ sent = 0
  /\ latestResponse = NoResponse /\ notified = FALSE /\ generation = 1
  /\ line = <<>> /\ air = [n \in Nodes |-> <<>>] /\ console = <<>>
  /\ node = [n \in Nodes |-> Booted]
  /\ losses = 0 /\ reboots = [n \in Nodes |-> 0]

-----------------------------------------------------------------------------
(* SerialWorker.run *)

\* The head of the while loop: the next destination, or the end.
StartRound ==
  /\ pc = "start" /\ i <= Len(Queue)
  /\ pc' = "sending" /\ sent' = 0
  /\ UNCHANGED <<i, wrappers, latestResponse, notified, generation, network,
                 losses, reboots>>

Finish ==
  /\ pc = "start" /\ i > Len(Queue)
  /\ pc' = "done"
  /\ UNCHANGED <<i, wrappers, sent, latestResponse, notified, generation,
                 network, losses, reboots>>

\* The dialog's flag is tested nowhere but at the head of the loop.
Abort ==
  /\ MayAbort /\ pc = "start" /\ i <= Len(Queue)
  /\ pc' = "aborted"
  /\ UNCHANGED <<i, wrappers, sent, latestResponse, notified, generation,
                 network, losses, reboots>>

\* SerialCommunicator.send writes the lines of getMessages one after another.
SendLine ==
  /\ pc = "sending" /\ sent < Len(wrappers[i])
  /\ LET header == GenerateHeader(sent + 1, Len(wrappers[i]))
     IN  line' = Append(line, [dst |-> Queue[i], msg |-> wrappers[i][sent + 1],
                               gen |-> generation, seq |-> header.seq,
                               rem |-> header.rem])
  /\ sent' = sent + 1
  /\ UNCHANGED <<pc, i, wrappers, latestResponse, notified, generation, air,
                 console, node, losses, reboots>>

BeginWait ==
  /\ pc = "sending" /\ sent = Len(wrappers[i])
  /\ pc' = "waiting" /\ notified' = FALSE
  /\ UNCHANGED <<i, wrappers, sent, latestResponse, generation, network,
                 losses, reboots>>

\* A wait that nobody ended runs out after RTT.  If RTT is long enough,
\* nothing is under way any more by then.
TimeoutPossible ==
  IF Prompt THEN Quiescent
  ELSE /\ Len(line) + Len(console) <= MaxInFlight
       /\ \A n \in Nodes : Len(air[n]) <= MaxInFlight

Woken == pc = "waiting" /\ (notified \/ TimeoutPossible)

\* analyseNACK(i) in its three outcomes; all three end the round.
NoAnswer ==
  /\ Woken /\ latestResponse = NoResponse
  /\ pc' = "start"
  /\ UNCHANGED <<i, wrappers, sent, latestResponse, notified, generation,
                 network, losses, reboots>>

NothingMissing ==
  /\ Woken /\ latestResponse # NoResponse
  /\ Misses(latestResponse, Len(wrappers[i])) = {}
  /\ pc' = "start" /\ latestResponse' = NoResponse /\ i' = i + 1
  /\ UNCHANGED <<wrappers, sent, notified, generation, network, losses, reboots>>

\* A slip: the answer is kept for the next round.
SomethingMissingKeepsAnswer ==
  /\ Woken /\ latestResponse # NoResponse
  /\ Misses(latestResponse, Len(wrappers[i])) # {}
  /\ wrappers' = [wrappers EXCEPT ![i] =
       AdjustMisses(@, Descending(Misses(latestResponse, Len(@))))]
  /\ pc' = "start"
  /\ UNCHANGED <<i, sent, latestResponse, notified, generation, network,
                 losses, reboots>>

SomethingMissing ==
  /\ Woken /\ latestResponse # NoResponse
  /\ Misses(latestResponse, Len(wrappers[i])) # {}
  /\ wrappers' = [wrappers EXCEPT ![i] =
       AdjustMisses(@, Descending(Misses(latestResponse, Len(@))))]
  /\ pc' = "start" /\ latestResponse' = NoResponse
  /\ UNCHANGED <<i, sent, notified, generation, network, losses, reboots>>

\* "Deploy" again: a new SerialWorker with new wrappers, for the same keys or
\* after another "Generate".  The nodes keep what they have.
Redeploy ==
  /\ pc \in {"done", "aborted"}
  /\ generation' \in {generation, generation + 1} /\ generation' <= MaxGeneration
  /\ pc' = "start" /\ i' = 1 /\ wrappers' = FreshWrappers /\ sent' = 0
  /\ latestResponse' = NoResponse /\ notified' = FALSE
  /\ UNCHANGED <<network, losses, reboots>>

-----------------------------------------------------------------------------
(* The reader thread: SerialNodeDispatcher.run, SendSetup.receiveString *)

Response ==
  /\ pc = "waiting" /\ console # <<>>
  /\ latestResponse' = Head(console) /\ notified' = TRUE
  /\ console' = Tail(console)
  /\ UNCHANGED <<pc, i, wrappers, sent, generation, line, air, node, losses, reboots>>

\* A line whose checksum is wrong is dropped, but the worker is notified.
CorruptResponse ==
  /\ pc = "waiting" /\ console # <<>> /\ losses < MaxLosses
  /\ notified' = TRUE
  /\ console' = Tail(console) /\ losses' = losses + 1
  /\ UNCHANGED <<pc, i, wrappers, sent, latestResponse, generation, line, air,
                 node, reboots>>

-----------------------------------------------------------------------------
(* The motes *)

\* What send_ack_nack does with the answer of node n, whose RAM is ram: a
\* frame to key_sender, or a line on n's own console.  Only the gateway's
\* console is read.
Answer(n, ram, mask, air1) ==
  IF AnswersByRadio(ram, n)
    THEN /\ air' = [air1 EXCEPT ![ram.key_sender] =
                      Append(@, [kind |-> "nack", src |-> n, mask |-> mask])]
         /\ UNCHANGED console
    ELSE /\ air' = air1
         /\ console' = IF n = Gateway THEN Append(console, mask) ELSE console

\* process_message for a message that arrived at node n.
Process(n, ram, f, air1) ==
  /\ node' = [node EXCEPT ![n] = Multiplex(ram, f)]
  /\ IF AnswerDue(f) THEN Answer(n, ram, AnswerMask(ram, f), air1)
     ELSE air' = air1 /\ UNCHANGED console

DataFor(command) ==
  [kind |-> "data", src |-> Gateway, msg |-> command.msg, gen |-> command.gen,
   seq |-> command.seq, rem |-> command.rem]

\* The gateway executes a setup command: it forwards the message, or it is the
\* destination itself.
Forward ==
  /\ line # <<>> /\ Head(line).dst # Gateway
  /\ line' = Tail(line)
  /\ node' = [node EXCEPT ![Gateway] = KnowSender(@, Gateway)]
  /\ air' = [air EXCEPT ![Head(line).dst] = Append(@, DataFor(Head(line)))]
  /\ UNCHANGED <<worker, console, losses, reboots>>

SetupLocally ==
  /\ line # <<>> /\ Head(line).dst = Gateway
  /\ line' = Tail(line)
  /\ Process(Gateway, KnowSender(node[Gateway], Gateway), DataFor(Head(line)), air)
  /\ UNCHANGED <<worker, losses, reboots>>

\* recv_uc.
ReceiveData(n) ==
  /\ air[n] # <<>> /\ Head(air[n]).kind = "data"
  /\ Process(n, KnowSender(node[n], Head(air[n]).src), Head(air[n]),
             [air EXCEPT ![n] = Tail(@)])
  /\ UNCHANGED <<worker, line, losses, reboots>>

ReceiveNack(n) ==
  /\ air[n] # <<>> /\ Head(air[n]).kind = "nack"
  /\ node' = [node EXCEPT ![n] = KnowSender(@, Head(air[n]).src)]
  /\ air' = [air EXCEPT ![n] = Tail(@)]
  /\ console' = IF n = Gateway THEN Append(console, Head(air[n]).mask) ELSE console
  /\ UNCHANGED <<worker, line, losses, reboots>>

-----------------------------------------------------------------------------
(* The environment *)

\* The mote's serial input overruns.
LoseLine ==
  /\ line # <<>> /\ losses < MaxLosses
  /\ line' = Tail(line) /\ losses' = losses + 1
  /\ UNCHANGED <<worker, air, console, node, reboots>>

\* The answer is read by the reader thread of an aborted deployment, whose
\* serial link nobody closed.
LoseResponse ==
  /\ console # <<>> /\ losses < MaxLosses
  /\ console' = Tail(console) /\ losses' = losses + 1
  /\ UNCHANGED <<worker, line, air, node, reboots>>

\* The MAC layer gives up, a receive queue is full, a checksum is wrong.
LoseFrame(n) ==
  /\ air[n] # <<>> /\ losses < MaxLosses
  /\ air' = [air EXCEPT ![n] = Tail(@)] /\ losses' = losses + 1
  /\ UNCHANGED <<worker, line, console, node, reboots>>

\* A node is switched off and on: everything it knows is in RAM.
Reboot(n) ==
  /\ n \in Rebooting /\ reboots[n] < MaxReboots /\ node[n] # Booted
  /\ node' = [node EXCEPT ![n] = Booted]
  /\ reboots' = [reboots EXCEPT ![n] = @ + 1]
  /\ UNCHANGED <<worker, line, air, console, losses>>

Worker == StartRound \/ Finish \/ SendLine \/ BeginWait
            \/ NoAnswer \/ NothingMissing \/ SomethingMissing
Mote(n) == ReceiveData(n) \/ ReceiveNack(n)

Next ==
  \/ StartRound \/ Finish \/ Abort \/ SendLine \/ BeginWait
  \/ NoAnswer \/ NothingMissing \/ SomethingMissing \/ Redeploy
  \/ Response \/ CorruptResponse
  \/ Forward \/ SetupLocally
  \/ \E n \in Nodes : ReceiveData(n) \/ ReceiveNack(n) \/ LoseFrame(n) \/ Reboot(n)
  \/ LoseLine \/ LoseResponse

Spec == Init /\ [][Next]_vars

\* The threads of the coordinator are scheduled, the motes execute what
\* reaches them; losses, reboots and the user are under no obligation.
Fairness ==
  /\ WF_vars(Worker)
  /\ WF_vars(Response)
  /\ WF_vars(Forward) /\ WF_vars(SetupLocally)
  /\ \A n \in Nodes : WF_vars(Mote(n))
LiveSpec == Spec /\ Fairness

-----------------------------------------------------------------------------
(* Properties *)

\* Node d has the keys of message m, the basic ones in the generation that is
\* being deployed.
Installed(d, m) ==
  /\ m.type = "basic" => node[d].basic = generation
  /\ \A a \in m.pairwise : node[d].pairwise[a] # NoKey
  /\ \A a \in m.cluster : node[d].cluster[a] # NoKey

Complete(d) == \A m \in Elements(Messages[d]) : Installed(d, m)

\* A node that was switched off has lost what it had.
KeptPower(d) == reboots[d] = 0

\* The coordinator leaves a destination behind only when all its messages
\* arrived there: the promise of analyseNACK (SerialWorker.java:121-124).
ServedComplete ==
  \A p \in 1 .. i - 1 : KeptPower(Queue[p]) => Complete(Queue[p])

\* A message that is no longer in the list of a destination was received by
\* it: adjustMisses drops nothing that is still needed.
DroppedMessagesArrived ==
  \A p \in 1 .. Len(Queue) : KeptPower(Queue[p]) =>
    \A m \in Elements(Messages[Queue[p]]) :
      m \in Elements(wrappers[p]) \/ Installed(Queue[p], m)

\* The sequence numbers a node has collected are those of messages of the
\* present list that arrived: no bit survives a renumbering of the list.
MaskIsCurrent ==
  \A p \in 1 .. Len(Queue) :
    \A b \in node[Queue[p]].sequence_mask :
      /\ p = i /\ b < Len(wrappers[p])
      /\ Installed(Queue[p], wrappers[p][b + 1])

\* The course of a round when RTT is long enough.  Either messages are still
\* on their way, in order and with headers of the present list, and no answer
\* has been given; or all messages are gone and there is at most one answer,
\* in the air, on the gateway's console or in the worker's hands, and it
\* proves that the messages it names arrived (unless power was lost since).
Dest == Queue[i]
InRound == pc \in {"sending", "waiting"}

\* f was written in this round.
FromThisRound(f) ==
  /\ f.gen = generation
  /\ f.seq < sent
  /\ f.msg = wrappers[i][f.seq + 1]
  /\ f.rem = Len(wrappers[i]) - 1 - f.seq

Proves(mask) ==
  KeptPower(Dest) =>
    \A b \in mask : b < Len(wrappers[i]) => Installed(Dest, wrappers[i][b + 1])

NotNotified == latestResponse = NoResponse /\ (pc = "waiting" => ~ notified)
\* In the order they were written; all of s before all of t.
Rising(s) == \A j, k \in 1 .. Len(s) : j < k => s[j].seq < s[k].seq
Before(s, t) == \A j \in 1 .. Len(s), k \in 1 .. Len(t) : s[j].seq < t[k].seq

AirEmpty == \A n \in Nodes : air[n] = <<>>

Collecting ==
  /\ console = <<>> /\ NotNotified
  /\ \A n \in Nodes : n # Dest \/ n = Gateway => air[n] = <<>>
  /\ \A k \in 1 .. Len(line) : line[k].dst = Dest /\ FromThisRound(line[k])
  /\ \A k \in 1 .. Len(air[Dest]) :
       air[Dest][k].kind = "data" /\ FromThisRound(air[Dest][k])
  /\ Rising(air[Dest]) /\ Rising(line) /\ Before(air[Dest], line)

Settled ==
  sent = Len(wrappers[i]) /\ line = <<>> /\ node[Dest].sequence_mask = {}

AnswerInAir ==
  /\ Settled /\ console = <<>> /\ NotNotified
  /\ \E n \in Nodes :
       /\ Len(air[n]) = 1 /\ air[n][1].kind = "nack" /\ Proves(air[n][1].mask)
       /\ \A m \in Nodes \ {n} : air[m] = <<>>

AnswerPrinted ==
  /\ Settled /\ AirEmpty /\ NotNotified
  /\ Len(console) = 1 /\ Proves(console[1])

AnswerRead ==
  /\ Settled /\ AirEmpty /\ console = <<>> /\ pc = "waiting" /\ notified
  /\ latestResponse = NoResponse \/ Proves(latestResponse)

RoundInOrder ==
  IF InRound
    THEN /\ i <= Len(Queue) /\ sent <= Len(wrappers[i])
         /\ Collecting \/ AnswerInAir \/ AnswerPrinted \/ AnswerRead
    ELSE Quiescent /\ latestResponse = NoResponse

\* A node answers to the node that sent it the keys (leap.c:41-43).
AcksWhoSentKeys ==
  \A n \in Nodes : node[n].key_sender \in {NoAddr, Gateway}

\* A key list entry is never changed or lost while the node is powered: the
\* first key stored for a neighbour stays (srime.c:117-121).
StoredKeysStay ==
  [][\A n \in Nodes : node'[n] = Booted \/
       \A a \in Nodes :
         /\ node[n].pairwise[a] # NoKey => node'[n].pairwise[a] = node[n].pairwise[a]
         /\ node[n].cluster[a] # NoKey => node'[n].cluster[a] = node[n].cluster[a]]_vars

\* Once the losses have stopped, a deployment comes to an end (README:25
\* "hit on deploy and wait for the key material to be deployed").
DeploymentEnds == <>(pc \in {"done", "aborted"})

\* The abstract promise, with the served destinations, the complete ones and
\* those that lost their power.
Promise ==
  INSTANCE KeyDeployment WITH
    served <- i - 1,
    complete <- {p \in 1 .. Len(Queue) : Complete(Queue[p])},
    failed <- {p \in 1 .. Len(Queue) : ~ KeptPower(Queue[p])}
PromiseKept == Promise!Spec
=============================================================================
