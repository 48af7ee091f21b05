-------------------------- MODULE DeploymentProofs --------------------------
(***************************************************************************)
(* Theorems about Deployment, for every network, queue of destinations,    *)
(* message lists and bounds.                                               *)
(***************************************************************************)
EXTENDS Deployment, MessageProofs, FiniteSetTheorems, FunctionTheorems,
        SequenceTheorems

-----------------------------------------------------------------------------
(* What adjustMisses leaves of a list of messages, for every answer *)

\* The misses of an answer are enumerated without gap or repetition: the
\* sequence that analyseNACK builds has exactly the missing bits as elements.
LEMMA DescendingCovers ==
  ASSUME NEW S \in SUBSET Nat, IsFiniteSet(S)
  PROVE  /\ Descending(S) \in [1 .. Cardinality(S) -> S]
         /\ \A b \in S : \E p \in 1 .. Cardinality(S) : Descending(S)[p] = b
<1> DEFINE n == Cardinality(S)
           Greater(b) == {c \in S : c > b}
           rank == [b \in S |-> Cardinality(Greater(b)) + 1]
<1>1. n \in Nat
  BY FS_CardinalityType
<1>2. \A b \in S : /\ IsFiniteSet(Greater(b)) /\ Cardinality(Greater(b)) \in Nat
                   /\ rank[b] = Cardinality(Greater(b)) + 1
  BY FS_Subset, FS_CardinalityType
<1>3. rank \in [S -> 1 .. n]
  <2> SUFFICES ASSUME NEW b \in S PROVE Cardinality(Greater(b)) + 1 \in 1 .. n
    OBVIOUS
  <2>1. Greater(b) \in SUBSET S /\ Greater(b) # S
    <3>1. b \in S /\ b \notin Greater(b)
      OBVIOUS
    <3> QED BY <3>1
  <2>2. Cardinality(Greater(b)) <= n /\ Cardinality(Greater(b)) # n
    BY <2>1, FS_Subset
  <2> QED BY <1>1, <1>2, <2>2
<1>4. \A a, b \in S : a < b => Cardinality(Greater(b)) < Cardinality(Greater(a))
  <2> SUFFICES ASSUME NEW a \in S, NEW b \in S, a < b
               PROVE  Cardinality(Greater(b)) < Cardinality(Greater(a))
    OBVIOUS
  <2>1. Greater(b) \in SUBSET Greater(a)
    <3> SUFFICES ASSUME NEW c \in S, c > b PROVE c > a
      OBVIOUS
    <3>1. a \in Nat /\ b \in Nat /\ c \in Nat
      OBVIOUS
    <3> QED BY <3>1
  <2>2. b \in Greater(a) /\ b \notin Greater(b)
    OBVIOUS
  <2>3. Greater(b) # Greater(a)
    BY <2>2
  <2>4. /\ Cardinality(Greater(b)) <= Cardinality(Greater(a))
        /\ Cardinality(Greater(b)) # Cardinality(Greater(a))
    BY <1>2, <2>1, <2>3, FS_Subset
  <2> QED BY <1>2, <2>4
<1> HIDE DEF rank
<1>5. \A a, b \in S : rank[a] = rank[b] => a = b
  <2> SUFFICES ASSUME NEW a \in S, NEW b \in S, rank[a] = rank[b] PROVE a = b
    OBVIOUS
  <2>1. a \in Nat /\ b \in Nat
    OBVIOUS
  <2>2. Cardinality(Greater(a)) = Cardinality(Greater(b))
    <3>1. /\ Cardinality(Greater(a)) \in Nat /\ Cardinality(Greater(b)) \in Nat
          /\ Cardinality(Greater(a)) + 1 = Cardinality(Greater(b)) + 1
      BY <1>2
    <3> HIDE DEF Greater
    <3> QED BY <3>1
  <2>3. ~ (a < b) /\ ~ (b < a)
    BY <1>2, <1>4, <2>2
  <2> QED BY <2>1, <2>3
<1>6. rank \in Surjection(S, 1 .. n)
  <2>1. IsFiniteSet(1 .. n) /\ Cardinality(1 .. n) = n
    BY <1>1, FS_Interval
  <2>2. rank \in Injection(S, 1 .. n)
    BY <1>3, <1>5, Fun_IsInj
  <2> QED BY <2>1, <2>2, FS_Injection
<1> HIDE DEF Greater
<1>7. \A p \in 1 .. n : \E b \in S : Cardinality(Greater(b)) = p - 1
  <2> SUFFICES ASSUME NEW p \in 1 .. n
               PROVE  \E b \in S : Cardinality(Greater(b)) = p - 1
    OBVIOUS
  <2>1. PICK b \in S : rank[b] = p
    BY <1>6 DEF Surjection
  <2> QED BY <1>1, <1>2, <2>1
<1> DEFINE s == Descending(S)
<1>8. \A p \in 1 .. n : s[p] \in S /\ Cardinality(Greater(s[p])) = p - 1
  <2> SUFFICES ASSUME NEW p \in 1 .. n
               PROVE  s[p] \in S /\ Cardinality(Greater(s[p])) = p - 1
    OBVIOUS
  <2>1. s[p] = CHOOSE b \in S : Cardinality(Greater(b)) = p - 1
    BY DEF Descending, Greater
  <2> QED BY <1>7, <2>1
<1>9. s \in [1 .. n -> S]
  BY <1>8 DEF Descending
<1>10. ASSUME NEW b \in S PROVE \E p \in 1 .. n : s[p] = b
  <2>1. rank[b] \in 1 .. n /\ rank[b] - 1 = Cardinality(Greater(b))
    BY <1>2, <1>3
  <2>2. s[rank[b]] \in S /\ Cardinality(Greater(s[rank[b]])) = Cardinality(Greater(b))
    BY <1>8, <2>1
  <2>3. rank[s[rank[b]]] = rank[b]
    BY <1>2, <2>2
  <2>4. s[rank[b]] = b
    BY <1>5, <2>2, <2>3
  <2> QED BY <2>1, <2>4
<1> QED BY <1>9, <1>10

\* adjustMisses keeps exactly the messages whose bit is missing in the
\* answer, and at most as many as there were.
LEMMA AdjustedList ==
  ASSUME NEW T, NEW list \in Seq(T), NEW mask, Misses(mask, Len(list)) # {}
  PROVE  LET kept == AdjustMisses(list, Descending(Misses(mask, Len(list))))
         IN  /\ kept \in Seq(T)
             /\ Len(kept) \in 1 .. Len(list)
             /\ Elements(kept) = {list[b + 1] : b \in Misses(mask, Len(list))}
<1> DEFINE S == Misses(mask, Len(list))
           n == Cardinality(S)
           kept == AdjustMisses(list, Descending(S))
<1>1. Len(list) \in Nat /\ S \in SUBSET (0 .. Len(list) - 1)
  BY DEF Misses
<1>2. /\ IsFiniteSet(0 .. Len(list) - 1)
      /\ Cardinality(0 .. Len(list) - 1) = Len(list)
  <2>1. 0 \in Int /\ Len(list) - 1 \in Int
    BY <1>1
  <2>2. /\ IsFiniteSet(0 .. (Len(list) - 1))
        /\ Cardinality(0 .. (Len(list) - 1))
             = IF 0 > Len(list) - 1 THEN 0 ELSE (Len(list) - 1) - 0 + 1
    BY ONLY <2>1, FS_Interval
  <2> DEFINE c == Cardinality(0 .. (Len(list) - 1))
  <2> HIDE DEF c
  <2>3. c = Len(list)
    BY <1>1, <2>2 DEF c
  <2> QED BY <2>2, <2>3 DEF c
<1>3. /\ IsFiniteSet(S) /\ n \in Nat /\ n <= Len(list)
      /\ n # 0
  BY <1>1, <1>2, FS_Subset, FS_CardinalityType, FS_EmptySet
<1>4. S \in SUBSET Nat
  BY <1>1
<1> DEFINE s == Descending(S)
<1>5. s \in [1 .. n -> S] /\ \A b \in S : \E p \in 1 .. n : s[p] = b
  BY <1>3, <1>4, DescendingCovers
<1>6. s \in Seq(S) /\ Len(s) = n
  BY <1>3, <1>5, SeqDef, LenProperties
<1>7. \A b \in S : b + 1 \in 1 .. Len(list) /\ list[b + 1] \in T
  BY <1>1
<1> HIDE DEF s, S
<1>8. kept = [p \in 1 .. n |-> list[s[p] + 1]]
  BY <1>6 DEF AdjustMisses, s
<1>9. kept \in [1 .. n -> T]
  BY <1>5, <1>7, <1>8
<1>10. kept \in Seq(T) /\ Len(kept) = n
  BY <1>3, <1>9, SeqDef, LenProperties
<1> HIDE DEF kept
<1>11. Elements(kept) = {list[b + 1] : b \in S}
  <2>1. Elements(kept) = {kept[p] : p \in 1 .. n}
    BY <1>10 DEF Elements
  <2>2. \A p \in 1 .. n : s[p] \in S /\ kept[p] = list[s[p] + 1]
    BY <1>5, <1>8
  <2> QED BY <1>5, <2>1, <2>2
<1> QED BY <1>1, <1>3, <1>10, <1>11 DEF kept, S, s

-----------------------------------------------------------------------------
(* Types *)

\* The handlers keep their type only while nack_process is idle, and i stays
\* in range only because a round is for a destination of the queue.
NodesIdle == \A n \in Nodes : node[n].nack_running = 0 /\ node[n].nack_process = "idle"
RoundHasDest == InRound => i <= Len(Queue)
TypeInv == TypeOK /\ NodesIdle /\ RoundHasDest

\* What the destinations and their lists are (DeployAction, MessageWrapper).
LEMMA QueueFacts ==
  /\ Len(Queue) \in Nat
  /\ \A p \in 1 .. Len(Queue) : Queue[p] \in Nodes /\ Messages[Queue[p]] \in Seq(Message)
  /\ FreshWrappers \in [1 .. Len(Queue) -> Seq(Message)]
  /\ \A p \in 1 .. Len(Queue) : FreshWrappers[p] = Messages[Queue[p]]
<1>1. Queue \in Seq(Nodes) /\ Messages \in [Nodes -> Seq(Message)]
  BY DeploymentAssumption
<1>2. Len(Queue) \in Nat /\ \A p \in 1 .. Len(Queue) : Queue[p] \in Nodes
  BY <1>1
<1>3. \A p \in 1 .. Len(Queue) : Messages[Queue[p]] \in Seq(Message)
  BY <1>1, <1>2
<1> QED BY <1>2, <1>3 DEF FreshWrappers

\* A frame that was forwarded from a setup line has the type of a frame.
LEMMA DataForType ==
  ASSUME NEW command \in SetupLine
  PROVE  DataFor(command) \in DataFrame /\ DataFor(command) \in Frame
  BY DeploymentAssumption DEF DataFor, DataFrame, Frame, SetupLine

\* The lines of a round have legal headers, whatever the length of the list:
\* a value that does not fit its field is left out (Bitter.setSeq, setRem).
LEMMA HeaderType ==
  ASSUME NEW k \in Nat, NEW size \in Nat, k > 0, k <= size
  PROVE  GenerateHeader(k, size).seq \in Bits /\ GenerateHeader(k, size).rem \in Bits
  BY DEF GenerateHeader, Field, Bits

\* send_ack_nack puts at most one frame into the air or one line on the
\* console.
LEMMA AnswerType ==
  ASSUME NEW n \in Nodes, NEW ram \in NodeState, ram.key_sender \in Nodes,
         NEW mask \in SUBSET Bits, NEW air1 \in [Nodes -> Seq(Frame)],
         console \in Seq(SUBSET Bits), Answer(n, ram, mask, air1)
  PROVE  air' \in [Nodes -> Seq(Frame)] /\ console' \in Seq(SUBSET Bits)
<1> DEFINE f == [kind |-> "nack", src |-> n, mask |-> mask]
<1>1. f \in Frame
  BY DEF Frame, NackFrame
<1>2. CASE AnswersByRadio(ram, n)
  <2>1. air' = [air1 EXCEPT ![ram.key_sender] = Append(@, f)] /\ console' = console
    BY <1>2 DEF Answer
  <2>2. Append(air1[ram.key_sender], f) \in Seq(Frame)
    BY <1>1, AppendProperties
  <2> QED BY <2>1, <2>2
<1>3. CASE ~ AnswersByRadio(ram, n)
  <2>1. /\ air' = air1
        /\ console' = IF n = Gateway THEN Append(console, mask) ELSE console
    BY <1>3 DEF Answer
  <2> QED BY <2>1, AppendProperties
<1> QED BY <1>2, <1>3

\* process_message keeps the types and leaves nack_process idle.
LEMMA ProcessType ==
  ASSUME TypeInv, NEW n \in Nodes, NEW from \in Nodes, NEW f \in DataFrame,
         NEW air1 \in [Nodes -> Seq(Frame)],
         Process(n, KnowSender(node[n], from), f, air1)
  PROVE  /\ node' \in [Nodes -> NodeState] /\ NodesIdle'
         /\ air' \in [Nodes -> Seq(Frame)] /\ console' \in Seq(SUBSET Bits)
<1> DEFINE ram == KnowSender(node[n], from)
<1>1. node \in [Nodes -> NodeState] /\ console \in Seq(SUBSET Bits)
  BY DEF TypeInv, TypeOK
<1>2. /\ ram \in NodeState /\ ram.key_sender \in Nodes
      /\ ram.nack_running = 0 /\ ram.nack_process = "idle"
  <2>1. /\ node[n] \in NodeState
        /\ node[n].nack_running = 0 /\ node[n].nack_process = "idle"
    BY <1>1 DEF TypeInv, NodesIdle
  <2> QED BY <2>1, KnowSenderFacts
<1> HIDE DEF ram
<1>3. /\ Multiplex(ram, f) \in NodeState
      /\ Multiplex(ram, f).nack_running = 0 /\ Multiplex(ram, f).nack_process = "idle"
  BY <1>2, MultiplexFacts
<1>4. node' = [node EXCEPT ![n] = Multiplex(ram, f)]
  BY DEF Process, ram
<1>5. node' \in [Nodes -> NodeState] /\ NodesIdle'
  BY <1>1, <1>3, <1>4 DEF TypeInv, NodesIdle
<1>6. CASE AnswerDue(f)
  <2>1. Answer(n, ram, AnswerMask(ram, f), air1)
    BY <1>6 DEF Process, ram
  <2>2. AnswerMask(ram, f) \in SUBSET Bits
    BY <1>2 DEF AnswerMask, NodeState, DataFrame
  <2> QED BY <1>1, <1>2, <1>5, <2>1, <2>2, AnswerType
<1>7. CASE ~ AnswerDue(f)
  BY <1>1, <1>5, <1>7 DEF Process
<1> QED BY <1>6, <1>7

\* The initial state has the types.
LEMMA InitType == Init => TypeInv
<1> SUFFICES ASSUME Init PROVE TypeInv
  OBVIOUS
<1>1. node \in [Nodes -> NodeState] /\ NodesIdle
  BY BootedType DEF Init, NodesIdle, Booted
<1>2. /\ pc \in {"start", "sending", "waiting", "done", "aborted"}
      /\ i \in 1 .. Len(Queue) + 1
      /\ wrappers \in [1 .. Len(Queue) -> Seq(Message)]
      /\ sent \in Nat /\ notified \in BOOLEAN /\ generation \in Nat \ {0}
      /\ latestResponse \in {NoResponse} \cup SUBSET Bits
  <2>1. Len(Queue) \in Nat /\ FreshWrappers \in [1 .. Len(Queue) -> Seq(Message)]
    BY QueueFacts
  <2>2. 1 \in 1 .. Len(Queue) + 1
    BY <2>1
  <2>3. /\ i \in 1 .. Len(Queue) + 1
        /\ wrappers \in [1 .. Len(Queue) -> Seq(Message)]
    BY <2>1, <2>2 DEF Init
  <2>4. pc \in {"start"} /\ sent \in Nat /\ generation \in Nat \ {0}
    BY DEF Init
  <2>5. notified \in BOOLEAN /\ latestResponse \in {NoResponse} \cup SUBSET Bits
    BY DEF Init
  <2> QED BY <2>3, <2>4, <2>5
<1>3. /\ line \in Seq(SetupLine) /\ console \in Seq(SUBSET Bits)
      /\ air \in [Nodes -> Seq(Frame)]
      /\ losses \in Nat /\ reboots \in [Nodes -> Nat]
  BY DEF Init
<1> QED BY <1>1, <1>2, <1>3 DEF Init, TypeInv, TypeOK, RoundHasDest, InRound

\* SerialWorker.run and the user: these steps leave the network alone.
LEMMA WorkerType ==
  ASSUME TypeInv,
         \/ StartRound \/ Finish \/ Abort \/ BeginWait
         \/ NoAnswer \/ NothingMissing \/ SomethingMissing \/ Redeploy
  PROVE  TypeInv'
<1> USE DEF TypeInv, TypeOK, NodesIdle, RoundHasDest, InRound, network
<1>1. CASE StartRound
  BY <1>1 DEF StartRound
<1>2. CASE Finish
  BY <1>2 DEF Finish
<1>3. CASE Abort
  BY <1>3 DEF Abort
<1>4. CASE BeginWait
  BY <1>4 DEF BeginWait
<1>5. CASE NoAnswer
  BY <1>5 DEF NoAnswer
<1>6. CASE NothingMissing
  <2>1. i <= Len(Queue) /\ Len(Queue) \in Nat
    BY <1>6, QueueFacts DEF NothingMissing, Woken
  <2>2. i + 1 \in 1 .. Len(Queue) + 1
    BY <2>1
  <2> QED BY <1>6, <2>2 DEF NothingMissing
<1>7. CASE SomethingMissing
  <2>1. i \in 1 .. Len(Queue) /\ wrappers[i] \in Seq(Message)
    BY <1>7, QueueFacts DEF SomethingMissing, Woken
  <2>2. AdjustMisses(wrappers[i],
            Descending(Misses(latestResponse, Len(wrappers[i])))) \in Seq(Message)
    BY <1>7, <2>1, AdjustedList DEF SomethingMissing
  <2>3. wrappers' \in [1 .. Len(Queue) -> Seq(Message)]
    BY <1>7, <2>1, <2>2 DEF SomethingMissing
  <2> QED BY <1>7, <2>3 DEF SomethingMissing
<1>8. CASE Redeploy
  <2>1. generation' \in Nat \ {0} /\ 1 \in 1 .. Len(Queue) + 1
    BY <1>8, QueueFacts DEF Redeploy
  <2> QED BY <1>8, <2>1, QueueFacts DEF Redeploy
<1> QED BY <1>1, <1>2, <1>3, <1>4, <1>5, <1>6, <1>7, <1>8

\* A setup line is written.
LEMMA SendLineType ==
  ASSUME TypeInv, SendLine
  PROVE  TypeInv'
<1> DEFINE header == GenerateHeader(sent + 1, Len(wrappers[i]))
           command == [dst |-> Queue[i], msg |-> wrappers[i][sent + 1],
                       gen |-> generation, seq |-> header.seq, rem |-> header.rem]
<1>1. /\ i \in 1 .. Len(Queue) /\ wrappers[i] \in Seq(Message) /\ Queue[i] \in Nodes
      /\ sent \in Nat /\ sent < Len(wrappers[i]) /\ generation \in Nat \ {0}
      /\ line \in Seq(SetupLine)
  <2>1. /\ i \in 1 .. Len(Queue) + 1 /\ i <= Len(Queue)
        /\ wrappers \in [1 .. Len(Queue) -> Seq(Message)]
        /\ sent \in Nat /\ sent < Len(wrappers[i]) /\ generation \in Nat \ {0}
        /\ line \in Seq(SetupLine)
    BY DEF TypeInv, TypeOK, RoundHasDest, InRound, SendLine
  <2>2. i \in 1 .. Len(Queue)
    BY <2>1, QueueFacts
  <2> QED BY <2>1, <2>2, QueueFacts
<1>2. header.seq \in Bits /\ header.rem \in Bits
  BY <1>1, HeaderType
<1>3. wrappers[i][sent + 1] \in Message
  BY <1>1
<1> HIDE DEF header
<1>4. command \in SetupLine
  BY <1>1, <1>2, <1>3 DEF SetupLine
<1>5. line' = Append(line, command) /\ sent' = sent + 1
  BY DEF SendLine, header
<1> HIDE DEF command
<1>6. line' \in Seq(SetupLine) /\ sent' \in Nat
  BY <1>1, <1>4, <1>5, AppendProperties
<1> QED BY <1>6 DEF SendLine, TypeInv, TypeOK, NodesIdle, RoundHasDest, InRound

\* The reader thread and what the environment loses: only ends of queues go.
LEMMA ReaderType ==
  ASSUME TypeInv, Response \/ CorruptResponse \/ LoseResponse \/ LoseLine
  PROVE  TypeInv'
<1> USE DEF TypeInv, TypeOK, NodesIdle, RoundHasDest, InRound
<1>1. console # <<>> => Head(console) \in SUBSET Bits /\ Tail(console) \in Seq(SUBSET Bits)
  BY HeadTailProperties
<1>2. line # <<>> => Tail(line) \in Seq(SetupLine)
  BY HeadTailProperties
<1>3. CASE Response
  BY <1>1, <1>3 DEF Response
<1>4. CASE CorruptResponse
  BY <1>1, <1>4 DEF CorruptResponse
<1>5. CASE LoseResponse
  BY <1>1, <1>5 DEF LoseResponse, worker
<1>6. CASE LoseLine
  BY <1>2, <1>6 DEF LoseLine, worker
<1> QED BY <1>3, <1>4, <1>5, <1>6

\* The gateway forwards a message or keeps it.
LEMMA GatewayType ==
  ASSUME TypeInv, Forward \/ SetupLocally
  PROVE  TypeInv'
<1> DEFINE command == Head(line)
<1>1. /\ line \in Seq(SetupLine) /\ line # <<>> /\ Gateway \in Nodes
      /\ node \in [Nodes -> NodeState] /\ air \in [Nodes -> Seq(Frame)]
  BY DeploymentAssumption DEF TypeInv, TypeOK, Forward, SetupLocally
<1>2. command \in SetupLine /\ Tail(line) \in Seq(SetupLine)
  BY <1>1, HeadTailProperties
<1>3. command.dst \in Nodes
  BY <1>2 DEF SetupLine
<1>4. CASE Forward
  <2>1. /\ node[Gateway] \in NodeState
        /\ node[Gateway].nack_running = 0 /\ node[Gateway].nack_process = "idle"
    BY <1>1 DEF TypeInv, NodesIdle
  <2>2. /\ KnowSender(node[Gateway], Gateway) \in NodeState
        /\ KnowSender(node[Gateway], Gateway).nack_running = 0
        /\ KnowSender(node[Gateway], Gateway).nack_process = "idle"
    BY <1>1, <2>1, KnowSenderFacts
  <2>3. node' = [node EXCEPT ![Gateway] = KnowSender(node[Gateway], Gateway)]
    BY <1>4 DEF Forward
  <2>4. node' \in [Nodes -> NodeState] /\ NodesIdle'
    BY <1>1, <2>2, <2>3 DEF TypeInv, NodesIdle
  <2>5. Append(air[command.dst], DataFor(command)) \in Seq(Frame)
    BY <1>1, <1>2, <1>3, DataForType, AppendProperties
  <2>6. air' \in [Nodes -> Seq(Frame)]
    BY <1>1, <1>4, <2>5 DEF Forward
  <2> QED BY <1>2, <1>4, <2>4, <2>6
       DEF Forward, worker, TypeInv, TypeOK, RoundHasDest, InRound
<1>5. CASE SetupLocally
  <2>1. DataFor(command) \in DataFrame
    BY <1>2, DataForType
  <2>2. Process(Gateway, KnowSender(node[Gateway], Gateway), DataFor(command), air)
    BY <1>5 DEF SetupLocally
  <2>3. /\ node' \in [Nodes -> NodeState] /\ NodesIdle'
        /\ air' \in [Nodes -> Seq(Frame)] /\ console' \in Seq(SUBSET Bits)
    BY <1>1, <2>1, <2>2, ProcessType
  <2> QED BY <1>2, <1>5, <2>3
       DEF SetupLocally, worker, TypeInv, TypeOK, RoundHasDest, InRound
<1> QED BY <1>4, <1>5

\* A node takes a frame, loses one, or is switched off and on.
LEMMA MoteType ==
  ASSUME TypeInv, NEW n \in Nodes,
         ReceiveData(n) \/ ReceiveNack(n) \/ LoseFrame(n) \/ Reboot(n)
  PROVE  TypeInv'
<1> USE DEF worker, TypeInv, TypeOK, RoundHasDest, InRound
<1>1. /\ node \in [Nodes -> NodeState] /\ air \in [Nodes -> Seq(Frame)]
      /\ air[n] # <<>> => Head(air[n]) \in Frame /\ Tail(air[n]) \in Seq(Frame)
  BY HeadTailProperties
<1>2. air[n] # <<>> => [air EXCEPT ![n] = Tail(@)] \in [Nodes -> Seq(Frame)]
  BY <1>1
<1>3. CASE ReceiveData(n)
  <2> DEFINE f == Head(air[n])
  <2>1. f \in DataFrame /\ f.src \in Nodes
    BY <1>1, <1>3 DEF ReceiveData, Frame, DataFrame, NackFrame
  <2>2. /\ node' \in [Nodes -> NodeState] /\ NodesIdle'
        /\ air' \in [Nodes -> Seq(Frame)] /\ console' \in Seq(SUBSET Bits)
    BY <1>2, <1>3, <2>1, ProcessType DEF ReceiveData
  <2> QED BY <1>3, <2>2 DEF ReceiveData
<1>4. CASE ReceiveNack(n)
  <2> DEFINE f == Head(air[n])
  <2>1. f.src \in Nodes /\ f.mask \in SUBSET Bits
    BY <1>1, <1>4 DEF ReceiveNack, Frame, DataFrame, NackFrame
  <2>2. /\ node[n] \in NodeState
        /\ node[n].nack_running = 0 /\ node[n].nack_process = "idle"
    BY <1>1 DEF NodesIdle
  <2>3. /\ KnowSender(node[n], f.src) \in NodeState
        /\ KnowSender(node[n], f.src).nack_running = 0
        /\ KnowSender(node[n], f.src).nack_process = "idle"
    BY <2>1, <2>2, KnowSenderFacts
  <2>4. node' = [node EXCEPT ![n] = KnowSender(node[n], f.src)]
    BY <1>4 DEF ReceiveNack
  <2>5. node' \in [Nodes -> NodeState] /\ NodesIdle'
    BY <1>1, <2>3, <2>4 DEF NodesIdle
  <2>6. console' \in Seq(SUBSET Bits)
    BY <1>4, <2>1, AppendProperties DEF ReceiveNack
  <2> QED BY <1>2, <1>4, <2>5, <2>6 DEF ReceiveNack
<1>5. CASE LoseFrame(n)
  BY <1>2, <1>5 DEF LoseFrame, NodesIdle
<1>6. CASE Reboot(n)
  <2>1. node' \in [Nodes -> NodeState] /\ NodesIdle'
    BY <1>1, <1>6, BootedType DEF Reboot, NodesIdle, Booted
  <2>2. reboots' \in [Nodes -> Nat]
    BY <1>6 DEF Reboot
  <2> QED BY <1>6, <2>1, <2>2 DEF Reboot
<1> QED BY <1>3, <1>4, <1>5, <1>6

\* Every step keeps the types.
LEMMA NextType == TypeInv /\ [Next]_vars => TypeInv'
<1> SUFFICES ASSUME TypeInv, [Next]_vars PROVE TypeInv'
  OBVIOUS
<1>1. ASSUME UNCHANGED vars PROVE TypeInv'
  BY <1>1 DEF vars, TypeInv, TypeOK, NodesIdle, RoundHasDest, InRound
<1> QED BY <1>1, WorkerType, SendLineType, ReaderType, GatewayType, MoteType DEF Next

\* Every state of a deployment has its type, under every loss, delay, reboot
\* and cancellation: header fields, masks and the queues never hold a value
\* the receivers cannot read.
THEOREM DeploymentTyped == Spec => []TypeOK
<1>1. TypeInv => TypeOK
  BY DEF TypeInv
<1> QED BY <1>1, InitType, NextType, PTL DEF Spec

-----------------------------------------------------------------------------
(* Keys *)

\* What StoredKeysStay asks of a step.
KeysStay ==
  \A n \in Nodes : node'[n] = Booted \/
    \A a \in Nodes :
      /\ node[n].pairwise[a] # NoKey => node'[n].pairwise[a] = node[n].pairwise[a]
      /\ node[n].cluster[a] # NoKey => node'[n].cluster[a] = node[n].cluster[a]

\* Learning a key_sender changes no key.
LEMMA KnowSenderKeeps ==
  ASSUME TypeInv, NEW n \in Nodes, NEW from \in Nodes,
         node' = [node EXCEPT ![n] = KnowSender(@, from)]
  PROVE  KeysStay
<1>1. node \in [Nodes -> NodeState] /\ node[n] \in NodeState
  BY DEF TypeInv, TypeOK
<1>2. /\ KnowSender(node[n], from).pairwise = node[n].pairwise
      /\ KnowSender(node[n], from).cluster = node[n].cluster
  BY <1>1, KnowSenderFacts
<1> QED
  BY <1>1, <1>2 DEF KeysStay

\* process_message only adds keys for addresses that have none.
LEMMA ProcessKeeps ==
  ASSUME TypeInv, NEW n \in Nodes, NEW from \in Nodes, NEW f \in DataFrame, NEW air1,
         Process(n, KnowSender(node[n], from), f, air1)
  PROVE  KeysStay
<1> DEFINE ram == KnowSender(node[n], from)
<1>1. /\ node \in [Nodes -> NodeState] /\ node[n] \in NodeState
      /\ node[n].nack_running = 0 /\ node[n].nack_process = "idle"
  BY DEF TypeInv, TypeOK, NodesIdle
<1>2. /\ ram \in NodeState /\ ram.nack_running = 0 /\ ram.nack_process = "idle"
      /\ ram.pairwise = node[n].pairwise /\ ram.cluster = node[n].cluster
  BY <1>1, KnowSenderFacts
<1>3. node' = [node EXCEPT ![n] = Multiplex(ram, f)]
  BY DEF Process
<1> HIDE DEF ram
<1>4. \A a \in Nodes :
        /\ node[n].pairwise[a] # NoKey
             => Multiplex(ram, f).pairwise[a] = node[n].pairwise[a]
        /\ node[n].cluster[a] # NoKey
             => Multiplex(ram, f).cluster[a] = node[n].cluster[a]
  BY <1>2, MultiplexStores
<1> QED
  BY <1>1, <1>3, <1>4 DEF KeysStay

\* The frames and setup lines a handler takes have their types.
LEMMA HeadFacts ==
  ASSUME TypeInv
  PROVE  /\ line # <<>> => /\ Head(line) \in SetupLine
                           /\ DataFor(Head(line)) \in DataFrame
         /\ \A n \in Nodes : air[n] # <<>> =>
              /\ Head(air[n]) \in Frame
              /\ Head(air[n]).src \in Nodes
              /\ Head(air[n]).kind = "data" => Head(air[n]) \in DataFrame
<1>1. line \in Seq(SetupLine) /\ air \in [Nodes -> Seq(Frame)]
  BY DEF TypeInv, TypeOK
<1>2. line # <<>> => Head(line) \in SetupLine
  BY <1>1, HeadTailProperties
<1>3. ASSUME NEW n \in Nodes, air[n] # <<>> PROVE Head(air[n]) \in Frame
  BY <1>1, <1>3, HeadTailProperties
<1>4. ASSUME NEW f \in Frame PROVE f.src \in Nodes /\ (f.kind = "data" => f \in DataFrame)
  BY DEF Frame, DataFrame, NackFrame
<1> QED
  BY <1>2, <1>3, <1>4, DataForType

\* No step changes or drops a key, except that a node loses power.
LEMMA StepKeepsKeys ==
  ASSUME TypeInv, Next
  PROVE  KeysStay
<1>1. ASSUME UNCHANGED node PROVE KeysStay
  BY <1>1 DEF KeysStay
<1>2. CASE \/ StartRound \/ Finish \/ Abort \/ SendLine \/ BeginWait
           \/ NoAnswer \/ NothingMissing \/ SomethingMissing \/ Redeploy
  BY <1>1, <1>2 DEF StartRound, Finish, Abort, SendLine, BeginWait, NoAnswer,
       NothingMissing, SomethingMissing, Redeploy, network
<1>3. CASE Response \/ CorruptResponse \/ LoseLine \/ LoseResponse
  BY <1>1, <1>3 DEF Response, CorruptResponse, LoseLine, LoseResponse
<1>4. CASE Forward
  BY <1>4, KnowSenderKeeps, DeploymentAssumption DEF Forward
<1>5. CASE SetupLocally
  BY <1>5, ProcessKeeps, HeadFacts, DeploymentAssumption DEF SetupLocally
<1>6. ASSUME NEW n \in Nodes, ReceiveData(n) PROVE KeysStay
  BY <1>6, ProcessKeeps, HeadFacts DEF ReceiveData
<1>7. ASSUME NEW n \in Nodes, ReceiveNack(n) PROVE KeysStay
  BY <1>7, KnowSenderKeeps, HeadFacts DEF ReceiveNack
<1>8. ASSUME NEW n \in Nodes, LoseFrame(n) PROVE KeysStay
  BY <1>1, <1>8 DEF LoseFrame
<1>9. ASSUME NEW n \in Nodes, Reboot(n) PROVE KeysStay
  <2>1. node \in [Nodes -> NodeState]
    BY DEF TypeInv, TypeOK
  <2> QED
    BY <1>9, <2>1 DEF Reboot, KeysStay
<1> QED
  BY <1>2, <1>3, <1>4, <1>5, <1>6, <1>7, <1>8, <1>9 DEF Next

\* A neighbour's key that a node has stored stays as it is until the node
\* loses power, whatever is retransmitted, redeployed or generated anew
\* (srime.c:117-121).
THEOREM KeysAreKept == Spec => StoredKeysStay
<1>1. TypeInv /\ [Next]_vars => [KeysStay]_vars
  BY StepKeepsKeys
<1>2. [][KeysStay]_vars => StoredKeysStay
  <2>1. [KeysStay]_vars =>
          [\A n \in Nodes : node'[n] = Booted \/
             \A a \in Nodes :
               /\ node[n].pairwise[a] # NoKey => node'[n].pairwise[a] = node[n].pairwise[a]
               /\ node[n].cluster[a] # NoKey => node'[n].cluster[a] = node[n].cluster[a]]_vars
    BY DEF KeysStay
  <2> QED
    BY <2>1, PTL DEF StoredKeysStay
<1> QED
  BY <1>1, <1>2, InitType, NextType, PTL DEF Spec

-----------------------------------------------------------------------------
(* Who is answered *)

\* Frames with data come from the gateway, answers go there.
FromGateway(queues) ==
  \A m \in Nodes : \A k \in 1 .. Len(queues[m]) :
    IF queues[m][k].kind = "data" THEN queues[m][k].src = Gateway ELSE m = Gateway

\* All frames are of this kind, and by the time there are any the gateway has
\* learnt its own address as the key_sender.
SenderInv ==
  /\ AcksWhoSentKeys
  /\ FromGateway(air)
  /\ ~ AirEmpty => node[Gateway].key_sender = Gateway

\* A queue that loses its first frame has the other frames still.
LEMMA FromGatewayRest ==
  ASSUME NEW queues \in [Nodes -> Seq(Frame)], FromGateway(queues),
         NEW n \in Nodes, queues[n] # <<>>
  PROVE  LET rest == [queues EXCEPT ![n] = Tail(@)]
         IN  /\ rest \in [Nodes -> Seq(Frame)]
             /\ FromGateway(rest)
             /\ IF Head(queues[n]).kind = "data" THEN Head(queues[n]).src = Gateway
                                                ELSE n = Gateway
<1> DEFINE rest == [queues EXCEPT ![n] = Tail(@)]
<1>1. /\ Tail(queues[n]) \in Seq(Frame)
      /\ Len(Tail(queues[n])) = Len(queues[n]) - 1
      /\ Len(queues[n]) \in Nat /\ 1 <= Len(queues[n])
      /\ \A k \in 1 .. Len(Tail(queues[n])) : Tail(queues[n])[k] = queues[n][k + 1]
      /\ Head(queues[n]) = queues[n][1]
  BY HeadTailProperties
<1>2. rest \in [Nodes -> Seq(Frame)]
  BY <1>1
<1>3. rest[n] = Tail(queues[n]) /\ \A m \in Nodes \ {n} : rest[m] = queues[m]
  OBVIOUS
<1> HIDE DEF rest
<1>4. ASSUME NEW m \in Nodes, NEW k \in 1 .. Len(rest[m])
      PROVE  \E l \in 1 .. Len(queues[m]) : rest[m][k] = queues[m][l]
  <2>1. CASE m # n
    BY <1>3, <1>4, <2>1
  <2>2. CASE m = n
    <3>1. k \in 1 .. Len(Tail(queues[n])) /\ rest[m][k] = Tail(queues[n])[k]
      BY <1>3, <1>4, <2>2
    <3>2. k + 1 \in 1 .. Len(queues[n])
      BY ONLY <1>1, <3>1
    <3> QED
      BY <1>1, <2>2, <3>1, <3>2
  <2> QED
    BY <2>1, <2>2
<1>5. FromGateway(rest)
  <2> SUFFICES ASSUME NEW m \in Nodes, NEW k \in 1 .. Len(rest[m])
               PROVE  IF rest[m][k].kind = "data" THEN rest[m][k].src = Gateway
                                                  ELSE m = Gateway
    BY DEF FromGateway
  <2>1. PICK l \in 1 .. Len(queues[m]) : rest[m][k] = queues[m][l]
    BY <1>4
  <2> QED
    BY <2>1 DEF FromGateway
<1>6. 1 \in 1 .. Len(queues[n])
  BY <1>1
<1>7. IF Head(queues[n]).kind = "data" THEN Head(queues[n]).src = Gateway ELSE n = Gateway
  BY <1>1, <1>6 DEF FromGateway
<1> QED
  BY <1>2, <1>5, <1>7 DEF rest

\* One more frame of this kind.
LEMMA FromGatewayMore ==
  ASSUME NEW queues \in [Nodes -> Seq(Frame)], FromGateway(queues), NEW n \in Nodes, NEW f,
         IF f.kind = "data" THEN f.src = Gateway ELSE n = Gateway
  PROVE  FromGateway([queues EXCEPT ![n] = Append(@, f)])
<1> DEFINE more == [queues EXCEPT ![n] = Append(@, f)]
<1>1. more[n] = Append(queues[n], f) /\ \A m \in Nodes \ {n} : more[m] = queues[m]
  OBVIOUS
<1>2. /\ Len(Append(queues[n], f)) = Len(queues[n]) + 1 /\ Len(queues[n]) \in Nat
      /\ \A k \in 1 .. Len(queues[n]) : Append(queues[n], f)[k] = queues[n][k]
      /\ Append(queues[n], f)[Len(queues[n]) + 1] = f
  OBVIOUS
<1> HIDE DEF more
<1>3. ASSUME NEW m \in Nodes, NEW k \in 1 .. Len(more[m])
      PROVE  IF more[m][k].kind = "data" THEN more[m][k].src = Gateway ELSE m = Gateway
  <2>1. CASE m # n
    BY <1>1, <1>3, <2>1 DEF FromGateway
  <2>2. CASE m = n /\ k = Len(queues[n]) + 1
    BY <1>1, <1>2, <2>2
  <2>3. CASE m = n /\ k # Len(queues[n]) + 1
    <3>1. k \in 1 .. Len(queues[n]) /\ more[m][k] = queues[n][k]
      BY <1>1, <1>2, <1>3, <2>3
    <3> QED
      BY <2>3, <3>1 DEF FromGateway
  <2> QED
    BY <2>1, <2>2, <2>3
<1> QED
  BY <1>3 DEF FromGateway, more

\* In such a state the gateway is the only sender a node may learn.
LEMMA LearnsGateway ==
  ASSUME TypeInv, SenderInv, NEW n \in Nodes, NEW from \in Nodes,
         from = Gateway \/ node[n].key_sender = Gateway
  PROVE  KnowSender(node[n], from).key_sender = Gateway
<1>1. node[n] \in NodeState /\ node[n].key_sender \in {NoAddr, Gateway}
  BY DEF TypeInv, TypeOK, SenderInv, AcksWhoSentKeys
<1>2. Gateway # NoAddr
  BY NodesAssumption, DeploymentAssumption
<1> QED
  BY <1>1, <1>2 DEF KnowSender, NodeState

\* A handler after which node n and the gateway have the gateway as their
\* key_sender.
LEMMA HandlerKeepsSender ==
  ASSUME TypeInv, SenderInv, NEW n \in Nodes, NEW ram, ram.key_sender = Gateway,
         node' = [node EXCEPT ![n] = ram], node'[Gateway].key_sender = Gateway,
         FromGateway(air')
  PROVE  SenderInv'
<1>1. node \in [Nodes -> NodeState]
  BY DEF TypeInv, TypeOK
<1>2. AcksWhoSentKeys'
  BY <1>1 DEF SenderInv, AcksWhoSentKeys
<1>3. FromGateway(air)'
  BY DEF FromGateway
<1> QED
  BY <1>2, <1>3 DEF SenderInv

\* process_message for a frame of the gateway.
LEMMA ProcessKeepsSender ==
  ASSUME TypeInv, SenderInv, NEW n \in Nodes, NEW f \in DataFrame,
         n = Gateway \/ node[Gateway].key_sender = Gateway,
         NEW air1 \in [Nodes -> Seq(Frame)], FromGateway(air1),
         Process(n, KnowSender(node[n], Gateway), f, air1)
  PROVE  SenderInv'
<1> DEFINE known == KnowSender(node[n], Gateway)
           ram == Multiplex(known, f)
           answer == [kind |-> "nack", src |-> n, mask |-> AnswerMask(known, f)]
<1>1. /\ node \in [Nodes -> NodeState] /\ node[n] \in NodeState /\ Gateway \in Nodes
      /\ node[n].nack_running = 0 /\ node[n].nack_process = "idle"
  BY DeploymentAssumption DEF TypeInv, TypeOK, NodesIdle
<1>2. /\ known \in NodeState /\ known.key_sender = Gateway
      /\ known.nack_running = 0 /\ known.nack_process = "idle"
  BY <1>1, KnowSenderFacts, LearnsGateway
<1>3. air' = air1 \/ air' = [air1 EXCEPT ![Gateway] = Append(@, answer)]
  BY <1>2 DEF Process, Answer
<1>4. node' = [node EXCEPT ![n] = ram]
  BY DEF Process
<1> HIDE DEF known
<1>5. ram.key_sender = Gateway
  BY <1>2, MultiplexFacts
<1> HIDE DEF ram
<1>6. node'[Gateway].key_sender = Gateway
  BY <1>1, <1>4, <1>5
<1>7. answer.kind = "nack"
  OBVIOUS
<1> HIDE DEF answer
<1>8. FromGateway(air')
  <2>1. FromGateway([air1 EXCEPT ![Gateway] = Append(@, answer)])
    BY ONLY <1>1, <1>7, FromGateway(air1), air1 \in [Nodes -> Seq(Frame)], FromGatewayMore
  <2> QED
    BY <1>3, <2>1
<1> QED
  BY <1>4, <1>5, <1>6, <1>8, HandlerKeepsSender

\* The gateway's handlers.
LEMMA GatewayKeepsSender ==
  ASSUME TypeInv, SenderInv, Forward \/ SetupLocally
  PROVE  SenderInv'
<1>1. /\ Gateway \in Nodes /\ node \in [Nodes -> NodeState]
      /\ air \in [Nodes -> Seq(Frame)] /\ FromGateway(air)
  BY DeploymentAssumption DEF TypeInv, TypeOK, SenderInv
<1>2. CASE Forward
  <2> DEFINE ram == KnowSender(node[Gateway], Gateway)
             d == Head(line).dst
             f == DataFor(Head(line))
  <2>1. ram.key_sender = Gateway
    BY <1>1, LearnsGateway
  <2>2. /\ node' = [node EXCEPT ![Gateway] = ram]
        /\ air' = [air EXCEPT ![d] = Append(@, f)]
    BY <1>2 DEF Forward
  <2>3. d \in Nodes
    BY <1>2, HeadFacts DEF Forward, SetupLine
  <2>4. f.kind = "data" /\ f.src = Gateway
    BY DEF DataFor
  <2> HIDE DEF ram, d, f
  <2>5. FromGateway(air')
    BY <1>1, <2>2, <2>3, <2>4, FromGatewayMore
  <2>6. node'[Gateway].key_sender = Gateway
    BY <1>1, <2>1, <2>2
  <2> QED
    BY <1>1, <2>1, <2>2, <2>5, <2>6, HandlerKeepsSender
<1>3. CASE SetupLocally
  BY <1>1, <1>3, HeadFacts, ProcessKeepsSender DEF SetupLocally
<1> QED
  BY <1>2, <1>3

\* recv_uc.
LEMMA MoteKeepsSender ==
  ASSUME TypeInv, SenderInv, NEW n \in Nodes, ReceiveData(n) \/ ReceiveNack(n)
  PROVE  SenderInv'
<1> DEFINE rest == [air EXCEPT ![n] = Tail(@)]
           f == Head(air[n])
<1>1. /\ Gateway \in Nodes /\ node \in [Nodes -> NodeState]
      /\ air \in [Nodes -> Seq(Frame)] /\ FromGateway(air) /\ air[n] # <<>>
  BY DeploymentAssumption DEF TypeInv, TypeOK, SenderInv, ReceiveData, ReceiveNack
<1>2. /\ rest \in [Nodes -> Seq(Frame)] /\ FromGateway(rest)
      /\ IF f.kind = "data" THEN f.src = Gateway ELSE n = Gateway
  BY <1>1, FromGatewayRest
<1>3. node[Gateway].key_sender = Gateway
  BY <1>1 DEF SenderInv, AirEmpty
<1>4. CASE ReceiveData(n)
  <2>1. f.kind = "data" /\ f \in DataFrame /\ Process(n, KnowSender(node[n], f.src), f, rest)
    BY <1>4, HeadFacts DEF ReceiveData
  <2>2. Process(n, KnowSender(node[n], Gateway), f, rest)
    BY <1>2, <2>1
  <2> HIDE DEF rest, f
  <2> QED
    BY <1>2, <1>3, <2>1, <2>2, ProcessKeepsSender
<1>5. CASE ReceiveNack(n)
  <2> DEFINE ram == KnowSender(node[n], f.src)
  <2>1. f.kind = "nack" /\ node' = [node EXCEPT ![n] = ram] /\ air' = rest
    BY <1>5 DEF ReceiveNack
  <2>2. n = Gateway /\ f.src \in Nodes
    BY <1>1, <1>2, <2>1, HeadFacts
  <2>3. ram.key_sender = Gateway
    BY <1>3, <2>2, LearnsGateway
  <2> HIDE DEF ram, rest
  <2>4. node'[Gateway].key_sender = Gateway
    BY <1>1, <2>1, <2>2, <2>3
  <2> QED
    BY <1>2, <2>1, <2>3, <2>4, HandlerKeepsSender
<1> QED
  BY <1>4, <1>5

\* No step lets a node learn another key_sender than the gateway.
LEMMA SenderStep ==
  ASSUME Gateway \notin Rebooting, TypeInv, SenderInv, [Next]_vars
  PROVE  SenderInv'
<1>1. Gateway \in Nodes /\ node \in [Nodes -> NodeState] /\ air \in [Nodes -> Seq(Frame)]
  BY DeploymentAssumption DEF TypeInv, TypeOK
<1>2. CASE UNCHANGED <<air, node>>
  BY <1>2 DEF SenderInv, AcksWhoSentKeys, FromGateway, AirEmpty
<1>3. ASSUME NEW n \in Nodes, LoseFrame(n) PROVE SenderInv'
  <2>1. air[n] # <<>> /\ air' = [air EXCEPT ![n] = Tail(@)] /\ node' = node
    BY <1>3 DEF LoseFrame
  <2>2. FromGateway(air')
    BY <1>1, <2>1, FromGatewayRest DEF SenderInv
  <2>3. FromGateway(air)'
    BY <2>2 DEF FromGateway
  <2> QED
    BY <2>1, <2>3 DEF SenderInv, AcksWhoSentKeys, AirEmpty
<1>4. ASSUME NEW n \in Nodes, Reboot(n) PROVE SenderInv'
  <2>1. n # Gateway /\ air' = air /\ node' = [node EXCEPT ![n] = Booted]
    BY <1>4 DEF Reboot
  <2> QED
    BY <1>1, <2>1 DEF Booted, SenderInv, AcksWhoSentKeys, FromGateway, AirEmpty
<1>5. \/ UNCHANGED <<air, node>> \/ Forward \/ SetupLocally
      \/ \E n \in Nodes : ReceiveData(n) \/ ReceiveNack(n) \/ LoseFrame(n) \/ Reboot(n)
  BY DEF Next, vars, StartRound, Finish, Abort, SendLine, BeginWait, NoAnswer,
         NothingMissing, SomethingMissing, Redeploy, Response, CorruptResponse,
         LoseLine, LoseResponse, network
<1> QED
  BY <1>2, <1>3, <1>4, <1>5, GatewayKeepsSender, MoteKeepsSender

\* As long as the gateway keeps its power, every node answers the gateway
\* and nobody else, however late, cancelled or repeated the rounds and
\* whoever else is switched off and on (leap.c:336-342).
THEOREM NodesAnswerGateway ==
  ASSUME Gateway \notin Rebooting
  PROVE  Spec => []AcksWhoSentKeys
<1>1. Init => SenderInv
  BY DEF Init, Booted, SenderInv, AcksWhoSentKeys, FromGateway, AirEmpty
<1>2. TypeInv /\ SenderInv /\ [Next]_vars => SenderInv'
  BY SenderStep
<1>3. SenderInv => AcksWhoSentKeys
  BY DEF SenderInv
<1> QED
  BY <1>1, <1>2, <1>3, InitType, NextType, PTL DEF Spec

-----------------------------------------------------------------------------
(* The rounds of SerialWorker.run *)
(* What a node has collected, what an answer proves, and what the          *)
(* coordinator may conclude from it.                                       *)

\* The deployments that keep the promise: RTT is long enough for any answer,
\* nobody cancels, and a header can number all messages of a list.
Orderly ==
  /\ Prompt = TRUE /\ MayAbort = FALSE
  /\ \A d \in Nodes : Len(Messages[d]) <= 8

ListsFit == \A p \in 1 .. Len(Queue) : Len(wrappers[p]) <= 8
EndsAfterLast == pc \in {"done", "aborted"} => i > Len(Queue)

\* What is true between any two steps.  That an answer is the answer to the
\* present list (RoundInOrder) makes the masks current, current masks make
\* the answers true, and true answers make the lists shrink rightly.
RoundInv ==
  /\ TypeInv /\ ListsFit /\ EndsAfterLast /\ RoundInOrder
  /\ MaskIsCurrent /\ DroppedMessagesArrived /\ ServedComplete

-----------------------------------------------------------------------------
(* Sequences of lines and frames *)

\* A queue without its first element.
LEMMA RestFacts ==
  ASSUME NEW S, NEW s \in Seq(S), s # <<>>
  PROVE  /\ 1 \in 1 .. Len(s) /\ Head(s) = s[1] /\ Head(s) \in S
         /\ Tail(s) \in Seq(S) /\ Len(Tail(s)) = Len(s) - 1 /\ Len(s) \in Nat
         /\ \A k \in 1 .. Len(Tail(s)) : /\ k + 1 \in 1 .. Len(s)
                                         /\ 1 < k + 1
                                         /\ Tail(s)[k] = s[k + 1]
  BY HeadTailProperties

\* A queue with one more element.
LEMMA MoreFacts ==
  ASSUME NEW S, NEW s \in Seq(S), NEW e \in S
  PROVE  /\ Append(s, e) \in Seq(S) /\ Len(s) \in Nat /\ Len(Append(s, e)) = Len(s) + 1
         /\ Append(s, e)[Len(s) + 1] = e
         /\ \A k \in 1 .. Len(s) : Append(s, e)[k] = s[k]
         /\ \A k \in 1 .. Len(Append(s, e)) : k \in 1 .. Len(s) \/ k = Len(s) + 1
  BY AppendProperties

\* Numbers that rise do so in the rest of the queue, from the first one on.
LEMMA RisingRest ==
  ASSUME NEW S, NEW s \in Seq(S), s # <<>>, Rising(s)
  PROVE  /\ Rising(Tail(s))
         /\ \A k \in 1 .. Len(Tail(s)) : Head(s).seq < Tail(s)[k].seq
<1>1. ASSUME NEW j \in 1 .. Len(Tail(s)), NEW k \in 1 .. Len(Tail(s)), j < k
      PROVE  Tail(s)[j].seq < Tail(s)[k].seq
  <2>1. /\ j + 1 \in 1 .. Len(s) /\ k + 1 \in 1 .. Len(s) /\ j + 1 < k + 1
        /\ Tail(s)[j] = s[j + 1] /\ Tail(s)[k] = s[k + 1]
    BY <1>1, RestFacts
  <2> QED BY <2>1 DEF Rising
<1>2. ASSUME NEW k \in 1 .. Len(Tail(s)) PROVE Head(s).seq < Tail(s)[k].seq
  <2>1. /\ 1 \in 1 .. Len(s) /\ k + 1 \in 1 .. Len(s) /\ 1 < k + 1
        /\ Head(s) = s[1] /\ Tail(s)[k] = s[k + 1]
    BY RestFacts
  <2> QED BY <2>1 DEF Rising
<1> QED BY <1>1, <1>2 DEF Rising

\* They still rise when a greater one follows.
LEMMA RisingMore ==
  ASSUME NEW S, NEW s \in Seq(S), NEW e \in S, Rising(s),
         \A k \in 1 .. Len(s) : s[k].seq < e.seq
  PROVE  Rising(Append(s, e))
<1> DEFINE t == Append(s, e)
<1>1. SUFFICES ASSUME NEW j \in 1 .. Len(t), NEW k \in 1 .. Len(t), j < k
               PROVE  t[j].seq < t[k].seq
  BY DEF Rising
<1>2. j \in 1 .. Len(s) /\ t[j] = s[j]
  BY <1>1, MoreFacts
<1>3. CASE k = Len(s) + 1
  BY <1>2, <1>3, MoreFacts
<1>4. CASE k \in 1 .. Len(s)
  BY <1>1, <1>2, <1>4, MoreFacts DEF Rising
<1> QED BY <1>3, <1>4, MoreFacts

-----------------------------------------------------------------------------
(* What stays *)

\* A round has a destination, which occurs nowhere else in the queue, and the
\* worker has written no more lines than its list has messages.
LEMMA RoundFacts ==
  ASSUME RoundInv, InRound
  PROVE  /\ i \in 1 .. Len(Queue) /\ Dest \in Nodes
         /\ wrappers[i] \in Seq(Message) /\ Len(wrappers[i]) \in 0 .. 8
         /\ sent \in 0 .. Len(wrappers[i])
         /\ \A p \in 1 .. Len(Queue) : Queue[p] = Dest => p = i
         /\ node[Dest] \in NodeState /\ generation \in Nat \ {0}
<1>1. /\ i \in 1 .. Len(Queue) + 1 /\ i <= Len(Queue) /\ sent <= Len(wrappers[i])
      /\ wrappers \in [1 .. Len(Queue) -> Seq(Message)] /\ sent \in Nat
      /\ node \in [Nodes -> NodeState] /\ generation \in Nat \ {0}
  BY DEF RoundInv, TypeInv, TypeOK, RoundInOrder
<1>2. i \in 1 .. Len(Queue) /\ Dest \in Nodes
  BY <1>1, QueueFacts DEF Dest
<1>3. wrappers[i] \in Seq(Message) /\ Len(wrappers[i]) <= 8
  BY <1>1, <1>2 DEF RoundInv, ListsFit
<1>4. \A p \in 1 .. Len(Queue) : Queue[p] = Dest => p = i
  BY <1>2, DeploymentAssumption DEF Dest
<1>5. Len(wrappers[i]) \in 0 .. 8 /\ sent \in 0 .. Len(wrappers[i])
  <2> DEFINE n == Len(wrappers[i])
  <2>1. n \in Nat /\ n <= 8 /\ sent \in Nat /\ sent <= n
    BY <1>1, <1>3, LenProperties
  <2> HIDE DEF n
  <2>2. n \in 0 .. 8 /\ sent \in 0 .. n
    BY ONLY <2>1
  <2> QED BY <2>2 DEF n
<1>6. node[Dest] \in NodeState
  BY <1>1, <1>2
<1> QED BY <1>1, <1>2, <1>3, <1>4, <1>5, <1>6

\* A step leaves what node d has stored and collected.
SameKeys(d) ==
  /\ node'[d].basic = node[d].basic
  /\ node'[d].pairwise = node[d].pairwise
  /\ node'[d].cluster = node[d].cluster
  /\ node'[d].sequence_mask = node[d].sequence_mask

\* The part of the invariant that is about nodes and lists only.
StoredInv == ListsFit /\ MaskIsCurrent /\ DroppedMessagesArrived /\ ServedComplete

\* A step that leaves keys, lists and the place in the queue alone keeps that
\* part, and a proof remains a proof.
LEMMA StoredStays ==
  ASSUME RoundInv, \A n \in Nodes : SameKeys(n),
         UNCHANGED <<generation, reboots, wrappers, i>>
  PROVE  /\ StoredInv'
         /\ InRound => \A mask : Proves(mask) => Proves(mask)'
<1>1. \A p \in 1 .. Len(Queue) : Queue[p] \in Nodes
  BY QueueFacts
<1>2. ASSUME NEW d \in Nodes, NEW m PROVE Installed(d, m)' <=> Installed(d, m)
  BY DEF Installed, SameKeys
<1>3. ASSUME NEW d PROVE KeptPower(d)' <=> KeptPower(d)
  BY DEF KeptPower
<1>4. ASSUME NEW d \in Nodes PROVE Complete(d)' <=> Complete(d)
  BY <1>2 DEF Complete
<1>5. ListsFit'
  BY DEF RoundInv, ListsFit
<1>6. MaskIsCurrent'
  BY <1>1, <1>2 DEF RoundInv, MaskIsCurrent, SameKeys
<1>7. DroppedMessagesArrived'
  BY <1>1, <1>2, <1>3 DEF RoundInv, DroppedMessagesArrived
<1>8. ServedComplete'
  <2>1. \A p \in 1 .. i - 1 : p \in 1 .. Len(Queue)
    BY QueueFacts DEF RoundInv, TypeInv, TypeOK
  <2> QED BY <1>1, <1>3, <1>4, <2>1 DEF RoundInv, ServedComplete
<1>9. ASSUME InRound, NEW mask, Proves(mask) PROVE Proves(mask)'
  <2>1. Dest \in Nodes
    BY <1>9, RoundFacts
  <2> QED BY <1>2, <1>3, <1>9, <2>1 DEF Proves, Dest
<1> QED BY <1>5, <1>6, <1>7, <1>8, <1>9 DEF StoredInv

\* What is in the lists are messages, and a message names nodes only.
LEMMA ListFacts ==
  ASSUME RoundInv
  PROVE  /\ \A m \in Message : /\ m.type \in {"basic", "extended"}
                               /\ m.pairwise \subseteq Nodes /\ m.cluster \subseteq Nodes
                               /\ m.type = "basic" => m.pairwise = {} /\ m.cluster = {}
         /\ \A p \in 1 .. Len(Queue) :
              /\ Elements(Messages[Queue[p]]) \subseteq Message
              /\ Elements(wrappers[p]) \subseteq Message
              /\ \A k \in 1 .. Len(wrappers[p]) : wrappers[p][k] \in Message
<1>1. \A m \in Message : /\ m.type \in {"basic", "extended"}
                         /\ m.pairwise \subseteq Nodes /\ m.cluster \subseteq Nodes
                         /\ m.type = "basic" => m.pairwise = {} /\ m.cluster = {}
  BY DEF Message
<1>2. ASSUME NEW s \in Seq(Message)
      PROVE  Elements(s) \subseteq Message /\ \A k \in 1 .. Len(s) : s[k] \in Message
  BY DEF Elements
<1>3. \A p \in 1 .. Len(Queue) : Messages[Queue[p]] \in Seq(Message)
                                  /\ wrappers[p] \in Seq(Message)
  BY QueueFacts DEF RoundInv, TypeInv, TypeOK
<1> QED BY <1>1, <1>2, <1>3

\* A message of this round arrives: its keys are there, the keys that were
\* there still are, and the node has collected its number.
LEMMA ArrivalStores ==
  ASSUME RoundInv, InRound, NEW d, d = Dest,
         NEW f \in DataFrame, NEW from \in Nodes, FromThisRound(f),
         node' = [node EXCEPT ![Dest] = Multiplex(KnowSender(node[Dest], from), f)],
         UNCHANGED <<i, wrappers, generation>>
  PROVE  /\ \A m \in Message : Installed(d, m) => Installed(d, m)'
         /\ Installed(d, wrappers[i][f.seq + 1])'
         /\ node'[d].sequence_mask =
              IF AnswerDue(f) THEN {} ELSE node[d].sequence_mask \cup {f.seq}
         /\ node'[d].basic \in {node[d].basic, generation}
         /\ \A n \in Nodes \ {d} : node'[n] = node[n]
<1> DEFINE ram == KnowSender(node[d], from)
           h == Multiplex(ram, f)
<1>1. /\ d \in Nodes /\ node \in [Nodes -> NodeState] /\ node[d] \in NodeState
      /\ node[d].nack_running = 0 /\ node[d].nack_process = "idle"
  BY RoundFacts DEF RoundInv, TypeInv, TypeOK, NodesIdle
<1>2. /\ ram \in NodeState /\ ram.nack_running = 0 /\ ram.nack_process = "idle"
      /\ ram.sequence_mask = node[d].sequence_mask /\ ram.basic = node[d].basic
      /\ ram.pairwise = node[d].pairwise /\ ram.cluster = node[d].cluster
  BY <1>1, KnowSenderFacts
<1> HIDE DEF ram
<1>3. node'[d] = h /\ \A n \in Nodes \ {d} : node'[n] = node[n]
  BY <1>1 DEF ram
<1>4. /\ \A a \in Nodes : /\ ram.pairwise[a] # NoKey => h.pairwise[a] = ram.pairwise[a]
                          /\ ram.cluster[a] # NoKey => h.cluster[a] = ram.cluster[a]
      /\ h.basic \in {ram.basic, f.gen}
      /\ IF f.msg.type = "basic" THEN h.basic = f.gen
         ELSE /\ \A a \in f.msg.pairwise : h.pairwise[a] # NoKey
              /\ \A a \in f.msg.cluster : h.cluster[a] # NoKey
  BY <1>2, MultiplexStores
<1>5. h.sequence_mask = IF AnswerDue(f) THEN {} ELSE AnswerMask(ram, f)
  BY <1>2, MultiplexFacts
<1> HIDE DEF h
<1>6. f.gen = generation /\ f.msg = wrappers[i][f.seq + 1] /\ f.msg \in Message
  BY DEF FromThisRound, DataFrame
<1>7. ASSUME NEW m \in Message, Installed(d, m) PROVE Installed(d, m)'
  <2>1. m.pairwise \subseteq Nodes /\ m.cluster \subseteq Nodes
    BY ListFacts
  <2>2. m.type = "basic" => h.basic = generation
    BY <1>2, <1>4, <1>6, <1>7 DEF Installed
  <2>3. /\ \A a \in m.pairwise : h.pairwise[a] # NoKey
        /\ \A a \in m.cluster : h.cluster[a] # NoKey
    BY <1>2, <1>4, <1>7, <2>1 DEF Installed
  <2> QED BY <1>3, <2>2, <2>3 DEF Installed
<1>8. Installed(d, wrappers[i][f.seq + 1])'
  <2>1. f.msg.type = "basic" => f.msg.pairwise = {} /\ f.msg.cluster = {}
    BY <1>6, ListFacts
  <2> QED BY <1>3, <1>4, <1>6, <2>1 DEF Installed
<1>9. node'[d].basic \in {node[d].basic, generation}
  BY <1>2, <1>3, <1>4, <1>6
<1> QED BY <1>2, <1>3, <1>5, <1>7, <1>8, <1>9 DEF AnswerMask

\* An arrival keeps masks, lists and the place in the queue right, and the
\* numbers collected so far, its own included, stand for messages that arrived.
LEMMA ArrivalInv ==
  ASSUME RoundInv, InRound, NEW d, d = Dest,
         NEW f \in DataFrame, NEW from \in Nodes, FromThisRound(f),
         node' = [node EXCEPT ![Dest] = Multiplex(KnowSender(node[Dest], from), f)],
         UNCHANGED <<i, wrappers, generation, reboots>>
  PROVE  /\ StoredInv'
         /\ \A b \in node[d].sequence_mask \cup {f.seq} :
              b < Len(wrappers[i]) /\ Installed(d, wrappers[i][b + 1])'
<1>1. /\ \A m \in Message : Installed(d, m) => Installed(d, m)'
      /\ Installed(d, wrappers[i][f.seq + 1])'
      /\ node'[d].sequence_mask =
           IF AnswerDue(f) THEN {} ELSE node[d].sequence_mask \cup {f.seq}
      /\ \A n \in Nodes \ {d} : node'[n] = node[n]
  BY ArrivalStores
<1>2. /\ d \in Nodes /\ i \in 1 .. Len(Queue) /\ Queue[i] = d
      /\ \A p \in 1 .. Len(Queue) : Queue[p] \in Nodes /\ (Queue[p] = d => p = i)
  BY RoundFacts, QueueFacts DEF Dest
<1>3. f.seq \in Bits /\ f.seq < Len(wrappers[i])
  <2>1. f.seq \in 0 .. 7 /\ f.seq < sent /\ sent \in 0 .. Len(wrappers[i])
        /\ Len(wrappers[i]) \in 0 .. 8
    BY RoundFacts DEF DataFrame, Bits, FromThisRound
  <2> QED BY <2>1 DEF Bits
<1>4. ASSUME NEW b \in node[d].sequence_mask \cup {f.seq}
      PROVE  b < Len(wrappers[i]) /\ Installed(d, wrappers[i][b + 1])'
  <2>1. CASE b = f.seq
    BY <1>1, <1>3, <2>1
  <2>2. CASE b \in node[d].sequence_mask
    <3>1. b < Len(wrappers[i]) /\ Installed(d, wrappers[i][b + 1])
      BY <1>2, <2>2 DEF RoundInv, MaskIsCurrent
    <3>2. b \in 0 .. 7 /\ Len(wrappers[i]) \in 0 .. 8
      BY <1>2, <2>2, RoundFacts DEF NodeState, Bits
    <3>3. b + 1 \in 1 .. Len(wrappers[i])
      BY <3>1, <3>2
    <3>4. wrappers[i][b + 1] \in Message
      BY <1>2, <3>3, ListFacts
    <3> QED BY <1>1, <3>1, <3>4
  <2> QED BY <2>1, <2>2
<1>5. ASSUME NEW n \in Nodes, NEW m \in Message, Installed(n, m) PROVE Installed(n, m)'
  <2>1. CASE n = d
    BY <1>1, <1>5, <2>1
  <2>2. CASE n # d
    BY <1>1, <1>5, <2>2 DEF Installed
  <2> QED BY <2>1, <2>2
<1>6. ListsFit' /\ \A n : KeptPower(n)' <=> KeptPower(n)
  BY DEF RoundInv, ListsFit, KeptPower
<1>7. MaskIsCurrent'
  <2> SUFFICES ASSUME NEW p \in 1 .. Len(Queue), NEW b \in node'[Queue[p]].sequence_mask
               PROVE  /\ p = i /\ b < Len(wrappers[p])
                      /\ Installed(Queue[p], wrappers[p][b + 1])'
    BY DEF MaskIsCurrent
  <2>1. CASE p = i
    BY <1>1, <1>2, <1>4, <2>1
  <2>2. CASE p # i
    <3>1. node'[Queue[p]] = node[Queue[p]]
      BY <1>1, <1>2, <2>2
    <3> QED BY <2>2, <3>1 DEF RoundInv, MaskIsCurrent
  <2> QED BY <2>1, <2>2
<1>8. DroppedMessagesArrived'
  BY <1>2, <1>5, <1>6, ListFacts DEF RoundInv, DroppedMessagesArrived
<1>9. ServedComplete'
  <2>1. \A p \in 1 .. i - 1 : p \in 1 .. Len(Queue) /\ Queue[p] \in Nodes
    BY <1>2, QueueFacts
  <2>2. ASSUME NEW p \in 1 .. i - 1, Complete(Queue[p]) PROVE Complete(Queue[p])'
    BY <1>5, <2>1, <2>2, ListFacts DEF Complete
  <2> QED BY <1>6, <2>2 DEF RoundInv, ServedComplete
<1> QED BY <1>4, <1>6, <1>7, <1>8, <1>9 DEF StoredInv

-----------------------------------------------------------------------------
(* The motes *)

\* All that is under way when the destination takes message f: later messages
\* of the same round.
LaterOnly(d, f, frames, lines) ==
  /\ \A n \in Nodes : n # d \/ n = Gateway => frames[n] = <<>>
  /\ \A k \in 1 .. Len(lines) :
       lines[k].dst = d /\ FromThisRound(lines[k]) /\ f.seq < lines[k].seq
  /\ \A k \in 1 .. Len(frames[d]) :
       /\ frames[d][k].kind = "data" /\ FromThisRound(frames[d][k])
       /\ f.seq < frames[d][k].seq
  /\ Rising(frames[d]) /\ Rising(lines) /\ Before(frames[d], lines)

\* When the message that asks for an answer arrives, it is the last of its
\* list, all are written, and nothing else is under way.
LEMMA LastMessage ==
  ASSUME RoundInv, InRound, NEW d, d = Dest,
         NEW f \in DataFrame, FromThisRound(f), AnswerDue(f),
         NEW frames \in [Nodes -> Seq(Frame)], NEW lines \in Seq(SetupLine),
         LaterOnly(d, f, frames, lines)
  PROVE  /\ sent = Len(wrappers[i])
         /\ lines = <<>> /\ \A n \in Nodes : frames[n] = <<>>
<1> DEFINE size == Len(wrappers[i])
<1>1. size \in Nat /\ sent \in Nat /\ sent <= size /\ d \in Nodes
  BY RoundFacts
<1>2. f.seq \in Nat /\ f.seq < sent /\ f.seq = size - 1
  <2>1. f.seq \in Nat /\ f.rem = 0 /\ f.seq < sent /\ f.rem = size - 1 - f.seq
    BY DEF DataFrame, Bits, FromThisRound, AnswerDue
  <2> HIDE DEF size
  <2> QED BY <1>1, <2>1
<1> HIDE DEF size
<1>3. ASSUME NEW g, FromThisRound(g), f.seq < g.seq, g.seq \in Nat PROVE FALSE
  BY <1>1, <1>2, <1>3 DEF FromThisRound
<1>4. lines = <<>>
  <2> SUFFICES ASSUME Len(lines) # 0 PROVE FALSE
    BY EmptySeq
  <2>1. 1 \in 1 .. Len(lines) /\ lines[1] \in SetupLine
    BY ElementOfSeq, LenProperties
  <2>2. FromThisRound(lines[1]) /\ f.seq < lines[1].seq /\ lines[1].seq \in Nat
    BY <2>1 DEF LaterOnly, SetupLine, Bits
  <2> QED BY <1>3, <2>2
<1>5. frames[d] = <<>>
  <2> SUFFICES ASSUME Len(frames[d]) # 0 PROVE FALSE
    BY <1>1, EmptySeq
  <2>1. 1 \in 1 .. Len(frames[d]) /\ frames[d][1] \in Frame
    BY <1>1, ElementOfSeq, LenProperties
  <2>2. /\ FromThisRound(frames[d][1]) /\ f.seq < frames[d][1].seq
        /\ frames[d][1].kind = "data"
    BY <2>1 DEF LaterOnly
  <2>3. frames[d][1].seq \in Nat
    BY <2>1, <2>2 DEF Frame, DataFrame, NackFrame, Bits
  <2> QED BY <1>3, <2>2, <2>3
<1> QED BY <1>1, <1>2, <1>4, <1>5 DEF LaterOnly, size

\* With nothing under way and nothing answered, a round is still collecting.
LEMMA CollectingNothing ==
  ASSUME line' = <<>>, console' = <<>>, \A n \in Nodes : air'[n] = <<>>,
         Dest' \in Nodes, NotNotified'
  PROVE  Collecting'
<1>1. Len(line') = 0 /\ Len(air'[Dest']) = 0
  BY EmptySeq
<1> QED BY <1>1 DEF Collecting, Rising, Before

\* process_message at the destination of the round: the round goes on, or it
\* is settled with an answer that proves what it says.
LEMMA HandleData ==
  ASSUME RoundInv, InRound, Collecting, NEW d, d = Dest,
         NEW f \in DataFrame, NEW from \in Nodes, FromThisRound(f),
         NEW frames \in [Nodes -> Seq(Frame)], line' \in Seq(SetupLine),
         LaterOnly(d, f, frames, line'),
         Process(d, KnowSender(node[d], from), f, frames),
         UNCHANGED <<worker, reboots>>
  PROVE  StoredInv' /\ RoundInOrder'
<1> DEFINE ram == KnowSender(node[d], from)
<1>1. UNCHANGED <<pc, i, wrappers, sent, latestResponse, notified, generation, reboots>>
  BY DEF worker
<1>2. node' = [node EXCEPT ![Dest] = Multiplex(KnowSender(node[Dest], from), f)]
  BY DEF Process
<1>3. /\ StoredInv'
      /\ \A b \in node[d].sequence_mask \cup {f.seq} :
           b < Len(wrappers[i]) /\ Installed(d, wrappers[i][b + 1])'
      /\ node'[d].sequence_mask =
           IF AnswerDue(f) THEN {} ELSE node[d].sequence_mask \cup {f.seq}
  BY <1>1, <1>2, ArrivalInv, ArrivalStores
<1>4. /\ d \in Nodes /\ i <= Len(Queue) /\ sent <= Len(wrappers[i])
      /\ node[d] \in NodeState
  BY RoundFacts
<1>5. console = <<>> /\ NotNotified
  BY DEF Collecting
<1>6. InRound' /\ NotNotified' /\ Dest' = d
  BY <1>1, <1>5 DEF InRound, NotNotified, Dest
<1>7. CASE AnswerDue(f)
  <2>1. sent = Len(wrappers[i]) /\ line' = <<>> /\ \A n \in Nodes : frames[n] = <<>>
    BY <1>7, LastMessage
  <2>2. Settled'
    BY <1>1, <1>3, <1>6, <1>7, <2>1 DEF Settled
  <2>3. PICK mask : mask = node[d].sequence_mask \cup {f.seq}
    OBVIOUS
  <2>4. Proves(mask)'
    BY <1>1, <1>3, <1>6, <2>3 DEF Proves
  <2>5. PICK ks \in Nodes : ks = ram.key_sender
    BY <1>4, KnowSenderFacts
  <2>6. Answer(d, ram, mask, frames)
    <3>1. AnswerMask(ram, f) = mask
      BY <1>4, <2>3, KnowSenderFacts DEF AnswerMask
    <3> QED BY <1>7, <3>1 DEF Process
  <2> DEFINE nack == [kind |-> "nack", src |-> d, mask |-> mask]
  <2> HIDE DEF ram
  <2>7. CASE AnswersByRadio(ram, d)
    <3>1. air' = [frames EXCEPT ![ks] = Append(@, nack)] /\ console' = <<>>
      BY <1>5, <2>5, <2>6, <2>7 DEF Answer
    <3>2. air'[ks] = Append(<<>>, nack)
      BY <2>1, <3>1
    <3>3. \A n \in Nodes \ {ks} : air'[n] = <<>>
      BY <2>1, <3>1
    <3>4. Len(air'[ks]) = 1 /\ air'[ks][1].kind = "nack" /\ air'[ks][1].mask = mask
      BY <3>2
    <3>5. AnswerInAir'
      BY <1>6, <2>2, <2>4, <2>5, <3>1, <3>3, <3>4 DEF AnswerInAir
    <3> QED BY <1>1, <1>3, <1>4, <1>6, <3>5 DEF RoundInOrder
  <2>8. CASE ~ AnswersByRadio(ram, d) /\ d = Gateway
    <3>1. air' = frames /\ console' = <<mask>>
      BY <1>5, <2>6, <2>8 DEF Answer
    <3>2. Len(console') = 1 /\ console'[1] = mask
      BY <3>1
    <3>3. AnswerPrinted'
      BY <1>6, <2>1, <2>2, <2>4, <3>1, <3>2 DEF AnswerPrinted, AirEmpty
    <3> QED BY <1>1, <1>3, <1>4, <1>6, <3>3 DEF RoundInOrder
  <2>9. CASE ~ AnswersByRadio(ram, d) /\ d # Gateway
    <3>1. air' = frames /\ console' = <<>>
      BY <1>5, <2>6, <2>9 DEF Answer
    <3>2. Collecting'
      BY <1>4, <1>6, <2>1, <3>1, CollectingNothing
    <3> QED BY <1>1, <1>3, <1>4, <1>6, <3>2 DEF RoundInOrder
  <2> QED BY <2>7, <2>8, <2>9
<1>8. CASE ~ AnswerDue(f)
  <2>1. air' = frames /\ console' = <<>>
    BY <1>5, <1>8 DEF Process
  <2>2. Collecting'
    BY <1>1, <1>6, <2>1 DEF Collecting, LaterOnly, FromThisRound, Rising, Before
  <2> QED BY <1>1, <1>3, <1>4, <1>6, <2>2 DEF RoundInOrder
<1> QED BY <1>7, <1>8

\* A line that waits for the gateway is a message of the present round.
LEMMA LinePhase ==
  ASSUME RoundInv, line # <<>>
  PROVE  /\ InRound /\ Collecting /\ Dest \in Nodes
         /\ line \in Seq(SetupLine) /\ Head(line).dst = Dest /\ FromThisRound(Head(line))
<1>1. InRound /\ Collecting
  BY DEF RoundInv, RoundInOrder, Quiescent, AnswerInAir, AnswerPrinted, AnswerRead, Settled
<1>2. line \in Seq(SetupLine)
  BY DEF RoundInv, TypeInv, TypeOK
<1>3. 1 \in 1 .. Len(line) /\ Head(line) = line[1]
  BY <1>2, RestFacts
<1> QED BY <1>1, <1>2, <1>3, RoundFacts DEF Collecting

\* A frame in the air is a message of the present round for its destination,
\* or the one answer to it.
LEMMA AirPhase ==
  ASSUME RoundInv, NEW n \in Nodes, air[n] # <<>>
  PROVE  /\ InRound /\ Dest \in Nodes /\ air \in [Nodes -> Seq(Frame)]
         /\ Head(air[n]) = air[n][1]
         /\ \/ /\ Collecting /\ n = Dest /\ n # Gateway
               /\ Head(air[n]).kind = "data" /\ FromThisRound(Head(air[n]))
            \/ /\ AnswerInAir
               /\ Head(air[n]).kind = "nack" /\ Proves(Head(air[n]).mask)
               /\ Tail(air[n]) = <<>> /\ \A m \in Nodes \ {n} : air[m] = <<>>
<1>1. InRound /\ (Collecting \/ AnswerInAir)
  BY DEF RoundInv, RoundInOrder, Quiescent, AnswerPrinted, AnswerRead, AirEmpty
<1>2. air \in [Nodes -> Seq(Frame)]
  BY DEF RoundInv, TypeInv, TypeOK
<1>3. 1 \in 1 .. Len(air[n]) /\ Head(air[n]) = air[n][1]
  BY <1>2, RestFacts
<1>4. CASE Collecting
  <2>1. n = Dest /\ n # Gateway
    BY <1>4 DEF Collecting
  <2>2. air[n][1].kind = "data" /\ FromThisRound(air[n][1])
    BY <1>3, <1>4, <2>1 DEF Collecting
  <2> QED BY <1>1, <1>2, <1>3, <1>4, <2>1, <2>2, RoundFacts
<1>5. CASE AnswerInAir
  <2>1. PICK m \in Nodes :
          /\ Len(air[m]) = 1 /\ air[m][1].kind = "nack" /\ Proves(air[m][1].mask)
          /\ \A l \in Nodes \ {m} : air[l] = <<>>
    BY <1>5 DEF AnswerInAir
  <2>2. m = n
    BY <2>1
  <2>3. Tail(air[n]) = <<>>
    <3>1. Tail(air[n]) \in Seq(Frame) /\ Len(Tail(air[n])) = Len(air[n]) - 1
      BY <1>2, RestFacts
    <3>2. Len(Tail(air[n])) = 0
      BY <2>1, <2>2, <3>1
    <3> QED BY <3>1, <3>2, EmptySeq
  <2> QED BY <1>1, <1>2, <1>3, <1>5, <2>1, <2>2, <2>3, RoundFacts
<1> QED BY <1>1, <1>4, <1>5

\* The gateway passes the next message on.
LEMMA ForwardRound ==
  ASSUME RoundInv, Forward
  PROVE  StoredInv' /\ RoundInOrder'
<1> DEFINE command == Head(line)
           f == DataFor(command)
<1>1. /\ InRound /\ Collecting /\ line \in Seq(SetupLine) /\ command.dst = Dest
      /\ FromThisRound(command) /\ Dest \in Nodes /\ Dest # Gateway
  BY LinePhase DEF Forward
<1>2. /\ UNCHANGED <<pc, i, wrappers, sent, latestResponse, notified, generation>>
      /\ UNCHANGED <<console, reboots>>
      /\ line' = Tail(line) /\ air' = [air EXCEPT ![Dest] = Append(@, f)]
  BY <1>1 DEF Forward, worker
<1>3. /\ f \in Frame /\ f.kind = "data" /\ f.seq = command.seq /\ FromThisRound(f)
      /\ command.seq \in Nat
  <2>1. command \in SetupLine
    BY <1>1, RestFacts DEF Forward
  <2>2. f \in Frame /\ command.seq \in Nat
    BY <2>1, DataForType DEF SetupLine, Bits
  <2> QED BY <1>1, <2>2 DEF DataFor, FromThisRound
<1>4. PICK d \in Nodes : d = Dest
  BY <1>1
<1>5. /\ air \in [Nodes -> Seq(Frame)] /\ air'[d] = Append(air[d], f)
      /\ \A n \in Nodes \ {d} : air'[n] = air[n]
  BY <1>2, <1>4 DEF RoundInv, TypeInv, TypeOK
<1> HIDE DEF f, command
<1>6. /\ Rising(air'[d]) /\ Rising(line') /\ Before(air'[d], line')
  <2>1. /\ Rising(air[d]) /\ Rising(line) /\ Before(air[d], line)
        /\ line # <<>> /\ command = Head(line)
    BY <1>1, <1>4 DEF Collecting, Forward, command
  <2>2. /\ Rising(Tail(line))
        /\ \A k \in 1 .. Len(Tail(line)) : command.seq < Tail(line)[k].seq
    BY <1>1, <2>1, RisingRest
  <2>3. \A k \in 1 .. Len(air[d]) : air[d][k].seq < f.seq
    <3>1. 1 \in 1 .. Len(line) /\ command = line[1]
      BY <1>1, <2>1, RestFacts
    <3> QED BY <1>3, <2>1, <3>1 DEF Before
  <2>4. Rising(air'[d])
    BY <1>3, <1>5, <2>1, <2>3, RisingMore
  <2>5. ASSUME NEW j \in 1 .. Len(air'[d]), NEW k \in 1 .. Len(Tail(line))
        PROVE  air'[d][j].seq < Tail(line)[k].seq
    <3>1. CASE j \in 1 .. Len(air[d])
      <4>1. air'[d][j] = air[d][j]
        BY <1>3, <1>5, <3>1, MoreFacts
      <4>2. k + 1 \in 1 .. Len(line) /\ Tail(line)[k] = line[k + 1]
        BY <1>1, <2>1, RestFacts
      <4> QED BY <2>1, <3>1, <4>1, <4>2 DEF Before
    <3>2. CASE j = Len(air[d]) + 1
      <4>1. air'[d][j] = f
        BY <1>3, <1>5, <3>2, MoreFacts
      <4> QED BY <1>3, <2>2, <4>1
    <3> QED BY <1>3, <1>5, <3>1, <3>2, MoreFacts
  <2> QED BY <1>2, <2>2, <2>4, <2>5 DEF Before
<1>7. \A k \in 1 .. Len(line') : line'[k].dst = d /\ FromThisRound(line'[k])
  BY <1>1, <1>2, <1>4, RestFacts DEF Collecting, Forward
<1>8. \A k \in 1 .. Len(air'[d]) : air'[d][k].kind = "data" /\ FromThisRound(air'[d][k])
  BY <1>1, <1>3, <1>4, <1>5, MoreFacts DEF Collecting
<1>9. Collecting'
  BY <1>1, <1>2, <1>4, <1>5, <1>6, <1>7, <1>8
     DEF Collecting, FromThisRound, NotNotified, Dest
<1>10. \A n \in Nodes : SameKeys(n)
  BY KnowSenderFacts, DeploymentAssumption
     DEF Forward, SameKeys, RoundInv, TypeInv, TypeOK
<1>11. StoredInv'
  BY <1>2, <1>10, StoredStays
<1> QED BY <1>1, <1>2, <1>9, <1>11, RoundFacts DEF RoundInOrder, InRound

\* The rest of the round, once the first of the waiting lines is taken.
LEMMA LaterLines ==
  ASSUME RoundInv, line # <<>>, NEW d, d = Dest, AirEmpty
  PROVE  /\ Tail(line) \in Seq(SetupLine)
         /\ LaterOnly(d, Head(line), air, Tail(line))
<1>1. /\ Collecting /\ line \in Seq(SetupLine) /\ d \in Nodes /\ Rising(line)
      /\ \A k \in 1 .. Len(line) : line[k].dst = d /\ FromThisRound(line[k])
  BY LinePhase DEF Collecting
<1>2. /\ Rising(Tail(line)) /\ Tail(line) \in Seq(SetupLine)
      /\ \A k \in 1 .. Len(Tail(line)) : Head(line).seq < Tail(line)[k].seq
  BY <1>1, RestFacts, RisingRest
<1>3. \A k \in 1 .. Len(Tail(line)) :
        Tail(line)[k].dst = d /\ FromThisRound(Tail(line)[k])
  BY <1>1, RestFacts
<1>4. \A n \in Nodes : air[n] = <<>> /\ Len(air[n]) = 0
  BY EmptySeq DEF AirEmpty
<1> QED BY <1>1, <1>2, <1>3, <1>4 DEF LaterOnly, Rising, Before

\* The gateway is itself the destination.
LEMMA SetupLocallyRound ==
  ASSUME RoundInv, SetupLocally
  PROVE  StoredInv' /\ RoundInOrder'
<1>1. /\ InRound /\ Collecting /\ Head(line).dst = Dest /\ FromThisRound(Head(line))
      /\ line \in Seq(SetupLine) /\ line # <<>> /\ Dest = Gateway /\ Dest \in Nodes
  BY LinePhase DEF SetupLocally
<1>2. PICK f \in DataFrame : f = DataFor(Head(line))
  BY <1>1, RestFacts, DataForType
<1>3. FromThisRound(f) /\ f.seq = Head(line).seq
  BY <1>1, <1>2 DEF DataFor, FromThisRound
<1>4. AirEmpty
  BY <1>1 DEF Collecting, AirEmpty
<1>5. PICK d \in Nodes : d = Dest /\ d = Gateway
  BY <1>1
<1>6. line' = Tail(line) /\ line' \in Seq(SetupLine) /\ LaterOnly(d, f, air, line')
  BY <1>1, <1>3, <1>4, <1>5, LaterLines DEF LaterOnly, SetupLocally
<1>7. /\ air \in [Nodes -> Seq(Frame)] /\ UNCHANGED <<worker, reboots>>
      /\ Process(d, KnowSender(node[d], d), f, air)
  BY <1>2, <1>5 DEF SetupLocally, RoundInv, TypeInv, TypeOK
<1> QED BY <1>1, <1>3, <1>5, <1>6, <1>7, HandleData

\* The destination receives a message.
LEMMA ReceiveDataRound ==
  ASSUME RoundInv, NEW n \in Nodes, ReceiveData(n)
  PROVE  StoredInv' /\ RoundInOrder'
<1> DEFINE frames == [air EXCEPT ![n] = Tail(@)]
<1>1. /\ air[n] # <<>> /\ Head(air[n]).kind = "data"
      /\ Process(n, KnowSender(node[n], Head(air[n]).src), Head(air[n]), frames)
      /\ UNCHANGED <<worker, line, reboots>>
  BY DEF ReceiveData
<1>2. /\ InRound /\ Collecting /\ n = Dest /\ FromThisRound(Head(air[n]))
      /\ air \in [Nodes -> Seq(Frame)]
  BY <1>1, AirPhase
<1>3. PICK f \in DataFrame : f = Head(air[n]) /\ f.src \in Nodes
  <2>1. Head(air[n]) \in DataFrame /\ Head(air[n]).src \in Nodes
    BY <1>1, HeadFacts DEF RoundInv
  <2> QED BY <2>1
<1>4. /\ frames \in [Nodes -> Seq(Frame)] /\ frames[n] = Tail(air[n])
      /\ \A m \in Nodes \ {n} : frames[m] = air[m]
  BY <1>1, <1>2, RestFacts
<1> HIDE DEF frames
<1>5. /\ Rising(air[n]) /\ Rising(line) /\ Before(air[n], line)
      /\ \A m \in Nodes : m # n \/ m = Gateway => air[m] = <<>>
      /\ \A k \in 1 .. Len(line) : line[k].dst = n /\ FromThisRound(line[k])
      /\ \A k \in 1 .. Len(air[n]) : air[n][k].kind = "data" /\ FromThisRound(air[n][k])
  BY <1>2 DEF Collecting
<1>6. \A k \in 1 .. Len(line) : f.seq < line[k].seq
  BY <1>1, <1>2, <1>3, <1>5, RestFacts DEF Before
<1>7. /\ Rising(frames[n])
      /\ \A k \in 1 .. Len(frames[n]) : f.seq < frames[n][k].seq
  BY <1>1, <1>2, <1>3, <1>4, <1>5, RisingRest
<1>8. \A k \in 1 .. Len(frames[n]) :
        frames[n][k].kind = "data" /\ FromThisRound(frames[n][k])
  BY <1>1, <1>2, <1>4, <1>5, RestFacts
<1>9. Before(frames[n], line)
  BY <1>1, <1>2, <1>4, <1>5, RestFacts DEF Before
<1>10. \A m \in Nodes : m # n \/ m = Gateway => frames[m] = <<>>
  BY <1>1, <1>4, <1>5
<1>11. LaterOnly(n, f, frames, line') /\ line' \in Seq(SetupLine)
  BY <1>1, <1>5, <1>6, <1>7, <1>8, <1>9, <1>10
     DEF LaterOnly, RoundInv, TypeInv, TypeOK
<1> QED BY <1>1, <1>2, <1>3, <1>4, <1>11, HandleData

\* An answer reaches the gateway's console, or a node that nobody listens to.
LEMMA ReceiveNackRound ==
  ASSUME RoundInv, NEW n \in Nodes, ReceiveNack(n)
  PROVE  StoredInv' /\ RoundInOrder'
<1>1. /\ InRound /\ AnswerInAir /\ Dest \in Nodes /\ air \in [Nodes -> Seq(Frame)]
      /\ Proves(Head(air[n]).mask)
      /\ Tail(air[n]) = <<>> /\ \A m \in Nodes \ {n} : air[m] = <<>>
  BY AirPhase DEF ReceiveNack
<1>2. PICK mask : mask = Head(air[n]).mask
  OBVIOUS
<1>3. /\ UNCHANGED <<pc, i, wrappers, sent, latestResponse, notified, generation>>
      /\ UNCHANGED <<line, reboots>>
      /\ air' = [air EXCEPT ![n] = Tail(@)]
      /\ console' = IF n = Gateway THEN Append(console, mask) ELSE console
  BY <1>2 DEF ReceiveNack, worker
<1>4. \A m \in Nodes : air'[m] = <<>>
  BY <1>1, <1>3
<1>5. \A m \in Nodes : SameKeys(m)
  <2>1. Head(air[n]).src \in Nodes
    BY HeadFacts DEF RoundInv, ReceiveNack
  <2> QED BY <2>1, KnowSenderFacts
          DEF ReceiveNack, SameKeys, RoundInv, TypeInv, TypeOK
<1>6. StoredInv' /\ Proves(mask)'
  BY <1>1, <1>2, <1>3, <1>5, StoredStays
<1>7. console = <<>> /\ Settled /\ NotNotified
  BY <1>1 DEF AnswerInAir
<1>8. Settled' /\ NotNotified' /\ Dest' = Dest
  BY <1>1, <1>3, <1>5, <1>7 DEF Settled, NotNotified, Dest, SameKeys
<1>9. CASE n = Gateway
  <2>1. console' = Append(<<>>, mask)
    BY <1>3, <1>7, <1>9
  <2>2. Len(console') = 1 /\ console'[1] = mask
    BY <2>1
  <2>3. AnswerPrinted'
    BY <1>4, <1>6, <1>8, <2>2 DEF AnswerPrinted, AirEmpty
  <2> QED BY <1>1, <1>3, <1>6, <2>3, RoundFacts DEF RoundInOrder, InRound
<1>10. CASE n # Gateway
  <2>1. console' = <<>> /\ line' = <<>>
    BY <1>3, <1>7, <1>10 DEF Settled
  <2>2. Collecting'
    BY <1>1, <1>4, <1>8, <2>1, CollectingNothing
  <2> QED BY <1>1, <1>3, <1>6, <2>2, RoundFacts DEF RoundInOrder, InRound
<1> QED BY <1>9, <1>10

\* A frame is lost: one message less, or no answer in this round.
LEMMA LoseFrameRound ==
  ASSUME RoundInv, NEW n \in Nodes, LoseFrame(n)
  PROVE  StoredInv' /\ RoundInOrder'
<1>1. /\ UNCHANGED <<pc, i, wrappers, sent, latestResponse, notified, generation>>
      /\ UNCHANGED <<line, console, node, reboots>>
      /\ air[n] # <<>> /\ air' = [air EXCEPT ![n] = Tail(@)]
  BY DEF LoseFrame, worker
<1>2. /\ InRound /\ Dest \in Nodes /\ air \in [Nodes -> Seq(Frame)]
      /\ \/ Collecting /\ n = Dest /\ n # Gateway
         \/ /\ AnswerInAir /\ Tail(air[n]) = <<>>
            /\ \A m \in Nodes \ {n} : air[m] = <<>>
  BY <1>1, AirPhase
<1>3. StoredInv'
  BY <1>1, StoredStays DEF SameKeys
<1>4. air'[n] = Tail(air[n]) /\ \A m \in Nodes \ {n} : air'[m] = air[m]
  BY <1>1, <1>2
<1>5. CASE Collecting /\ n = Dest /\ n # Gateway
  <2>1. /\ Rising(air[n]) /\ Rising(line) /\ Before(air[n], line)
        /\ \A k \in 1 .. Len(air[n]) :
             air[n][k].kind = "data" /\ FromThisRound(air[n][k])
    BY <1>5 DEF Collecting
  <2>2. Rising(air'[n]) /\ Before(air'[n], line)
    <3>1. Rising(air'[n])
      BY <1>1, <1>2, <1>4, <2>1, RisingRest
    <3>2. Before(air'[n], line)
      BY <1>1, <1>2, <1>4, <2>1, RestFacts DEF Before
    <3> QED BY <3>1, <3>2
  <2>3. \A k \in 1 .. Len(air'[n]) :
          air'[n][k].kind = "data" /\ FromThisRound(air'[n][k])
    BY <1>1, <1>2, <1>4, <2>1, RestFacts
  <2>4. Collecting'
    BY <1>1, <1>4, <1>5, <2>1, <2>2, <2>3
       DEF Collecting, FromThisRound, NotNotified, Dest, Rising, Before
  <2> QED BY <1>1, <1>2, <1>3, <2>4, RoundFacts DEF RoundInOrder, InRound
<1>6. CASE /\ AnswerInAir /\ Tail(air[n]) = <<>>
           /\ \A m \in Nodes \ {n} : air[m] = <<>>
  <2>1. /\ line' = <<>> /\ console' = <<>> /\ \A m \in Nodes : air'[m] = <<>>
        /\ NotNotified' /\ Dest' \in Nodes
    BY <1>1, <1>2, <1>4, <1>6 DEF AnswerInAir, Settled, NotNotified, Dest
  <2> QED BY <1>1, <1>2, <1>3, <2>1, CollectingNothing, RoundFacts
          DEF RoundInOrder, InRound
<1> QED BY <1>2, <1>5, <1>6

\* A line is lost: one message less.
LEMMA LoseLineRound ==
  ASSUME RoundInv, LoseLine
  PROVE  StoredInv' /\ RoundInOrder'
<1>1. /\ UNCHANGED <<pc, i, wrappers, sent, latestResponse, notified, generation>>
      /\ UNCHANGED <<air, console, node, reboots>>
      /\ line # <<>> /\ line' = Tail(line)
  BY DEF LoseLine, worker
<1>2. InRound /\ Collecting /\ line \in Seq(SetupLine)
  BY <1>1, LinePhase
<1>3. StoredInv'
  BY <1>1, StoredStays DEF SameKeys
<1>4. Rising(Tail(line)) /\ Before(air[Dest], Tail(line))
  <2>1. Rising(Tail(line))
    BY <1>1, <1>2, RisingRest DEF Collecting
  <2>2. Before(air[Dest], Tail(line))
    BY <1>1, <1>2, RestFacts DEF Collecting, Before
  <2> QED BY <2>1, <2>2
<1>5. \A k \in 1 .. Len(Tail(line)) :
        Tail(line)[k].dst = Dest /\ FromThisRound(Tail(line)[k])
  BY <1>1, <1>2, RestFacts DEF Collecting
<1>6. Collecting'
  BY <1>1, <1>2, <1>4, <1>5
     DEF Collecting, FromThisRound, NotNotified, Dest, Rising, Before
<1> QED BY <1>1, <1>2, <1>3, <1>6, RoundFacts DEF RoundInOrder, InRound

\* The reader thread takes the answer, or it is lost on the way.
LEMMA ConsoleRound ==
  ASSUME RoundInv, Response \/ CorruptResponse \/ LoseResponse
  PROVE  StoredInv' /\ RoundInOrder'
<1>1. /\ UNCHANGED <<pc, i, wrappers, sent, generation, line, air, node, reboots>>
      /\ console # <<>> /\ console' = Tail(console)
  BY DEF Response, CorruptResponse, LoseResponse, worker
<1>2. /\ InRound /\ Settled /\ AirEmpty /\ NotNotified
      /\ Len(console) = 1 /\ Proves(console[1])
  <2>1. InRound /\ AnswerPrinted
    BY <1>1 DEF RoundInv, RoundInOrder, Quiescent, Collecting, AnswerInAir, AnswerRead
  <2> QED BY <2>1 DEF AnswerPrinted
<1>3. Head(console) = console[1] /\ console' = <<>>
  <2>1. /\ console \in Seq(SUBSET Bits) /\ Tail(console) \in Seq(SUBSET Bits)
        /\ Len(Tail(console)) = Len(console) - 1 /\ Head(console) = console[1]
    BY <1>1, RestFacts DEF RoundInv, TypeInv, TypeOK
  <2>2. Len(Tail(console)) = 0
    BY <1>2, <2>1
  <2> QED BY <1>1, <2>1, <2>2, EmptySeq
<1>4. PICK mask : mask = Head(console)
  OBVIOUS
<1>5. StoredInv' /\ Proves(mask)'
  BY <1>1, <1>2, <1>3, <1>4, StoredStays DEF SameKeys
<1>6. Settled' /\ AirEmpty' /\ Dest' = Dest /\ InRound'
  BY <1>1, <1>2 DEF Settled, AirEmpty, Dest, InRound
<1>7. CASE Response
  <2>1. latestResponse' = mask /\ notified' = TRUE /\ pc' = "waiting"
    BY <1>1, <1>4, <1>7 DEF Response
  <2>2. AnswerRead'
    BY <1>3, <1>5, <1>6, <2>1 DEF AnswerRead
  <2> QED BY <1>1, <1>2, <1>5, <1>6, <2>2, RoundFacts DEF RoundInOrder
<1>8. CASE CorruptResponse
  <2>1. latestResponse' = NoResponse /\ notified' = TRUE /\ pc' = "waiting"
    BY <1>1, <1>2, <1>8 DEF CorruptResponse, NotNotified
  <2>2. AnswerRead'
    BY <1>3, <1>6, <2>1 DEF AnswerRead
  <2> QED BY <1>1, <1>2, <1>5, <1>6, <2>2, RoundFacts DEF RoundInOrder
<1>9. CASE LoseResponse
  <2>1. NotNotified'
    BY <1>2, <1>9 DEF LoseResponse, worker, NotNotified
  <2>2. Dest' \in Nodes /\ line' = <<>>
    BY <1>1, <1>2, <1>6, RoundFacts DEF Settled
  <2>3. Collecting'
    BY <1>3, <1>6, <2>1, <2>2, CollectingNothing DEF AirEmpty
  <2> QED BY <1>1, <1>2, <1>5, <1>6, <2>3, RoundFacts DEF RoundInOrder
<1> QED BY <1>7, <1>8, <1>9

\* A node loses power: what it had is gone, and nothing is said about it.
LEMMA RebootRound ==
  ASSUME RoundInv, NEW n \in Nodes, Reboot(n)
  PROVE  StoredInv' /\ RoundInOrder'
<1>1. /\ UNCHANGED <<pc, i, wrappers, sent, latestResponse, notified, generation>>
      /\ UNCHANGED <<line, air, console>>
      /\ node' = [node EXCEPT ![n] = Booted]
      /\ reboots' = [reboots EXCEPT ![n] = @ + 1]
      /\ node \in [Nodes -> NodeState] /\ reboots \in [Nodes -> Nat]
  BY DEF Reboot, worker, RoundInv, TypeInv, TypeOK
<1>2. /\ node'[n].sequence_mask = {} /\ ~ KeptPower(n)'
      /\ \A d \in Nodes \ {n} : node'[d] = node[d] /\ (KeptPower(d)' <=> KeptPower(d))
  BY <1>1 DEF Booted, KeptPower
<1>3. ASSUME NEW d \in Nodes, NEW m, Installed(d, m), KeptPower(d)'
      PROVE  Installed(d, m)' /\ KeptPower(d)
  BY <1>1, <1>2, <1>3 DEF Installed
<1>4. \A p \in 1 .. Len(Queue) : Queue[p] \in Nodes
  BY QueueFacts
<1>5. ListsFit'
  BY <1>1 DEF RoundInv, ListsFit
<1>6. MaskIsCurrent'
  <2> SUFFICES ASSUME NEW p \in 1 .. Len(Queue), NEW b \in node'[Queue[p]].sequence_mask
               PROVE  /\ p = i /\ b < Len(wrappers[p])
                      /\ Installed(Queue[p], wrappers[p][b + 1])'
    BY <1>1 DEF MaskIsCurrent
  <2>1. Queue[p] # n /\ node'[Queue[p]] = node[Queue[p]]
    BY <1>2, <1>4
  <2> QED BY <1>1, <2>1 DEF RoundInv, MaskIsCurrent, Installed
<1>7. DroppedMessagesArrived'
  BY <1>1, <1>2, <1>3, <1>4 DEF RoundInv, DroppedMessagesArrived
<1>8. ServedComplete'
  <2>1. \A p \in 1 .. i - 1 : p \in 1 .. Len(Queue)
    BY QueueFacts DEF RoundInv, TypeInv, TypeOK
  <2> QED BY <1>1, <1>2, <1>3, <1>4, <2>1 DEF RoundInv, ServedComplete, Complete
<1>9. RoundInOrder'
  <2>1. CASE ~ InRound
    BY <1>1, <2>1 DEF RoundInv, RoundInOrder, InRound, Quiescent
  <2>2. CASE InRound
    <3>1. InRound' /\ Dest' = Dest /\ Dest \in Nodes /\ i <= Len(Queue)
          /\ sent <= Len(wrappers[i])
      BY <1>1, <2>2, RoundFacts DEF InRound, Dest
    <3>2. Settled => Settled'
      BY <1>1, <1>2, <3>1 DEF Settled
    <3>3. ASSUME NEW mask, Proves(mask) PROVE Proves(mask)'
      BY <1>1, <1>2, <1>3, <3>1, <3>3 DEF Proves, Dest
    <3>4. NotNotified' <=> NotNotified
      BY <1>1 DEF NotNotified
    <3>5. CASE Collecting
      BY <1>1, <2>2, <3>1, <3>5 DEF RoundInOrder, Collecting, FromThisRound, NotNotified
    <3>6. CASE AnswerInAir
      <4>1. AnswerInAir'
        BY <1>1, <3>2, <3>3, <3>4, <3>6 DEF AnswerInAir
      <4> QED BY <1>1, <3>1, <4>1 DEF RoundInOrder
    <3>7. CASE AnswerPrinted
      <4>1. AnswerPrinted'
        BY <1>1, <3>2, <3>3, <3>4, <3>7 DEF AnswerPrinted, AirEmpty
      <4> QED BY <1>1, <3>1, <4>1 DEF RoundInOrder
    <3>8. CASE AnswerRead
      <4>1. AnswerRead'
        BY <1>1, <3>2, <3>3, <3>8 DEF AnswerRead, AirEmpty
      <4> QED BY <1>1, <3>1, <4>1 DEF RoundInOrder
    <3> QED BY <2>2, <3>5, <3>6, <3>7, <3>8 DEF RoundInv, RoundInOrder
  <2> QED BY <2>1, <2>2
<1> QED BY <1>5, <1>6, <1>7, <1>8, <1>9 DEF StoredInv

-----------------------------------------------------------------------------
(* The worker *)

\* Between rounds.
LEMMA IdleRound ==
  ASSUME RoundInv, StartRound \/ Finish
  PROVE  StoredInv' /\ RoundInOrder'
<1>1. /\ UNCHANGED <<i, wrappers, latestResponse, generation, node, reboots>>
      /\ UNCHANGED <<line, air, console>> /\ pc = "start"
  BY DEF StartRound, Finish, network
<1>2. StoredInv'
  BY <1>1, StoredStays DEF SameKeys
<1>3. Quiescent /\ latestResponse = NoResponse
  BY <1>1 DEF RoundInv, RoundInOrder, InRound
<1>4. CASE StartRound
  <2>1. i <= Len(Queue) /\ pc' = "sending" /\ sent' = 0
    BY <1>4 DEF StartRound
  <2>2. i \in 1 .. Len(Queue) /\ Dest' \in Nodes /\ wrappers[i] \in Seq(Message)
    BY <1>1, <2>1, QueueFacts DEF RoundInv, TypeInv, TypeOK, Dest
  <2>3. NotNotified' /\ InRound'
    BY <1>1, <1>3, <2>1 DEF NotNotified, InRound
  <2>4. Collecting'
    BY <1>1, <1>3, <2>2, <2>3, CollectingNothing DEF Quiescent
  <2>5. 0 <= Len(wrappers[i])
    BY <2>2, LenProperties
  <2> QED BY <1>1, <1>2, <2>1, <2>3, <2>4, <2>5 DEF RoundInOrder
<1>5. CASE Finish
  BY <1>1, <1>2, <1>3, <1>5 DEF Finish, RoundInOrder, InRound, Quiescent
<1> QED BY <1>4, <1>5

\* The header of a list that fits: place and rest, as they are.
LEMMA HeaderFits ==
  ASSUME NEW k \in 0 .. 7, NEW size \in 0 .. 8, k < size
  PROVE  GenerateHeader(k + 1, size) = [seq |-> k, rem |-> size - 1 - k]
  BY DEF GenerateHeader, Field

\* The next message of the list is written.
LEMMA SendLineRound ==
  ASSUME RoundInv, SendLine
  PROVE  StoredInv' /\ RoundInOrder'
<1> DEFINE header == GenerateHeader(sent + 1, Len(wrappers[i]))
           command == [dst |-> Queue[i], msg |-> wrappers[i][sent + 1],
                       gen |-> generation, seq |-> header.seq, rem |-> header.rem]
<1>1. /\ UNCHANGED <<pc, i, wrappers, latestResponse, notified, generation>>
      /\ UNCHANGED <<air, console, node, reboots>>
      /\ pc = "sending" /\ sent < Len(wrappers[i]) /\ sent' = sent + 1
      /\ line' = Append(line, command)
  BY DEF SendLine
<1>2. /\ InRound /\ Dest \in Nodes /\ i \in 1 .. Len(Queue)
      /\ sent \in 0 .. 7 /\ Len(wrappers[i]) \in 0 .. 8
      /\ wrappers[i] \in Seq(Message) /\ generation \in Nat \ {0}
  <2>1. InRound
    BY <1>1 DEF InRound
  <2>2. /\ Len(wrappers[i]) \in 0 .. 8 /\ sent \in 0 .. Len(wrappers[i])
        /\ sent < Len(wrappers[i])
    BY <1>1, <2>1, RoundFacts
  <2>3. \A n \in 0 .. 8 : sent \in 0 .. n /\ sent < n => sent \in 0 .. 7
    OBVIOUS
  <2> QED BY <2>1, <2>2, <2>3, RoundFacts
<1>3. Collecting /\ line \in Seq(SetupLine)
  BY <1>1, <1>2 DEF RoundInv, RoundInOrder, AnswerInAir, AnswerPrinted, AnswerRead,
                    Settled, TypeInv, TypeOK
<1>4. header = [seq |-> sent, rem |-> Len(wrappers[i]) - 1 - sent]
  BY <1>1, <1>2, HeaderFits
<1> HIDE DEF header
<1>5. command.seq = sent /\ command.rem = Len(wrappers[i]) - 1 - sent
  BY <1>4
<1>6. command \in SetupLine
  <2>1. wrappers[i][sent + 1] \in Message
    BY <1>1, <1>2
  <2>2. header.seq \in Bits /\ header.rem \in Bits
    BY <1>2, <1>1, HeaderType DEF header
  <2>3. Queue[i] \in Nodes
    BY <1>2 DEF Dest
  <2> QED BY <1>2, <2>1, <2>2, <2>3 DEF SetupLine
<1>7. command.dst = Dest /\ command.msg = wrappers[i][sent + 1] /\ command.gen = generation
  BY DEF Dest
<1> HIDE DEF command
<1>8. StoredInv'
  BY <1>1, StoredStays DEF SameKeys
<1>9. ASSUME NEW g, FromThisRound(g), g.seq \in Nat
      PROVE  FromThisRound(g)' /\ g.seq < sent
  BY <1>1, <1>2, <1>9 DEF FromThisRound
<1>10. /\ command.gen = generation /\ command.seq < sent + 1 /\ command.seq \in Nat
       /\ command.msg = wrappers[i][command.seq + 1]
       /\ command.rem = Len(wrappers[i]) - 1 - command.seq
  BY <1>2, <1>5, <1>7
<1>11. PICK d \in Nodes : d = Dest
  BY <1>2
<1>12. /\ \A k \in 1 .. Len(line) : /\ line[k].dst = d /\ FromThisRound(line[k])
                                    /\ line[k].seq \in Nat /\ line[k].seq < sent
       /\ \A k \in 1 .. Len(air[d]) :
            /\ air[d][k].kind = "data" /\ FromThisRound(air[d][k])
            /\ air[d][k].seq \in Nat /\ air[d][k].seq < sent
  <2>1. \A k \in 1 .. Len(line) : line[k] \in SetupLine
    BY <1>3
  <2>2. \A k \in 1 .. Len(air[d]) : air[d][k] \in Frame
    BY DEF RoundInv, TypeInv, TypeOK
  <2>3. \A k \in 1 .. Len(line) : line[k].dst = d /\ FromThisRound(line[k])
    BY <1>3, <1>11 DEF Collecting
  <2>4. \A k \in 1 .. Len(air[d]) :
          air[d][k].kind = "data" /\ FromThisRound(air[d][k])
    BY <1>3, <1>11 DEF Collecting
  <2>5. \A c \in SetupLine : c.seq \in Nat
    BY DEF SetupLine, Bits
  <2>6. \A f \in Frame : f.kind = "data" => f.seq \in Nat
    BY DEF Frame, DataFrame, NackFrame, Bits
  <2> QED BY <1>9, <2>1, <2>2, <2>3, <2>4, <2>5, <2>6
<1>13. Rising(line') /\ Before(air[d], line')
  <2>1. \A k \in 1 .. Len(line) : line[k].seq < command.seq
    BY <1>5, <1>12
  <2>2. Rising(line) /\ Before(air[d], line)
    BY <1>3, <1>11 DEF Collecting
  <2>3. Rising(line')
    BY <1>1, <1>3, <1>6, <2>1, <2>2, RisingMore
  <2>4. Before(air[d], line')
    BY <1>1, <1>3, <1>5, <1>6, <1>12, <2>2, MoreFacts DEF Before
  <2> QED BY <2>3, <2>4
<1>14. \A k \in 1 .. Len(line') : line'[k].dst = d /\ FromThisRound(line[k])'
  <2> SUFFICES ASSUME NEW k \in 1 .. Len(line')
               PROVE  line'[k].dst = d /\ FromThisRound(line[k])'
    OBVIOUS
  <2>1. CASE k \in 1 .. Len(line)
    <3>1. line'[k] = line[k]
      BY <1>1, <1>3, <1>6, <2>1, MoreFacts
    <3> QED BY <1>1, <1>2, <1>12, <2>1, <3>1 DEF FromThisRound
  <2>2. CASE k = Len(line) + 1
    <3>1. line'[k] = command
      BY <1>1, <1>3, <1>6, <2>2, MoreFacts
    <3> QED BY <1>1, <1>7, <1>10, <1>11, <3>1 DEF FromThisRound
  <2> QED BY <1>1, <1>3, <1>6, <2>1, <2>2, MoreFacts
<1>15. \A k \in 1 .. Len(air[d]) : air[d][k].kind = "data" /\ FromThisRound(air[d][k])'
  <2> SUFFICES ASSUME NEW k \in 1 .. Len(air[d])
               PROVE  air[d][k].kind = "data" /\ FromThisRound(air[d][k])'
    OBVIOUS
  <2>1. PICK g : g = air[d][k]
    OBVIOUS
  <2>2. FromThisRound(g) /\ g.kind = "data" /\ g.seq \in Nat
    BY <1>12, <2>1
  <2>3. FromThisRound(g)'
    BY <1>9, <2>2
  <2>4. air'[d][k] = g
    BY <1>1, <2>1
  <2> QED BY <2>1, <2>2, <2>3, <2>4 DEF FromThisRound
<1>16. Collecting'
  BY <1>1, <1>3, <1>11, <1>13, <1>14, <1>15
     DEF Collecting, NotNotified, Dest, Rising, Before, FromThisRound
<1>17. i <= Len(Queue) /\ sent' <= Len(wrappers[i])
  BY <1>1, <1>2
<1> QED BY <1>1, <1>8, <1>16, <1>17 DEF RoundInOrder, InRound

\* All lines are written; no answer has been read yet.
LEMMA BeginWaitRound ==
  ASSUME RoundInv, BeginWait
  PROVE  StoredInv' /\ RoundInOrder'
<1>1. /\ UNCHANGED <<i, wrappers, sent, latestResponse, generation, node, reboots>>
      /\ UNCHANGED <<line, air, console>>
      /\ pc = "sending" /\ pc' = "waiting" /\ notified' = FALSE
  BY DEF BeginWait, network
<1>2. InRound /\ InRound' /\ Dest' = Dest
  BY <1>1 DEF InRound, Dest
<1>3. StoredInv' /\ \A mask : Proves(mask) => Proves(mask)'
  BY <1>1, <1>2, StoredStays DEF SameKeys
<1>4. NotNotified => NotNotified'
  BY <1>1 DEF NotNotified
<1>5. Settled' <=> Settled
  BY <1>1 DEF Settled, Dest
<1>6. CASE Collecting
  <2>1. Collecting'
    BY <1>1, <1>4, <1>6 DEF Collecting, FromThisRound, Dest, Rising, Before
  <2> QED BY <1>1, <1>2, <1>3, <2>1, RoundFacts DEF RoundInOrder
<1>7. CASE AnswerInAir
  <2>1. AnswerInAir'
    BY <1>1, <1>3, <1>4, <1>5, <1>7 DEF AnswerInAir
  <2> QED BY <1>1, <1>2, <1>3, <2>1, RoundFacts DEF RoundInOrder
<1>8. CASE AnswerPrinted
  <2>1. AnswerPrinted'
    BY <1>1, <1>3, <1>4, <1>5, <1>8 DEF AnswerPrinted, AirEmpty
  <2> QED BY <1>1, <1>2, <1>3, <2>1, RoundFacts DEF RoundInOrder
<1>9. ~ AnswerRead
  BY <1>1 DEF AnswerRead
<1> QED BY <1>2, <1>6, <1>7, <1>8, <1>9 DEF RoundInv, RoundInOrder

\* When a wait ends, the round is over: nothing is under way any more, and an
\* answer that was read is the answer to the present list.
LEMMA WaitOver ==
  ASSUME Orderly, RoundInv, Woken
  PROVE  /\ InRound /\ Quiescent
         /\ latestResponse # NoResponse =>
              Proves(latestResponse) /\ node[Dest].sequence_mask = {}
<1>1. InRound /\ pc = "waiting" /\ (notified \/ Quiescent)
  BY DEF Woken, InRound, TimeoutPossible, Orderly
<1>2. CASE AnswerRead
  BY <1>1, <1>2 DEF AnswerRead, Settled, Quiescent, AirEmpty
<1>3. CASE Collecting
  BY <1>1, <1>3 DEF Collecting, NotNotified
<1>4. ~ AnswerInAir
  <2> SUFFICES ASSUME AnswerInAir PROVE FALSE
    OBVIOUS
  <2>1. PICK n \in Nodes : Len(air[n]) = 1
    BY DEF AnswerInAir
  <2>2. air[n] = <<>>
    BY <1>1 DEF AnswerInAir, NotNotified, Quiescent
  <2> QED BY <2>1, <2>2, EmptySeq
<1>5. ~ AnswerPrinted
  BY <1>1, EmptySeq DEF AnswerPrinted, NotNotified, Quiescent
<1> QED BY <1>1, <1>2, <1>3, <1>4, <1>5 DEF RoundInv, RoundInOrder

\* analyseNACK without an answer: the round is repeated.
LEMMA NoAnswerRound ==
  ASSUME Orderly, RoundInv, NoAnswer
  PROVE  StoredInv' /\ RoundInOrder'
<1>1. /\ UNCHANGED <<i, wrappers, latestResponse, generation, node, reboots>>
      /\ UNCHANGED <<line, air, console>>
      /\ pc' = "start" /\ latestResponse = NoResponse /\ Woken
  BY DEF NoAnswer, network
<1>2. Quiescent
  BY <1>1, WaitOver
<1>3. StoredInv'
  BY <1>1, StoredStays DEF SameKeys
<1> QED BY <1>1, <1>2, <1>3 DEF RoundInOrder, InRound, Quiescent

\* An answer that misses nothing: all messages of the destination arrived, and
\* the worker goes on to the next one.
LEMMA NothingMissingRound ==
  ASSUME Orderly, RoundInv, NothingMissing
  PROVE  /\ StoredInv' /\ RoundInOrder'
         /\ i \in 1 .. Len(Queue) /\ (KeptPower(Dest) => Complete(Dest))
<1>1. /\ UNCHANGED <<wrappers, generation, node, reboots>>
      /\ UNCHANGED <<line, air, console>>
      /\ pc' = "start" /\ latestResponse' = NoResponse /\ i' = i + 1 /\ Woken
      /\ latestResponse # NoResponse
      /\ Misses(latestResponse, Len(wrappers[i])) = {}
  BY DEF NothingMissing, network
<1>2. /\ InRound /\ Quiescent /\ Proves(latestResponse)
      /\ node[Dest].sequence_mask = {}
  BY <1>1, WaitOver
<1>3. /\ i \in 1 .. Len(Queue) /\ wrappers[i] \in Seq(Message)
      /\ Len(wrappers[i]) \in 0 .. 8
      /\ \A p \in 1 .. Len(Queue) : Queue[p] = Dest => p = i
  BY <1>2, RoundFacts
<1>4. ASSUME KeptPower(Dest), NEW k \in 1 .. Len(wrappers[i])
      PROVE  Installed(Dest, wrappers[i][k])
  <2>1. k - 1 \in 0 .. Len(wrappers[i]) - 1 /\ (k - 1) + 1 = k /\ k - 1 < Len(wrappers[i])
    BY <1>3, <1>4
  <2>2. k - 1 \in latestResponse
    BY <1>1, <2>1 DEF Misses
  <2> QED BY <1>2, <1>4, <2>1, <2>2 DEF Proves
<1>5. KeptPower(Dest) => Complete(Dest)
  <2> SUFFICES ASSUME KeptPower(Dest), NEW m \in Elements(Messages[Dest])
               PROVE  Installed(Dest, m)
    BY DEF Complete
  <2>1. m \in Elements(wrappers[i]) \/ Installed(Dest, m)
    BY <1>3 DEF RoundInv, DroppedMessagesArrived, Dest
  <2> QED BY <1>4, <2>1 DEF Elements
<1>6. ListsFit' /\ DroppedMessagesArrived'
  BY <1>1 DEF RoundInv, ListsFit, DroppedMessagesArrived, KeptPower, Installed
<1>7. MaskIsCurrent'
  BY <1>1, <1>2 DEF RoundInv, MaskIsCurrent, Dest
<1>8. ServedComplete'
  <2> SUFFICES ASSUME NEW p \in 1 .. i' - 1, KeptPower(Queue[p])'
               PROVE  Complete(Queue[p])'
    BY DEF ServedComplete
  <2>1. p \in 1 .. i - 1 \/ p = i
    BY <1>1, <1>3
  <2>2. KeptPower(Queue[p]) => Complete(Queue[p])
    BY <1>5, <2>1 DEF RoundInv, ServedComplete, Dest
  <2> QED BY <1>1, <2>2 DEF KeptPower, Complete, Installed
<1>9. RoundInOrder'
  BY <1>1, <1>2 DEF RoundInOrder, InRound, Quiescent
<1> QED BY <1>3, <1>5, <1>6, <1>7, <1>8, <1>9 DEF StoredInv

\* An answer that misses something: the messages it names are the ones that
\* leave the list.
LEMMA SomethingMissingRound ==
  ASSUME Orderly, RoundInv, SomethingMissing
  PROVE  StoredInv' /\ RoundInOrder'
<1> DEFINE missed == Misses(latestResponse, Len(wrappers[i]))
           kept == AdjustMisses(wrappers[i], Descending(missed))
<1>1. /\ UNCHANGED <<i, generation, node, reboots>>
      /\ UNCHANGED <<line, air, console>>
      /\ pc' = "start" /\ latestResponse' = NoResponse /\ Woken
      /\ latestResponse # NoResponse /\ missed # {}
      /\ wrappers' = [wrappers EXCEPT ![i] = kept]
  BY DEF SomethingMissing, network
<1>2. /\ InRound /\ Quiescent /\ Proves(latestResponse)
      /\ node[Dest].sequence_mask = {}
  BY <1>1, WaitOver
<1>3. /\ i \in 1 .. Len(Queue) /\ wrappers[i] \in Seq(Message)
      /\ Len(wrappers[i]) \in 0 .. 8 /\ wrappers \in [1 .. Len(Queue) -> Seq(Message)]
      /\ \A p \in 1 .. Len(Queue) : Queue[p] = Dest => p = i
  BY <1>2, RoundFacts DEF RoundInv, TypeInv, TypeOK
<1>4. /\ Len(kept) \in 1 .. Len(wrappers[i])
      /\ Elements(kept) = {wrappers[i][b + 1] : b \in missed}
  BY <1>1, <1>3, AdjustedList
<1> HIDE DEF kept
<1>5. wrappers'[i] = kept /\ \A p \in 1 .. Len(Queue) : p # i => wrappers'[p] = wrappers[p]
  BY <1>1, <1>3
<1>6. ListsFit'
  <2>1. \A n \in 0 .. 8 : Len(kept) \in 1 .. n => Len(kept) <= 8
    OBVIOUS
  <2>2. Len(kept) <= 8
    BY <1>3, <1>4, <2>1
  <2> QED BY <1>5, <2>2 DEF RoundInv, ListsFit
<1>7. MaskIsCurrent'
  <2> SUFFICES ASSUME NEW p \in 1 .. Len(Queue), NEW b \in node[Queue[p]].sequence_mask
               PROVE  FALSE
    BY <1>1 DEF MaskIsCurrent
  <2> QED BY <1>2 DEF RoundInv, MaskIsCurrent, Dest
<1>8. DroppedMessagesArrived'
  <2> SUFFICES ASSUME NEW p \in 1 .. Len(Queue), KeptPower(Queue[p]),
                      NEW m \in Elements(Messages[Queue[p]]), ~ Installed(Queue[p], m)
               PROVE  m \in Elements(wrappers'[p])
    BY <1>1 DEF DroppedMessagesArrived, KeptPower, Installed
  <2>1. m \in Elements(wrappers[p])
    BY DEF RoundInv, DroppedMessagesArrived
  <2>2. CASE p # i
    BY <1>5, <2>1, <2>2
  <2>3. CASE p = i
    <3>1. PICK k \in 1 .. Len(wrappers[i]) : m = wrappers[i][k]
      BY <2>1, <2>3 DEF Elements
    <3>2. k - 1 \in 0 .. Len(wrappers[i]) - 1 /\ (k - 1) + 1 = k
          /\ k - 1 < Len(wrappers[i])
      BY <1>3
    <3>3. k - 1 \notin latestResponse
      BY <1>2, <2>3, <3>1, <3>2 DEF Proves, Dest
    <3>4. k - 1 \in missed
      BY <3>2, <3>3 DEF Misses
    <3>5. m \in Elements(kept)
      BY <1>4, <3>1, <3>2, <3>4
    <3> QED BY <1>5, <2>3, <3>5
  <2> QED BY <2>2, <2>3
<1>9. ServedComplete'
  BY <1>1 DEF RoundInv, ServedComplete, KeptPower, Complete, Installed
<1>10. RoundInOrder'
  BY <1>1, <1>2 DEF RoundInOrder, InRound, Quiescent
<1> QED BY <1>6, <1>7, <1>8, <1>9, <1>10 DEF StoredInv

\* Every list is whole again, and no node has collected a number.
LEMMA FreshStored ==
  ASSUME Orderly, wrappers' = FreshWrappers, i' = 1,
         \A p \in 1 .. Len(Queue) : node'[Queue[p]].sequence_mask = {}
  PROVE  StoredInv'
<1>1. \A p \in 1 .. Len(Queue) :
        Queue[p] \in Nodes /\ FreshWrappers[p] = Messages[Queue[p]]
  BY QueueFacts
<1>2. ListsFit'
  BY <1>1 DEF ListsFit, Orderly
<1>3. MaskIsCurrent' /\ DroppedMessagesArrived'
  BY <1>1 DEF MaskIsCurrent, DroppedMessagesArrived
<1>4. ServedComplete'
  BY DEF ServedComplete
<1> QED BY <1>2, <1>3, <1>4 DEF StoredInv

\* Another deployment begins where the last one ended.
LEMMA RedeployRound ==
  ASSUME Orderly, RoundInv, Redeploy
  PROVE  StoredInv' /\ RoundInOrder'
<1>1. /\ pc \in {"done", "aborted"} /\ pc' = "start" /\ i' = 1
      /\ wrappers' = FreshWrappers /\ latestResponse' = NoResponse
      /\ UNCHANGED <<line, air, console, node>>
  BY DEF Redeploy, network
<1>2. i > Len(Queue) /\ Quiescent
  BY <1>1 DEF RoundInv, EndsAfterLast, RoundInOrder, InRound
<1>3. ASSUME NEW p \in 1 .. Len(Queue) PROVE node'[Queue[p]].sequence_mask = {}
  <2> SUFFICES ASSUME NEW b \in node[Queue[p]].sequence_mask PROVE FALSE
    BY <1>1
  <2>1. p = i /\ p <= Len(Queue) /\ Len(Queue) \in Nat
    BY QueueFacts DEF RoundInv, MaskIsCurrent
  <2> QED BY <1>2, <2>1
<1>4. StoredInv'
  BY <1>1, <1>3, FreshStored
<1> QED BY <1>1, <1>2, <1>4 DEF RoundInOrder, InRound, Quiescent

\* The initial state.
LEMMA InitRound ==
  ASSUME Orderly, Init
  PROVE  RoundInv
<1>1. /\ wrappers = FreshWrappers /\ i = 1 /\ pc = "start"
      /\ latestResponse = NoResponse /\ node = [n \in Nodes |-> Booted]
      /\ line = <<>> /\ air = [n \in Nodes |-> <<>>] /\ console = <<>>
  BY DEF Init
<1>2. \A p \in 1 .. Len(Queue) :
        /\ Queue[p] \in Nodes /\ FreshWrappers[p] = Messages[Queue[p]]
        /\ node[Queue[p]].sequence_mask = {}
  BY <1>1, QueueFacts DEF Booted
<1>3. ListsFit /\ MaskIsCurrent /\ DroppedMessagesArrived /\ ServedComplete
  BY <1>1, <1>2
     DEF ListsFit, Orderly, MaskIsCurrent, DroppedMessagesArrived, ServedComplete
<1>4. EndsAfterLast /\ RoundInOrder
  BY <1>1 DEF EndsAfterLast, RoundInOrder, InRound, Quiescent
<1> QED BY <1>3, <1>4, InitType DEF RoundInv

\* Every step of an orderly deployment keeps it in order.
LEMMA NextRound ==
  ASSUME Orderly, RoundInv, [Next]_vars
  PROVE  RoundInv'
<1>1. TypeInv'
  BY NextType DEF RoundInv
<1>2. CASE UNCHANGED vars
  <2>1. /\ UNCHANGED <<pc, i, wrappers, sent, latestResponse, notified, generation>>
        /\ UNCHANGED <<line, air, console, node, reboots>>
    BY <1>2 DEF vars
  <2>2. StoredInv' /\ (InRound => \A mask : Proves(mask) => Proves(mask)')
    BY <2>1, StoredStays DEF SameKeys
  <2>3. EndsAfterLast'
    BY <2>1 DEF RoundInv, EndsAfterLast
  <2>4. Collecting => Collecting'
    BY <2>1 DEF Collecting, NotNotified, Dest, FromThisRound, Rising, Before
  <2>5. Settled => Settled' /\ (NotNotified => NotNotified') /\ (AirEmpty => AirEmpty')
    BY <2>1 DEF Settled, NotNotified, AirEmpty, Dest
  <2>6. CASE InRound
    <3>1. AnswerInAir => AnswerInAir'
      BY <2>1, <2>2, <2>5, <2>6 DEF AnswerInAir
    <3>2. AnswerPrinted => AnswerPrinted'
      BY <2>1, <2>2, <2>5, <2>6 DEF AnswerPrinted
    <3>3. AnswerRead => AnswerRead'
      BY <2>1, <2>2, <2>5, <2>6 DEF AnswerRead
    <3>4. RoundInOrder'
      BY <2>1, <2>4, <2>6, <3>1, <3>2, <3>3 DEF RoundInv, RoundInOrder, InRound
    <3> QED BY <1>1, <2>2, <2>3, <3>4 DEF RoundInv, StoredInv
  <2>7. CASE ~ InRound
    <3>1. RoundInOrder'
      BY <2>1, <2>7 DEF RoundInv, RoundInOrder, InRound, Quiescent
    <3> QED BY <1>1, <2>2, <2>3, <3>1 DEF RoundInv, StoredInv
  <2> QED BY <2>6, <2>7
<1>3. CASE Next
  <2>1. EndsAfterLast'
    <3>1. ~ Abort
      BY DEF Abort, Orderly
    <3> QED BY <1>3, <3>1
         DEF RoundInv, EndsAfterLast, Next, StartRound, Finish, SendLine, BeginWait,
             NoAnswer, NothingMissing, SomethingMissing, Redeploy, Response,
             CorruptResponse, Forward, SetupLocally, ReceiveData, ReceiveNack, LoseFrame,
             Reboot, LoseLine, LoseResponse, worker
  <2>2. StoredInv' /\ RoundInOrder'
    <3>1. ~ Abort
      BY DEF Abort, Orderly
    <3> QED BY <1>3, <3>1, IdleRound, SendLineRound, BeginWaitRound, NoAnswerRound,
               NothingMissingRound, SomethingMissingRound, RedeployRound, ConsoleRound,
               ForwardRound, SetupLocallyRound, ReceiveDataRound, ReceiveNackRound,
               LoseFrameRound, LoseLineRound, RebootRound DEF Next
  <2> QED BY <1>1, <2>1, <2>2 DEF RoundInv, StoredInv
<1> QED BY <1>2, <1>3

\* The invariant holds throughout.
LEMMA RoundInvariant ==
  ASSUME Orderly
  PROVE  Spec => []RoundInv
<1>1. Init => RoundInv
  BY InitRound
<1>2. RoundInv /\ [Next]_vars => RoundInv'
  BY NextRound
<1> QED BY <1>1, <1>2, PTL DEF Spec

-----------------------------------------------------------------------------
(* Theorems *)

\* In every round there is at most one answer under way; it was given when all
\* messages had been sent and none was under way any more, and the messages
\* it names have arrived at the destination.
THEOREM RoundsAreInOrder ==
  ASSUME Orderly
  PROVE  Spec => []RoundInOrder
<1>1. RoundInv => RoundInOrder
  BY DEF RoundInv
<1> QED BY <1>1, RoundInvariant, PTL

\* A node's sequence_mask never carries a number over from one numbering of
\* its messages to the next (leap.c:187 sets bits, leap.c:163 clears them).
THEOREM MasksAreCurrent ==
  ASSUME Orderly
  PROVE  Spec => []MaskIsCurrent
<1>1. RoundInv => MaskIsCurrent
  BY DEF RoundInv
<1> QED BY <1>1, RoundInvariant, PTL

\* adjustMisses drops no message from a list that the node does not have.
THEOREM NothingNeededIsDropped ==
  ASSUME Orderly
  PROVE  Spec => []DroppedMessagesArrived
<1>1. RoundInv => DroppedMessagesArrived
  BY DEF RoundInv
<1> QED BY <1>1, RoundInvariant, PTL

\* The coordinator goes on to the next node only when the present one has all
\* its keys, whatever is lost on the way (SerialWorker.java:121-124).
THEOREM ServedNodesHaveTheirKeys ==
  ASSUME Orderly
  PROVE  Spec => []ServedComplete
<1>1. RoundInv => ServedComplete
  BY DEF RoundInv
<1> QED BY <1>1, RoundInvariant, PTL

-----------------------------------------------------------------------------
(* The promise *)

\* No node has basic keys of a "Generate" that is still to come.
PastKeys == \A n \in Nodes : node[n].basic <= generation

\* The places of the queue whose node has all its keys, and those whose node
\* has been without power.
CompletePlaces == {p \in 1 .. Len(Queue) : Complete(Queue[p])}
FailedPlaces == {p \in 1 .. Len(Queue) : ~ KeptPower(Queue[p])}

\* Whoever keeps its keys is as complete as before.
LEMMA PlacesStay ==
  ASSUME \A n \in Nodes : SameKeys(n), UNCHANGED <<generation, reboots>>
  PROVE  CompletePlaces' = CompletePlaces /\ FailedPlaces' = FailedPlaces
<1>1. \A p \in 1 .. Len(Queue) : Queue[p] \in Nodes
  BY QueueFacts
<1>2. \A p \in 1 .. Len(Queue) : Complete(Queue[p])' <=> Complete(Queue[p])
  BY <1>1 DEF Complete, Installed, SameKeys
<1>3. \A p \in 1 .. Len(Queue) : KeptPower(Queue[p])' <=> KeptPower(Queue[p])
  BY DEF KeptPower
<1> QED BY <1>2, <1>3 DEF CompletePlaces, FailedPlaces

\* The steps that bring no key to a node and take none away.
LEMMA QuietStep ==
  ASSUME RoundInv,
         \/ StartRound \/ Finish \/ SendLine \/ BeginWait \/ NoAnswer
         \/ SomethingMissing \/ Response \/ CorruptResponse \/ Forward
         \/ LoseLine \/ LoseResponse
         \/ \E n \in Nodes : ReceiveNack(n) \/ LoseFrame(n)
  PROVE  (\A n \in Nodes : SameKeys(n)) /\ UNCHANGED <<i, generation, reboots>>
<1>1. node \in [Nodes -> NodeState]
  BY DEF RoundInv, TypeInv, TypeOK
<1>2. CASE \/ StartRound \/ Finish \/ SendLine \/ BeginWait \/ NoAnswer
           \/ SomethingMissing \/ Response \/ CorruptResponse
           \/ LoseLine \/ LoseResponse \/ \E n \in Nodes : LoseFrame(n)
  <2>1. UNCHANGED <<node, i, generation, reboots>>
    BY <1>2 DEF StartRound, Finish, SendLine, BeginWait, NoAnswer, SomethingMissing,
                Response, CorruptResponse, LoseLine, LoseResponse, LoseFrame,
                network, worker
  <2> QED BY <2>1 DEF SameKeys
<1>3. CASE Forward
  BY <1>1, <1>3, KnowSenderFacts, DeploymentAssumption DEF Forward, SameKeys, worker
<1>4. ASSUME NEW n \in Nodes, ReceiveNack(n)
      PROVE  (\A m \in Nodes : SameKeys(m)) /\ UNCHANGED <<i, generation, reboots>>
  <2>1. Head(air[n]).src \in Nodes
    BY <1>4, HeadFacts DEF RoundInv, ReceiveNack
  <2> QED BY <1>1, <1>4, <2>1, KnowSenderFacts DEF ReceiveNack, SameKeys, worker
<1> QED BY <1>2, <1>3, <1>4

\* The steps that bring keys bring those of a message of the present round.
LEMMA ArrivalStep ==
  ASSUME RoundInv, SetupLocally \/ \E n \in Nodes : ReceiveData(n)
  PROVE  /\ InRound /\ UNCHANGED <<i, wrappers, generation, reboots>>
         /\ \E f \in DataFrame, from \in Nodes :
              /\ FromThisRound(f)
              /\ node' = [node EXCEPT ![Dest] = Multiplex(KnowSender(node[Dest], from), f)]
<1>1. CASE SetupLocally
  <2>1. /\ InRound /\ Head(line).dst = Dest /\ FromThisRound(Head(line))
        /\ line \in Seq(SetupLine) /\ line # <<>> /\ Dest = Gateway /\ Dest \in Nodes
    BY <1>1, LinePhase DEF SetupLocally
  <2>2. PICK f \in DataFrame : f = DataFor(Head(line))
    BY <2>1, RestFacts, DataForType
  <2>3. FromThisRound(f)
    BY <2>1, <2>2 DEF DataFor, FromThisRound
  <2>4. node' = [node EXCEPT ![Dest] = Multiplex(KnowSender(node[Dest], Gateway), f)]
    BY <1>1, <2>1, <2>2 DEF SetupLocally, Process
  <2> QED BY <1>1, <2>1, <2>3, <2>4 DEF SetupLocally, worker
<1>2. ASSUME NEW n \in Nodes, ReceiveData(n)
      PROVE  /\ InRound /\ UNCHANGED <<i, wrappers, generation, reboots>>
             /\ \E f \in DataFrame, from \in Nodes :
                  /\ FromThisRound(f)
                  /\ node' = [node EXCEPT
                                ![Dest] = Multiplex(KnowSender(node[Dest], from), f)]
  <2>1. InRound /\ n = Dest /\ FromThisRound(Head(air[n]))
    BY <1>2, AirPhase DEF ReceiveData
  <2>2. Head(air[n]) \in DataFrame /\ Head(air[n]).src \in Nodes
    BY <1>2, HeadFacts DEF RoundInv, ReceiveData
  <2>3. PICK f \in DataFrame : f = Head(air[n])
    BY <2>2
  <2>4. PICK from \in Nodes : from = Head(air[n]).src
    BY <2>2
  <2>5. node' = [node EXCEPT ![Dest] = Multiplex(KnowSender(node[Dest], from), f)]
    BY <1>2, <2>1, <2>3, <2>4 DEF ReceiveData, Process
  <2> QED BY <1>2, <2>1, <2>3, <2>5 DEF ReceiveData, worker
<1> QED BY <1>1, <1>2

\* An arrival serves the destination of the round and nobody else.
LEMMA ArrivalServes ==
  ASSUME RoundInv, PastKeys, SetupLocally \/ \E n \in Nodes : ReceiveData(n)
  PROVE  /\ i \in 1 .. Len(Queue) /\ PastKeys' /\ FailedPlaces' = FailedPlaces
         /\ CompletePlaces' \in {CompletePlaces, CompletePlaces \cup {i}}
<1>1. /\ InRound /\ UNCHANGED <<i, wrappers, generation, reboots>>
      /\ \E f \in DataFrame, from \in Nodes :
           /\ FromThisRound(f)
           /\ node' = [node EXCEPT ![Dest] = Multiplex(KnowSender(node[Dest], from), f)]
  BY ArrivalStep
<1>2. PICK d \in Nodes : d = Dest
  BY <1>1, RoundFacts
<1>3. /\ \A m \in Message : Installed(d, m) => Installed(d, m)'
      /\ node'[d].basic \in {node[d].basic, generation}
      /\ \A n \in Nodes \ {d} : node'[n] = node[n]
  BY <1>1, <1>2, ArrivalStores
<1>4. /\ i \in 1 .. Len(Queue) /\ Queue[i] = d /\ generation \in Nat
      /\ \A p \in 1 .. Len(Queue) : Queue[p] \in Nodes /\ (Queue[p] = d => p = i)
  BY <1>1, <1>2, RoundFacts, QueueFacts DEF Dest
<1>5. PastKeys'
  BY <1>1, <1>3, <1>4 DEF PastKeys
<1>6. FailedPlaces' = FailedPlaces
  BY <1>1 DEF FailedPlaces, KeptPower
<1>7. ASSUME NEW p \in 1 .. Len(Queue), p # i
      PROVE  Complete(Queue[p])' <=> Complete(Queue[p])
  BY <1>1, <1>3, <1>4, <1>7 DEF Complete, Installed
<1>8. Complete(d) => Complete(d)'
  <2>1. Elements(Messages[d]) \subseteq Message
    BY <1>4, ListFacts
  <2>2. ASSUME Complete(d), NEW m \in Elements(Messages[d]) PROVE Installed(d, m)'
    BY <1>3, <2>1, <2>2 DEF Complete
  <2> QED BY <2>2 DEF Complete
<1>9. CompletePlaces' \in {CompletePlaces, CompletePlaces \cup {i}}
  <2>1. CASE Complete(d)'
    <3>1. CompletePlaces' = CompletePlaces \cup {i}
      BY <1>1, <1>4, <1>7, <2>1 DEF CompletePlaces
    <3> QED BY <3>1
  <2>2. CASE ~ Complete(d)'
    <3>1. CompletePlaces' = CompletePlaces
      BY <1>1, <1>4, <1>7, <1>8, <2>2 DEF CompletePlaces
    <3> QED BY <3>1
  <2> QED BY <2>1, <2>2
<1> QED BY <1>4, <1>5, <1>6, <1>9

\* Every list begins with the basic message, so only keys of the present
\* generation make a node complete.
LEMMA BasicIsNeeded ==
  \A p \in 1 .. Len(Queue) : BasicMessage \in Elements(Messages[Queue[p]])
<1> SUFFICES ASSUME NEW p \in 1 .. Len(Queue)
             PROVE  BasicMessage \in Elements(Messages[Queue[p]])
  OBVIOUS
<1>1. /\ Queue[p] \in Nodes /\ Len(Messages[Queue[p]]) \in Nat
      /\ Len(Messages[Queue[p]]) > 0 /\ Messages[Queue[p]][1] = BasicMessage
  BY QueueFacts, DeploymentAssumption
<1> QED BY <1>1 DEF Elements

\* A power cycle takes the keys of one node.
LEMMA RebootPlaces ==
  ASSUME RoundInv, PastKeys, NEW n \in Nodes, Reboot(n)
  PROVE  /\ PastKeys' /\ i' = i
         /\ \/ CompletePlaces' = CompletePlaces /\ FailedPlaces' = FailedPlaces
            \/ \E p \in 1 .. Len(Queue) : /\ CompletePlaces' = CompletePlaces \ {p}
                                          /\ FailedPlaces' = FailedPlaces \cup {p}
<1>1. /\ UNCHANGED <<i, generation>> /\ generation \in Nat \ {0}
      /\ node' = [node EXCEPT ![n] = Booted]
      /\ reboots' = [reboots EXCEPT ![n] = @ + 1]
      /\ node \in [Nodes -> NodeState] /\ reboots \in [Nodes -> Nat]
  BY DEF Reboot, worker, RoundInv, TypeInv, TypeOK
<1>2. /\ node'[n].basic = 0 /\ ~ KeptPower(n)'
      /\ \A d \in Nodes \ {n} : node'[d] = node[d] /\ (KeptPower(d)' <=> KeptPower(d))
  BY <1>1 DEF Booted, NoKey, KeptPower
<1>3. PastKeys'
  BY <1>1, <1>2 DEF PastKeys
<1>4. ASSUME NEW p \in 1 .. Len(Queue), Queue[p] # n
      PROVE  /\ Complete(Queue[p])' <=> Complete(Queue[p])
             /\ KeptPower(Queue[p])' <=> KeptPower(Queue[p])
  <2>1. Queue[p] \in Nodes \ {n}
    BY <1>4, QueueFacts
  <2> QED BY <1>1, <1>2, <2>1 DEF Complete, Installed
<1>5. ASSUME NEW q \in 1 .. Len(Queue), Queue[q] = n
      PROVE  \E p \in 1 .. Len(Queue) : /\ CompletePlaces' = CompletePlaces \ {p}
                                        /\ FailedPlaces' = FailedPlaces \cup {p}
  <2>1. \A p \in 1 .. Len(Queue) : p # q => Queue[p] # n
    BY <1>5, DeploymentAssumption
  <2>2. ~ Complete(Queue[q])' /\ ~ KeptPower(Queue[q])'
    <3>1. Complete(Queue[q])' => node'[Queue[q]].basic = generation'
      BY BasicIsNeeded DEF Complete, Installed, BasicMessage
    <3> QED BY <1>1, <1>2, <1>5, <3>1
  <2>3. CompletePlaces' = CompletePlaces \ {q}
    BY <1>4, <2>1, <2>2 DEF CompletePlaces
  <2>4. FailedPlaces' = FailedPlaces \cup {q}
    BY <1>4, <2>1, <2>2 DEF FailedPlaces
  <2> QED BY <2>3, <2>4
<1>6. ASSUME \A q \in 1 .. Len(Queue) : Queue[q] # n
      PROVE  CompletePlaces' = CompletePlaces /\ FailedPlaces' = FailedPlaces
  BY <1>4, <1>6 DEF CompletePlaces, FailedPlaces
<1> QED BY <1>1, <1>3, <1>5, <1>6

\* Another deployment of the same keys keeps the nodes complete; one of new
\* keys finds no node complete.
LEMMA RedeployPlaces ==
  ASSUME RoundInv, PastKeys, Redeploy
  PROVE  /\ PastKeys' /\ i' = 1 /\ FailedPlaces' = FailedPlaces
         /\ CompletePlaces' \in {CompletePlaces, {}}
<1>1. /\ i' = 1 /\ UNCHANGED <<node, reboots>> /\ generation \in Nat \ {0}
      /\ generation' \in {generation, generation + 1}
      /\ node \in [Nodes -> NodeState]
  BY DEF Redeploy, network, RoundInv, TypeInv, TypeOK
<1>2. \A n \in Nodes : node[n].basic \in Nat /\ node[n].basic <= generation
  BY <1>1 DEF PastKeys, NodeState
<1>3. PastKeys'
  BY <1>1, <1>2 DEF PastKeys
<1>4. CASE generation' = generation
  <2>1. \A n \in Nodes : SameKeys(n)
    BY <1>1 DEF SameKeys
  <2> QED BY <1>1, <1>3, <1>4, <2>1, PlacesStay
<1>5. CASE generation' = generation + 1
  <2>1. ASSUME NEW p \in 1 .. Len(Queue) PROVE ~ Complete(Queue[p])'
    <3>1. Complete(Queue[p])' => node'[Queue[p]].basic = generation'
      BY BasicIsNeeded DEF Complete, Installed, BasicMessage
    <3>2. Queue[p] \in Nodes
      BY QueueFacts
    <3> QED BY <1>1, <1>2, <1>5, <3>1, <3>2
  <2>2. CompletePlaces' = {}
    BY <2>1 DEF CompletePlaces
  <2>3. FailedPlaces' = FailedPlaces
    BY <1>1 DEF FailedPlaces, KeptPower
  <2> QED BY <1>1, <1>3, <2>2, <2>3
<1> QED BY <1>1, <1>4, <1>5

\* Every step is a step of the promise, or changes nothing in its eyes.
LEMMA PromiseStep ==
  ASSUME Orderly, RoundInv, PastKeys, [Next]_vars
  PROVE  PastKeys' /\ [Promise!Next]_(Promise!vars)
<1>1. /\ Promise!vars = <<i - 1, CompletePlaces, FailedPlaces>>
      /\ (Promise!vars)' = <<i' - 1, CompletePlaces', FailedPlaces'>>
  BY DEF Promise!vars, CompletePlaces, FailedPlaces
<1>2. i \in 1 .. Len(Queue) + 1 /\ Len(Queue) \in Nat
  BY QueueFacts DEF RoundInv, TypeInv, TypeOK
<1>3. ASSUME \A n \in Nodes : SameKeys(n), UNCHANGED <<i, generation, reboots>>
      PROVE  PastKeys' /\ [Promise!Next]_(Promise!vars)
  BY <1>1, <1>3, PlacesStay DEF PastKeys, SameKeys
<1>4. CASE UNCHANGED vars
  BY <1>3, <1>4 DEF vars, SameKeys
<1>5. CASE \/ StartRound \/ Finish \/ SendLine \/ BeginWait \/ NoAnswer
           \/ SomethingMissing \/ Response \/ CorruptResponse \/ Forward
           \/ LoseLine \/ LoseResponse
           \/ \E n \in Nodes : ReceiveNack(n) \/ LoseFrame(n)
  BY <1>3, <1>5, QuietStep
<1>6. CASE SetupLocally \/ \E n \in Nodes : ReceiveData(n)
  <2>1. /\ i \in 1 .. Len(Queue) /\ PastKeys' /\ FailedPlaces' = FailedPlaces
        /\ CompletePlaces' \in {CompletePlaces, CompletePlaces \cup {i}}
        /\ i' = i
    BY <1>6, ArrivalServes, ArrivalStep
  <2>2. CASE CompletePlaces' = CompletePlaces
    BY <1>1, <2>1, <2>2
  <2>3. CASE CompletePlaces' = CompletePlaces \cup {i}
    <3>1. (i - 1) + 1 = i /\ i - 1 < Len(Queue)
      BY <1>2, <2>1
    <3>2. Promise!Install
      BY <2>1, <2>3, <3>1 DEF Promise!Install, CompletePlaces, FailedPlaces
    <3> QED BY <2>1, <3>2 DEF Promise!Next
  <2> QED BY <2>1, <2>2, <2>3
<1>7. CASE NothingMissing
  <2>1. /\ i \in 1 .. Len(Queue) /\ (KeptPower(Dest) => Complete(Dest))
        /\ i' = i + 1 /\ UNCHANGED <<node, generation, reboots>>
    BY <1>7, NothingMissingRound DEF NothingMissing, network
  <2>2. PastKeys' /\ CompletePlaces' = CompletePlaces /\ FailedPlaces' = FailedPlaces
    BY <2>1, PlacesStay DEF PastKeys, SameKeys
  <2>3. i \in CompletePlaces \cup FailedPlaces
    BY <2>1 DEF CompletePlaces, FailedPlaces, Dest
  <2>4. (i - 1) + 1 = i /\ i - 1 < Len(Queue) /\ i' - 1 = i
    BY <1>2, <2>1
  <2>5. Promise!Advance
    BY <2>2, <2>3, <2>4 DEF Promise!Advance, CompletePlaces, FailedPlaces
  <2> QED BY <2>2, <2>5 DEF Promise!Next
<1>8. ASSUME NEW n \in Nodes, Reboot(n)
      PROVE  PastKeys' /\ [Promise!Next]_(Promise!vars)
  <2>1. /\ PastKeys' /\ i' = i
        /\ \/ CompletePlaces' = CompletePlaces /\ FailedPlaces' = FailedPlaces
           \/ \E p \in 1 .. Len(Queue) : /\ CompletePlaces' = CompletePlaces \ {p}
                                         /\ FailedPlaces' = FailedPlaces \cup {p}
    BY <1>8, RebootPlaces
  <2>2. CASE CompletePlaces' = CompletePlaces /\ FailedPlaces' = FailedPlaces
    BY <1>1, <2>1, <2>2
  <2>3. CASE \E p \in 1 .. Len(Queue) : /\ CompletePlaces' = CompletePlaces \ {p}
                                        /\ FailedPlaces' = FailedPlaces \cup {p}
    <3>1. Promise!PowerLoss
      BY <2>1, <2>3 DEF Promise!PowerLoss, CompletePlaces, FailedPlaces
    <3> QED BY <2>1, <3>1 DEF Promise!Next
  <2> QED BY <2>1, <2>2, <2>3
<1>9. CASE Redeploy
  <2>1. /\ PastKeys' /\ i' = 1 /\ FailedPlaces' = FailedPlaces
        /\ CompletePlaces' \in {CompletePlaces, {}}
    BY <1>9, RedeployPlaces
  <2>2. Promise!Restart
    BY <2>1 DEF Promise!Restart, CompletePlaces, FailedPlaces
  <2> QED BY <2>1, <2>2 DEF Promise!Next
<1>10. ~ Abort
  BY DEF Abort, Orderly
<1> QED BY <1>4, <1>5, <1>6, <1>7, <1>8, <1>9, <1>10 DEF Next

\* An orderly deployment keeps the promise of KeyDeployment: whatever is lost,
\* repeated or switched off, the coordinator goes on from a node only when that
\* node has its keys or lost them with its power.
THEOREM DeploymentKeepsPromise ==
  ASSUME Orderly
  PROVE  Spec => PromiseKept
<1>1. Init => PastKeys /\ Promise!Init
  <2> SUFFICES ASSUME Init PROVE PastKeys /\ Promise!Init
    OBVIOUS
  <2>1. /\ i = 1 /\ generation = 1 /\ reboots = [n \in Nodes |-> 0]
        /\ node = [n \in Nodes |-> Booted]
    BY DEF Init
  <2>2. \A n \in Nodes : node[n].basic = 0 /\ KeptPower(n)
    BY <2>1 DEF Booted, NoKey, KeptPower
  <2>3. \A p \in 1 .. Len(Queue) : Queue[p] \in Nodes /\ ~ Complete(Queue[p])
    <3> SUFFICES ASSUME NEW p \in 1 .. Len(Queue)
                 PROVE  Queue[p] \in Nodes /\ ~ Complete(Queue[p])
      OBVIOUS
    <3>1. Complete(Queue[p]) => node[Queue[p]].basic = generation
      BY BasicIsNeeded DEF Complete, Installed, BasicMessage
    <3> QED BY <2>1, <2>2, <3>1, QueueFacts
  <2> QED BY <2>1, <2>2, <2>3 DEF PastKeys, Promise!Init
<1>2. RoundInv /\ PastKeys /\ [Next]_vars => PastKeys' /\ [Promise!Next]_(Promise!vars)
  BY PromiseStep
<1> QED BY <1>1, <1>2, RoundInvariant, PTL DEF Spec, PromiseKept, Promise!Spec
==============================================================================
