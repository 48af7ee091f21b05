--------------------------- MODULE RolloutProofs ---------------------------
(***************************************************************************)
(* The way of the keys from the drawing to the nodes, for every verified   *)
(* drawing: which keys are in the messages, and which keys the nodes have  *)
(* in the end.                                                             *)
(***************************************************************************)
EXTENDS Rollout, DeploymentProofs

-----------------------------------------------------------------------------
(* The keys in a node's messages *)

\* The neighbours a node has a pairwise and a cluster key for in its bundle.
PairKeys(n) == DOMAIN T!Bundle(T!Generated(Drawing), n).pairwise
ClusterKeys(n) == DOMAIN T!Bundle(T!Generated(Drawing), n).cluster
NeighboursOf(n) == {m \in Nodes : Neighbours(n, m)}

\* Nodes are the names of motes, and no two vertices have the same name.
LEMMA NamesOfNodes ==
  /\ \A n \in Nodes : n \in T!Names(Drawing)
  /\ \A v \in T!Motes(Drawing) : Drawing.label[v] \in Nodes
  /\ \A v, w \in T!Vertices(Drawing) : v # w => Drawing.label[v] # Drawing.label[w]
  /\ T!Motes(Drawing) \subseteq T!Vertices(Drawing)
  BY RolloutAssumption
     DEF T!Names, T!Motes, T!Vertices, T!Verified, T!CheckForDoubleNames

\* GenerateAction makes pairwise keys for exactly the edges of the drawing.
LEMMA PairKeysFit ==
  ASSUME NEW n \in Nodes
  PROVE  PairKeys(n) = NeighboursOf(n)
<1> DEFINE d == Drawing
<1>1. PairKeys(n) = {m \in T!Names(d) : T!PairwiseEdges(d, n, m) # {}} \ {n}
  BY NamesOfNodes DEF PairKeys, T!Bundle, T!Without, T!Generated
<1>2. ASSUME NEW k \in DOMAIN d.edges, ~ T!Touches(d.edges[k], T!Sink),
             NEW m, <<d.label[d.edges[k][1]], d.label[d.edges[k][2]]>> \in {<<n, m>>, <<m, n>>}
      PROVE  m \in NeighboursOf(n)
  <2>1. PICK v \in T!Motes(d), w \in T!Motes(d) : d.edges[k] = <<v, w>>
    BY <1>2, RolloutAssumption DEF T!Touches, T!Motes
  <2>2. T!Linked(d, v, w) /\ T!Linked(d, w, v)
    BY <2>1 DEF T!Linked
  <2>3. d.label[v] \in Nodes /\ d.label[w] \in Nodes
    BY NamesOfNodes
  <2>4. \/ d.label[v] = n /\ d.label[w] = m
        \/ d.label[v] = m /\ d.label[w] = n
    BY <1>2, <2>1
  <2> QED BY <2>2, <2>3, <2>4 DEF NeighboursOf, Neighbours
<1>3. ASSUME NEW m \in NeighboursOf(n)
      PROVE  m \in T!Names(d) /\ m # n /\ T!PairwiseEdges(d, n, m) # {}
  <2>1. PICK v \in T!Motes(d), w \in T!Motes(d) :
          d.label[v] = n /\ d.label[w] = m /\ T!Linked(d, v, w)
    BY DEF NeighboursOf, Neighbours
  <2>2. PICK k \in DOMAIN d.edges : d.edges[k] \in {<<v, w>>, <<w, v>>}
    BY <2>1 DEF T!Linked
  <2>3. v # w
    BY <2>2, RolloutAssumption
  <2>4. m # n /\ m \in T!Names(d)
    BY <2>1, <2>3, NamesOfNodes DEF NeighboursOf
  <2>5. k \in T!PairwiseEdges(d, n, m)
    BY <2>1, <2>2 DEF T!PairwiseEdges, T!Touches, T!Motes
  <2> QED BY <2>4, <2>5
<1>4. PairKeys(n) \subseteq NeighboursOf(n)
  BY <1>1, <1>2 DEF T!PairwiseEdges
<1> QED BY <1>1, <1>3, <1>4

\* It gives the cluster key of a node to exactly its neighbours.
LEMMA ClusterKeysFit ==
  ASSUME NEW n \in Nodes
  PROVE  ClusterKeys(n) = NeighboursOf(n)
<1> DEFINE d == Drawing
<1>1. ClusterKeys(n) = {m \in T!Names(d) : T!ClusterMakers(d, n, m) # {}} \ {n}
  BY NamesOfNodes DEF ClusterKeys, T!Bundle, T!Without, T!Generated
<1>2. \A v, w : T!Linked(d, v, w) <=> T!Linked(d, w, v)
  BY DEF T!Linked
<1>3. ASSUME NEW m, m # n, T!ClusterMakers(d, n, m) # {}
      PROVE  m \in NeighboursOf(n)
  <2>1. PICK v \in T!Motes(d), w \in T!Motes(d) :
          d.label[v] = m /\ d.label[w] = n /\ T!Linked(d, v, w)
    BY <1>3 DEF T!ClusterMakers, T!MotesNamed
  <2> QED BY <1>2, <2>1, NamesOfNodes DEF NeighboursOf, Neighbours
<1>4. ASSUME NEW m \in NeighboursOf(n)
      PROVE  m \in T!Names(d) /\ m # n /\ T!ClusterMakers(d, n, m) # {}
  <2>1. PICK v \in T!Motes(d), w \in T!Motes(d) :
          d.label[v] = n /\ d.label[w] = m /\ T!Linked(d, v, w)
    BY DEF NeighboursOf, Neighbours
  <2>2. v # w
    BY <2>1, RolloutAssumption DEF T!Linked
  <2>3. m # n /\ m \in T!Names(d)
    BY <2>1, <2>2, NamesOfNodes DEF NeighboursOf
  <2>4. w \in T!ClusterMakers(d, n, m)
    BY <1>2, <2>1 DEF T!ClusterMakers, T!MotesNamed
  <2> QED BY <2>3, <2>4
<1> QED BY <1>1, <1>3, <1>4

\* The messages of a node carry the keys of its neighbours and no others.
LEMMA MessagesFit ==
  ASSUME NEW n \in Nodes
  PROVE  /\ UNION {m.pairwise : m \in Elements(Messages[n])} = NeighboursOf(n)
         /\ UNION {m.cluster : m \in Elements(Messages[n])} = NeighboursOf(n)
<1>1. NeighboursOf(n) \subseteq {Drawing.label[v] : v \in T!Vertices(Drawing)}
  BY DEF NeighboursOf, Neighbours, T!Motes
<1>2. IsFiniteSet(NeighboursOf(n))
  <2>1. IsFiniteSet({Drawing.label[v] : v \in T!Vertices(Drawing)})
    <3> DEFINE names == {Drawing.label[v] : v \in T!Vertices(Drawing)}
               f == [v \in T!Vertices(Drawing) |-> Drawing.label[v]]
    <3>1. f \in Surjection(T!Vertices(Drawing), names)
      BY DEF Surjection
    <3>2. IsFiniteSet(T!Vertices(Drawing))
      BY RolloutAssumption
    <3> HIDE DEF f, names
    <3>3. IsFiniteSet(names)
      BY <3>1, <3>2, FS_Surjection
    <3> QED BY <3>3 DEF names
  <2> QED BY <1>1, <2>1, FS_Subset
<1> DEFINE keys == Seqs!SetToSeq(NeighboursOf(n))
<1>3. /\ keys \in Seq(NeighboursOf(n)) /\ Distinct(keys)
      /\ Elements(keys) = NeighboursOf(n)
  BY <1>2, SetToList
<1> HIDE DEF keys
<1>4. Messages[n] = Wrap(keys, keys)
  BY RolloutAssumption, PairKeysFit, ClusterKeysFit
     DEF DrawnMessages, PackedKeys, PairKeys, ClusterKeys, keys
<1>5. Exact(Messages[n], keys, keys)
  BY <1>3, <1>4, KeysAreSplitExactly
<1>6. /\ UNION {Messages[n][k].pairwise : k \in 1 .. Len(Messages[n])} = NeighboursOf(n)
      /\ UNION {Messages[n][k].cluster : k \in 1 .. Len(Messages[n])} = NeighboursOf(n)
  BY <1>3, <1>5 DEF Exact, Spread
<1> QED BY <1>6 DEF Elements

-----------------------------------------------------------------------------
(* Which keys the nodes have *)

\* adjustMisses takes nothing into a list that was not in it.
ListsAreOwn ==
  \A p \in 1 .. Len(Queue) : Elements(wrappers[p]) \subseteq Elements(Messages[Queue[p]])

\* Nobody has a key for a node that is not its neighbour.
NoStrangers ==
  \A n, a \in Nodes :
    node[n].pairwise[a] # NoKey \/ node[n].cluster[a] # NoKey => a \in NeighboursOf(n)

\* All keys for others are those of the first "Generate": later ones find the
\* key lists complete.
FirstKeys ==
  /\ \A n \in Nodes : KeptPower(n) =>
       \A a \in Nodes : node[n].pairwise[a] \in {NoKey, 1} /\ node[n].cluster[a] \in {NoKey, 1}
  /\ generation > 1 =>
       \A p \in 1 .. Len(Queue) : KeptPower(Queue[p]) =>
         \A a \in NeighboursOf(Queue[p]) :
           node[Queue[p]].pairwise[a] # NoKey /\ node[Queue[p]].cluster[a] # NoKey

KeyInv == ListsAreOwn /\ NoStrangers /\ FirstKeys

\* Steps that bring no keys.
LEMMA KeysStayFit ==
  ASSUME KeyInv, \A n \in Nodes : SameKeys(n), UNCHANGED <<generation, reboots>>
  PROVE  NoStrangers' /\ FirstKeys'
<1>1. \A p \in 1 .. Len(Queue) : Queue[p] \in Nodes
  BY QueueFacts
<1>2. NoStrangers'
  BY DEF KeyInv, NoStrangers, SameKeys, NeighboursOf, Neighbours
<1>3. FirstKeys'
  BY <1>1 DEF KeyInv, FirstKeys, SameKeys, KeptPower, NeighboursOf, Neighbours
<1> QED BY <1>2, <1>3

\* An arrival brings keys for neighbours; and when they are not of the first
\* "Generate", the node has them already, or was without power.
LEMMA ArrivalFits ==
  ASSUME RoundInv, KeyInv, SetupLocally \/ \E n \in Nodes : ReceiveData(n)
  PROVE  KeyInv'
<1>1. InRound /\ UNCHANGED <<i, wrappers, generation, reboots>>
  BY ArrivalStep
<1>2. PICK f \in DataFrame, from \in Nodes :
        /\ FromThisRound(f)
        /\ node' = [node EXCEPT ![Dest] = Multiplex(KnowSender(node[Dest], from), f)]
  BY ArrivalStep
<1>3. PICK d \in Nodes : d = Dest
  BY <1>1, RoundFacts
<1>4. /\ i \in 1 .. Len(Queue) /\ Queue[i] = d /\ generation \in Nat \ {0}
      /\ sent \in 0 .. Len(wrappers[i]) /\ Len(wrappers[i]) \in 0 .. 8
      /\ node \in [Nodes -> NodeState] /\ node[d] \in NodeState
      /\ node[d].nack_running = 0 /\ node[d].nack_process = "idle"
  BY <1>1, <1>3, RoundFacts DEF Dest, RoundInv, TypeInv, TypeOK, NodesIdle
<1>5. /\ f.msg \in Elements(Messages[d]) /\ f.gen = generation
      /\ f.msg.type \in {"basic", "extended"}
  <2>1. f.seq \in Nat /\ f.seq < sent /\ f.msg = wrappers[i][f.seq + 1] /\ f.gen = generation
        /\ f.msg \in Message
    BY <1>2 DEF FromThisRound, DataFrame, Bits
  <2>2. f.seq + 1 \in 1 .. Len(wrappers[i])
    BY <1>4, <2>1
  <2>3. f.msg \in Elements(wrappers[i])
    BY <2>1, <2>2 DEF Elements
  <2> QED BY <1>4, <2>1, <2>3, ListFacts DEF KeyInv, ListsAreOwn
<1>6. f.msg.pairwise \subseteq NeighboursOf(d) /\ f.msg.cluster \subseteq NeighboursOf(d)
  BY <1>5, MessagesFit
<1> DEFINE ram == KnowSender(node[d], from)
<1>7. /\ ram \in NodeState /\ ram.nack_running = 0 /\ ram.nack_process = "idle"
      /\ ram.pairwise = node[d].pairwise /\ ram.cluster = node[d].cluster
  BY <1>4, KnowSenderFacts
<1>8. node'[d] = Multiplex(ram, f) /\ \A n \in Nodes \ {d} : node'[n] = node[n]
  BY <1>2, <1>3, <1>4
<1> HIDE DEF ram
<1>9. \/ node'[d].pairwise = node[d].pairwise /\ node'[d].cluster = node[d].cluster
      \/ /\ node'[d].pairwise = Insert(node[d].pairwise, f.msg.pairwise, generation)
         /\ node'[d].cluster = Insert(node[d].cluster, f.msg.cluster, generation)
  BY <1>5, <1>7, <1>8, MultiplexFacts
<1>10. NoStrangers'
  <2> SUFFICES ASSUME NEW n \in Nodes, NEW a \in Nodes,
                      node'[n].pairwise[a] # NoKey \/ node'[n].cluster[a] # NoKey
               PROVE  a \in NeighboursOf(n)
    BY DEF NoStrangers, NeighboursOf, Neighbours
  <2>1. CASE n # d
    BY <1>8, <2>1 DEF KeyInv, NoStrangers
  <2>2. CASE n = d
    BY <1>6, <1>9, <2>2 DEF KeyInv, NoStrangers, Insert
  <2> QED BY <2>1, <2>2
<1>11. FirstKeys'
  <2>1. ASSUME KeptPower(d), NEW a \in Nodes
        PROVE  /\ node'[d].pairwise[a] \in {NoKey, 1} /\ node'[d].cluster[a] \in {NoKey, 1}
               /\ node[d].pairwise[a] # NoKey => node'[d].pairwise[a] # NoKey
               /\ node[d].cluster[a] # NoKey => node'[d].cluster[a] # NoKey
    <3>1. CASE generation = 1
      BY <1>9, <2>1, <3>1 DEF KeyInv, FirstKeys, Insert, NoKey
    <3>2. CASE generation > 1
      <4>1. /\ \A b \in f.msg.pairwise : node[d].pairwise[b] # NoKey
            /\ \A b \in f.msg.cluster : node[d].cluster[b] # NoKey
        BY <1>4, <1>6, <2>1, <3>2 DEF KeyInv, FirstKeys
      <4>2. /\ node'[d].pairwise[a] = node[d].pairwise[a]
            /\ node'[d].cluster[a] = node[d].cluster[a]
        BY <1>9, <4>1 DEF Insert
      <4> QED BY <2>1, <4>2 DEF KeyInv, FirstKeys
    <3> QED BY <1>4, <3>1, <3>2
  <2>2. \A n \in Nodes : KeptPower(n)' <=> KeptPower(n)
    BY <1>1 DEF KeptPower
  <2>3. ASSUME NEW n \in Nodes, KeptPower(n), NEW a \in Nodes
        PROVE  node'[n].pairwise[a] \in {NoKey, 1} /\ node'[n].cluster[a] \in {NoKey, 1}
    <3>1. CASE n = d
      BY <2>1, <2>3, <3>1
    <3>2. CASE n # d
      BY <1>8, <2>3, <3>2 DEF KeyInv, FirstKeys
    <3> QED BY <3>1, <3>2
  <2>4. ASSUME generation > 1, NEW p \in 1 .. Len(Queue), KeptPower(Queue[p]),
               NEW a \in NeighboursOf(Queue[p])
        PROVE  node'[Queue[p]].pairwise[a] # NoKey /\ node'[Queue[p]].cluster[a] # NoKey
    <3>1. /\ Queue[p] \in Nodes /\ a \in Nodes
          /\ node[Queue[p]].pairwise[a] # NoKey /\ node[Queue[p]].cluster[a] # NoKey
      BY <2>4, QueueFacts DEF KeyInv, FirstKeys, NeighboursOf
    <3>2. CASE Queue[p] = d
      BY <2>1, <2>4, <3>1, <3>2
    <3>3. CASE Queue[p] # d
      BY <1>8, <3>1, <3>3
    <3> QED BY <3>2, <3>3
  <2>5. \A n \in Nodes : KeptPower(n)' =>
          \A a \in Nodes :
            node'[n].pairwise[a] \in {NoKey, 1} /\ node'[n].cluster[a] \in {NoKey, 1}
    BY <2>2, <2>3
  <2>6. generation > 1 =>
          \A p \in 1 .. Len(Queue) : KeptPower(Queue[p])' =>
            \A a \in NeighboursOf(Queue[p]) :
              node'[Queue[p]].pairwise[a] # NoKey /\ node'[Queue[p]].cluster[a] # NoKey
    BY <2>2, <2>4, QueueFacts
  <2> QED BY <1>1, <2>5, <2>6 DEF FirstKeys, NeighboursOf, Neighbours
<1>12. ListsAreOwn'
  BY <1>1 DEF KeyInv, ListsAreOwn
<1> QED BY <1>10, <1>11, <1>12 DEF KeyInv

\* A node that has all its messages has a key of each kind for every neighbour.
LEMMA CompleteFits ==
  ASSUME NEW d \in Nodes, Complete(d), NEW a \in NeighboursOf(d)
  PROVE  node[d].pairwise[a] # NoKey /\ node[d].cluster[a] # NoKey
<1>1. PICK m \in Elements(Messages[d]) : a \in m.pairwise
  BY MessagesFit
<1>2. PICK l \in Elements(Messages[d]) : a \in l.cluster
  BY MessagesFit
<1> QED BY <1>1, <1>2 DEF Complete, Installed

LEMMA InitFits ==
  ASSUME Init PROVE KeyInv
<1>1. /\ wrappers = FreshWrappers /\ generation = 1
      /\ \A n \in Nodes : node[n] = Booted
  BY DEF Init
<1>2. ListsAreOwn
  BY <1>1 DEF ListsAreOwn, FreshWrappers
<1>3. \A n, a \in Nodes : node[n].pairwise[a] = NoKey /\ node[n].cluster[a] = NoKey
  BY <1>1 DEF Booted
<1> QED BY <1>1, <1>2, <1>3 DEF KeyInv, NoStrangers, FirstKeys

LEMMA RebootFits ==
  ASSUME RoundInv, KeyInv, NEW n \in Nodes, Reboot(n)
  PROVE  KeyInv'
<1>1. /\ UNCHANGED <<wrappers, generation>>
      /\ node' = [node EXCEPT ![n] = Booted]
      /\ reboots' = [reboots EXCEPT ![n] = @ + 1]
      /\ node \in [Nodes -> NodeState] /\ reboots \in [Nodes -> Nat]
  BY DEF Reboot, worker, RoundInv, TypeInv, TypeOK
<1>2. /\ node'[n] = Booted /\ ~ KeptPower(n)'
      /\ \A d \in Nodes \ {n} : node'[d] = node[d] /\ (KeptPower(d)' <=> KeptPower(d))
  BY <1>1 DEF KeptPower
<1>3. \A a \in Nodes : node'[n].pairwise[a] = NoKey /\ node'[n].cluster[a] = NoKey
  BY <1>2 DEF Booted
<1>4. ListsAreOwn'
  BY <1>1 DEF KeyInv, ListsAreOwn
<1>5. NoStrangers'
  BY <1>2, <1>3 DEF KeyInv, NoStrangers, NeighboursOf, Neighbours
<1>6. FirstKeys'
  <2>1. \A d \in Nodes : KeptPower(d)' => d # n /\ KeptPower(d) /\ node'[d] = node[d]
    BY <1>2
  <2>2. \A d \in Nodes : KeptPower(d)' =>
          \A a \in Nodes :
            node'[d].pairwise[a] \in {NoKey, 1} /\ node'[d].cluster[a] \in {NoKey, 1}
    BY <2>1 DEF KeyInv, FirstKeys
  <2>3. ASSUME generation' > 1, NEW p \in 1 .. Len(Queue), KeptPower(Queue[p])',
               NEW a \in NeighboursOf(Queue[p])
        PROVE  node'[Queue[p]].pairwise[a] # NoKey /\ node'[Queue[p]].cluster[a] # NoKey
    <3>1. KeptPower(Queue[p]) /\ node'[Queue[p]] = node[Queue[p]]
      BY <2>1, <2>3, QueueFacts
    <3> QED BY <1>1, <2>3, <3>1 DEF KeyInv, FirstKeys
  <2> QED BY <2>2, <2>3 DEF FirstKeys, NeighboursOf, Neighbours
<1> QED BY <1>4, <1>5, <1>6 DEF KeyInv

\* New keys are generated when the deployment before has served all nodes.
LEMMA RedeployFits ==
  ASSUME RoundInv, KeyInv, Redeploy
  PROVE  KeyInv'
<1>1. /\ wrappers' = FreshWrappers /\ UNCHANGED <<node, reboots>>
      /\ pc \in {"done", "aborted"} /\ generation \in Nat \ {0}
      /\ i \in 1 .. Len(Queue) + 1 /\ Len(Queue) \in Nat
  BY QueueFacts DEF Redeploy, network, RoundInv, TypeInv, TypeOK
<1>2. ListsAreOwn'
  BY <1>1 DEF ListsAreOwn, FreshWrappers
<1>3. NoStrangers'
  BY <1>1 DEF KeyInv, NoStrangers, NeighboursOf, Neighbours
<1>4. ASSUME NEW p \in 1 .. Len(Queue), KeptPower(Queue[p]), NEW a \in NeighboursOf(Queue[p])
      PROVE  node[Queue[p]].pairwise[a] # NoKey /\ node[Queue[p]].cluster[a] # NoKey
  <2>1. i > Len(Queue)
    BY <1>1 DEF RoundInv, EndsAfterLast
  <2>2. p \in 1 .. i - 1
    BY <1>1, <2>1
  <2>3. Complete(Queue[p]) /\ Queue[p] \in Nodes
    BY <1>4, <2>2, QueueFacts DEF RoundInv, ServedComplete
  <2> QED BY <1>4, <2>3, CompleteFits
<1>5. FirstKeys'
  BY <1>1, <1>4 DEF KeyInv, FirstKeys, KeptPower, NeighboursOf, Neighbours
<1> QED BY <1>2, <1>3, <1>5 DEF KeyInv

LEMMA SomethingMissingFits ==
  ASSUME Orderly, RoundInv, KeyInv, SomethingMissing
  PROVE  KeyInv'
<1> DEFINE missed == Misses(latestResponse, Len(wrappers[i]))
           kept == AdjustMisses(wrappers[i], Descending(missed))
<1>1. /\ UNCHANGED <<generation, node, reboots>> /\ Woken
      /\ wrappers' = [wrappers EXCEPT ![i] = kept]
      /\ latestResponse # NoResponse /\ missed # {}
  BY DEF SomethingMissing, network
<1>2. InRound
  BY <1>1, WaitOver
<1>3. /\ i \in 1 .. Len(Queue) /\ wrappers[i] \in Seq(Message)
      /\ wrappers \in [1 .. Len(Queue) -> Seq(Message)] /\ Len(wrappers[i]) \in 0 .. 8
  BY <1>2, RoundFacts DEF RoundInv, TypeInv, TypeOK
<1>4. Elements(kept) = {wrappers[i][b + 1] : b \in missed}
  BY <1>1, <1>3, AdjustedList
<1> HIDE DEF kept
<1>5. Elements(kept) \subseteq Elements(wrappers[i])
  <2>1. \A b \in missed : b + 1 \in 1 .. Len(wrappers[i])
    BY <1>3 DEF Misses
  <2> QED BY <1>4, <2>1 DEF Elements
<1>6. ListsAreOwn'
  BY <1>1, <1>3, <1>5 DEF KeyInv, ListsAreOwn
<1>7. NoStrangers' /\ FirstKeys'
  BY <1>1, KeysStayFit DEF SameKeys
<1> QED BY <1>6, <1>7 DEF KeyInv

\* Every step of an orderly deployment keeps the invariant.
LEMMA KeyStep ==
  ASSUME Orderly, RoundInv, KeyInv, [Next]_vars
  PROVE  KeyInv'
<1>1. ASSUME \A n \in Nodes : SameKeys(n), UNCHANGED <<wrappers, generation, reboots>>
      PROVE  KeyInv'
  BY <1>1, KeysStayFit DEF KeyInv, ListsAreOwn
<1>2. CASE UNCHANGED vars
  BY <1>1, <1>2 DEF vars, SameKeys
<1>3. CASE \/ StartRound \/ Finish \/ SendLine \/ BeginWait \/ NoAnswer
           \/ Response \/ CorruptResponse \/ Forward \/ LoseLine \/ LoseResponse
           \/ \E n \in Nodes : ReceiveNack(n) \/ LoseFrame(n)
  <2>1. (\A n \in Nodes : SameKeys(n)) /\ UNCHANGED <<i, generation, reboots>>
    BY <1>3, QuietStep
  <2>2. wrappers' = wrappers
    BY <1>3 DEF StartRound, Finish, SendLine, BeginWait, NoAnswer, Response, CorruptResponse,
                Forward, LoseLine, LoseResponse, ReceiveNack, LoseFrame, worker
  <2> QED BY <1>1, <2>1, <2>2
<1>4. CASE NothingMissing
  BY <1>1, <1>4 DEF NothingMissing, network, SameKeys
<1>5. CASE SomethingMissing
  BY <1>5, SomethingMissingFits
<1>6. CASE SetupLocally \/ \E n \in Nodes : ReceiveData(n)
  BY <1>6, ArrivalFits
<1>7. CASE \E n \in Nodes : Reboot(n)
  BY <1>7, RebootFits
<1>8. CASE Redeploy
  BY <1>8, RedeployFits
<1>9. ~ Abort
  BY DEF Abort, Orderly
<1> QED BY <1>2, <1>3, <1>4, <1>5, <1>6, <1>7, <1>8, <1>9 DEF Next

\* Whatever is lost, repeated or switched off in an orderly deployment of a
\* verified drawing, and however often keys are generated anew, no node holds
\* a key for a node that is not its neighbour, and two neighbours that were
\* served have the same pairwise key for each other (srime.c:117-121 keeps the
\* first key of a neighbour, EditorActions.java:1095-1165 makes the keys).
THEOREM SharedKeysAlwaysFit ==
  ASSUME Orderly
  PROVE  Spec => []SharedKeysFit
<1>1. Init => KeyInv
  BY InitFits
<1>2. RoundInv /\ KeyInv /\ [Next]_vars => KeyInv'
  BY KeyStep
<1>3. RoundInv /\ KeyInv => SharedKeysFit
  <2> SUFFICES ASSUME RoundInv, KeyInv, NEW n \in Nodes, NEW m \in Nodes
               PROVE  /\ node[n].pairwise[m] # NoKey \/ node[n].cluster[m] # NoKey
                           => Neighbours(n, m)
                      /\ Served(n) /\ Served(m) /\ Neighbours(n, m) =>
                           /\ node[n].pairwise[m] # NoKey /\ node[n].cluster[m] # NoKey
                           /\ node[n].pairwise[m] = node[m].pairwise[n]
    BY DEF SharedKeysFit
  <2>1. ASSUME node[n].pairwise[m] # NoKey \/ node[n].cluster[m] # NoKey
        PROVE  Neighbours(n, m)
    BY <2>1 DEF KeyInv, NoStrangers, NeighboursOf
  <2>2. \A d \in Nodes : Served(d) => Complete(d) /\ KeptPower(d)
    BY DEF Served, RoundInv, ServedComplete
  <2>3. ASSUME Served(n), Served(m), Neighbours(n, m)
        PROVE  /\ node[n].pairwise[m] # NoKey /\ node[n].cluster[m] # NoKey
               /\ node[n].pairwise[m] = node[m].pairwise[n]
    <3>1. Neighbours(m, n)
      BY <2>3 DEF Neighbours, T!Linked
    <3>2. m \in NeighboursOf(n) /\ n \in NeighboursOf(m)
      BY <2>3, <3>1 DEF NeighboursOf
    <3>3. /\ node[n].pairwise[m] # NoKey /\ node[n].cluster[m] # NoKey
          /\ node[m].pairwise[n] # NoKey
      BY <2>2, <2>3, <3>2, CompleteFits
    <3>4. node[n].pairwise[m] \in {NoKey, 1} /\ node[m].pairwise[n] \in {NoKey, 1}
      BY <2>2, <2>3 DEF KeyInv, FirstKeys
    <3> QED BY <3>3, <3>4
  <2> QED BY <2>1, <2>3
<1> QED BY <1>1, <1>2, <1>3, RoundInvariant, PTL DEF Spec

\* In an orderly deployment of a verified drawing two neighbours that were
\* served have each other's cluster key exactly as long as keys were generated
\* once (leap.c:258 replaces a node's own key, srime.c:117-121 keeps what its
\* neighbours have of it).
THEOREM ClusterKeysAgreeOnce ==
  ASSUME Orderly
  PROVE  Spec => []ClusterKeysAgree
<1>1. Init => KeyInv
  BY InitFits
<1>2. RoundInv /\ KeyInv /\ [Next]_vars => KeyInv'
  BY KeyStep
<1>3. RoundInv /\ KeyInv => ClusterKeysAgree
  <2> SUFFICES ASSUME RoundInv, KeyInv, NEW n \in Nodes, NEW m \in Nodes,
                      Served(n), Served(m), Neighbours(n, m)
               PROVE  node[n].cluster[m] = node[m].basic <=> generation = 1
    BY DEF ClusterKeysAgree
  <2>1. Complete(n) /\ KeptPower(n) /\ Complete(m)
    BY DEF Served, RoundInv, ServedComplete
  <2>2. node[n].cluster[m] = 1
    <3>1. m \in NeighboursOf(n)
      BY DEF NeighboursOf
    <3>2. node[n].cluster[m] # NoKey
      BY <2>1, <3>1, CompleteFits
    <3> QED BY <2>1, <3>2 DEF KeyInv, FirstKeys
  <2>3. node[m].basic = generation
    <3>1. Messages[m][1] = BasicMessage /\ 1 \in 1 .. Len(Messages[m])
      BY DeploymentAssumption
    <3>2. BasicMessage \in Elements(Messages[m])
      BY <3>1 DEF Elements
    <3> QED BY <2>1, <3>2 DEF Complete, Installed, BasicMessage
  <2> QED BY <2>2, <2>3
<1> QED BY <1>1, <1>2, <1>3, RoundInvariant, PTL DEF Spec

-----------------------------------------------------------------------------
(* The code's five slots *)

CodeProofs == INSTANCE MessageProofs WITH Slots <- 5

\* MessageProofs speaks of the same lists.
LEMMA SameWrap ==
  ASSUME NEW P, NEW C
  PROVE  CodeProofs!Wrap(P, C) = Code!Wrap(P, C)
BY DEF CodeProofs!Wrap, CodeProofs!ExtendedMessages, CodeProofs!BasicMessage,
       CodeProofs!NextKeys, CodeProofs!KeysBetween, CodeProofs!ExtendedMessage,
       CodeProofs!Smaller, CodeProofs!Elements,
       Code!Wrap, Code!ExtendedMessages, Code!BasicMessage, Code!NextKeys,
       Code!KeysBetween, Code!ExtendedMessage, Code!Smaller, Code!Elements

\* Five slots are some slots.
LEMMA CodeAssumptions == CodeProofs!SlotsAssumption /\ CodeProofs!NodesAssumption
<1>1. CodeProofs!SlotsAssumption
  BY DEF CodeProofs!SlotsAssumption
<1>2. CodeProofs!NodesAssumption
  BY NodesAssumption DEF CodeProofs!NodesAssumption, CodeProofs!NoAddr, NoAddr
<1> QED BY <1>1, <1>2

\* What the code makes of the first n names.
LEMMA FirstNames ==
  ASSUME NEW n \in Nat
  PROVE  LET keys == [x \in 1 .. n |-> x]
         IN  /\ keys \in Seq(Nat) /\ Len(keys) = n
             /\ CodeProofs!Distinct(keys) /\ CodeProofs!Elements(keys) = 1 .. n
<1> DEFINE keys == [x \in 1 .. n |-> x]
<1>1. keys \in Seq(Nat) /\ Len(keys) = n /\ \A x \in 1 .. n : keys[x] = x
  OBVIOUS
<1> HIDE DEF keys
<1>2. CodeProofs!Distinct(keys) /\ CodeProofs!Elements(keys) = 1 .. n
  BY <1>1 DEF CodeProofs!Distinct, CodeProofs!Elements
<1> QED BY <1>1, <1>2 DEF keys

\* Five in a message: as many as fit, and fewer than five more.
LEMMA Fifths ==
  ASSUME NEW x \in Nat
  PROVE  5 * (x \div 5) <= x /\ x < 5 * (x \div 5) + 5
OBVIOUS

\* What that makes of an even number of keys.
LEMMA Ceiling ==
  ASSUME NEW n \in Nat, NEW m \in Nat, NEW q \in Nat, m # 0,
         n + n <= 5 * (m - 1), m = 1 \/ 5 * (m - 2) < n + n,
         5 * q <= 2 * n + 4, 2 * n + 4 < 5 * q + 5
  PROVE  m = 1 + q
<1>1. CASE m = 1
  BY <1>1
<1>2. CASE m # 1 /\ 5 * (m - 2) < n + n
  <2>1. 5 * (m - 2) < 5 * q + 1 /\ 5 * q <= 5 * (m - 1) + 4
    BY <1>2
  <2>2. m - 2 < q + 1 /\ q < m
    BY <1>2, <2>1
  <2> QED BY <1>2, <2>2
<1> QED BY <1>1, <1>2

\* The code's wrapper, with its five slots, puts every key of every number of
\* neighbours in one message, and makes no more messages than that takes
\* (MessageWrapper.java:27-56).
THEOREM CodeSplitsExactly == Spec => []SplitIsExact
<1>1. SplitIsExact
  <2> SUFFICES ASSUME NEW n \in 0 .. MaxKeys
               PROVE  LET list == Split[n]
                      IN  /\ UNION {list[k].pairwise : k \in 1 .. Len(list)} = 1 .. n
                          /\ UNION {list[k].cluster : k \in 1 .. Len(list)} = 1 .. n
                          /\ \A j, k \in 1 .. Len(list) :
                               j # k => /\ list[j].pairwise \cap list[k].pairwise = {}
                                        /\ list[j].cluster \cap list[k].cluster = {}
                          /\ \A k \in 1 .. Len(list) :
                               Cardinality(list[k].pairwise) + Cardinality(list[k].cluster) <= 5
                          /\ Len(list) = 1 + (2 * n + 4) \div 5
    BY DEF SplitIsExact
  <2> DEFINE keys == [x \in 1 .. n |-> x]
             list == Split[n]
  <2>1. n \in Nat
    OBVIOUS
  <2>2. /\ keys \in Seq(Nat) /\ Len(keys) = n
        /\ CodeProofs!Distinct(keys) /\ CodeProofs!Elements(keys) = 1 .. n
    BY <2>1, FirstNames
  <2>3. list = CodeProofs!Wrap(keys, keys)
    BY SameWrap DEF Split
  <2> HIDE DEF keys, list
  <2>4. CodeProofs!SlotsAssumption /\ CodeProofs!NodesAssumption
    BY CodeAssumptions
  <2>5. CodeProofs!Exact(list, keys, keys)
    BY <2>2, <2>3, <2>4, CodeProofs!KeysAreSplitExactly
  <2>6. /\ CodeProofs!Spread([k \in 1 .. Len(list) |-> list[k].pairwise], Len(list), 1 .. n)
        /\ CodeProofs!Spread([k \in 1 .. Len(list) |-> list[k].cluster], Len(list), 1 .. n)
        /\ \A k \in 1 .. Len(list) : CodeProofs!Load(list[k]) <= 5
    BY <2>2, <2>5 DEF CodeProofs!Exact
  <2>7. UNION {list[k].pairwise : k \in 1 .. Len(list)} = 1 .. n
        /\ UNION {list[k].cluster : k \in 1 .. Len(list)} = 1 .. n
    BY <2>6 DEF CodeProofs!Spread
  <2>8. \A j, k \in 1 .. Len(list) :
          j # k => /\ list[j].pairwise \cap list[k].pairwise = {}
                   /\ list[j].cluster \cap list[k].cluster = {}
    BY <2>6 DEF CodeProofs!Spread
  <2>9. \A k \in 1 .. Len(list) :
          Cardinality(list[k].pairwise) + Cardinality(list[k].cluster) <= 5
    <3>1. \A S : CodeProofs!Cardinality(S) = Cardinality(S)
      BY DEF CodeProofs!Cardinality, Cardinality
    <3> QED BY <2>6, <3>1 DEF CodeProofs!Load
  <2>10. Len(list) = 1 + (2 * n + 4) \div 5
    <3>1. PICK m \in Nat : m = Len(list) /\ m # 0
      BY <2>5 DEF CodeProofs!Exact
    <3>2. n + n <= 5 * (m - 1) /\ (m = 1 \/ 5 * (m - 2) < n + n)
      BY <2>2, <2>5, <3>1 DEF CodeProofs!Exact
    <3>3. PICK q \in Nat : q = (2 * n + 4) \div 5
      BY <2>1
    <3>4. 5 * q <= 2 * n + 4 /\ 2 * n + 4 < 5 * q + 5
      BY <2>1, <3>3, Fifths, 2 * n + 4 \in Nat
    <3>5. m = 1 + q
      BY ONLY <2>1, <3>1, <3>2, <3>4, Ceiling
    <3> QED BY <3>1, <3>3, <3>5
  <2> QED BY <2>7, <2>8, <2>9, <2>10 DEF list
<1> QED BY <1>1, PTL DEF Spec

\* The headers of the code's messages tell them apart up to seventeen
\* neighbours, and no further: then there are nine messages or more, and three
\* bits of number (generateHeader).
THEOREM CodeTellsListsApart == Spec => []HeadersTellApart
<1>1. HeadersTellApart
  <2> SUFFICES ASSUME NEW n \in 0 .. MaxKeys
               PROVE  LET header == Headers[n]
                      IN  n <= 17 <=> \A j, k \in 1 .. Len(header) :
                                        /\ header[j].seq = header[k].seq => j = k
                                        /\ header[k].rem = 0 <=> k = Len(header)
    BY DEF HeadersTellApart
  <2> DEFINE keys == [x \in 1 .. n |-> x]
             size == Len(Split[n])
             header == Headers[n]
  <2>1. n \in Nat
    OBVIOUS
  <2>2. /\ keys \in Seq(Nat) /\ Len(keys) = n /\ CodeProofs!Distinct(keys)
    BY <2>1, FirstNames
  <2>3. Split[n] = CodeProofs!Wrap(keys, keys)
    BY SameWrap DEF Split
  <2>4. header = [k \in 1 .. size |-> Code!GenerateHeader(k, size)]
    BY DEF Headers
  <2> HIDE DEF keys
  <2>5. CodeProofs!SlotsAssumption /\ CodeProofs!NodesAssumption
    BY CodeAssumptions
  <2>6. size \in Nat
    BY <2>2, <2>3, <2>5, CodeProofs!KeysAreSplitExactly DEF CodeProofs!Exact
  <2>7. n <= 17 <=> \A j, k \in 1 .. size :
                      /\ CodeProofs!GenerateHeader(j, size).seq
                           = CodeProofs!GenerateHeader(k, size).seq => j = k
                      /\ CodeProofs!GenerateHeader(k, size).rem = 0 <=> k = size
    BY <2>2, <2>3, <2>5, CodeProofs!HeadersTellListsApart
  <2> HIDE DEF size, header
  <2>8. Len(header) = size
    BY <2>4, <2>6
  <2>9. \A k \in 1 .. size : header[k] = CodeProofs!GenerateHeader(k, size)
    BY <2>4 DEF CodeProofs!GenerateHeader, CodeProofs!Field, Code!GenerateHeader, Code!Field
  <2> QED BY <2>7, <2>8, <2>9 DEF header
<1> QED BY <1>1, PTL DEF Spec
==============================================================================
