------------------------------ MODULE Rollout ------------------------------
(***************************************************************************)
(* From the drawing to the nodes' RAM: the keys GenerateAction makes for a *)
(* verified drawing, packed by DeployAction into the messages of each      *)
(* node, and the deployment of these messages.                             *)
(***************************************************************************)
EXTENDS Deployment

CONSTANTS Drawing,    \* a drawing as in Topology; the labels are addresses
          MaxKeys     \* bound on the neighbours that messages are made for at once

T == INSTANCE Topology WITH Addresses <- Nodes
Code == INSTANCE MessageWrapper WITH Slots <- 5

\* What DeployAction hands to the MessageWrapper of node n.
PackedKeys(n) ==
  LET bundle == T!Bundle(T!Generated(Drawing), n)
  IN  Wrap(Seqs!SetToSeq(DOMAIN bundle.pairwise), Seqs!SetToSeq(DOMAIN bundle.cluster))

DrawnMessages == [n \in Nodes |-> PackedKeys(n)]

\* An edge joins two different vertices: the editor draws no loops.
ASSUME RolloutAssumption ==
  /\ IsFiniteSet(T!Vertices(Drawing))
  /\ \A k \in DOMAIN Drawing.edges : \E v, w \in T!Vertices(Drawing) :
       v # w /\ Drawing.edges[k] = <<v, w>>
  /\ T!Verified(Drawing)
  /\ Nodes = {Drawing.label[v] : v \in T!Motes(Drawing)}
  /\ \A n \in Nodes : T!Deployable(T!Generated(Drawing), n)
  /\ Messages = DrawnMessages

Neighbours(n, m) ==
  \E v, w \in T!Motes(Drawing) :
    Drawing.label[v] = n /\ Drawing.label[w] = m /\ T!Linked(Drawing, v, w)

Served(n) == KeptPower(n) /\ \E p \in 1 .. i - 1 : Queue[p] = n

\* A node shares keys with the neighbours it has in the drawing and with
\* nobody else; and two neighbours that were served have the same pairwise key
\* for each other, also while newer keys are on their way to one of them
\* (KeyStore.java:11 "a pairwise shared key with each of its direct
\* neighbors").
SharedKeysFit ==
  \A n, m \in Nodes :
    /\ node[n].pairwise[m] # NoKey \/ node[n].cluster[m] # NoKey => Neighbours(n, m)
    /\ Served(n) /\ Served(m) /\ Neighbours(n, m) =>
         /\ node[n].pairwise[m] # NoKey /\ node[n].cluster[m] # NoKey
         /\ node[n].pairwise[m] = node[m].pairwise[n]

\* Two neighbours that were served have the key of each other's cluster as long
\* as keys were generated only once.  From the second time on they have not:
\* a node's own key is replaced (leap.c:258), what a neighbour has of it stays
\* (srime.c:117-121), and the coordinator takes both nodes for served.
ClusterKeysAgree ==
  \A n, m \in Nodes :
    Served(n) /\ Served(m) /\ Neighbours(n, m) =>
      (node[n].cluster[m] = node[m].basic <=> generation = 1)

\* The lists that the code, with its five slots, makes for n neighbours, and
\* their headers.
Split == [n \in 0 .. MaxKeys |-> LET keys == [x \in 1 .. n |-> x] IN Code!Wrap(keys, keys)]
Headers == [n \in 0 .. MaxKeys |->
              [k \in 1 .. Len(Split[n]) |-> Code!GenerateHeader(k, Len(Split[n]))]]

Begins == i = 1 /\ wrappers = FreshWrappers

\* When a deployment begins, the constructor's loop has put each key into
\* exactly one message and no more than freeSlots keys into any, in no more
\* messages than that takes, for every number of neighbours
\* (MessageWrapper.java:27-56).
SplitIsExact ==
  Begins => \A n \in 0 .. MaxKeys :
    LET list == Split[n]
    IN  /\ UNION {list[k].pairwise : k \in 1 .. Len(list)} = 1 .. n
        /\ UNION {list[k].cluster : k \in 1 .. Len(list)} = 1 .. n
        /\ \A j, k \in 1 .. Len(list) :
             j # k => /\ list[j].pairwise \cap list[k].pairwise = {}
                      /\ list[j].cluster \cap list[k].cluster = {}
        /\ \A k \in 1 .. Len(list) :
             Cardinality(list[k].pairwise) + Cardinality(list[k].cluster) <= 5
        /\ Len(list) = 1 + (2 * n + 4) \div 5

\* When a deployment begins, headers tell the messages of a list apart and mark
\* the last one as long as the list has at most eight messages, that is up to
\* 17 neighbours, and with 18 they do not.
HeadersTellApart ==
  Begins => \A n \in 0 .. MaxKeys :
    LET header == Headers[n]
    IN  n <= 17 <=> \A j, k \in 1 .. Len(header) :
                      /\ header[j].seq = header[k].seq => j = k
                      /\ header[k].rem = 0 <=> k = Len(header)
=============================================================================
