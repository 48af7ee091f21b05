------------------------------ MODULE Topology ------------------------------
(***************************************************************************)
(* The drawing in the coordinator's editor, the checks of VerifyAction and *)
(* the keys of GenerateAction.                                             *)
(*                                                                         *)
(* A drawing is a record: label maps each vertex to its text, edges is the *)
(* sequence of edges <<source, target>> in the order they were drawn.      *)
(* Vertices are numbered in the order of their insertion, which is the     *)
(* order in which the actions visit them; the vertex with the id "sink" is *)
(* 0.  A key is named by what it was made for (a vertex or an edge), since *)
(* every generation starts with an empty store.                            *)
(***************************************************************************)
EXTENDS Naturals, Sequences, FiniteSets, FiniteSetsExt

CONSTANT Addresses   \* the labels that match "^[0-9]+\\.[0-9]+$"

Sink == 0
NoKey == <<>>
Empty == [label |-> <<>>, edges |-> <<>>]

Vertices(d) == DOMAIN d.label
Motes(d) == Vertices(d) \ {Sink}
Touches(e, v) == e[1] = v \/ e[2] = v

\* A slip: an edge is only followed from its source to its target.
TargetEnd(e, v) == e[2]
OtherEnd(e, v) == IF e[1] = v THEN e[2] ELSE e[1]

Linked(d, v, w) == \E k \in DOMAIN d.edges : d.edges[k] \in {<<v, w>>, <<w, v>>}

\* A slip: the edges at removed vertices stay.
RemovedAlone(d, cells, lines) ==
  [label |-> [v \in Vertices(d) \ cells |-> d.label[v]],
   edges |-> IF lines = {} THEN d.edges ELSE <<>>]

\* Removing cells removes the edges at a removed vertex, too.
Removed(d, cells, lines) ==
  LET kept == {k \in DOMAIN d.edges \ lines :
                 \A v \in cells : ~ Touches(d.edges[k], v)}
      Nth(i) == CHOOSE k \in kept : Cardinality({j \in kept : j <= k}) = i
  IN  [label |-> [v \in Vertices(d) \ cells |-> d.label[v]],
       edges |-> [i \in 1 .. Cardinality(kept) |-> d.edges[Nth(i)]]]

-----------------------------------------------------------------------------
(* VerifyAction *)

\* searchSink and isSink, at the k-th edge of v, when the vertices seen were
\* visited: depth first, with one set of visited vertices for all branches.
SearchFrom(search, d, at) ==
  LET v == at[1]  k == at[2]  seen == at[3]
      far == OtherEnd(d.edges[k], v)
      deeper == search[<<far, 1, seen \cup {far}>>]
  IN  IF k > Len(d.edges) THEN [found |-> FALSE, seen |-> seen]
      ELSE IF ~ Touches(d.edges[k], v) \/ far \in seen THEN search[<<v, k + 1, seen>>]
      ELSE IF far = Sink THEN [found |-> TRUE, seen |-> seen]
      ELSE IF deeper.found THEN deeper
      ELSE search[<<v, k + 1, deeper.seen>>]

SearchPlaces(d) == Vertices(d) \X (1 .. Len(d.edges) + 1) \X SUBSET Vertices(d)
SearchSink(d, v) ==
  LET search[at \in SearchPlaces(d)] == SearchFrom(search, d, at)
  IN  search[<<v, 1, {v}>>].found

CheckForNameSemantic(d) == \A v \in Motes(d) : d.label[v] \in Addresses
CheckForDoubleNames(d) ==
  \A v, w \in Vertices(d) : v # w => d.label[v] # d.label[w]
CheckForConnectivity(d) == \A v \in Motes(d) : SearchSink(d, v)

Verified(d) ==
  CheckForNameSemantic(d) /\ CheckForDoubleNames(d) /\ CheckForConnectivity(d)

\* What "reachable from the sink" means: no set of vertices without the sink
\* is closed under the edges and contains v.
Reaches(d, v) ==
  \A island \in SUBSET Vertices(d) :
    /\ v \in island
    /\ \A a \in island, b \in Vertices(d) : Linked(d, a, b) => b \in island
    => Sink \in island

-----------------------------------------------------------------------------
(* GenerateAction.  The store is kept by label: what is put for a vertex   *)
(* replaces what was put before for another one with the same label.       *)

Names(d) == {d.label[v] : v \in Vertices(d)}
MotesNamed(d, n) == {v \in Motes(d) : d.label[v] = n}
LastKey(kind, made) == IF made = {} THEN NoKey ELSE <<kind, Max(made)>>

NoKeyStore == [sink |-> <<>>, nodes |-> <<>>]

\* generateSinkKeys, without the group key, of which there is only one.
IndividualKey(d, n) == LastKey("individual", MotesNamed(d, n))

\* A slip: only the node at the edge's source gets the pairwise key.
PairwiseEdgesFrom(d, n, m) ==
  {k \in DOMAIN d.edges :
     LET e == d.edges[k]
     IN  /\ ~ Touches(e, Sink)
         /\ <<d.label[e[1]], d.label[e[2]]>> = <<n, m>>}

\* generatePairwiseSharedKeys: edges between n and m, none at the sink.
PairwiseEdges(d, n, m) ==
  {k \in DOMAIN d.edges :
     LET e == d.edges[k]
     IN  /\ ~ Touches(e, Sink)
         /\ <<d.label[e[1]], d.label[e[2]]>> \in {<<n, m>>, <<m, n>>}}

\* A slip: a node's own cluster key is only given to its neighbours.
ClusterMakersOthers(d, n, m) ==
  {v \in MotesNamed(d, m) : \E w \in MotesNamed(d, n) : Linked(d, v, w)}

\* generateClusterKeys: the motes labelled m that put their key into n's map.
ClusterMakers(d, n, m) ==
  {v \in MotesNamed(d, m) :
     n = m \/ \E w \in MotesNamed(d, n) : Linked(d, v, w)}

Generated(d) ==
  [sink |-> [n \in {d.label[v] : v \in Motes(d)} |-> IndividualKey(d, n)],
   nodes |->
     [n \in Names(d) |->
        [individual |-> IndividualKey(d, n),
         pairwise |-> [m \in {m \in Names(d) : PairwiseEdges(d, n, m) # {}} |->
                         LastKey("pairwise", PairwiseEdges(d, n, m))],
         cluster |-> [m \in {m \in Names(d) : ClusterMakers(d, n, m) # {}} |->
                        LastKey("cluster", ClusterMakers(d, n, m))]]]]

-----------------------------------------------------------------------------
(* DeployAction: a bundle of keys for every mote of the drawing. *)

Without(f, n) == [m \in DOMAIN f \ {n} |-> f[m]]
Bundle(store, n) ==
  [destination |-> n,
   individual |-> store.nodes[n].individual,
   own |-> store.nodes[n].cluster[n],
   pairwise |-> Without(store.nodes[n].pairwise, n),
   cluster |-> Without(store.nodes[n].cluster, n)]

\* The store has n's keys, the neighbours' labels can be read as addresses,
\* and MessageWrapper finds as many pairwise as cluster keys.
Deployable(store, n) ==
  /\ n \in DOMAIN store.nodes
  /\ store.nodes[n].individual # NoKey
  /\ n \in DOMAIN store.nodes[n].cluster
  /\ (DOMAIN store.nodes[n].pairwise \cup DOMAIN store.nodes[n].cluster) \ {n}
       \subseteq Addresses
  /\ Cardinality(DOMAIN store.nodes[n].pairwise \ {n})
       = Cardinality(DOMAIN store.nodes[n].cluster \ {n})
=============================================================================
