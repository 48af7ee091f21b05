---------------------------- MODULE EditorProofs ----------------------------
(***************************************************************************)
(* Proofs about EditorWorkflow, for all labels, files and bounds.          *)
(***************************************************************************)
EXTENDS EditorWorkflow, FiniteSetTheorems, FunctionTheorems, SequenceTheorems,
        TLAPS, WellFoundedInduction

-----------------------------------------------------------------------------
(* The flags *)

\* Whatever changes the drawing by an edit sets all three flags.
LEMMA EditsSetFlags ==
  ASSUME NEW d, Changed(d)
  PROVE  FlagsAreRight'
BY DEF Changed, SetModified, FlagsAreRight

\* A step that leaves the drawing, the flags and the keys alone leaves the
\* flags right.
LEMMA FlagsStay ==
  ASSUME FlagsAreRight, UNCHANGED <<drawing, flags, keyStore>>
  PROVE  FlagsAreRight'
BY DEF FlagsAreRight, flags

\* Each handler keeps FlagsAreRight: edits set the flags, saving and opening
\* clear modified, and verifying and generating clear the flag whose meaning
\* they have just established.
LEMMA FlagsStep ==
  ASSUME FlagsAreRight, [Next]_vars
  PROVE  FlagsAreRight'
<1>1. CASE AddVertex
  BY <1>1, EditsSetFlags DEF AddVertex
<1>2. ASSUME NEW v \in Vertices(drawing), NEW w \in Vertices(drawing), Connect(v, w)
      PROVE  FlagsAreRight'
  BY <1>2, EditsSetFlags DEF Connect
<1>3. ASSUME NEW v \in Vertices(drawing), NEW n \in Labels, Rename(v, n)
      PROVE  FlagsAreRight'
  BY <1>3, EditsSetFlags DEF Rename
<1>4. ASSUME NEW cells, NEW lines, DeleteSelectedCells(cells, lines)
      PROVE  FlagsAreRight'
  BY <1>4, EditsSetFlags DEF DeleteSelectedCells
<1>5. ASSUME NEW cells, Cut(cells)
      PROVE  FlagsAreRight'
  BY <1>5, EditsSetFlags DEF Cut
<1>6. CASE NewTopology
  BY <1>6, <1>4 DEF NewTopology
<1>7. CASE Undo
  BY <1>7 DEF Undo, SetModified, FlagsAreRight
<1>8. CASE Redo
  BY <1>8 DEF Redo, SetModified, FlagsAreRight
<1>9. CASE Save
  <2>1. UNCHANGED <<drawing, keyStore>>
    BY <1>9 DEF Save
  <2>2. ~ modified' \/ UNCHANGED flags
    BY <1>9 DEF Save, Write, NotWritten, SetModified
  <2> QED
    BY <2>1, <2>2 DEF FlagsAreRight, flags
<1>10. CASE Open
  <2>1. ASSUME NEW f, OpenXml(f) \/ OpenVdx(f) PROVE ~ modified'
    BY <2>1 DEF OpenXml, OpenVdx, ResetEditor, SetModified
  <2>2. ASSUME NEW f, OpenGD(f) PROVE FlagsAreRight'
    BY <2>2 DEF OpenGD, SetModified, FlagsAreRight
  <2> QED
    BY <1>10, <2>1, <2>2 DEF Open, FlagsAreRight
<1>11. CASE Verify
  BY <1>11 DEF Verify, FlagsAreRight
<1>12. CASE Generate
  BY <1>12 DEF Generate, FlagsAreRight
<1>13. CASE Deploy
  BY <1>13, FlagsStay DEF Deploy
<1>14. CASE UNCHANGED vars
  BY <1>14, FlagsStay DEF vars
<1> QED
  BY <1>1, <1>2, <1>3, <1>4, <1>5, <1>6, <1>7, <1>8, <1>9, <1>10, <1>11,
     <1>12, <1>13, <1>14 DEF Next

\* verify_modified and key_modified mean what they say for every drawing with
\* unsaved changes (Editor.java:69-71, 260-272).
THEOREM FlagsMeanWhatTheySay == Spec => []FlagsAreRight
<1>1. Init => FlagsAreRight
  BY DEF Init, FlagsAreRight
<1> QED
  BY <1>1, FlagsStep, PTL DEF Spec

-----------------------------------------------------------------------------
(* The bundles of a deployment *)

\* In a key store, keys for others come in pairs.
StorePaired(store) ==
  \A n \in DOMAIN store.nodes :
    /\ \A m \in DOMAIN store.nodes[n].pairwise :
         /\ m \in DOMAIN store.nodes
         /\ n \in DOMAIN store.nodes[m].pairwise
         /\ store.nodes[m].pairwise[n] = store.nodes[n].pairwise[m]
    /\ \A m \in DOMAIN store.nodes[n].cluster \ {n} :
         /\ m \in DOMAIN store.nodes
         /\ n \in DOMAIN store.nodes[m].cluster

BundlesInv == StorePaired(keyStore) /\ BundlesAgree

\* Generation pairs the keys of any drawing, double names or not.
LEMMA GeneratedPaired ==
  ASSUME NEW d PROVE StorePaired(Generated(d))
<1> DEFINE S == Generated(d)
<1>1. DOMAIN S.nodes = Names(d)
  BY DEF Generated
<1>2. ASSUME NEW n \in Names(d)
      PROVE  /\ DOMAIN S.nodes[n].pairwise = {m \in Names(d) : PairwiseEdges(d, n, m) # {}}
             /\ DOMAIN S.nodes[n].cluster = {m \in Names(d) : ClusterMakers(d, n, m) # {}}
             /\ \A m \in DOMAIN S.nodes[n].pairwise :
                  S.nodes[n].pairwise[m] = LastKey("pairwise", PairwiseEdges(d, n, m))
  BY DEF Generated
<1>3. ASSUME NEW n, NEW m PROVE PairwiseEdges(d, n, m) = PairwiseEdges(d, m, n)
  BY DEF PairwiseEdges
<1>4. ASSUME NEW n, NEW m, n # m, ClusterMakers(d, n, m) # {}
      PROVE  ClusterMakers(d, m, n) # {}
  <2>1. PICK v \in MotesNamed(d, m), w \in MotesNamed(d, n) : Linked(d, v, w)
    BY <1>4 DEF ClusterMakers
  <2>2. Linked(d, w, v)
    BY <2>1 DEF Linked
  <2> QED
    BY <2>1, <2>2 DEF ClusterMakers
<1> QED
  BY <1>1, <1>2, <1>3, <1>4 DEF StorePaired

\* What a deployment takes from a paired store agrees.
LEMMA DeployAgrees ==
  ASSUME StorePaired(keyStore), Deploy
  PROVE  BundlesAgree'
<1> DEFINE labels == [i \in DOMAIN InOrder(drawing) |-> drawing.label[InOrder(drawing)[i]]]
           queue == [i \in DOMAIN labels |-> Bundle(keyStore, labels[i])]
<1>1. started'.queue = queue /\ \A i \in DOMAIN labels : Deployable(keyStore, labels[i])
  BY DEF Deploy
<1>2. ASSUME NEW i \in DOMAIN queue, NEW j \in DOMAIN queue
      PROVE  LET a == queue[i]
                 b == queue[j]
             IN  /\ a.individual # NoKey
                 /\ b.destination \in DOMAIN a.pairwise =>
                      /\ a.destination \in DOMAIN b.pairwise
                      /\ a.pairwise[b.destination] = b.pairwise[a.destination]
                 /\ b.destination \in DOMAIN a.cluster => a.destination \in DOMAIN b.cluster
  <2> DEFINE n == labels[i]
             m == labels[j]
             N == keyStore.nodes[n]
             M == keyStore.nodes[m]
  <2>1. /\ queue[i] = Bundle(keyStore, n) /\ queue[j] = Bundle(keyStore, m)
        /\ n \in DOMAIN keyStore.nodes /\ m \in DOMAIN keyStore.nodes
        /\ N.individual # NoKey
    BY <1>1 DEF Deployable
  <2> HIDE DEF queue, labels
  <2>2. /\ queue[i].destination = n /\ queue[j].destination = m
        /\ queue[i].individual = N.individual
        /\ queue[i].pairwise = Without(N.pairwise, n)
        /\ queue[j].pairwise = Without(M.pairwise, m)
        /\ queue[i].cluster = Without(N.cluster, n)
        /\ queue[j].cluster = Without(M.cluster, m)
    BY <2>1 DEF Bundle
  <2>3. /\ DOMAIN Without(N.pairwise, n) = DOMAIN N.pairwise \ {n}
        /\ \A x \in DOMAIN N.pairwise \ {n} : Without(N.pairwise, n)[x] = N.pairwise[x]
        /\ DOMAIN Without(M.pairwise, m) = DOMAIN M.pairwise \ {m}
        /\ \A x \in DOMAIN M.pairwise \ {m} : Without(M.pairwise, m)[x] = M.pairwise[x]
        /\ DOMAIN Without(N.cluster, n) = DOMAIN N.cluster \ {n}
        /\ DOMAIN Without(M.cluster, m) = DOMAIN M.cluster \ {m}
    BY DEF Without
  <2>4. ASSUME m \in DOMAIN N.pairwise, m # n
        PROVE  n \in DOMAIN M.pairwise /\ N.pairwise[m] = M.pairwise[n]
    BY <2>1, <2>4 DEF StorePaired
  <2>5. ASSUME m \in DOMAIN N.cluster, m # n PROVE n \in DOMAIN M.cluster
    BY <2>1, <2>5 DEF StorePaired
  <2>6. ASSUME m \in DOMAIN queue[i].pairwise
        PROVE  n \in DOMAIN queue[j].pairwise /\ queue[i].pairwise[m] = queue[j].pairwise[n]
    <3>1. m \in DOMAIN N.pairwise /\ m # n /\ queue[i].pairwise[m] = N.pairwise[m]
      BY <2>2, <2>3, <2>6
    <3>2. n \in DOMAIN M.pairwise /\ N.pairwise[m] = M.pairwise[n]
      BY <2>4, <3>1
    <3> QED
      BY <2>2, <2>3, <3>1, <3>2
  <2>7. ASSUME m \in DOMAIN queue[i].cluster
        PROVE  n \in DOMAIN queue[j].cluster
    BY <2>2, <2>3, <2>5, <2>7
  <2> HIDE DEF n, m, N, M
  <2> QED
    BY <2>1, <2>2, <2>6, <2>7
<1> QED
  BY <1>1, <1>2 DEF BundlesAgree

\* Only Generate replaces the store and only Deploy the bundles.
LEMMA BundlesStep ==
  ASSUME BundlesInv, [Next]_vars
  PROVE  BundlesInv'
<1>1. CASE Generate
  BY <1>1, GeneratedPaired DEF Generate, BundlesInv, BundlesAgree
<1>2. CASE Deploy
  BY <1>2, DeployAgrees DEF Deploy, BundlesInv
<1>3. CASE UNCHANGED <<keyStore, started>>
  BY <1>3 DEF BundlesInv, BundlesAgree
<1>4. [Next]_vars => Generate \/ Deploy \/ UNCHANGED <<keyStore, started>>
  BY DEF Next, vars, AddVertex, Connect, Rename, DeleteSelectedCells, Cut,
         NewTopology, Undo, Redo, Save, Open, OpenXml, OpenVdx, OpenGD, Verify
<1> QED
  BY <1>1, <1>2, <1>3, <1>4

\* Whatever is edited between generating and deploying, and whatever names
\* occur twice, two bundles of a deployment agree on their pairwise key and on
\* who knows whose cluster key (KeyStore.java:8-16).
THEOREM DeployedBundlesAgree == Spec => []BundlesAgree
<1>1. Init => BundlesInv
  BY DEF Init, BundlesInv, StorePaired, NoKeyStore, BundlesAgree
<1>2. BundlesInv => BundlesAgree
  BY DEF BundlesInv
<1> QED
  BY <1>1, <1>2, BundlesStep, PTL DEF Spec

-----------------------------------------------------------------------------
(* Numbers of a finite set, in their order *)

UpTo(S, k) == {j \in S : j <= k}

\* In a finite set of numbers, every place is somebody's.
LEMMA EveryPlaceIsTaken ==
  ASSUME NEW S \in SUBSET Nat, IsFiniteSet(S)
  PROVE  \A i \in 1 .. Cardinality(S) : \E k \in S : Cardinality(UpTo(S, k)) = i
<1> DEFINE n == Cardinality(S)
           rank == [k \in S |-> Cardinality(UpTo(S, k))]
<1>1. n \in Nat
  BY FS_CardinalityType
<1>2. ASSUME NEW k \in S
      PROVE  /\ UpTo(S, k) \in SUBSET S /\ k \in UpTo(S, k)
             /\ IsFiniteSet(UpTo(S, k)) /\ Cardinality(UpTo(S, k)) \in 1 .. n
  <2>1. UpTo(S, k) \in SUBSET S /\ k \in UpTo(S, k)
    BY DEF UpTo
  <2>2. /\ IsFiniteSet(UpTo(S, k)) /\ Cardinality(UpTo(S, k)) \in Nat
        /\ Cardinality(UpTo(S, k)) <= n
    BY <2>1, FS_Subset, FS_CardinalityType
  <2>3. Cardinality(UpTo(S, k)) # 0
    BY <2>1, <2>2, FS_EmptySet
  <2> QED
    BY <1>1, <2>1, <2>2, <2>3
<1>3. ASSUME NEW a \in S, NEW b \in S, a < b
      PROVE  Cardinality(UpTo(S, a)) < Cardinality(UpTo(S, b))
  <2>1. UpTo(S, a) \in SUBSET UpTo(S, b)
    <3> SUFFICES ASSUME NEW c \in S, c <= a PROVE c <= b
      BY DEF UpTo
    <3>1. a \in Nat /\ b \in Nat /\ c \in Nat
      OBVIOUS
    <3> QED
      BY <1>3, <3>1
  <2>2. b \notin UpTo(S, a)
    <3>1. a \in Nat /\ b \in Nat
      OBVIOUS
    <3> QED
      BY <1>3, <3>1 DEF UpTo
  <2>3. UpTo(S, a) # UpTo(S, b)
    BY <1>2, <2>2
  <2>4. /\ Cardinality(UpTo(S, a)) <= Cardinality(UpTo(S, b))
        /\ Cardinality(UpTo(S, a)) # Cardinality(UpTo(S, b))
    BY <1>2, <2>1, <2>3, FS_Subset
  <2>5. Cardinality(UpTo(S, a)) \in Nat /\ Cardinality(UpTo(S, b)) \in Nat
    BY <1>2
  <2> QED
    BY <2>4, <2>5
<1>4. rank \in [S -> 1 .. n]
  BY <1>2
<1>5. ASSUME NEW a \in S, NEW b \in S, rank[a] = rank[b]
      PROVE  a = b
  <2>1. a \in Nat /\ b \in Nat
    OBVIOUS
  <2>2. /\ Cardinality(UpTo(S, a)) \in Nat
        /\ Cardinality(UpTo(S, a)) = Cardinality(UpTo(S, b))
    BY <1>2, <1>5
  <2>3. ~ (a < b) /\ ~ (b < a)
    BY <1>3, <2>2
  <2> QED
    BY <2>1, <2>3
<1> HIDE DEF rank
<1>6. rank \in Surjection(S, 1 .. n)
  <2>1. IsFiniteSet(1 .. n) /\ Cardinality(1 .. n) = n
    BY <1>1, FS_Interval
  <2>2. rank \in Injection(S, 1 .. n)
    BY <1>4, <1>5, Fun_IsInj
  <2> QED
    BY <2>1, <2>2, FS_Injection
<1>7. \A i \in 1 .. n : \E k \in S : rank[k] = i
  BY <1>6, Fun_SurjectionProperties DEF Surjection
<1> QED
  BY <1>7 DEF rank

\* Max is what it is called.
LEMMA MaxIsAMember ==
  ASSUME NEW S \in SUBSET Nat, IsFiniteSet(S), S # {}
  PROVE  Max(S) \in S /\ \A k \in S : Max(S) >= k
<1>1. Cardinality(S) \in Nat /\ Cardinality(S) # 0
  BY FS_CardinalityType, FS_EmptySet
<1>2. PICK top \in S : Cardinality(UpTo(S, top)) = Cardinality(S)
  BY <1>1, EveryPlaceIsTaken
<1>3. UpTo(S, top) = S
  BY <1>2, FS_Subset DEF UpTo
<1>4. \A k \in S : top >= k
  <2> SUFFICES ASSUME NEW k \in S PROVE top >= k
    OBVIOUS
  <2>1. k \in Nat /\ top \in Nat /\ k <= top
    BY <1>3 DEF UpTo
  <2> QED
    BY <2>1
<1> QED
  BY <1>4 DEF Max

-----------------------------------------------------------------------------
(* The drawings *)

Drawings ==
  UNION {[label : [V -> Labels], edges : Seq(V \X V)] : V \in SUBSET (0 .. MaxVertices)}

LEMMA DrawingsAre ==
  ASSUME NEW d
  PROVE  /\ IsDrawing(d) <=> d \in Drawings
         /\ d \in Drawings =>
              /\ d \in [label : [Vertices(d) -> Labels],
                        edges : Seq(Vertices(d) \X Vertices(d))]
              /\ d = [label |-> d.label, edges |-> d.edges]
              /\ Vertices(d) \in SUBSET (0 .. MaxVertices)
              /\ d.label \in [Vertices(d) -> Labels]
              /\ d.edges \in Seq(Vertices(d) \X Vertices(d))
<1>1. IsDrawing(d) <=> d \in Drawings
  BY DEF IsDrawing, Drawings
<1>2. ASSUME NEW V \in SUBSET (0 .. MaxVertices),
             d \in [label : [V -> Labels], edges : Seq(V \X V)]
      PROVE  /\ d = [label |-> d.label, edges |-> d.edges] /\ Vertices(d) = V
             /\ d.label \in [V -> Labels] /\ d.edges \in Seq(V \X V)
  BY <1>2 DEF Vertices
<1>3. ASSUME d \in Drawings
      PROVE  /\ d \in [label : [Vertices(d) -> Labels],
                       edges : Seq(Vertices(d) \X Vertices(d))]
             /\ d = [label |-> d.label, edges |-> d.edges]
             /\ Vertices(d) \in SUBSET (0 .. MaxVertices)
             /\ d.label \in [Vertices(d) -> Labels]
             /\ d.edges \in Seq(Vertices(d) \X Vertices(d))
  <2>1. PICK V \in SUBSET (0 .. MaxVertices) :
               d \in [label : [V -> Labels], edges : Seq(V \X V)]
    BY <1>3 DEF Drawings
  <2> QED
    BY <1>2, <2>1
<1> QED
  BY <1>1, <1>3

LEMMA DrawingIs ==
  ASSUME NEW V \in SUBSET (0 .. MaxVertices), NEW label \in [V -> Labels],
         NEW edges \in Seq(V \X V)
  PROVE  [label |-> label, edges |-> edges] \in Drawings
<1>1. [label |-> label, edges |-> edges] \in [label : [V -> Labels], edges : Seq(V \X V)]
  OBVIOUS
<1> QED
  BY <1>1 DEF Drawings

\* Cutting vertices and edges leaves no edge at a vertex that is gone, and
\* every other edge where it was.
LEMMA RemovedIsDrawing ==
  ASSUME NEW d \in Drawings, NEW cells, NEW lines
  PROVE  Removed(d, cells, lines) \in Drawings
<1> DEFINE V == Vertices(d)
           W == V \ cells
           kept == {k \in DOMAIN d.edges \ lines :
                      \A v \in cells : ~ Touches(d.edges[k], v)}
           Nth(i) == CHOOSE k \in kept : Cardinality({j \in kept : j <= k}) = i
           label == [v \in W |-> d.label[v]]
           edges == [i \in 1 .. Cardinality(kept) |-> d.edges[Nth(i)]]
<1>1. /\ V \in SUBSET (0 .. MaxVertices) /\ d.label \in [V -> Labels]
      /\ d.edges \in Seq(V \X V)
  BY DrawingsAre
<1>2. /\ Len(d.edges) \in Nat /\ DOMAIN d.edges = 1 .. Len(d.edges)
      /\ \A k \in DOMAIN d.edges : d.edges[k] \in V \X V
  BY <1>1
<1>3. kept \in SUBSET Nat /\ IsFiniteSet(kept) /\ Cardinality(kept) \in Nat
  <2>1. kept \in SUBSET (1 .. Len(d.edges)) /\ IsFiniteSet(1 .. Len(d.edges))
    BY <1>2, FS_Interval
  <2>2. IsFiniteSet(kept)
    BY <2>1, FS_Subset
  <2> QED
    BY <2>1, <2>2, FS_CardinalityType
<1>4. \A i \in 1 .. Cardinality(kept) : Nth(i) \in kept
  <2> SUFFICES ASSUME NEW i \in 1 .. Cardinality(kept) PROVE Nth(i) \in kept
    OBVIOUS
  <2>1. \E k \in kept : Cardinality({j \in kept : j <= k}) = i
    <3> HIDE DEF kept
    <3> QED
      BY <1>3, EveryPlaceIsTaken DEF UpTo
  <2> HIDE DEF kept
  <2> QED
    BY <2>1
<1>5. \A k \in kept : d.edges[k] \in W \X W
  BY <1>2 DEF Touches
<1>6. label \in [W -> Labels] /\ W \in SUBSET (0 .. MaxVertices)
  BY <1>1
<1>7. edges \in Seq(W \X W)
  <2> HIDE DEF kept, Nth, W
  <2>1. edges \in [1 .. Cardinality(kept) -> W \X W]
    BY <1>4, <1>5
  <2> QED
    BY <1>3, <2>1, SeqDef
<1>8. Removed(d, cells, lines) = [label |-> label, edges |-> edges]
  BY DEF Removed
<1> HIDE DEF label, edges, W
<1> QED
  BY <1>6, <1>7, <1>8, DrawingIs

\* A vertex is added under an id of its own.
LEMMA AddedIsDrawing ==
  ASSUME NEW d \in Drawings, NEW n \in Labels, NEW v,
         v = Max(Vertices(d) \cup {0}) + 1, v <= MaxVertices
  PROVE  [d EXCEPT !.label = Put(@, v, n)] \in Drawings /\ v \notin Vertices(d)
<1> DEFINE V == Vertices(d)
           U == V \cup {0}
           W == V \cup {v}
           label == Put(d.label, v, n)
<1>1. /\ V \in SUBSET (0 .. MaxVertices) /\ d.label \in [V -> Labels]
      /\ d.edges \in Seq(V \X V) /\ MaxVertices \in Nat
      /\ d = [label |-> d.label, edges |-> d.edges]
  BY DrawingsAre, EditorAssumption
<1>2. U \in SUBSET Nat /\ IsFiniteSet(U) /\ U # {}
  <2>1. U \in SUBSET (0 .. MaxVertices)
    <3>1. 0 \in 0 .. MaxVertices
      BY <1>1
    <3> QED
      BY <1>1, <3>1
  <2>2. IsFiniteSet(0 .. MaxVertices)
    <3>1. 0 \in Int /\ MaxVertices \in Int
      BY <1>1
    <3> HIDE DEF U, V
    <3> QED
      BY <3>1, FS_Interval
  <2> HIDE DEF U
  <2>3. IsFiniteSet(U)
    BY <2>1, <2>2, FS_Subset
  <2> QED
    BY <2>1, <2>3 DEF U
<1>3. Max(U) \in Nat /\ \A k \in U : Max(U) >= k
  <2> HIDE DEF U
  <2> QED
    BY <1>2, MaxIsAMember
<1>4. v \in 0 .. MaxVertices
  BY <1>1, <1>3
<1>5. v \notin V
  <2> SUFFICES ASSUME v \in V PROVE FALSE
    OBVIOUS
  <2>1. Max(U) >= v
    BY <1>3
  <2> QED
    BY <1>3, <2>1
<1> HIDE DEF V
<1>6. label \in [W -> Labels]
  BY <1>1 DEF Put
<1>7. d.edges \in Seq(W \X W)
  <2>1. V \X V \subseteq W \X W
    OBVIOUS
  <2> QED
    BY <1>1, <2>1
<1>8. [d EXCEPT !.label = Put(@, v, n)] = [label |-> label, edges |-> d.edges]
  BY <1>1
<1>9. W \in SUBSET (0 .. MaxVertices)
  BY <1>1, <1>4
<1> HIDE DEF label, W
<1>10. [label |-> label, edges |-> d.edges] \in Drawings
  BY <1>6, <1>7, <1>9, DrawingIs
<1> QED
  BY <1>5, <1>8, <1>10 DEF V, label

LEMMA EmptyIsDrawing == Empty \in Drawings
<1>1. <<>> \in [{} -> Labels]
  <2>1. <<>> = [v \in {} |-> Unnamed]
    OBVIOUS
  <2> QED
    BY <2>1
<1>2. <<>> \in Seq({} \X {})
  OBVIOUS
<1>3. {} \in SUBSET (0 .. MaxVertices)
  OBVIOUS
<1> QED
  BY <1>1, <1>2, <1>3, DrawingIs DEF Empty

LEMMA BlankIsDrawing == Blank \in Drawings
<1>1. [v \in {Sink} |-> "Sink"] \in [{Sink} -> Labels]
  BY EditorAssumption
<1>2. <<>> \in Seq({Sink} \X {Sink})
  OBVIOUS
<1>3. {Sink} \in SUBSET (0 .. MaxVertices)
  BY EditorAssumption DEF Sink
<1> QED
  BY <1>1, <1>2, <1>3, DrawingIs DEF Blank

LEMMA ConnectedIsDrawing ==
  ASSUME NEW d \in Drawings, NEW v \in Vertices(d), NEW w \in Vertices(d)
  PROVE  [d EXCEPT !.edges = Append(@, <<v, w>>)] \in Drawings
<1> DEFINE V == Vertices(d)
           edges == Append(d.edges, <<v, w>>)
<1>1. PICK D : D = [label : [V -> Labels], edges : Seq(V \X V)]
  OBVIOUS
<1>2. d \in D /\ V \in SUBSET (0 .. MaxVertices) /\ d.edges \in Seq(V \X V)
  BY <1>1, DrawingsAre
<1>3. edges \in Seq(V \X V)
  BY <1>2
<1> HIDE DEF edges, V
<1>4. [d EXCEPT !.edges = edges] \in D
  BY <1>1, <1>2, <1>3
<1>5. [d EXCEPT !.edges = edges] \in Drawings
  BY <1>1, <1>2, <1>4 DEF Drawings
<1> QED
  BY <1>5 DEF edges

LEMMA RelabelledIsDrawing ==
  ASSUME NEW d \in Drawings, NEW label \in [Vertices(d) -> Labels]
  PROVE  [d EXCEPT !.label = label] \in Drawings
<1> DEFINE V == Vertices(d)
<1>1. PICK D : D = [label : [V -> Labels], edges : Seq(V \X V)]
  OBVIOUS
<1>2. d \in D /\ V \in SUBSET (0 .. MaxVertices)
  BY <1>1, DrawingsAre
<1>3. [d EXCEPT !.label = label] \in D
  BY <1>1, <1>2
<1> QED
  BY <1>1, <1>2, <1>3 DEF Drawings

-----------------------------------------------------------------------------
(* Types, and edges that lead to vertices of the drawing *)

\* TypeOK, with the histories as sequences.
EditorInv ==
  /\ drawing \in Drawings
  /\ past \in Seq(Drawings) /\ future \in Seq(Drawings)
  /\ Len(past) + Len(future) <= HistorySize
  /\ \A f \in DOMAIN disk : f \in File /\ disk[f] \in Drawings
  /\ \A b \in {modified, verify_modified, key_modified, generateEnabled,
               deployEnabled} : b \in BOOLEAN
  /\ availableNodes \subseteq Pool
  /\ currentFile \in File \cup {NoFile}
  /\ edits \in 0 .. MaxEdits

LEMMA RecentHistory ==
  ASSUME NEW s \in Seq(Drawings)
  PROVE  Recent(s) \in Seq(Drawings) /\ Len(Recent(s)) <= HistorySize
<1>1. Len(s) \in Nat /\ HistorySize \in Nat \ {0}
  BY EditorAssumption
<1> DEFINE m == IF Len(s) > HistorySize THEN Len(s) - HistorySize + 1 ELSE 1
<1>2. m \in 1 .. Len(s) + 1 /\ Len(s) - m + 1 <= HistorySize
  BY <1>1
<1> HIDE DEF m
<1>3. SubSeq(s, m, Len(s)) \in Seq(Drawings) /\ Len(SubSeq(s, m, Len(s))) <= HistorySize
  <2>1. /\ SubSeq(s, m, Len(s)) \in Seq(Drawings)
        /\ Len(SubSeq(s, m, Len(s))) = IF m <= Len(s) THEN Len(s) - m + 1 ELSE 0
    BY <1>1, <1>2, SubSeqProperties
  <2> QED
    BY <1>1, <1>2, <2>1
<1> QED
  BY <1>3 DEF Recent, m

\* What an edit leaves.
LEMMA EditTypes ==
  ASSUME EditorInv, NEW d \in Drawings, Changed(d)
  PROVE  /\ drawing' \in Drawings
         /\ past' \in Seq(Drawings) /\ future' \in Seq(Drawings)
         /\ Len(past') + Len(future') <= HistorySize
         /\ modified' \in BOOLEAN /\ verify_modified' \in BOOLEAN
         /\ key_modified' \in BOOLEAN
         /\ edits' \in 0 .. MaxEdits
<1>1. Append(past, drawing) \in Seq(Drawings)
  BY DEF EditorInv
<1>2. past' \in Seq(Drawings) /\ Len(past') <= HistorySize
  BY <1>1, RecentHistory DEF Changed
<1>3. future' = <<>> /\ Len(past') \in Nat
  BY <1>2 DEF Changed
<1>4. drawing' \in Drawings /\ modified' = TRUE /\ verify_modified' = TRUE /\ key_modified' = TRUE
  BY DEF Changed, SetModified
<1>5. edits' \in 0 .. MaxEdits
  BY EditorAssumption DEF Changed, EditorInv
<1> QED
  BY <1>2, <1>3, <1>4, <1>5, EditorAssumption

LEMMA EditKeepsTypes ==
  ASSUME EditorInv, NEW d \in Drawings, Changed(d),
         availableNodes' \subseteq Pool, UNCHANGED files,
         generateEnabled' \in BOOLEAN, deployEnabled' \in BOOLEAN
  PROVE  EditorInv'
BY EditTypes DEF EditorInv, files

LEMMA TakeLast ==
  ASSUME NEW T, NEW s \in Seq(T), s # <<>>
  PROVE  /\ s[Len(s)] \in T /\ SubSeq(s, 1, Len(s) - 1) \in Seq(T)
         /\ Len(SubSeq(s, 1, Len(s) - 1)) = Len(s) - 1
<1> DEFINE n == Len(s) - 1
<1>1. Len(s) \in Nat \ {0}
  BY EmptySeq
<1>2. n \in Nat /\ \A i \in 1 .. n : s[i] \in T
  BY <1>1
<1>3. s[Len(s)] \in T
  BY <1>1
<1> HIDE DEF n
<1>4. /\ SubSeq(s, 1, n) \in Seq(T)
      /\ Len(SubSeq(s, 1, n)) = IF 1 <= n THEN n - 1 + 1 ELSE 0
  BY <1>2, SubSeqProperties
<1>5. SubSeq(s, 1, n) \in Seq(T) /\ Len(SubSeq(s, 1, n)) = n
  BY <1>2, <1>4
<1> QED
  BY <1>3, <1>5 DEF n

LEMMA PutFirst ==
  ASSUME NEW T, NEW t \in Seq(T), NEW e \in T
  PROVE  <<e>> \o t \in Seq(T) /\ Len(<<e>> \o t) = Len(t) + 1
<1>1. <<e>> \in Seq(T) /\ Len(<<e>>) = 1
  OBVIOUS
<1>2. Len(t) \in Nat
  OBVIOUS
<1> QED
  BY <1>1, <1>2, ConcatProperties

LEMMA MoveForth ==
  ASSUME NEW T, NEW s \in Seq(T), NEW t \in Seq(T), NEW e \in T, t # <<>>
  PROVE  /\ Head(t) \in T /\ Tail(t) \in Seq(T) /\ Append(s, e) \in Seq(T)
         /\ Len(Append(s, e)) + Len(Tail(t)) = Len(s) + Len(t)
<1>1. Len(t) \in Nat \ {0} /\ Len(s) \in Nat
  BY EmptySeq
<1>2. Tail(t) \in Seq(T) /\ Len(Tail(t)) = Len(t) - 1 /\ Head(t) \in T
  BY HeadTailProperties
<1>3. Append(s, e) \in Seq(T) /\ Len(Append(s, e)) = Len(s) + 1
  BY AppendProperties
<1> QED
  BY <1>1, <1>2, <1>3

\* Undo and Redo pass drawings from one history to the other.
LEMMA HistoryTypes ==
  ASSUME EditorInv, Undo \/ Redo
  PROVE  EditorInv'
<1>1. /\ drawing \in Drawings /\ past \in Seq(Drawings) /\ future \in Seq(Drawings)
      /\ Len(past) + Len(future) <= HistorySize
  BY DEF EditorInv
<1>2. /\ drawing' \in Drawings
      /\ past' \in Seq(Drawings) /\ future' \in Seq(Drawings)
      /\ Len(past') + Len(future') <= HistorySize
  <2>1. CASE Undo /\ past # <<>>
    <3>1. /\ drawing' = past[Len(past)] /\ past' = SubSeq(past, 1, Len(past) - 1)
          /\ future' = <<drawing>> \o future
      BY <2>1 DEF Undo
    <3>2. /\ past[Len(past)] \in Drawings /\ past' \in Seq(Drawings)
          /\ Len(past') = Len(past) - 1
      BY <1>1, <2>1, <3>1, TakeLast
    <3>3. future' \in Seq(Drawings) /\ Len(future') = Len(future) + 1
      BY <1>1, <3>1, PutFirst
    <3>4. Len(past) \in Nat /\ Len(future) \in Nat
      BY <1>1
    <3>5. Len(past') + Len(future') <= HistorySize
      BY ONLY <1>1, <3>2, <3>3, <3>4
    <3> QED
      BY <3>1, <3>2, <3>3, <3>5
  <2>2. CASE Redo /\ future # <<>>
    <3>1. drawing' = Head(future) /\ future' = Tail(future) /\ past' = Append(past, drawing)
      BY <2>2 DEF Redo
    <3> QED
      BY <1>1, <2>2, <3>1, MoveForth
  <2>3. CASE UNCHANGED <<drawing, past, future>>
    BY <1>1, <2>3
  <2> QED
    BY <2>1, <2>2, <2>3 DEF Undo, Redo, history
<1>3. /\ modified' \in BOOLEAN /\ verify_modified' \in BOOLEAN /\ key_modified' \in BOOLEAN
      /\ generateEnabled' \in BOOLEAN /\ deployEnabled' \in BOOLEAN
  BY DEF Undo, Redo, SetModified, UpdateTitle
<1>4. UNCHANGED <<availableNodes, disk, currentFile, edits>>
  BY DEF Undo, Redo, files
<1> QED
  BY <1>2, <1>3, <1>4 DEF EditorInv

\* What is read from a file is a drawing, and so is what is written to one.
LEMMA SaveTypes ==
  ASSUME EditorInv, Save
  PROVE  EditorInv'
<1>1. ASSUME NEW f \in File, NEW chosen \in File, Write(f, chosen)
      PROVE  /\ \A g \in DOMAIN disk' : g \in File /\ disk'[g] \in Drawings
             /\ currentFile' \in File
             /\ modified' \in BOOLEAN /\ verify_modified' \in BOOLEAN
             /\ key_modified' \in BOOLEAN
             /\ generateEnabled' \in BOOLEAN /\ deployEnabled' \in BOOLEAN
  <2>1. \A g \in DOMAIN disk' : g \in File /\ disk'[g] \in Drawings
    BY <1>1 DEF Write, Put, EditorInv
  <2>2. currentFile' \in File
    BY <1>1 DEF Write
  <2> QED
    BY <1>1, <2>1, <2>2 DEF Write, SetModified, UpdateTitle
<1>2. ASSUME NEW chosen \in File, NotWritten(chosen)
      PROVE  /\ \A g \in DOMAIN disk' : g \in File /\ disk'[g] \in Drawings
             /\ currentFile' \in File
             /\ modified' \in BOOLEAN /\ verify_modified' \in BOOLEAN
             /\ key_modified' \in BOOLEAN
             /\ generateEnabled' \in BOOLEAN /\ deployEnabled' \in BOOLEAN
  BY <1>2 DEF NotWritten, EditorInv, flags, buttons
<1>3. ASSUME NEW chosen \in File, NEW ext \in Formats
      PROVE  [chosen EXCEPT !.ext = ext] \in File
  BY EditorAssumption DEF File
<1>4. \/ \E f \in File, chosen \in File : Write(f, chosen)
      \/ \E chosen \in File : NotWritten(chosen)
  <2>1. CASE currentFile = NoFile
    BY <1>3, <2>1 DEF Save
  <2>2. CASE currentFile # NoFile
    <3>1. currentFile \in File
      BY <2>2 DEF EditorInv
    <3> QED
      BY <2>2, <3>1 DEF Save
  <2> QED
    BY <2>1, <2>2
<1>5. edits' \in 0 .. MaxEdits
  BY EditorAssumption DEF Save, EditorInv
<1>6. UNCHANGED <<drawing, past, future, availableNodes>>
  BY DEF Save, history
<1> QED
  BY <1>1, <1>2, <1>4, <1>5, <1>6 DEF EditorInv

LEMMA OpenTypes ==
  ASSUME EditorInv, NEW f \in DOMAIN disk, OpenXml(f) \/ OpenVdx(f) \/ OpenGD(f)
  PROVE  EditorInv'
<1>1. /\ f \in File /\ disk[f] \in Drawings /\ drawing \in Drawings
      /\ past \in Seq(Drawings) /\ HistorySize \in Nat
  BY EditorAssumption DEF EditorInv
<1>2. <<>> \in Seq(Drawings) /\ Len(<<>>) + Len(<<>>) <= HistorySize
  BY <1>1
<1>3. CASE OpenXml(f)
  <2>1. /\ drawing' \in Drawings /\ past' = <<>> /\ future' = <<>>
        /\ modified' = FALSE /\ verify_modified' = FALSE /\ key_modified' = FALSE
        /\ currentFile' \in File
    BY <1>1, <1>3 DEF OpenXml, ResetEditor, SetModified
  <2>2. UNCHANGED <<generateEnabled, deployEnabled, availableNodes, disk, edits>>
    BY <1>3 DEF OpenXml, buttons
  <2>3. /\ past' \in Seq(Drawings) /\ future' \in Seq(Drawings)
        /\ Len(past') + Len(future') <= HistorySize
    BY <1>2, <2>1
  <2> QED
    BY <2>1, <2>2, <2>3 DEF EditorInv
<1>4. CASE OpenVdx(f)
  <2>1. /\ drawing' \in Drawings /\ past' = <<>> /\ future' = <<>>
        /\ modified' = FALSE /\ verify_modified' = FALSE /\ key_modified' = FALSE
    BY <1>1, <1>4, EmptyIsDrawing DEF OpenVdx, ResetEditor, SetModified
  <2>2. UNCHANGED <<generateEnabled, deployEnabled, availableNodes, disk, currentFile, edits>>
    BY <1>4 DEF OpenVdx, buttons, files
  <2>3. /\ past' \in Seq(Drawings) /\ future' \in Seq(Drawings)
        /\ Len(past') + Len(future') <= HistorySize
    BY <1>2, <2>1
  <2> QED
    BY <2>1, <2>2, <2>3 DEF EditorInv
<1>5. CASE OpenGD(f)
  <2>1. drawing' \in Drawings
    <3> DEFINE label == [v \in DOMAIN disk[f].label |-> Unnamed]
    <3>1. label \in [Vertices(disk[f]) -> Labels]
      BY EditorAssumption DEF Vertices
    <3>2. drawing' = [disk[f] EXCEPT !.label = label]
      BY <1>5 DEF OpenGD
    <3> HIDE DEF label
    <3> QED
      BY <1>1, <3>1, <3>2, RelabelledIsDrawing
  <2>2. past' \in Seq(Drawings) /\ Len(past') <= HistorySize /\ future' = <<>>
    <3>1. past \o <<drawing, Empty>> \in Seq(Drawings)
      BY <1>1, EmptyIsDrawing
    <3> QED
      BY <1>5, <3>1, RecentHistory DEF OpenGD
  <2>3. /\ modified' = TRUE /\ verify_modified' = TRUE /\ key_modified' = TRUE
        /\ currentFile' \in File
    BY <1>1, <1>5 DEF OpenGD, SetModified, File
  <2>4. UNCHANGED <<generateEnabled, deployEnabled, availableNodes, disk, edits>>
    BY <1>5 DEF OpenGD, buttons
  <2>5. future' \in Seq(Drawings) /\ Len(past') + Len(future') <= HistorySize
    BY <1>1, <2>2
  <2> QED
    BY <2>1, <2>2, <2>3, <2>4, <2>5 DEF EditorInv
<1> QED
  BY <1>3, <1>4, <1>5

LEMMA TypesStep ==
  ASSUME EditorInv, [Next]_vars
  PROVE  EditorInv'
<1> USE DEF EditorInv
<1>1. CASE AddVertex
  <2> DEFINE v == Max(Vertices(drawing) \cup {0}) + 1
  <2>1. v <= MaxVertices /\ generateEnabled' \in BOOLEAN /\ deployEnabled' \in BOOLEAN
        /\ UNCHANGED files
    BY <1>1 DEF AddVertex, UpdateTitle
  <2>2. PICK n \in Labels : /\ Changed([drawing EXCEPT !.label = Put(@, v, n)])
                            /\ availableNodes' \subseteq Pool
    BY <1>1, EditorAssumption DEF AddVertex
  <2>3. [drawing EXCEPT !.label = Put(@, v, n)] \in Drawings
    BY <2>1, AddedIsDrawing
  <2> HIDE DEF v
  <2> QED
    BY <2>1, <2>2, <2>3, EditKeepsTypes
<1>2. ASSUME NEW v \in Vertices(drawing), NEW w \in Vertices(drawing), Connect(v, w)
      PROVE  EditorInv'
  BY <1>2, ConnectedIsDrawing, EditKeepsTypes DEF Connect, buttons
<1>3. ASSUME NEW v \in Vertices(drawing), NEW n \in Labels, Rename(v, n)
      PROVE  EditorInv'
  <2> DEFINE label == [drawing.label EXCEPT ![v] = n]
  <2>1. label \in [Vertices(drawing) -> Labels]
    BY DrawingsAre
  <2>2. Changed([drawing EXCEPT !.label = label])
    BY <1>3 DEF Rename
  <2> HIDE DEF label
  <2>3. [drawing EXCEPT !.label = label] \in Drawings
    BY <2>1, RelabelledIsDrawing
  <2> QED
    BY <1>3, <2>2, <2>3, EditKeepsTypes DEF Rename, buttons
<1>4. ASSUME NEW cells, NEW lines, DeleteSelectedCells(cells, lines)
      PROVE  EditorInv'
  BY <1>4, RemovedIsDrawing, EditKeepsTypes DEF DeleteSelectedCells, buttons
<1>5. ASSUME NEW cells, Cut(cells)
      PROVE  EditorInv'
  BY <1>5, RemovedIsDrawing, EditKeepsTypes DEF Cut, buttons
<1>6. CASE NewTopology
  BY <1>6, <1>4 DEF NewTopology
<1>7. CASE Undo \/ Redo
  BY <1>7, HistoryTypes
<1>8. CASE Save
  BY <1>8, SaveTypes
<1>9. CASE Open
  BY <1>9, OpenTypes DEF Open
<1>10. CASE Verify
  BY <1>10 DEF Verify, UpdateTitle, history, files
<1>11. CASE Generate
  BY <1>11 DEF Generate, UpdateTitle, history, files
<1>12. CASE Deploy
  BY <1>12 DEF Deploy, flags, buttons, history, files
<1>13. CASE UNCHANGED vars
  BY <1>13 DEF vars, flags, buttons, history, files
<1> QED
  BY <1>1, <1>2, <1>3, <1>4, <1>5, <1>6, <1>7, <1>8, <1>9, <1>10, <1>11,
     <1>12, <1>13 DEF Next

LEMMA InvariantTypes == Spec => []EditorInv
<1>1. Init => EditorInv
  <2>1. \A f \in DOMAIN Shelf : f \in File /\ Shelf[f] \in Drawings
    BY ShelfAssumption, DrawingsAre
  <2>2. 0 \in 0 .. MaxEdits
    BY EditorAssumption
  <2>3. <<>> \in Seq(Drawings) /\ Len(<<>>) + Len(<<>>) <= HistorySize
    BY EditorAssumption
  <2> QED
    BY <2>1, <2>2, <2>3, BlankIsDrawing DEF Init, EditorInv
<1> QED
  BY <1>1, TypesStep, PTL DEF Spec

\* Whatever is added, connected, renamed, cut, undone, opened or imported, the
\* drawing, the histories and the files hold drawings in which every edge
\* leads from a vertex to a vertex, and no more of them than the history has
\* room for (Editor.java:179-189, EditorActions.java:473-531).
THEOREM EditorTypes == Spec => []TypeOK
<1>1. ASSUME EditorInv PROVE TypeOK
  <2>1. /\ \A i \in DOMAIN past : past[i] \in Drawings
        /\ \A i \in DOMAIN future : future[i] \in Drawings
    BY <1>1 DEF EditorInv
  <2> QED
    BY <1>1, <2>1, DrawingsAre DEF EditorInv, TypeOK
<1> QED
  BY <1>1, InvariantTypes, PTL

-----------------------------------------------------------------------------
(* The keys of a drawing without double names *)

\* Edges are where edges can be: the last one of some of them is one of them.
LEMMA LastEdge ==
  ASSUME NEW d \in Drawings, NEW n, NEW m, PairwiseEdges(d, n, m) # {}
  PROVE  Max(PairwiseEdges(d, n, m)) \in PairwiseEdges(d, n, m)
<1> DEFINE E == PairwiseEdges(d, n, m)
<1>1. Len(d.edges) \in Nat /\ DOMAIN d.edges = 1 .. Len(d.edges)
  BY DrawingsAre
<1>2. E \in SUBSET (1 .. Len(d.edges))
  BY <1>1 DEF PairwiseEdges
<1>3. IsFiniteSet(1 .. Len(d.edges))
  BY <1>1, FS_Interval
<1> HIDE DEF E
<1>4. IsFiniteSet(E)
  BY <1>2, <1>3, FS_Subset
<1>5. E \in SUBSET Nat
  BY <1>1, <1>2
<1> QED
  BY <1>4, <1>5, MaxIsAMember DEF E

LEMMA MaxOfOne ==
  ASSUME NEW v \in Nat PROVE Max({v}) = v
<1>1. IsFiniteSet({v}) /\ {v} \in SUBSET Nat /\ {v} # {}
  BY FS_Singleton
<1> QED
  BY <1>1, MaxIsAMember

\* Who is who: with no name given twice, a name stands for its vertex.
LEMMA NamesTellApart ==
  ASSUME NEW d \in Drawings, CheckForDoubleNames(d), NEW v \in Motes(d)
  PROVE  /\ v \in Nat /\ v # Sink /\ v \in Vertices(d) /\ d.label[v] \in Names(d)
         /\ MotesNamed(d, d.label[v]) = {v}
         /\ \A w \in Vertices(d) : d.label[w] = d.label[v] => w = v
<1>1. v \in Vertices(d) /\ v # Sink
  BY DEF Motes
<1>2. v \in Nat
  <2>1. v \in 0 .. MaxVertices
    BY <1>1, DrawingsAre
  <2> QED
    BY <2>1, EditorAssumption
<1>3. \A w \in Vertices(d) : d.label[w] = d.label[v] => w = v
  BY <1>1 DEF CheckForDoubleNames
<1>4. MotesNamed(d, d.label[v]) = {v}
  BY <1>1, <1>3 DEF MotesNamed, Motes
<1> QED
  BY <1>1, <1>2, <1>3, <1>4 DEF Names

\* The edges that make the pairwise keys of two motes are those between them.
LEMMA EdgesBetween ==
  ASSUME NEW d \in Drawings, CheckForDoubleNames(d), NEW v \in Motes(d), NEW w \in Motes(d)
  PROVE  PairwiseEdges(d, d.label[v], d.label[w])
           = {k \in DOMAIN d.edges : d.edges[k] \in {<<v, w>>, <<w, v>>}}
<1>1. /\ v # Sink /\ v \in Vertices(d) /\ w # Sink /\ w \in Vertices(d)
      /\ \A x \in Vertices(d) : /\ d.label[x] = d.label[v] => x = v
                                /\ d.label[x] = d.label[w] => x = w
  BY NamesTellApart
<1>2. ASSUME NEW k \in DOMAIN d.edges
      PROVE  /\ d.edges[k] = <<d.edges[k][1], d.edges[k][2]>>
             /\ d.edges[k][1] \in Vertices(d) /\ d.edges[k][2] \in Vertices(d)
  <2>1. d.edges[k] \in Vertices(d) \X Vertices(d)
    <3>1. d.edges \in Seq(Vertices(d) \X Vertices(d))
      BY DrawingsAre
    <3> QED
      BY <3>1
  <2> QED
    BY <2>1
<1>3. ASSUME NEW k \in PairwiseEdges(d, d.label[v], d.label[w])
      PROVE  k \in DOMAIN d.edges /\ d.edges[k] \in {<<v, w>>, <<w, v>>}
  <2>1. k \in DOMAIN d.edges
    BY DEF PairwiseEdges
  <2> DEFINE a == d.edges[k][1]
             b == d.edges[k][2]
  <2>2. \/ d.label[a] = d.label[v] /\ d.label[b] = d.label[w]
        \/ d.label[a] = d.label[w] /\ d.label[b] = d.label[v]
    BY DEF PairwiseEdges
  <2>3. \/ a = v /\ b = w
        \/ a = w /\ b = v
    BY <1>1, <1>2, <2>1, <2>2
  <2> QED
    BY <1>2, <2>1, <2>3
<1>4. ASSUME NEW k \in DOMAIN d.edges, d.edges[k] \in {<<v, w>>, <<w, v>>}
      PROVE  k \in PairwiseEdges(d, d.label[v], d.label[w])
  BY <1>1, <1>4 DEF PairwiseEdges, Touches
<1> QED
  BY <1>3, <1>4

\* What the store holds for a mote.
LEMMA MoteKeys ==
  ASSUME NEW d \in Drawings, CheckForDoubleNames(d), NEW v \in Motes(d)
  PROVE  LET a == Generated(d).nodes[d.label[v]]
         IN  /\ a.individual = <<"individual", v>>
             /\ Generated(d).sink[d.label[v]] = <<"individual", v>>
             /\ DOMAIN a.pairwise = {m \in Names(d) : PairwiseEdges(d, d.label[v], m) # {}}
             /\ \A m \in DOMAIN a.pairwise :
                  /\ a.pairwise[m] = <<"pairwise", Max(PairwiseEdges(d, d.label[v], m))>>
                  /\ Max(PairwiseEdges(d, d.label[v], m)) \in PairwiseEdges(d, d.label[v], m)
             /\ \A w \in Motes(d) :
                  /\ d.label[w] \in DOMAIN a.cluster <=> w = v \/ Linked(d, v, w)
                  /\ d.label[w] \in DOMAIN a.cluster
                       => a.cluster[d.label[w]] = <<"cluster", w>>
<1> DEFINE n == d.label[v]
           a == Generated(d).nodes[n]
<1>1. n \in Names(d) /\ MotesNamed(d, n) = {v} /\ v \in Nat
  BY NamesTellApart
<1>2. IndividualKey(d, n) = <<"individual", v>>
  BY <1>1, MaxOfOne DEF IndividualKey, LastKey
<1>3. /\ a.individual = IndividualKey(d, n)
      /\ DOMAIN a.pairwise = {m \in Names(d) : PairwiseEdges(d, n, m) # {}}
      /\ \A m \in DOMAIN a.pairwise :
           a.pairwise[m] = LastKey("pairwise", PairwiseEdges(d, n, m))
      /\ DOMAIN a.cluster = {m \in Names(d) : ClusterMakers(d, n, m) # {}}
      /\ \A m \in DOMAIN a.cluster :
           a.cluster[m] = LastKey("cluster", ClusterMakers(d, n, m))
  BY <1>1 DEF Generated
<1>4. Generated(d).sink[n] = IndividualKey(d, n)
  BY DEF Generated
<1> HIDE DEF a
<1>5. ASSUME NEW m \in DOMAIN a.pairwise
      PROVE  /\ a.pairwise[m] = <<"pairwise", Max(PairwiseEdges(d, n, m))>>
             /\ Max(PairwiseEdges(d, n, m)) \in PairwiseEdges(d, n, m)
  BY <1>3, LastEdge DEF LastKey
<1>6. ASSUME NEW w \in Motes(d)
      PROVE  /\ d.label[w] \in DOMAIN a.cluster <=> w = v \/ Linked(d, v, w)
             /\ d.label[w] \in DOMAIN a.cluster => a.cluster[d.label[w]] = <<"cluster", w>>
  <2>1. d.label[w] \in Names(d) /\ MotesNamed(d, d.label[w]) = {w} /\ w \in Nat
    BY NamesTellApart
  <2>2. n = d.label[w] <=> w = v
    BY <1>1, NamesTellApart
  <2>3. Linked(d, w, v) <=> Linked(d, v, w)
    BY DEF Linked
  <2>4. ClusterMakers(d, n, d.label[w]) = IF w = v \/ Linked(d, v, w) THEN {w} ELSE {}
    BY <1>1, <2>1, <2>2, <2>3 DEF ClusterMakers
  <2>5. LastKey("cluster", {w}) = <<"cluster", w>>
    BY <2>1, MaxOfOne DEF LastKey
  <2> QED
    BY <1>3, <2>1, <2>4, <2>5
<1> QED
  BY <1>2, <1>3, <1>4, <1>5, <1>6 DEF a

\* Nobody but the two ends of its edge has a pairwise key, and nobody but the
\* mote it was made for an individual one.
LEMMA OwnersOfKeys ==
  ASSUME NEW d \in Drawings, CheckForDoubleNames(d), NEW v \in Motes(d)
  PROVE  /\ HeldBy(Generated(d), d, <<"individual", v>>) = {v}
         /\ \A w \in Motes(d) \ {v} :
              Linked(d, v, w) =>
                HeldBy(Generated(d), d, Generated(d).nodes[d.label[v]].pairwise[d.label[w]])
                  = {v, w}
<1> DEFINE node(u) == Generated(d).nodes[d.label[u]]
<1>1. ASSUME NEW u \in Motes(d)
      PROVE  /\ node(u).individual = <<"individual", u>>
             /\ DOMAIN node(u).pairwise
                  = {m \in Names(d) : PairwiseEdges(d, d.label[u], m) # {}}
             /\ \A m \in DOMAIN node(u).pairwise :
                  /\ node(u).pairwise[m]
                       = <<"pairwise", Max(PairwiseEdges(d, d.label[u], m))>>
                  /\ Max(PairwiseEdges(d, d.label[u], m)) \in PairwiseEdges(d, d.label[u], m)
  BY MoteKeys
<1> HIDE DEF node
<1>2. \A key : HeldBy(Generated(d), d, key)
                 = {u \in Motes(d) : \/ key = node(u).individual
                                     \/ \E m \in DOMAIN node(u).pairwise :
                                          node(u).pairwise[m] = key}
  BY DEF HeldBy, node
<1>3. HeldBy(Generated(d), d, <<"individual", v>>) = {v}
  <2>1. ASSUME NEW u \in Motes(d)
        PROVE  /\ node(u).individual = <<"individual", v>> <=> u = v
               /\ \A m \in DOMAIN node(u).pairwise : node(u).pairwise[m] # <<"individual", v>>
    BY <1>1
  <2> QED
    BY <1>2, <2>1
<1>4. ASSUME NEW w \in Motes(d) \ {v}, Linked(d, v, w)
      PROVE  HeldBy(Generated(d), d, node(v).pairwise[d.label[w]]) = {v, w}
  <2> DEFINE k == Max(PairwiseEdges(d, d.label[v], d.label[w]))
             key == node(v).pairwise[d.label[w]]
  <2>1. \A x, y : PairwiseEdges(d, x, y) = PairwiseEdges(d, y, x)
    BY DEF PairwiseEdges
  <2>2. PairwiseEdges(d, d.label[v], d.label[w]) # {}
    BY <1>4, EdgesBetween DEF Linked
  <2>3. d.label[v] \in Names(d) /\ d.label[w] \in Names(d)
    BY NamesTellApart
  <2>4. /\ d.label[v] \in DOMAIN node(w).pairwise
        /\ d.label[w] \in DOMAIN node(v).pairwise
    BY <1>1, <2>1, <2>2, <2>3
  <2>5. PairwiseEdges(d, d.label[w], d.label[v]) = PairwiseEdges(d, d.label[v], d.label[w])
    BY <2>1
  <2>6. node(w).pairwise[d.label[v]] = <<"pairwise", k>>
    BY <1>1, <2>4, <2>5
  <2>7. /\ key = <<"pairwise", k>> /\ k \in PairwiseEdges(d, d.label[v], d.label[w])
        /\ d.label[v] \in DOMAIN node(w).pairwise
        /\ node(w).pairwise[d.label[v]] = key
        /\ d.label[w] \in DOMAIN node(v).pairwise
    BY <1>1, <2>4, <2>6
  <2> HIDE DEF k, key
  <2>8. ASSUME NEW u \in Motes(d), NEW m \in DOMAIN node(u).pairwise,
               node(u).pairwise[m] = key
        PROVE  u = v \/ u = w
    <3>1. k \in PairwiseEdges(d, d.label[u], m)
      BY <1>1, <2>7, <2>8
    <3>2. d.label[u] = d.label[v] \/ d.label[u] = d.label[w]
      BY <2>7, <3>1 DEF PairwiseEdges
    <3>3. u \in Vertices(d)
      BY DEF Motes
    <3> QED
      BY <3>2, <3>3, NamesTellApart
  <2>9. \A u \in Motes(d) : key # node(u).individual
    BY <1>1, <2>7
  <2> QED
    BY <1>2, <2>7, <2>8, <2>9 DEF key
<1> QED
  BY <1>3, <1>4 DEF node

LEMMA GeneratedFit ==
  ASSUME NEW d \in Drawings, CheckForDoubleNames(d)
  PROVE  KeysFit(Generated(d), d)
<1> DEFINE S == Generated(d)
<1>1. ASSUME NEW v \in Motes(d)
      PROVE  /\ S.nodes[d.label[v]].individual = S.sink[d.label[v]]
             /\ HeldBy(S, d, S.nodes[d.label[v]].individual) = {v}
  BY MoteKeys, OwnersOfKeys
<1>2. ASSUME NEW v \in Motes(d), NEW w \in Motes(d) \ {v}
      PROVE  d.label[w] \in DOMAIN S.nodes[d.label[v]].pairwise <=> Linked(d, v, w)
  <2>1. d.label[w] \in Names(d)
    BY NamesTellApart
  <2>2. PairwiseEdges(d, d.label[v], d.label[w]) # {} <=> Linked(d, v, w)
    BY EdgesBetween DEF Linked
  <2> QED
    BY <2>1, <2>2, MoteKeys
<1>3. ASSUME NEW v \in Motes(d), NEW w \in Motes(d) \ {v}, Linked(d, v, w)
      PROVE  NeighboursShare(S, d, v, w)
  <2>1. Linked(d, w, v)
    BY <1>3 DEF Linked
  <2>2. /\ d.label[w] \in DOMAIN S.nodes[d.label[v]].pairwise
        /\ d.label[v] \in DOMAIN S.nodes[d.label[w]].pairwise
    BY <1>2, <1>3, <2>1
  <2>3. S.nodes[d.label[v]].pairwise[d.label[w]] = S.nodes[d.label[w]].pairwise[d.label[v]]
    <3>1. PairwiseEdges(d, d.label[v], d.label[w]) = PairwiseEdges(d, d.label[w], d.label[v])
      BY DEF PairwiseEdges
    <3>2. S.nodes[d.label[v]].pairwise[d.label[w]]
            = <<"pairwise", Max(PairwiseEdges(d, d.label[v], d.label[w]))>>
      BY <2>2, MoteKeys
    <3>3. S.nodes[d.label[w]].pairwise[d.label[v]]
            = <<"pairwise", Max(PairwiseEdges(d, d.label[w], d.label[v]))>>
      BY <2>2, MoteKeys
    <3> QED
      BY <3>1, <3>2, <3>3
  <2>4. /\ d.label[w] \in DOMAIN S.nodes[d.label[v]].cluster
        /\ d.label[w] \in DOMAIN S.nodes[d.label[w]].cluster
        /\ S.nodes[d.label[v]].cluster[d.label[w]] = <<"cluster", w>>
        /\ S.nodes[d.label[w]].cluster[d.label[w]] = <<"cluster", w>>
    BY <1>3, MoteKeys
  <2> HIDE DEF S
  <2> QED
    BY <2>2, <2>3, <2>4 DEF NeighboursShare
<1>4. ASSUME NEW v \in Motes(d), NEW w \in Motes(d) \ {v}, ~ Linked(d, v, w)
      PROVE  d.label[w] \notin DOMAIN S.nodes[d.label[v]].pairwise
                                 \cup DOMAIN S.nodes[d.label[v]].cluster
  BY <1>2, <1>4, MoteKeys
<1>5. ASSUME NEW v \in Motes(d), NEW w \in Motes(d) \ {v}, Linked(d, v, w)
      PROVE  HeldBy(S, d, S.nodes[d.label[v]].pairwise[d.label[w]]) = {v, w}
  BY <1>5, OwnersOfKeys
<1> HIDE DEF S
<1> QED
  BY <1>1, <1>3, <1>4, <1>5 DEF KeysFit, S

\* Only Generate makes keys, and it makes them for the drawing as it is: two
\* motes share a pairwise key, and know each other's cluster keys, exactly if
\* an edge joins them, and no third one has their key
\* (EditorActions.java:1090-1195).
THEOREM KeysFitTheDrawing == Spec => GeneratedKeysFit
<1>1. ASSUME EditorInv, [Next]_vars, keyStore' # keyStore, CheckForDoubleNames(drawing)
      PROVE  KeysFit(keyStore', drawing)
  <2>1. Generate
    BY <1>1 DEF Next, vars, AddVertex, Connect, Rename, DeleteSelectedCells, Cut,
                NewTopology, Undo, Redo, Save, Open, OpenXml, OpenVdx, OpenGD,
                Verify, Deploy
  <2>2. keyStore' = Generated(drawing) /\ drawing \in Drawings
    BY <1>1, <2>1 DEF Generate, EditorInv
  <2> QED
    BY <1>1, <2>2, GeneratedFit
<1> QED
  BY <1>1, InvariantTypes, PTL DEF Spec, GeneratedKeysFit

-----------------------------------------------------------------------------
(* The search for the sink *)

\* Induction over a set of numbers.
LEMMA SetInduction ==
  ASSUME NEW S \in SUBSET Nat, 0 \in S, \A k \in S : k + 1 \in S
  PROVE  S = Nat
<1>1. SUFFICES ASSUME Nat \ S # {} PROVE FALSE
  OBVIOUS
<1>2. PICK x \in Nat \ S : \A y \in Nat \ S : ~ (<<y, x>> \in OpToRel(<, Nat))
  BY <1>1, WFMin, NatLessThanWellFounded
<1>3. x # 0 /\ x - 1 \in Nat /\ x - 1 < x
  OBVIOUS
<1>4. <<x - 1, x>> \in OpToRel(<, Nat)
  BY <1>3 DEF OpToRel
<1>5. x - 1 \in S
  BY <1>2, <1>3, <1>4
<1> QED BY <1>5

\* How much is left to search: all edges again for each vertex not seen yet.
Rest(d, at) ==
  Cardinality(Vertices(d) \ at[3]) * (Len(d.edges) + 1) + (Len(d.edges) + 1 - at[2])

\* The edges of w, from the k-th edge of the drawing on, lead into S.
Explored(d, w, k, S) ==
  \A j \in k .. Len(d.edges) : Touches(d.edges[j], w) => OtherEnd(d.edges[j], w) \in S

\* What a search returns.  When it fails, whatever it has visited it has
\* explored.
RightAnswer(d, at, r) ==
  /\ r.seen \in SUBSET Vertices(d) /\ at[3] \subseteq r.seen
  /\ r.found => Reaches(d, at[1])
  /\ ~ r.found /\ Sink \notin at[3] =>
       /\ Sink \notin r.seen
       /\ \A w \in r.seen \ at[3] : Explored(d, w, 1, r.seen)
       /\ Explored(d, at[1], at[2], r.seen)

LEMMA TimesGrows ==
  ASSUME NEW b \in Nat, NEW c \in Nat, NEW l \in Nat, b <= c
  PROVE  b * l <= c * l
<1>1. PICK x \in Nat : c = b + x
  <2>1. c - b \in Nat /\ c = b + (c - b)
    OBVIOUS
  <2> QED BY <2>1
<1>2. c * l = b * l + x * l
  BY <1>1
<1>3. x * l \in Nat /\ b * l \in Nat
  OBVIOUS
<1> QED BY <1>2, <1>3

\* The size of a drawing.
LEMMA DrawingSize ==
  ASSUME NEW d \in Drawings
  PROVE  /\ IsFiniteSet(Vertices(d)) /\ Len(d.edges) \in Nat
         /\ \A k \in 1 .. Len(d.edges) : d.edges[k] \in Vertices(d) \X Vertices(d)
<1>1. /\ Vertices(d) \in SUBSET (0 .. MaxVertices)
      /\ d.edges \in Seq(Vertices(d) \X Vertices(d))
  BY DrawingsAre
<1>2. IsFiniteSet(Vertices(d))
  <2>1. IsFiniteSet(0 .. MaxVertices)
    BY EditorAssumption, FS_Interval
  <2> QED BY <1>1, <2>1, FS_Subset
<1>3. PICK V : V = Vertices(d)
  OBVIOUS
<1>4. d.edges \in Seq(V \X V)
  BY <1>1, <1>3
<1>5. Len(d.edges) \in Nat /\ \A k \in 1 .. Len(d.edges) : d.edges[k] \in V \X V
  BY <1>4
<1> QED BY <1>2, <1>3, <1>5

LEMMA SizeOfRest ==
  ASSUME NEW d \in Drawings, NEW at \in SearchPlaces(d)
  PROVE  /\ Rest(d, at) \in Nat
         /\ Rest(d, at) < (Cardinality(Vertices(d)) + 1) * (Len(d.edges) + 1)
<1>1. PICK c \in Nat, l \in Nat, n \in Nat :
        /\ c = Cardinality(Vertices(d) \ at[3]) /\ l = Len(d.edges)
        /\ n = Cardinality(Vertices(d)) /\ c <= n
  BY DrawingSize, FS_Subset, FS_CardinalityType
<1>2. PICK k \in 1 .. l + 1 : k = at[2]
  BY <1>1 DEF SearchPlaces
<1>3. PICK cl \in Nat, nl \in Nat : cl = c * (l + 1) /\ nl = n * (l + 1)
  OBVIOUS
<1>4. cl <= nl
  BY <1>1, <1>3, TimesGrows
<1>5. (n + 1) * (l + 1) = nl + (l + 1)
  BY <1>3
<1>6. cl + (l + 1 - k) \in Nat /\ cl + (l + 1 - k) < nl + (l + 1)
  BY <1>4
<1> QED BY <1>1, <1>2, <1>3, <1>5, <1>6 DEF Rest

\* What is searched next, along the k-th edge and after it, is less.
LEMMA NextPlaces ==
  ASSUME NEW d \in Drawings, NEW v \in Vertices(d), NEW k \in 1 .. Len(d.edges),
         NEW seen \in SUBSET Vertices(d)
  PROVE  LET far == OtherEnd(d.edges[k], v)
             at == <<v, k, seen>>
             deep == <<far, 1, seen \cup {far}>>
         IN  /\ \A S \in SUBSET Vertices(d) : seen \subseteq S =>
                  LET next == <<v, k + 1, S>>
                  IN  next \in SearchPlaces(d) /\ Rest(d, next) < Rest(d, at)
             /\ Touches(d.edges[k], v) => far \in Vertices(d) /\ Linked(d, v, far)
             /\ Touches(d.edges[k], v) /\ far \notin seen =>
                  deep \in SearchPlaces(d) /\ Rest(d, deep) < Rest(d, at)
<1> DEFINE far == OtherEnd(d.edges[k], v)
           V == Vertices(d)
<1>1. PICK l \in Nat : l = Len(d.edges)
  BY DrawingSize
<1>2. PICK c \in Nat : c = Cardinality(V \ seen)
  BY DrawingSize, FS_Subset, FS_CardinalityType
<1>3. Rest(d, <<v, k, seen>>) = c * (l + 1) + (l + 1 - k)
  BY <1>1, <1>2 DEF Rest
<1>4. ASSUME NEW S \in SUBSET V, seen \subseteq S
      PROVE  /\ <<v, k + 1, S>> \in SearchPlaces(d)
             /\ Rest(d, <<v, k + 1, S>>) < Rest(d, <<v, k, seen>>)
  <2>1. PICK b \in Nat : b = Cardinality(V \ S) /\ b <= c
    <3>1. V \ S \subseteq V \ seen /\ IsFiniteSet(V \ seen)
      BY <1>4, DrawingSize, FS_Subset
    <3> QED BY <1>2, <3>1, FS_Subset, FS_CardinalityType
  <2>2. Rest(d, <<v, k + 1, S>>) = b * (l + 1) + (l + 1 - (k + 1))
    BY <1>1, <2>1 DEF Rest
  <2>3. b * (l + 1) <= c * (l + 1)
    BY <2>1, TimesGrows
  <2>4. PICK bl \in Nat, cl \in Nat : bl = b * (l + 1) /\ cl = c * (l + 1)
    OBVIOUS
  <2>5. bl + (l + 1 - (k + 1)) < cl + (l + 1 - k)
    BY <2>3, <2>4
  <2>6. <<v, k + 1, S>> \in SearchPlaces(d)
    BY <1>1 DEF SearchPlaces
  <2> QED BY <1>3, <2>2, <2>4, <2>5, <2>6
<1>5. ASSUME Touches(d.edges[k], v) PROVE far \in V /\ Linked(d, v, far)
  <2>1. PICK a \in V, b \in V : d.edges[k] = <<a, b>>
    BY DrawingSize
  <2>2. k \in DOMAIN d.edges
    BY DrawingsAre
  <2>3. far \in {a, b} /\ d.edges[k] \in {<<v, far>>, <<far, v>>}
    BY <1>5, <2>1 DEF Touches, OtherEnd
  <2> QED BY <2>1, <2>2, <2>3 DEF Linked
<1>6. ASSUME Touches(d.edges[k], v), far \notin seen
      PROVE  /\ <<far, 1, seen \cup {far}>> \in SearchPlaces(d)
             /\ Rest(d, <<far, 1, seen \cup {far}>>) < Rest(d, <<v, k, seen>>)
  <2>1. far \in V \ seen
    BY <1>5, <1>6
  <2> HIDE DEF far
  <2>2. Cardinality(V \ (seen \cup {far})) = c - 1
    <3>1. V \ (seen \cup {far}) = (V \ seen) \ {far}
      OBVIOUS
    <3>2. IsFiniteSet(V \ seen)
      BY DrawingSize, FS_Subset
    <3>3. Cardinality((V \ seen) \ {far}) = Cardinality(V \ seen) - 1
      BY <2>1, <3>2, FS_RemoveElement
    <3> QED BY <1>2, <3>1, <3>3
  <2>3. Rest(d, <<far, 1, seen \cup {far}>>) = (c - 1) * (l + 1) + (l + 1 - 1)
    BY <1>1, <2>2 DEF Rest
  <2>4. PICK cl \in Int : cl = c * (l + 1)
    OBVIOUS
  <2>5. (c - 1) * (l + 1) = cl - (l + 1)
    BY <2>4
  <2>6. cl - (l + 1) + (l + 1 - 1) < cl + (l + 1 - k)
    BY <1>1
  <2>7. <<far, 1, seen \cup {far}>> \in SearchPlaces(d)
    BY <1>1, <2>1 DEF SearchPlaces
  <2> QED BY <1>3, <2>3, <2>4, <2>5, <2>6, <2>7
<1> QED BY <1>4, <1>5, <1>6

\* Who is linked to the sink reaches it, and so does who is linked to someone
\* who does.
LEMMA ReachesAlong ==
  ASSUME NEW d, NEW v \in Vertices(d), NEW w \in Vertices(d), Linked(d, v, w),
         w = Sink \/ Reaches(d, w)
  PROVE  Reaches(d, v)
BY DEF Reaches

\* Searching on, when the searches that are less give the right answer.
LEMMA SearchStep ==
  ASSUME NEW d \in Drawings, NEW at \in SearchPlaces(d), NEW f,
         \A to \in SearchPlaces(d) : Rest(d, to) < Rest(d, at) => RightAnswer(d, to, f[to])
  PROVE  /\ RightAnswer(d, at, SearchFrom(f, d, at))
         /\ \A g : (\A to \in SearchPlaces(d) : Rest(d, to) < Rest(d, at) => g[to] = f[to])
                   => SearchFrom(g, d, at) = SearchFrom(f, d, at)
<1>1. PICK v \in Vertices(d), k \in 1 .. Len(d.edges) + 1, seen \in SUBSET Vertices(d) :
        at = <<v, k, seen>>
  BY DEF SearchPlaces
<1> DEFINE e == d.edges[k]
           far == OtherEnd(e, v)
           deep == <<far, 1, seen \cup {far}>>
           next(S) == <<v, k + 1, S>>
<1>2. ASSUME NEW g
      PROVE  SearchFrom(g, d, at) =
               IF k > Len(d.edges) THEN [found |-> FALSE, seen |-> seen]
               ELSE IF ~ Touches(e, v) \/ far \in seen THEN g[next(seen)]
               ELSE IF far = Sink THEN [found |-> TRUE, seen |-> seen]
               ELSE IF g[deep].found THEN g[deep]
               ELSE g[next(g[deep].seen)]
  BY <1>1 DEF SearchFrom
<1>3. ASSUME NEW r, RightAnswer(d, at, r),
             \A g : (\A to \in SearchPlaces(d) : Rest(d, to) < Rest(d, at) => g[to] = f[to])
                     => SearchFrom(g, d, at) = r
      PROVE  /\ RightAnswer(d, at, SearchFrom(f, d, at))
             /\ \A g : (\A to \in SearchPlaces(d) : Rest(d, to) < Rest(d, at) => g[to] = f[to])
                       => SearchFrom(g, d, at) = SearchFrom(f, d, at)
  BY <1>3
<1>4. Len(d.edges) \in Nat
  BY DrawingSize
<1> HIDE DEF e, far
<1>5. CASE k > Len(d.edges)
  <2> DEFINE r == [found |-> FALSE, seen |-> seen]
  <2>1. \A j \in k .. Len(d.edges) : FALSE
    BY <1>4, <1>5
  <2>2. RightAnswer(d, at, r)
    BY <1>1, <2>1 DEF RightAnswer, Explored
  <2>3. \A g : SearchFrom(g, d, at) = r
    BY <1>2, <1>5
  <2> QED BY <1>3, <2>2, <2>3
<1>6. CASE ~ (k > Len(d.edges))
  <2>1. k \in 1 .. Len(d.edges)
    BY <1>4, <1>6
  <2>2. /\ \A S \in SUBSET Vertices(d) : seen \subseteq S =>
             next(S) \in SearchPlaces(d) /\ Rest(d, next(S)) < Rest(d, at)
        /\ Touches(e, v) => far \in Vertices(d) /\ Linked(d, v, far)
        /\ Touches(e, v) /\ far \notin seen =>
             deep \in SearchPlaces(d) /\ Rest(d, deep) < Rest(d, at)
    BY <1>1, <2>1, NextPlaces DEF e, far
  <2>3. \A w, S : Explored(d, w, k, S)
                   <=> Explored(d, w, k + 1, S) /\ (Touches(e, w) => OtherEnd(e, w) \in S)
    <3>1. \A j : j \in k .. Len(d.edges) <=> j = k \/ j \in k + 1 .. Len(d.edges)
      BY <1>4, <2>1
    <3> QED BY <3>1 DEF Explored, e
  <2>4. CASE ~ Touches(e, v) \/ far \in seen
    <3>1. RightAnswer(d, next(seen), f[next(seen)])
      BY <2>2
    <3>2. RightAnswer(d, at, f[next(seen)])
      BY <1>1, <2>3, <2>4, <3>1 DEF RightAnswer, far
    <3>3. \A g : SearchFrom(g, d, at) = g[next(seen)]
      BY <1>2, <1>6, <2>4
    <3> QED BY <1>3, <2>2, <3>2, <3>3
  <2>5. CASE Touches(e, v) /\ far \notin seen /\ far = Sink
    <3> DEFINE r == [found |-> TRUE, seen |-> seen]
    <3>1. Reaches(d, v)
      BY <2>2, <2>5, ReachesAlong
    <3>2. RightAnswer(d, at, r)
      BY <1>1, <3>1 DEF RightAnswer
    <3>3. \A g : SearchFrom(g, d, at) = r
      BY <1>2, <1>6, <2>5
    <3> QED BY <1>3, <3>2, <3>3
  <2>6. CASE Touches(e, v) /\ far \notin seen /\ far # Sink
    <3>1. RightAnswer(d, deep, f[deep]) /\ far \in Vertices(d) /\ Linked(d, v, far)
      BY <2>2, <2>6
    <3>2. CASE f[deep].found
      <4>1. Reaches(d, v)
        BY <3>1, <3>2, ReachesAlong DEF RightAnswer
      <4>2. RightAnswer(d, at, f[deep])
        BY <1>1, <3>1, <3>2, <4>1 DEF RightAnswer
      <4>3. ASSUME NEW g, g[deep] = f[deep] PROVE SearchFrom(g, d, at) = f[deep]
        BY <1>2, <1>6, <2>6, <3>2, <4>3
      <4> QED BY <1>3, <2>2, <2>6, <4>2, <4>3
    <3>3. CASE ~ f[deep].found
      <4> DEFINE more == f[deep].seen
                 r == f[next(more)]
      <4>1. more \in SUBSET Vertices(d) /\ seen \cup {far} \subseteq more
        BY <3>1 DEF RightAnswer
      <4>2. /\ next(more) \in SearchPlaces(d) /\ Rest(d, next(more)) < Rest(d, at)
            /\ RightAnswer(d, next(more), r)
        BY <2>2, <4>1
      <4>3. ASSUME NEW g, g[deep] = f[deep], g[next(more)] = f[next(more)]
            PROVE  SearchFrom(g, d, at) = r
        BY <1>2, <1>6, <2>6, <3>3, <4>3
      <4>4. /\ r.seen \in SUBSET Vertices(d) /\ more \subseteq r.seen
            /\ r.found => Reaches(d, v)
        BY <4>2 DEF RightAnswer
      <4>5. ASSUME ~ r.found, Sink \notin seen
            PROVE  /\ Sink \notin r.seen
                   /\ \A w \in r.seen \ seen : Explored(d, w, 1, r.seen)
                   /\ Explored(d, v, k, r.seen)
        <5>1. /\ Sink \notin more
              /\ \A w \in more \ (seen \cup {far}) : Explored(d, w, 1, more)
              /\ Explored(d, far, 1, more)
          BY <2>6, <3>1, <3>3, <4>5 DEF RightAnswer
        <5>2. /\ Sink \notin r.seen
              /\ \A w \in r.seen \ more : Explored(d, w, 1, r.seen)
              /\ Explored(d, v, k + 1, r.seen)
          BY <4>2, <4>5, <5>1 DEF RightAnswer
        <5>3. \A w : Explored(d, w, 1, more) => Explored(d, w, 1, r.seen)
          BY <4>4 DEF Explored
        <5>4. \A w \in more \ seen : Explored(d, w, 1, r.seen)
          BY <5>1, <5>3
        <5>5. OtherEnd(e, v) \in r.seen
          BY <4>1, <4>4 DEF far
        <5> QED BY <2>3, <5>2, <5>4, <5>5
      <4>6. RightAnswer(d, at, r)
        BY <1>1, <4>1, <4>4, <4>5 DEF RightAnswer
      <4> QED BY <1>3, <2>2, <2>6, <4>2, <4>3, <4>6
    <3> QED BY <3>2, <3>3
  <2> QED BY <2>4, <2>5, <2>6
<1> QED BY <1>5, <1>6

\* search is the search on the places P.
IsSearch(search, d, P) == search = [at \in P |-> SearchFrom(search, d, at)]

\* The search ends: there is such a function, and what it returns is right.
LEMMA SearchEnds ==
  ASSUME NEW d \in Drawings
  PROVE  \E search : /\ \A v \in Vertices(d) :
                            SearchSink(d, v) = search[<<v, 1, {v}>>].found
                     /\ \A at \in SearchPlaces(d) : RightAnswer(d, at, search[at])
<1> DEFINE P(n) == {at \in SearchPlaces(d) : Rest(d, at) < n}
           AllRight(s, n) == \A at \in P(n) : RightAnswer(d, at, s[at])
           Runs == {n \in Nat : \E s : IsSearch(s, d, P(n)) /\ AllRight(s, n)}
<1>1. \A at \in SearchPlaces(d) : Rest(d, at) \in Nat
  BY SizeOfRest
<1>2. \A m \in Nat : \A at \in P(m + 1) :
        \A to \in SearchPlaces(d) : Rest(d, to) < Rest(d, at) => to \in P(m)
  BY <1>1
<1>3. 0 \in Runs
  <2>1. P(0) = {}
    BY <1>1
  <2>2. IsSearch([at \in P(0) |-> {}], d, P(0)) /\ AllRight([at \in P(0) |-> {}], 0)
    BY <2>1 DEF IsSearch
  <2> QED BY <2>2
<1>4. ASSUME NEW m \in Runs PROVE m + 1 \in Runs
  <2>1. m \in Nat /\ m + 1 \in Nat
    OBVIOUS
  <2>2. PICK f : IsSearch(f, d, P(m)) /\ AllRight(f, m)
    OBVIOUS
  <2> DEFINE g == [at \in P(m + 1) |-> SearchFrom(f, d, at)]
  <2>3. ASSUME NEW at \in P(m) PROVE at \in P(m + 1) /\ g[at] = f[at]
    <3>1. at \in P(m + 1)
      BY <1>1, <2>1
    <3>2. f[at] = SearchFrom(f, d, at)
      BY <2>2 DEF IsSearch
    <3> QED BY <3>1, <3>2
  <2>4. ASSUME NEW at \in P(m + 1)
        PROVE  /\ RightAnswer(d, at, g[at])
               /\ g[at] = SearchFrom(g, d, at)
    <3>1. \A to \in SearchPlaces(d) : Rest(d, to) < Rest(d, at) =>
            RightAnswer(d, to, f[to]) /\ g[to] = f[to]
      BY <1>2, <2>1, <2>2, <2>3
    <3> HIDE DEF g
    <3>2. /\ RightAnswer(d, at, SearchFrom(f, d, at))
          /\ SearchFrom(g, d, at) = SearchFrom(f, d, at)
      BY <3>1, SearchStep
    <3> QED BY <3>2 DEF g
  <2>5. g = [at \in P(m + 1) |-> SearchFrom(g, d, at)]
    BY <2>4
  <2>6. IsSearch(g, d, P(m + 1)) /\ AllRight(g, m + 1)
    BY <2>4, <2>5 DEF IsSearch
  <2> QED BY <2>1, <2>6
<1>5. Runs = Nat
  <2> HIDE DEF Runs
  <2>1. Runs \in SUBSET Nat
    BY DEF Runs
  <2> QED BY <1>3, <1>4, <2>1, SetInduction
<1>6. PICK top \in Nat : P(top) = SearchPlaces(d)
  <2>1. PICK n \in Nat : n = (Cardinality(Vertices(d)) + 1) * (Len(d.edges) + 1)
    BY DrawingSize, FS_CardinalityType
  <2> QED BY <2>1, SizeOfRest
<1>7. \E search : IsSearch(search, d, SearchPlaces(d))
  <2>1. top \in Runs
    BY <1>5
  <2> QED BY <1>6, <2>1
<1> DEFINE search == CHOOSE s : IsSearch(s, d, SearchPlaces(d))
<1>8. IsSearch(search, d, SearchPlaces(d))
  BY <1>7
<1>9. \A v \in Vertices(d) : SearchSink(d, v) = search[<<v, 1, {v}>>].found
  BY DEF SearchSink, IsSearch
<1> HIDE DEF search
<1> DEFINE Rights == {n \in Nat : AllRight(search, n)}
<1>10. 0 \in Rights
  BY <1>1
<1>11. ASSUME NEW m \in Rights PROVE m + 1 \in Rights
  <2> SUFFICES ASSUME NEW at \in P(m + 1) PROVE RightAnswer(d, at, search[at])
    OBVIOUS
  <2>1. \A to \in SearchPlaces(d) : Rest(d, to) < Rest(d, at) => RightAnswer(d, to, search[to])
    BY <1>2
  <2>2. RightAnswer(d, at, SearchFrom(search, d, at))
    BY <2>1, SearchStep
  <2> QED BY <1>8, <2>2 DEF IsSearch
<1>12. Rights = Nat
  <2> HIDE DEF Rights
  <2>1. Rights \in SUBSET Nat
    BY DEF Rights
  <2> QED BY <1>10, <1>11, <2>1, SetInduction
<1>13. \A at \in SearchPlaces(d) : RightAnswer(d, at, search[at])
  <2>1. top \in Rights
    BY <1>12
  <2> QED BY <1>6, <2>1
<1> QED BY <1>9, <1>13

\* What a failed search has seen is an island without the sink.
LEMMA SearchIsRight ==
  ASSUME NEW d \in Drawings, NEW v \in Motes(d)
  PROVE  SearchSink(d, v) <=> Reaches(d, v)
<1>1. PICK search :
        /\ \A w \in Vertices(d) : SearchSink(d, w) = search[<<w, 1, {w}>>].found
        /\ \A at \in SearchPlaces(d) : RightAnswer(d, at, search[at])
  BY SearchEnds
<1> DEFINE at == <<v, 1, {v}>>
           r == search[at]
<1>2. v \in Vertices(d) /\ v # Sink
  BY DEF Motes
<1>3. at \in SearchPlaces(d)
  BY <1>2, DrawingSize DEF SearchPlaces
<1>4. SearchSink(d, v) = r.found /\ RightAnswer(d, at, r)
  BY <1>1, <1>2, <1>3
<1>5. ASSUME r.found PROVE Reaches(d, v)
  BY <1>4, <1>5 DEF RightAnswer
<1>6. ASSUME ~ r.found PROVE ~ Reaches(d, v)
  <2>1. /\ r.seen \in SUBSET Vertices(d) /\ v \in r.seen /\ Sink \notin r.seen
        /\ \A w \in r.seen : Explored(d, w, 1, r.seen)
    BY <1>2, <1>4, <1>6 DEF RightAnswer
  <2>2. ASSUME NEW a \in r.seen, NEW b \in Vertices(d), Linked(d, a, b)
        PROVE  b \in r.seen
    <3>1. PICK j \in DOMAIN d.edges : d.edges[j] \in {<<a, b>>, <<b, a>>}
      BY <2>2 DEF Linked
    <3>2. j \in 1 .. Len(d.edges)
      <4>1. d.edges \in Seq(Vertices(d) \X Vertices(d))
        BY DrawingsAre
      <4> QED BY <4>1
    <3>3. Touches(d.edges[j], a) /\ OtherEnd(d.edges[j], a) = b
      BY <3>1 DEF Touches, OtherEnd
    <3> QED BY <2>1, <3>2, <3>3 DEF Explored
  <2> QED BY <2>1, <2>2 DEF Reaches
<1> QED BY <1>4, <1>5, <1>6

\* For every drawing, with branches, rings and double edges, the search finds
\* the sink exactly from the vertices that are connected to it, although all
\* its branches share one set of visited vertices (EditorActions.java:990-1025).
THEOREM SearchIsComplete == Spec => []SearchFindsSink
<1>1. EditorInv => SearchFindsSink
  BY SearchIsRight DEF EditorInv, SearchFindsSink
<1> QED BY <1>1, InvariantTypes, PTL
==============================================================================
