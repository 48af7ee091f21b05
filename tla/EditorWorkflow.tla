--------------------------- MODULE EditorWorkflow ---------------------------
(***************************************************************************)
(* The coordinator's editor: what the user may do with the drawing, the    *)
(* three flags that record what is out of date, the two buttons that are   *)
(* set from the flags, the key store, the files, and the deployment that   *)
(* is started.  All handlers run one after the other on Swing's event      *)
(* thread, so every handler is one action.  Drawing an edge, typing a      *)
(* label and cutting cells is done by the graph library, which reports the *)
(* change to the editor's changeTracker.                                   *)
(***************************************************************************)
EXTENDS Topology

CONSTANTS
  Labels,        \* what vertices may be called
  Unnamed,       \* the label of a new vertex when nodes.txt offers none
  Pool,          \* the addresses in nodes.txt
  Bases,         \* file names, without extension
  Formats,       \* the formats the user saves in, of "mxe", "txt" and "svg"
  Shelf,         \* the files that exist at first, with their drawings
  MaxVertices, MaxEdges, MaxEdits,   \* bounds
  HistorySize    \* how many edits can be taken back

ASSUME EditorAssumption ==
  /\ Formats \subseteq {"mxe", "txt", "svg"}
  /\ {Unnamed, "Sink"} \subseteq Labels /\ Pool \subseteq Labels /\ Addresses \subseteq Labels
  /\ MaxVertices \in Nat /\ MaxEdges \in Nat /\ MaxEdits \in Nat
  /\ HistorySize \in Nat \ {0}

\* "mxe" stands for .mxe, .xml and PNG with XML, "svg" for every picture. A
\* file chosen for saving may lack its extension.
NoExtension == "none"
File == [base : Bases, ext : {"mxe", "txt", "svg", "vdx", NoExtension}]
NoFile == [base |-> "", ext |-> NoExtension]

\* What can be drawn: some vertices with their labels, and edges between them.
IsDrawing(d) ==
  \E V \in SUBSET (0 .. MaxVertices) :
    d \in [label : [V -> Labels], edges : Seq(V \X V)]

ASSUME ShelfAssumption == \A f \in DOMAIN Shelf : f \in File /\ IsDrawing(Shelf[f])

VARIABLES
  drawing,
  modified, verify_modified, key_modified,
  generateEnabled, deployEnabled,   \* the buttons
  keyStore,
  availableNodes,
  past, future,      \* undoManager: drawings that Undo and Redo bring back
  disk,              \* the existing files, with the drawing each was written from
  currentFile,
  started,           \* the deployment started last, and the drawing it was for
  edits              \* number of edits and saves, for the bound

flags == <<modified, verify_modified, key_modified>>
buttons == <<generateEnabled, deployEnabled>>
history == <<past, future>>
files == <<disk, currentFile>>
vars == <<drawing, flags, buttons, keyStore, availableNodes, history, files,
          started, edits>>

Blank == [label |-> [v \in {Sink} |-> "Sink"], edges |-> <<>>]

\* f with y put at x.
Put(f, x, y) == [z \in DOMAIN f \cup {x} |-> IF z = x THEN y ELSE f[z]]

Init ==
  /\ drawing = Blank
  /\ modified = FALSE /\ verify_modified = FALSE /\ key_modified = FALSE
  /\ generateEnabled = FALSE /\ deployEnabled = FALSE
  /\ keyStore = NoKeyStore
  /\ availableNodes = Pool
  /\ past = <<>> /\ future = <<>>
  /\ disk = Shelf /\ currentFile = NoFile
  /\ started = [drawing |-> Blank, queue |-> <<>>]
  /\ edits = 0

SetModified(b) == modified' = b /\ verify_modified' = b /\ key_modified' = b

UpdateTitle ==
  /\ generateEnabled' = ~ verify_modified'
  /\ deployEnabled' = (~ verify_modified' /\ ~ key_modified')

\* The last HistorySize of the drawings s.
Recent(s) == SubSeq(s, IF Len(s) > HistorySize THEN Len(s) - HistorySize + 1 ELSE 1, Len(s))

\* A slip: the changeTracker is not told.
ChangedUnnoticed(d) ==
  /\ edits < MaxEdits /\ edits' = edits + 1
  /\ drawing' = d
  /\ UNCHANGED flags
  /\ past' = Recent(Append(past, drawing)) /\ future' = <<>>

\* The graph model changes: undoHandler notes the edit, changeTracker sets the
\* flags.
Changed(d) ==
  /\ edits < MaxEdits /\ edits' = edits + 1
  /\ drawing' = d
  /\ SetModified(TRUE)
  /\ past' = Recent(Append(past, drawing)) /\ future' = <<>>

-----------------------------------------------------------------------------
(* Editing *)

\* addVertex, from a double click, the menu or the toolbar.
AddVertex ==
  LET v == Max(Vertices(drawing) \cup {0}) + 1
      With(n) == [drawing EXCEPT !.label = Put(@, v, n)]
  IN  /\ v <= MaxVertices
      /\ \/ \E n \in availableNodes :
              Changed(With(n)) /\ availableNodes' = availableNodes \ {n}
         \/ availableNodes = {} /\ Changed(With(Unnamed)) /\ UNCHANGED availableNodes
      /\ UpdateTitle
      /\ UNCHANGED <<keyStore, files, started>>

\* In the graph component; nothing updates the title and the buttons.
Connect(v, w) ==
  /\ v # w /\ Len(drawing.edges) < MaxEdges
  /\ Changed([drawing EXCEPT !.edges = Append(@, <<v, w>>)])
  /\ UNCHANGED <<buttons, keyStore, availableNodes, files, started>>

Rename(v, n) ==
  /\ drawing.label[v] # n
  /\ Changed([drawing EXCEPT !.label[v] = n])
  /\ UNCHANGED <<buttons, keyStore, availableNodes, files, started>>

\* deleteSelectedCells leaves the sink alone, cutting does not.
DeleteSelectedCells(cells, lines) ==
  /\ (cells \ {Sink}) \cup lines # {}
  /\ Changed(Removed(drawing, cells \ {Sink}, lines))
  /\ UNCHANGED <<buttons, keyStore, availableNodes, files, started>>

Cut(cells) ==
  /\ cells # {}
  /\ Changed(Removed(drawing, cells, {}))
  /\ UNCHANGED <<buttons, keyStore, availableNodes, files, started>>

\* "Lose Changes?" and the answer make no difference to what may happen.
NewTopology == DeleteSelectedCells(Vertices(drawing), DOMAIN drawing.edges)

\* With nothing to take back the flags are set all the same.
Undo ==
  /\ IF past = <<>>
     THEN UNCHANGED <<drawing, history>>
     ELSE /\ drawing' = past[Len(past)]
          /\ past' = SubSeq(past, 1, Len(past) - 1)
          /\ future' = <<drawing>> \o future
  /\ SetModified(TRUE) /\ UpdateTitle
  /\ UNCHANGED <<keyStore, availableNodes, files, started, edits>>

Redo ==
  /\ IF future = <<>>
     THEN UNCHANGED <<drawing, history>>
     ELSE /\ drawing' = Head(future)
          /\ past' = Append(past, drawing)
          /\ future' = Tail(future)
  /\ SetModified(TRUE) /\ UpdateTitle
  /\ UNCHANGED <<keyStore, availableNodes, files, started, edits>>

-----------------------------------------------------------------------------
(* Files *)

\* The try block of save: the file gets the drawing, except that an extension
\* for which there is no writer makes ImageIO.write return false.
Write(f, chosen) ==
  /\ f.ext \in {"svg", NoExtension} => Vertices(drawing) # {}   \* else no image data
  /\ disk' = IF f.ext = NoExtension THEN disk ELSE Put(disk, f, drawing)
  /\ currentFile' = IF f.ext = "mxe" THEN f ELSE chosen
  /\ SetModified(FALSE) /\ UpdateTitle

\* Writing fails, or the user does not want to override a file: the file
\* chosen is the current one already.
NotWritten(chosen) ==
  currentFile' = chosen /\ UNCHANGED <<disk, flags, buttons>>

\* SaveAction, also behind "Save As": the dialog is only shown as long as
\* there is no current file.
Save ==
  /\ edits < MaxEdits /\ edits' = edits + 1
  /\ \/ /\ currentFile = NoFile
        /\ \E chosen \in File, ext \in Formats :
             /\ chosen.ext \in {ext, NoExtension}
             /\ \/ Write([chosen EXCEPT !.ext = ext], chosen)
                \/ NotWritten(chosen)
     \/ /\ currentFile # NoFile
        /\ Write(currentFile, currentFile) \/ NotWritten(currentFile)
  /\ UNCHANGED <<drawing, keyStore, availableNodes, history, started>>

\* resetEditor; nothing updates the title and the buttons.
ResetEditor == SetModified(FALSE) /\ past' = <<>> /\ future' = <<>>

OpenXml(f) ==
  /\ f.ext = "mxe"
  /\ drawing' = disk[f] /\ currentFile' = f
  /\ ResetEditor
  /\ UNCHANGED <<buttons, keyStore, availableNodes, disk, started, edits>>

\* openVdx clears the graph, unless the user does not want to override a
\* file; the editor is reset in both cases.
OpenVdx(f) ==
  /\ f.ext = "vdx"
  /\ drawing' \in {Empty} \cup (IF [f EXCEPT !.ext = "mxe"] \in DOMAIN disk
                                  THEN {drawing} ELSE {})
  /\ ResetEditor
  /\ UNCHANGED <<buttons, keyStore, availableNodes, files, started, edits>>

\* openGD: two changes, clear and decode. The format knows no labels.
OpenGD(f) ==
  /\ f.ext = "txt"
  /\ drawing' = [disk[f] EXCEPT !.label = [v \in DOMAIN @ |-> Unnamed]]
  /\ currentFile' = [f EXCEPT !.ext = "mxe"]
  /\ SetModified(TRUE)
  /\ past' = Recent(past \o <<drawing, Empty>>) /\ future' = <<>>
  /\ UNCHANGED <<buttons, keyStore, availableNodes, disk, started, edits>>

Open == \E f \in DOMAIN disk : OpenXml(f) \/ OpenVdx(f) \/ OpenGD(f)

-----------------------------------------------------------------------------
(* Verifying, generating, deploying *)

\* A topology that fails leaves everything as it is.
Verify ==
  /\ Verified(drawing)
  /\ verify_modified' = FALSE
  /\ UNCHANGED <<modified, key_modified>> /\ UpdateTitle
  /\ UNCHANGED <<drawing, keyStore, availableNodes, history, files, started, edits>>

Generate ==
  /\ generateEnabled
  /\ keyStore' = Generated(drawing)
  /\ key_modified' = FALSE
  /\ UNCHANGED <<modified, verify_modified>> /\ UpdateTitle
  /\ UNCHANGED <<drawing, availableNodes, history, files, started, edits>>

\* The motes' vertices in their order.
InOrder(d) ==
  [i \in 1 .. Cardinality(Motes(d)) |->
     CHOOSE v \in Motes(d) : Cardinality({w \in Motes(d) : w <= v}) = i]

\* A mote without keys makes the handler fail before it starts the worker.
Deploy ==
  LET labels == [i \in DOMAIN InOrder(drawing) |-> drawing.label[InOrder(drawing)[i]]]
  IN  /\ deployEnabled
      /\ \A i \in DOMAIN labels : Deployable(keyStore, labels[i])
      /\ started' = [drawing |-> drawing,
                     queue |-> [i \in DOMAIN labels |-> Bundle(keyStore, labels[i])]]
      /\ UNCHANGED <<drawing, flags, buttons, keyStore, availableNodes, history,
                     files, edits>>

Next ==
  \/ AddVertex
  \/ \E v, w \in Vertices(drawing) : Connect(v, w)
  \/ \E v \in Vertices(drawing), n \in Labels : Rename(v, n)
  \/ \E cells \in SUBSET Vertices(drawing), lines \in SUBSET DOMAIN drawing.edges :
       DeleteSelectedCells(cells, lines)
  \/ \E cells \in SUBSET Vertices(drawing) : Cut(cells)
  \/ NewTopology \/ Undo \/ Redo
  \/ Save \/ Open
  \/ Verify \/ Generate \/ Deploy

Spec == Init /\ [][Next]_vars

-----------------------------------------------------------------------------
(* Properties *)

TypeOK ==
  /\ IsDrawing(drawing)
  /\ \A i \in DOMAIN past : IsDrawing(past[i])
  /\ \A i \in DOMAIN future : IsDrawing(future[i])
  /\ Len(past) + Len(future) <= HistorySize
  /\ \A f \in DOMAIN disk : f \in File /\ IsDrawing(disk[f])
  /\ \A b \in {modified, verify_modified, key_modified, generateEnabled,
               deployEnabled} : b \in BOOLEAN
  /\ availableNodes \subseteq Pool
  /\ currentFile \in File \cup {NoFile}
  /\ edits \in 0 .. MaxEdits

\* verify_modified and key_modified say what they are called while the drawing
\* has unsaved changes: what was verified, and what keys were generated for,
\* is the drawing as it is, whatever was undone, redone or edited in between.
FlagsAreRight ==
  modified =>
    /\ ~ verify_modified => Verified(drawing)
    /\ ~ key_modified => keyStore = Generated(drawing)

\* searchSink finds the sink exactly from the vertices that are connected to
\* it, although the set of visited vertices is shared by all branches of the
\* search (EditorActions.java:990-1013).
SearchFindsSink ==
  \A v \in Motes(drawing) : SearchSink(drawing, v) <=> Reaches(drawing, v)

\* Two bundles of a deployment agree, even if the keys are older than the
\* drawing: who has a pairwise key for the other shares it with him, who has
\* the other's cluster key gave him his own, and the individual key is the
\* sink's (KeyStore.java:8-16).
BundlesAgree ==
  \A i, j \in DOMAIN started.queue :
    LET a == started.queue[i]
        b == started.queue[j]
    IN  /\ a.individual # NoKey
        /\ b.destination \in DOMAIN a.pairwise =>
             /\ a.destination \in DOMAIN b.pairwise
             /\ a.pairwise[b.destination] = b.pairwise[a.destination]
        /\ b.destination \in DOMAIN a.cluster => a.destination \in DOMAIN b.cluster

\* Keys generated for a drawing without double names: neighbours, and nobody
\* else, have a pairwise key for each other, the same one, and the key of each
\* other's cluster; a key that was made for a pair or for the sink is nobody
\* else's; and so there are as many pairwise as cluster keys, and
\* MessageWrapper never refuses them (MessageWrapper.java:18).
NeighboursShare(store, d, v, w) ==
  LET a == store.nodes[d.label[v]]
      b == store.nodes[d.label[w]]
  IN  /\ d.label[w] \in DOMAIN a.pairwise \cap DOMAIN a.cluster \cap DOMAIN b.cluster
      /\ d.label[v] \in DOMAIN b.pairwise
      /\ a.pairwise[d.label[w]] = b.pairwise[d.label[v]]
      /\ a.cluster[d.label[w]] = b.cluster[d.label[w]]

HeldBy(store, d, key) ==
  {v \in Motes(d) :
     LET a == store.nodes[d.label[v]]
     IN  key = a.individual \/ \E n \in DOMAIN a.pairwise : a.pairwise[n] = key}

KeysFit(store, d) ==
  \A v \in Motes(d) :
    LET a == store.nodes[d.label[v]]
    IN  /\ a.individual = store.sink[d.label[v]]
        /\ HeldBy(store, d, a.individual) = {v}
        /\ \A w \in Motes(d) \ {v} :
             IF Linked(d, v, w)
               THEN /\ NeighboursShare(store, d, v, w)
                    /\ HeldBy(store, d, a.pairwise[d.label[w]]) = {v, w}
               ELSE d.label[w] \notin DOMAIN a.pairwise \cup DOMAIN a.cluster
GeneratedKeysFit ==
  [][keyStore' # keyStore /\ CheckForDoubleNames(drawing)
       => KeysFit(keyStore', drawing)]_vars

\* "let the tool check the connectivity to the sink and generate the keys. ...
\* After everything is generated hit on deploy" (README:25): a deployment is
\* for a drawing that passes the checks, with its keys.
DeployedWhatIsDrawn ==
  started.queue # <<>> =>
    /\ Verified(started.drawing)
    /\ KeysFit(Generated(started.drawing), started.drawing)
    /\ \A i \in DOMAIN started.queue :
         started.queue[i] = Bundle(Generated(started.drawing),
                                   started.queue[i].destination)

\* The editor only asks "Lose Changes?" if modified is set
\* (EditorActions.java:105-107): without it, some file was written from the
\* drawing, or there is nothing to lose.
NothingLost ==
  ~ modified => drawing \in {Blank, Empty} \/ \E f \in DOMAIN disk : disk[f] = drawing
=============================================================================
