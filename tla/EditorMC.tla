------------------------------ MODULE EditorMC ------------------------------
(***************************************************************************)
(* Small drawings for EditorWorkflow.                                      *)
(***************************************************************************)
EXTENDS EditorWorkflow, TLC

TwoAddresses == {"1.1", "1.2"}
SomeLabels == TwoAddresses \cup {"new node", "Sink"}
Project == {"net"}
EditorFile == {"mxe"}
EditorFileAndPicture == {"mxe", "svg"}
NoFiles == <<>>

\* A chain of two motes, and three motes in a ring that is not connected to
\* the sink.
Chain == [label |-> (0 :> "Sink") @@ (1 :> "1.1") @@ (2 :> "1.2"),
          edges |-> <<<<1, 0>>, <<1, 2>>>>]
Ring == [label |-> (0 :> "Sink") @@ (1 :> "1.1") @@ (2 :> "1.2") @@ (3 :> "new node"),
         edges |-> <<<<1, 2>>, <<3, 2>>, <<3, 1>>>>]

Stored ==
  ([base |-> "net", ext |-> "mxe"] :> Chain) @@
  ([base |-> "net", ext |-> "vdx"] :> Ring) @@
  ([base |-> "net", ext |-> "txt"] :> Ring)
=============================================================================
