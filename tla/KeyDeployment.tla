---------------------------- MODULE KeyDeployment ----------------------------
(***************************************************************************)
(* What a deployment promises.  The nodes are served in the order of the   *)
(* queue.  The coordinator goes on to the next node only when the present  *)
(* one holds all keys meant for it ("returns true if all messages          *)
(* arrived", SerialWorker.java:122), and a node that is complete stays so  *)
(* until it loses power, new keys are generated or the user starts again.  *)
(***************************************************************************)
EXTENDS Integers, Sequences

CONSTANT Queue    \* the destinations, in the order they are served

VARIABLES served,     \* how many destinations the coordinator has finished
          complete,   \* the positions in Queue whose node holds all its keys
          failed      \* those whose node has been without power

vars == <<served, complete, failed>>

TypeOK == /\ served \in 0 .. Len(Queue)
          /\ complete \subseteq 1 .. Len(Queue)
          /\ failed \subseteq 1 .. Len(Queue)

Init == served = 0 /\ complete = {} /\ failed = {}

\* Keys reach the node being served; it may become complete.
Install ==
  /\ served < Len(Queue)
  /\ complete' = complete \cup {served + 1}
  /\ UNCHANGED <<served, failed>>

\* The coordinator moves on.  Of a node that lost its keys together with its
\* power nothing can be promised.
Advance ==
  /\ served < Len(Queue)
  /\ served + 1 \in complete \cup failed
  /\ served' = served + 1
  /\ UNCHANGED <<complete, failed>>

\* A node is switched off and on.
PowerLoss ==
  /\ \E p \in 1 .. Len(Queue) : complete' = complete \ {p} /\ failed' = failed \cup {p}
  /\ UNCHANGED served

\* Another deployment, after the last one ended or was aborted, with the same
\* keys or with new ones; with the same keys the nodes that have them are
\* still complete.
Restart ==
  /\ served' = 0
  /\ complete' \in {complete, {}}
  /\ UNCHANGED failed

Next == Install \/ Advance \/ PowerLoss \/ Restart
Spec == Init /\ [][Next]_vars
=============================================================================
