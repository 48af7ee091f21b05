------------------------------ MODULE LossyRelay ------------------------------
(***************************************************************************)
(* What a deployment needs of the gateway mote: a queue of lines from the  *)
(* coordinator and, behind it, a queue of frames to each node.  Anything   *)
(* may be lost on the way, nothing arrives twice, out of order, at another *)
(* node or as a mixture of two lines.  Deployment's line and air are these *)
(* queues.                                                                 *)
(*                                                                         *)
(* Lines are numbered as they are written, so that a queue is the set of   *)
(* the numbers in it, and the first in the queue is the least.             *)
(***************************************************************************)
EXTENDS Naturals, Sequences

CONSTANTS Peers, Lines    \* the nodes; the destination of each line

VARIABLES begun,   \* how many lines the coordinator has begun to write
          line,    \* the lines on their way to the gateway
          air,     \* the frames on their way to each node
          heard    \* what each node has received

vars == <<begun, line, air, heard>>

Init ==
  /\ begun = 0 /\ line = {}
  /\ air = [n \in Peers |-> {}] /\ heard = [n \in Peers |-> <<>>]

FirstOf(k, numbers) == k \in numbers /\ \A j \in numbers : k <= j

Write ==
  /\ begun < Len(Lines)
  /\ begun' = begun + 1
  /\ line' \in {line, line \cup {begun'}}
  /\ UNCHANGED <<air, heard>>

LoseLine ==
  /\ line' \subseteq line
  /\ UNCHANGED <<begun, air, heard>>

Forward(k) ==
  /\ FirstOf(k, line)
  /\ line' = line \ {k}
  /\ air' \in {air, [air EXCEPT ![Lines[k]] = @ \cup {k}]}
  /\ UNCHANGED <<begun, heard>>

LoseFrame(n) ==
  /\ \E kept \in SUBSET air[n] : air' = [air EXCEPT ![n] = kept]
  /\ UNCHANGED <<begun, line, heard>>

Receive(n, k) ==
  /\ FirstOf(k, air[n])
  /\ heard' = [heard EXCEPT ![n] = Append(@, k)]
  /\ air' = [air EXCEPT ![n] = @ \ {k}]
  /\ UNCHANGED <<begun, line>>

Next ==
  \/ Write \/ LoseLine
  \/ \E k \in 1 .. Len(Lines) : Forward(k)
  \/ \E n \in Peers : LoseFrame(n) \/ \E k \in air[n] : Receive(n, k)
Spec == Init /\ [][Next]_vars
=============================================================================
