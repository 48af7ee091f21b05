----------------------------- MODULE AnswerWait -----------------------------
(***************************************************************************)
(* What SerialWorker relies on between the lines it sends and the answer   *)
(* it analyses: an answer is put into latestResponse only while the worker *)
(* waits for one, so that analyseNACK reads a value nobody changes under   *)
(* its hands and the next round starts without one.  Deployment treats the *)
(* two threads in this way (its action Response).                          *)
(***************************************************************************)
VARIABLES phase,      \* "busy" with a round, "waiting" for its answer, "over"
          response    \* "none", or the answer's "mask"

vars == <<phase, response>>

Init == phase = "busy" /\ response = "none"

Wait == /\ phase = "busy"
        /\ phase' = "waiting"
        /\ UNCHANGED response

\* An answer arrives.  One that arrives after the end is never looked at.
Answer == /\ phase \in {"waiting", "over"}
          /\ response' = "mask"
          /\ UNCHANGED phase

\* The wait is over and the answer, if there is one, is used up.
Analyse == /\ phase = "waiting"
           /\ phase' = "busy"
           /\ response' = "none"

End == /\ phase = "busy"
       /\ phase' = "over"
       /\ response = "none"
       /\ UNCHANGED response

Next == Wait \/ Answer \/ Analyse \/ End
Spec == Init /\ [][Next]_vars
=============================================================================
