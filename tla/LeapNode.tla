------------------------------ MODULE LeapNode ------------------------------
(***************************************************************************)
(* One receiving node on its own: the messages of Arriving reach it in any *)
(* order, as often as they like, or not at all, and it may be switched off *)
(* and on.  The answers it gives and its nack_process are watched.         *)
(***************************************************************************)
EXTENDS LeapReceiver, Addresses, FiniteSets

CONSTANTS Arriving,    \* the data frames the node may receive
          MaxHeard     \* bound on the frames accepted between two answers

ASSUME LeapNodeAssumption ==
  /\ Nodes = {SetupAddress(n) : n \in Names}
  /\ Arriving \subseteq DataFrame /\ MaxHeard \in Nat

VARIABLES ram,        \* the node's RAM
          heard,      \* history: the frames accepted since the last answer
          answer      \* history: the last answer, and the frames it is about

vars == <<ram, heard, answer>>

TypeOK == /\ ram \in NodeState
          /\ heard \subseteq Arriving
          /\ answer \in [mask : SUBSET Bits, frames : SUBSET Arriving]

Init == /\ ram = Booted
        /\ heard = {}
        /\ answer = [mask |-> {}, frames |-> {}]

\* recv_uc for a message whose checksum is right.
Receive(f) ==
  LET known == KnowSender(ram, f.src)
  IN  /\ Cardinality(heard \cup {f}) <= MaxHeard
      /\ ram' = Multiplex(known, f)
      /\ heard' = IF AnswerDue(f) THEN {} ELSE heard \cup {f}
      /\ answer' = IF AnswerDue(f)
                     THEN [mask |-> AnswerMask(known, f), frames |-> heard \cup {f}]
                     ELSE answer

PowerCycle ==
  /\ ram # Booted
  /\ ram' = Booted /\ heard' = {}
  /\ UNCHANGED answer

\* nack_process, once its timer has run out.
NackTimer ==
  /\ ram.nack_process = "armed"
  /\ IF ram.nack_running > 0
       THEN /\ ram' = [Answered(ram) EXCEPT !.nack_process = "idle"]
            /\ answer' = [mask |-> ram.sequence_mask, frames |-> heard]
            /\ heard' = {}
       ELSE /\ ram' = [ram EXCEPT !.nack_process = "idle"]
            /\ UNCHANGED <<heard, answer>>

\* nack_process is never started (NackProcessIdle), so Spec leaves its timer
\* out; TimerSpec has it, with the fairness of a timer.
Next == PowerCycle \/ \E f \in Arriving : Receive(f)
Spec == Init /\ [][Next]_vars
TimerSpec == Init /\ [][Next \/ NackTimer]_vars /\ WF_vars(NackTimer)

-----------------------------------------------------------------------------
(* Properties *)

\* No message makes the node start nack_process: process_header asks for
\* nack_running = 1 before it sets nack_running to 1 (leap.c:189-191).
NackProcessIdle == ram.nack_running = 0 /\ ram.nack_process = "idle"

\* An answer names exactly the messages accepted since the answer before it,
\* and so does the mask of the answer that is being collected.
AnswerTruthful ==
  /\ answer.mask = {f.seq : f \in answer.frames}
  /\ ram.sequence_mask = {f.seq : f \in heard}

\* What the node has accepted but not answered yet is in its key lists, and
\* the basic keys are those of some basic message it accepted.
HeardIsStored ==
  \A f \in heard :
    IF f.msg.type = "basic" THEN ram.basic # NoKey
    ELSE /\ \A a \in f.msg.pairwise : ram.pairwise[a] # NoKey
         /\ \A a \in f.msg.cluster : ram.cluster[a] # NoKey

\* A node that looks up a neighbour's key, under the address from which that
\* neighbour's frames come, finds it if it has received it, and nobody else's.
KeysFoundByAddress ==
  LET found(keys, n) ==
        RimeAddr2Int(SetupAddress(n)) \in
          {StoredAddress(m) : m \in {l \in Names : keys[SetupAddress(l)] # NoKey}}
  IN  \A n \in Names :
        /\ found(ram.pairwise, n) <=> ram.pairwise[SetupAddress(n)] # NoKey
        /\ found(ram.cluster, n) <=> ram.cluster[SetupAddress(n)] # NoKey

\* A node that waits for the rest of a burst does not wait for ever: "NACK
\* needs to be send if remaining_counter does not change for a certain
\* threashold of time" (leap.c:404-405).
PartialBurstAnswered == ram.sequence_mask # {} ~> ram.sequence_mask = {}
=============================================================================
