---------------------------- MODULE LeapReceiver ----------------------------
(***************************************************************************)
(* The handlers of leap.c and the key lists of srime.c, as operators on    *)
(* the RAM of one node.  A handler runs to completion in Contiki's event   *)
(* loop, so one application of an operator is one event.                   *)
(*                                                                         *)
(* Key material is abstracted to the generation (the press of "Generate")  *)
(* it comes from; 0 stands for "no key".  A key list maps an address to    *)
(* the generation of the key stored for it.  block_key_insertion is 0      *)
(* throughout: nothing calls lock_key_insertion, and lock is 1 only while  *)
(* recv_uc runs.                                                           *)
(***************************************************************************)
EXTENDS Integers

CONSTANT Nodes    \* the rime addresses of the network, pairs <<u8[0], u8[1]>>

NoAddr == <<0, 0>>          \* key_sender after start-up
ASSUME NodesAssumption == NoAddr \notin Nodes

Bits == 0 .. 7              \* what a 3-bit header field can hold
NoKey == 0

\* The contents of one LEAP message: a basic message carries the node's own
\* keys, an extended one the keys shared with the named neighbours.
Message == [type : {"basic"}, pairwise : {{}}, cluster : {{}}]
             \cup [type : {"extended"}, pairwise : SUBSET Nodes, cluster : SUBSET Nodes]

\* A message of generation gen on its way, with the header it was given.
DataFrame == [kind : {"data"}, src : Nodes, msg : Message,
              gen : Nat \ {0}, seq : Bits, rem : Bits]
\* The answer: which sequence numbers the node has seen.
NackFrame == [kind : {"nack"}, src : Nodes, mask : SUBSET Bits]
Frame == DataFrame \cup NackFrame

NodeState ==
  [key_sender : Nodes \cup {NoAddr},
   nack_running : {0, 1},
   nack_process : {"idle", "armed"},
   start_nack_proc : {0, 1},
   sequence_mask : SUBSET Bits,
   total_expected : 0 .. 14,
   remaining_counter : Bits,
   basic : Nat,
   pairwise : [Nodes -> Nat],
   cluster : [Nodes -> Nat]]

\* RAM after power-up: the static initialisers, then sky_shell_process.
\* restore_keys() restores nothing.
Booted ==
  [key_sender |-> NoAddr, nack_running |-> 0, nack_process |-> "idle",
   start_nack_proc |-> 0, sequence_mask |-> {}, total_expected |-> 0,
   remaining_counter |-> 7, basic |-> NoKey,
   pairwise |-> [a \in Nodes |-> NoKey], cluster |-> [a \in Nodes |-> NoKey]]

-----------------------------------------------------------------------------
(* srime.c *)

\* A slip: list_remove is called and the new key takes the place of the old.
InsertOverwriting(keys, addrs, gen) ==
  [a \in Nodes |-> IF a \in addrs THEN gen ELSE keys[a]]

\* insert_into_list for every address in addrs: the first key stays.
Insert(keys, addrs, gen) ==
  [a \in Nodes |-> IF a \in addrs /\ keys[a] = NoKey THEN gen ELSE keys[a]]

-----------------------------------------------------------------------------
(* leap.c *)

\* A slip: every sender is the key sender.
KnowLastSender(n, from) == [n EXCEPT !.key_sender = from]

KnowSender(n, from) ==
  IF n.key_sender = NoAddr THEN [n EXCEPT !.key_sender = from] ELSE n

ParseBasic(n, f) == [n EXCEPT !.basic = f.gen]

\* A slip: the prologue of a cluster key is not recognised.
ParsePairwiseOnly(n, f) ==
  [n EXCEPT !.pairwise = Insert(n.pairwise, f.msg.pairwise, f.gen)]

ParseExtended(n, f) ==
  [n EXCEPT !.pairwise = Insert(n.pairwise, f.msg.pairwise, f.gen),
            !.cluster  = Insert(n.cluster, f.msg.cluster, f.gen)]

\* A slip: the mask is not reset.
AnsweredKeepingMask(n) ==
  [n EXCEPT !.nack_running = 0, !.total_expected = 0, !.remaining_counter = 0]

\* The bookkeeping at the end of send_ack_nack.
Answered(n) ==
  [n EXCEPT !.nack_running = 0, !.total_expected = 0,
            !.sequence_mask = {}, !.remaining_counter = 0]

\* A slip: a burst has at least two messages.
AnswerDueAfterFirst(f) == f.rem = 0 /\ f.seq > 0

\* The mask in the answer, and when an answer is due.
AnswerMask(n, f) == n.sequence_mask \cup {f.seq}
AnswerDue(f) == f.rem = 0

\* Comment at leap.c:478 "so we dont send to ourselves".  The test wants both
\* octets to differ, not just the address.
AnswersByRadio(n, self) ==
  /\ n.key_sender[1] # self[1]
  /\ n.key_sender[2] # self[2]

\* A slip: total_expected adds up.
HeaderSeenAdding(n, f) ==
  [n EXCEPT !.start_nack_proc = IF n.total_expected = 0 THEN 1 ELSE @,
            !.total_expected = @ + f.seq + f.rem,
            !.remaining_counter = f.rem,
            !.sequence_mask = AnswerMask(n, f)]

HeaderSeen(n, f) ==
  [n EXCEPT !.start_nack_proc = IF n.total_expected = 0 THEN 1 ELSE @,
            !.total_expected = f.seq + f.rem,
            !.remaining_counter = f.rem,
            !.sequence_mask = AnswerMask(n, f)]

\* A slip, if it is one: the process is started when it is not running.
ArmsWhenNotRunning(n, f) ==
  /\ HeaderSeen(n, f).start_nack_proc = 1
  /\ f.rem > 0
  /\ n.nack_running = 0

ArmsNackProcess(n, f) ==
  /\ HeaderSeen(n, f).start_nack_proc = 1
  /\ f.rem > 0
  /\ n.nack_running = 1

ProcessHeader(n, f) ==
  IF ArmsNackProcess(n, f)
    THEN [HeaderSeen(n, f) EXCEPT !.nack_running = 1, !.nack_process = "armed"]
    ELSE IF AnswerDue(f) THEN Answered(HeaderSeen(n, f)) ELSE HeaderSeen(n, f)

\* multiplex_message for a message whose checksum is right.
Multiplex(n, f) ==
  IF f.msg.type = "basic" THEN ProcessHeader(ParseBasic(n, f), f)
                          ELSE ProcessHeader(ParseExtended(n, f), f)
=============================================================================
