----------------------------- MODULE SerialLink -----------------------------
(***************************************************************************)
(* The threads at the coordinator's serial link and the monitors they      *)
(* share: SerialWorker (monitor W), SendSetup (monitor S), the reader      *)
(* thread of SerialNodeDispatcher and the lock of its BufferedReader,      *)
(* which readLine holds while it blocks.  What a line says is left to      *)
(* Deployment; here it is an answer, an answer with a wrong checksum, or   *)
(* some other output of the mote.                                          *)
(***************************************************************************)
EXTENDS Naturals, Sequences

CONSTANTS
  Destinations,  \* how many wrappers the worker goes through
  MaxRounds,     \* bound on the rounds of a deployment
  MaxOutput      \* bound on the lines the mote prints

ASSUME SerialLinkAssumption ==
  /\ Destinations \in Nat
  /\ MaxRounds \in Nat /\ MaxOutput \in Nat

VARIABLES
  pc,        \* where SerialWorker.run is
  i,         \* its loop variable, from 1
  round,     \* how many rounds were begun
  W, S,      \* who is inside the monitors of SerialWorker and of SendSetup
  link,      \* serialHelper: not there yet, open or closed
  keywords,  \* were keywords ever set?
  response,  \* latestResponse: "none", or the "mask" of an answer
  reader,    \* where the reader thread is
  inHand,    \* the line it works on
  took,      \* history: the round in which it entered SendSetup's monitor
  output,    \* lines the mote printed and nobody read
  printed    \* how many lines the mote printed

workerVars == <<pc, i, round, response>>
readerVars == <<reader, inHand, took>>
moteVars == <<output, printed>>
vars == <<pc, i, round, W, S, link, keywords, response, reader, inHand, took,
          output, printed>>

Line == {"nack", "bad", "other"}

TypeOK ==
  /\ pc \in {"init", "head", "call", "send", "park", "wait", "wake",
             "close", "closed", "aborted"}
  /\ i \in 1 .. Destinations + 1 /\ round \in Nat
  /\ W \in {"free", "worker"} /\ S \in {"free", "worker", "reader"}
  /\ link \in {"none", "open", "closed"} /\ keywords \in BOOLEAN
  /\ response \in {"none", "mask"}
  /\ reader \in {"none", "idle", "reading", "receive", "deliver", "signal",
                 "dead", "ended"}
  /\ inHand \in Line /\ took \in Nat
  /\ output \in Seq(Line) /\ printed \in Nat

\* run() begins by entering the worker's own monitor.
Init ==
  /\ pc = "init" /\ i = 1 /\ round = 0 /\ W = "worker" /\ S = "free"
  /\ link = "none" /\ keywords = FALSE /\ response = "none"
  /\ reader = "none" /\ inHand = "other" /\ took = 0
  /\ output = <<>> /\ printed = 0

-----------------------------------------------------------------------------
(* SerialWorker *)

\* new SerialCommunicator: connect, buildListener.
Open == link' = "open" /\ reader' = "idle"

\* initUSB opens the only port, or it returns when the user has closed the
\* modal SerialPortSelector.  If that happened without a choice, or if listing
\* the ports failed, the worker goes on without a link.
InitUSB ==
  /\ pc = "init" /\ pc' = "head"
  /\ (link = "none" /\ Open) \/ UNCHANGED <<link, reader>>
  /\ UNCHANGED <<i, round, W, S, keywords, response, inHand, took, moteVars>>

\* The user picks a port in the dialog, which disables its button.
ChoosePort ==
  /\ pc = "init" /\ link = "none"
  /\ Open
  /\ UNCHANGED <<workerVars, W, S, keywords, inHand, took, moteVars>>

\* A slip: one round too many.
BeginRoundPastEnd ==
  /\ pc = "head" /\ i <= Destinations + 1 /\ round < MaxRounds
  /\ pc' = "call"
  /\ UNCHANGED <<i, round, W, S, link, keywords, response, readerVars, moteVars>>

BeginRound ==
  /\ pc = "head" /\ i <= Destinations /\ round < MaxRounds
  /\ pc' = "call"
  /\ UNCHANGED <<i, round, W, S, link, keywords, response, readerVars, moteVars>>

\* The cancel button: run() returns, and nothing stops the reader thread.
Abort ==
  /\ pc = "head" /\ i <= Destinations
  /\ pc' = "aborted" /\ W' = "free"
  /\ UNCHANGED <<i, round, S, link, keywords, response, readerVars, moteVars>>

LeaveLoop ==
  /\ pc = "head" /\ i > Destinations
  /\ pc' = "close" /\ W' = "free"
  /\ UNCHANGED <<i, round, S, link, keywords, response, readerVars, moteVars>>

\* A slip: sendMsgAndKeywords is not synchronized.
EnterSendUnsynchronized ==
  /\ pc = "call"
  /\ round' = round + 1
  /\ IF link = "open" THEN pc' = "send" /\ keywords' = TRUE
                      ELSE pc' = "park" /\ UNCHANGED keywords
  /\ UNCHANGED <<i, W, S, link, response, readerVars, moteVars>>

\* sendMsgAndKeywords: enter S; without a link there is nothing to do.
EnterSend ==
  /\ pc = "call" /\ S = "free"
  /\ round' = round + 1
  /\ IF link = "open" THEN pc' = "send" /\ S' = "worker" /\ keywords' = TRUE
                      ELSE pc' = "park" /\ UNCHANGED <<S, keywords>>
  /\ UNCHANGED <<i, W, link, response, readerVars, moteVars>>

LeaveSend ==
  /\ pc = "send" /\ pc' = "park" /\ S' = "free"
  /\ UNCHANGED <<i, round, W, link, keywords, response, readerVars, moteVars>>

\* this.wait(RTT) leaves W, and needs it again to return.
BeginWait ==
  /\ pc = "park" /\ pc' = "wait" /\ W' = "free"
  /\ UNCHANGED <<i, round, S, link, keywords, response, readerVars, moteVars>>

TimeOut ==
  /\ pc = "wait" /\ pc' = "wake"
  /\ UNCHANGED <<i, round, W, S, link, keywords, response, readerVars, moteVars>>

\* wait returns and analyseNACK runs, inside W: no answer, everything arrived
\* or something is missing.
AnalyseNACK ==
  /\ pc = "wake" /\ W = "free"
  /\ W' = "worker" /\ pc' = "head" /\ response' = "none"
  /\ i' \in IF response = "none" THEN {i} ELSE {i, i + 1}
  /\ UNCHANGED <<round, S, link, keywords, readerVars, moteVars>>

\* A slip: stop() destroys the link under a reader that blocks in readLine.
CleanUSBWithoutClose ==
  /\ pc = "close"
  /\ pc' = "closed" /\ link' = "closed"
  /\ UNCHANGED <<i, round, W, S, keywords, response, readerVars, moteVars>>

\* SerialCommunicator.stop: reader.close() needs the lock that readLine holds.
CleanUSB ==
  /\ pc = "close" /\ reader # "reading"
  /\ pc' = "closed" /\ link' = "closed"
  /\ UNCHANGED <<i, round, W, S, keywords, response, readerVars, moteVars>>

-----------------------------------------------------------------------------
(* SerialNodeDispatcher.run and SendSetup.receiveString *)

\* Reading from a closed stream throws, which ends the thread.
EnterRead ==
  /\ reader = "idle"
  /\ reader' = IF link = "closed" THEN "ended" ELSE "reading"
  /\ UNCHANGED <<workerVars, W, S, link, keywords, inHand, took, moteVars>>

\* A line arrives.  matchKeyword enters the monitor of keywords: while that is
\* null, the thread dies of a NullPointerException.
ReadLine ==
  /\ reader = "reading" /\ output # <<>>
  /\ inHand' = Head(output) /\ output' = Tail(output)
  /\ reader' = IF ~ keywords THEN "dead"
               ELSE IF Head(output) = "other" THEN "idle" ELSE "receive"
  /\ UNCHANGED <<workerVars, W, S, link, keywords, took, printed>>

\* receiveString: enter S; the checksum decides whether there is an answer.
EnterReceive ==
  /\ reader = "receive" /\ S = "free"
  /\ S' = "reader" /\ took' = round
  /\ reader' = IF inHand = "nack" THEN "deliver" ELSE "signal"
  /\ UNCHANGED <<workerVars, W, link, keywords, inHand, moteVars>>

\* A slip: receiveFailedTransmissions is not synchronized.
DeliverUnsynchronized ==
  /\ reader = "deliver"
  /\ response' = "mask" /\ reader' = "signal"
  /\ UNCHANGED <<pc, i, round, W, S, link, keywords, inHand, took, moteVars>>

\* receiveFailedTransmissions, inside W.
Deliver ==
  /\ reader = "deliver" /\ W = "free"
  /\ response' = "mask" /\ reader' = "signal"
  /\ UNCHANGED <<pc, i, round, W, S, link, keywords, inHand, took, moteVars>>

\* notify, inside W: it wakes the worker if that is waiting, or nobody.
Notify ==
  /\ reader = "signal" /\ W = "free"
  /\ pc' = IF pc = "wait" THEN "wake" ELSE pc
  /\ reader' = "idle" /\ S' = "free"
  /\ UNCHANGED <<i, round, W, link, keywords, response, inHand, took, moteVars>>

-----------------------------------------------------------------------------
(* The mote: answers follow a round, other output may come at any time. *)

Output(l) ==
  /\ link = "open" /\ printed < MaxOutput
  /\ l = "other" \/ round > 0
  /\ output' = Append(output, l) /\ printed' = printed + 1
  /\ UNCHANGED <<workerVars, W, S, link, keywords, readerVars>>

Worker == \/ InitUSB \/ BeginRound \/ LeaveLoop \/ EnterSend \/ LeaveSend
          \/ BeginWait \/ TimeOut \/ AnalyseNACK \/ CleanUSB
Reader == EnterRead \/ ReadLine \/ EnterReceive \/ Deliver \/ Notify

Next ==
  \/ InitUSB \/ BeginRound \/ LeaveLoop \/ EnterSend \/ LeaveSend
  \/ BeginWait \/ TimeOut \/ AnalyseNACK \/ CleanUSB
  \/ EnterRead \/ ReadLine \/ EnterReceive \/ Deliver \/ Notify
  \/ ChoosePort \/ Abort \/ \E l \in Line : Output(l)

Spec == Init /\ [][Next]_vars

\* Both threads run whenever they are not blocked; users and motes need not.
LiveSpec == Spec /\ WF_vars(Worker) /\ WF_vars(Reader)

-----------------------------------------------------------------------------
(* Properties *)

\* What the worker relies on (AnswerWait).
AnswersInTime ==
  INSTANCE AnswerWait WITH
    response <- response,
    phase <- CASE pc \in {"wait", "wake"} -> "waiting"
               [] pc \in {"close", "closed", "aborted"} -> "over"
               [] OTHER -> "busy"
AnswersOnlyInWait == AnswersInTime!Spec

\* An answer the reader thread is handing over while the worker waits was
\* picked up in the round that waits: between two rounds the worker needs S,
\* which the reader keeps until it has notified.
DeliveryWithinRound ==
  pc = "wait" /\ reader \in {"deliver", "signal"} => took = round

\* A reader thread whose link was closed comes to an end; none is left behind
\* to read the next deployment's answers.
ReaderEnds == link = "closed" ~> reader \in {"ended", "dead"}

\* The worker never waits for S inside W while the reader waits for W inside
\* S: after every wait it goes on, with an answer or "interrupted by timer"
\* (SendSetup.java:51-53).
NobodyStuck ==
  ~ /\ pc = "call" /\ W = "worker"
    /\ reader \in {"deliver", "signal"} /\ S = "reader"
=============================================================================
