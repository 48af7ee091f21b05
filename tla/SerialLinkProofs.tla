-------------------------- MODULE SerialLinkProofs --------------------------
(***************************************************************************)
(* Theorems about the threads at the serial link, for every number of      *)
(* destinations, rounds and lines, however the port is found.              *)
(***************************************************************************)
EXTENDS SerialLink, TLAPS

\* Who is inside which monitor, from where the threads are.
MonitorsHeld ==
  /\ W = "worker" <=> pc \in {"init", "head", "call", "send", "park"}
  /\ S = "worker" <=> pc = "send"
  /\ S = "reader" <=> reader \in {"deliver", "signal"}

\* Outside a wait there is no answer to be found: the loop starts every round
\* with latestResponse empty.
NoAnswerKept ==
  pc \in {"init", "head", "call", "send", "park"} => response = "none"

\* The reader keeps S, which every new round needs, from the moment it picks
\* up a line until it has notified.
LineOfThisRound == reader \in {"deliver", "signal"} => took = round

\* Inside the loop there is a wrapper left, and only a link has a reader.
LoopAndLink ==
  /\ pc \in {"call", "send", "park", "wait", "wake"} => i <= Destinations
  /\ link = "none" => reader = "none"

LinkInv == TypeOK /\ MonitorsHeld /\ NoAnswerKept /\ LineOfThisRound /\ LoopAndLink

\* The initial state is in order.
LEMMA InitLinkInv == Init => LinkInv
<1> SUFFICES ASSUME Init PROVE LinkInv
  OBVIOUS
<1>1. /\ i \in 1 .. Destinations + 1 /\ round \in Nat /\ took \in Nat /\ printed \in Nat
      /\ output \in Seq(Line) /\ inHand \in Line
      /\ keywords = FALSE
  BY SerialLinkAssumption DEF Init, Line
<1>2. TypeOK
  BY <1>1 DEF Init, TypeOK
<1> QED BY <1>2 DEF Init, LinkInv, MonitorsHeld, NoAnswerKept, LineOfThisRound, LoopAndLink

\* The steps of the worker and of the user.
LEMMA WorkerLinkInv ==
  ASSUME LinkInv,
         \/ InitUSB \/ BeginRound \/ LeaveLoop \/ EnterSend \/ LeaveSend
         \/ BeginWait \/ TimeOut \/ AnalyseNACK \/ CleanUSB \/ ChoosePort \/ Abort
  PROVE  LinkInv'
<1> USE SerialLinkAssumption
    DEF LinkInv, TypeOK, MonitorsHeld, NoAnswerKept, LineOfThisRound, LoopAndLink,
        workerVars, readerVars, moteVars
<1>1. CASE InitUSB
  BY <1>1 DEF InitUSB, Open
<1>2. CASE BeginRound
  BY <1>2 DEF BeginRound
<1>3. CASE LeaveLoop
  BY <1>3 DEF LeaveLoop
<1>4. CASE EnterSend
  <2>1. S = "free" /\ pc = "call" /\ reader \notin {"deliver", "signal"}
    BY <1>4 DEF EnterSend
  <2>2. CASE link = "open"
    BY <1>4, <2>1, <2>2 DEF EnterSend
  <2>3. CASE link # "open"
    BY <1>4, <2>1, <2>3 DEF EnterSend
  <2> QED BY <2>2, <2>3
<1>5. CASE LeaveSend
  BY <1>5 DEF LeaveSend
<1>6. CASE BeginWait
  BY <1>6 DEF BeginWait
<1>7. CASE TimeOut
  BY <1>7 DEF TimeOut
<1>8. CASE AnalyseNACK
  BY <1>8 DEF AnalyseNACK
<1>9. CASE CleanUSB
  BY <1>9 DEF CleanUSB
<1>10. CASE ChoosePort
  BY <1>10 DEF ChoosePort, Open
<1>11. CASE Abort
  BY <1>11 DEF Abort
<1> QED BY <1>1, <1>2, <1>3, <1>4, <1>5, <1>6, <1>7, <1>8, <1>9, <1>10, <1>11

\* The steps of the reader thread and of the mote.
LEMMA ReaderLinkInv ==
  ASSUME LinkInv,
         \/ EnterRead \/ ReadLine \/ EnterReceive \/ Deliver \/ Notify
         \/ \E l \in Line : Output(l)
  PROVE  LinkInv'
<1> USE DEF LinkInv, TypeOK, MonitorsHeld, NoAnswerKept, LineOfThisRound,
            LoopAndLink, workerVars, readerVars, moteVars
<1>1. CASE EnterRead
  BY <1>1 DEF EnterRead
<1>2. CASE ReadLine
  <2>1. Head(output) \in Line /\ Tail(output) \in Seq(Line)
    BY <1>2 DEF ReadLine
  <2> QED BY <1>2, <2>1 DEF ReadLine
<1>3. CASE EnterReceive
  BY <1>3 DEF EnterReceive
<1>4. CASE Deliver
  BY <1>4 DEF Deliver
<1>5. CASE Notify
  BY <1>5 DEF Notify
<1>6. ASSUME NEW l \in Line, Output(l) PROVE LinkInv'
  <2>1. Append(output, l) \in Seq(Line)
    OBVIOUS
  <2> QED BY <1>6, <2>1 DEF Output
<1> QED BY <1>1, <1>2, <1>3, <1>4, <1>5, <1>6

\* Every step keeps it in order.
LEMMA NextLinkInv == LinkInv /\ [Next]_vars => LinkInv'
<1> SUFFICES ASSUME LinkInv, [Next]_vars PROVE LinkInv'
  OBVIOUS
<1>1. ASSUME UNCHANGED vars PROVE LinkInv'
  BY <1>1 DEF vars, LinkInv, TypeOK, MonitorsHeld, NoAnswerKept, LineOfThisRound, LoopAndLink
<1> QED BY <1>1, WorkerLinkInv, ReaderLinkInv DEF Next

\* Threads, monitors and the link are always in a state the code has a name for,
\* and run's loop variable never leaves the list of wrappers by more than one.
THEOREM LinkTyped == Spec => []TypeOK
<1>1. LinkInv => TypeOK
  BY DEF LinkInv
<1> QED BY <1>1, InitLinkInv, NextLinkInv, PTL DEF Spec

\* An answer that reaches a waiting worker was picked up in the round that is
\* waiting, never left over from an earlier one (SendSetup's monitor).
THEOREM AnswersBelongToRound == Spec => []DeliveryWithinRound
<1>1. LinkInv => DeliveryWithinRound
  BY DEF LinkInv, LineOfThisRound, DeliveryWithinRound
<1> QED BY <1>1, InitLinkInv, NextLinkInv, PTL DEF Spec

\* The threads and their two monitors implement AnswerWait: latestResponse
\* changes only while the worker waits, so analyseNACK reads a settled value.
THEOREM LinkImplementsAnswerWait == Spec => AnswersOnlyInWait
<1>1. Init => AnswersInTime!Init
  BY DEF Init, AnswersInTime!Init
<1>2. ASSUME LinkInv, [Next]_vars PROVE [AnswersInTime!Next]_AnswersInTime!vars
  <2> USE DEF AnswersInTime!Next, AnswersInTime!vars, AnswersInTime!Wait,
              AnswersInTime!Answer, AnswersInTime!Analyse, AnswersInTime!End,
              workerVars, readerVars, moteVars, LinkInv, TypeOK
  <2>1. CASE UNCHANGED vars
    BY <2>1 DEF vars
  <2>2. CASE InitUSB \/ BeginRound \/ EnterSend \/ LeaveSend
    BY <2>2 DEF InitUSB, BeginRound, EnterSend, LeaveSend
  <2>3. CASE LeaveLoop \/ Abort
    BY <1>2, <2>3 DEF LeaveLoop, Abort, NoAnswerKept
  <2>4. CASE BeginWait
    BY <2>4 DEF BeginWait
  <2>5. CASE TimeOut \/ CleanUSB \/ ChoosePort
    BY <2>5 DEF TimeOut, CleanUSB, ChoosePort, Open
  <2>6. CASE AnalyseNACK
    BY <2>6 DEF AnalyseNACK
  <2>7. CASE EnterRead \/ ReadLine \/ EnterReceive \/ \E l \in Line : Output(l)
    BY <2>7 DEF EnterRead, ReadLine, EnterReceive, Output
  <2>8. CASE Deliver
    BY <1>2, <2>8 DEF Deliver, MonitorsHeld
  <2>9. CASE Notify
    BY <2>9 DEF Notify
  <2> QED BY <1>2, <2>1, <2>2, <2>3, <2>4, <2>5, <2>6, <2>7, <2>8, <2>9 DEF Next
<1> QED BY <1>1, <1>2, InitLinkInv, NextLinkInv, PTL
     DEF Spec, AnswersOnlyInWait, AnswersInTime!Spec
=============================================================================
