# Verification of topkey

topkey deploys LEAP keys to wireless sensor motes. A person draws the network
in a Java editor (the *coordinator*), the editor generates one key store for
the drawing, and a worker thread sends every mote its keys over a serial line
to a *gateway* mote, which forwards them by radio. The motes run Contiki with
the LEAP application of the repository; they collect the messages of a burst
and answer with a bit mask of what arrived, and the coordinator sends the rest
again until nothing is missing.

This directory holds TLA+ models of that system, the TLC configurations that
check them on small instances, and TLAPS proofs of theorems about them for all
values of the constants. `PROJECT.json` maps each definition to the lines it
models, lists the runs, the properties, the hazards and the findings.

    tlc -config LeapNode.cfg LeapNodeMC      # one run
    tlapm GatewayProofs.tla                  # one proof module

Paths below are relative to `src/`; Java classes are those of
`coordinator/src/de/cased/`.


## 1. The system

| Component | State | Operations | Talks to | Where modelled |
|---|---|---|---|---|
| LEAP receiver (`contiki-image/topkey/leap.c`, `core/net/rime/srime.c`) | `key_sender`, the mask of a burst, its counters, the flags of `nack_process`, the key lists, all in RAM | `recv_uc`, `process_message`, the parsers, `process_header`, `send_ack_nack`, `nack_process`, `insert_into_list` | radio, console | `LeapReceiver`, `LeapNode` |
| Message splitting and acknowledgement (`MessageWrapper`, `Bitter`, `BasicMessage`, `ExtendedMessage`) | the list of messages a destination still needs | constructor, `generateHeader`, `adjustMisses`; the mask arithmetic of `analyseNACK` | worker | `MessageWrapper`, and their bytes in `Wire` |
| Deployment protocol (`SerialWorker`, the setup command of the gateway) | loop variable, wrappers, `latestResponse` | `run`, `analyseNACK`, cancel, deploy again | serial line, receivers | `Deployment`, `KeyDeployment` |
| Serial link threads (`SerialWorker`, `SendSetup`, `SerialCommunicator`, `SerialNodeDispatcher`) | two monitors, the lock of the reader, the link, the keywords | worker thread, reader thread, port dialog, closing of the link | each other | `SerialLink`, `AnswerWait` |
| Node address reading (`StealthNodeAdder`, `ButtonToggle`) | none that changes | none that is reached | serial link | not modelled |
| Editor workflow (`Editor`, `EditorActions`) | drawing, undo history, three *modified* flags, two buttons, key store, current file, pool of addresses | edit, undo, redo, save, open, verify, generate, deploy | Swing's event thread | `EditorWorkflow` |
| Topology checks and key generation (`EditorActions`, `KeyStore`, `NodeKeyStore`, `Sink`) | none of its own | `VerifyAction`, `GenerateAction`, the bundles of `DeployAction` | editor | `Topology` |
| Checksums and addresses (`CRC16`, `core/lib/crc16.c`, `verify_crc`, `transformTo16BitHexString`, `rimeaddr2int`) | none | pure functions on both sides | all | `Wire`, `Addresses`, `NodeOnWire` |
| Rollout, the way from a drawing to the nodes' RAM | that of its parts | verify, generate, wrap, deploy | editor, splitting, deployment | `Rollout` |
| Contiki on the gateway (vendored: serial input, kernel, timers, CSMA, ContikiMAC) | ring buffer, line buffer, poll flags, event queue, timers, packet queues, remembered sequence numbers | interrupts, event loop, `setup` command, transmissions | serial line, receivers | `Gateway`, `LossyRelay` |
| Settings (`Config`) | constants | reads `config.ini` | all | not modelled |
| GUI helpers | layout | key bindings, dialogs | editor | not modelled |

**How they interact.** The editor's *Deploy* builds one bundle of keys per mote
(`Topology!Bundle`), wraps each into messages (`MessageWrapper!Wrap`) and starts
one worker with the list of wrappers (`Deployment!Queue`, `Messages`). The
worker writes a burst of `setup` lines inside two monitors, waits for at most
`RTT` (80 ms, `coordinator/config.ini:3`), and reads the field `latestResponse` that the reader thread
may have set meanwhile. On the other side, the gateway executes the lines one
after the other (`Gateway`); each is a radio frame, and the handler of the frame with
remaining counter 0 sends the answer back to `key_sender`.

**What is hard about it.**

* *Concurrency.* Worker and reader thread share `latestResponse` and two
  monitors, which they enter in opposite order; closing the link needs a third
  lock that a blocked `readLine` holds.
* *Ordering and loss.* Bursts are lost in part. After a partial answer the list
  of the missing messages is renumbered (and reversed), and from then on the
  same bit means another message. Neither answers nor messages carry a round.
* *Timeouts.* Only a wait that runs out repeats a round; an answer that comes
  after it is taken for the next round's.
* *Restarts.* A mote keeps everything in RAM. A deployment may be cancelled and
  started again, with the same keys or with newly generated ones.
* *Full buffers and interrupts.* The gateway's serial input fills a ring buffer
  from an interrupt while the CPU is busy with a transmission; lines, timers
  and packets wait in queues of fixed length; the CPU sleeps if it believes
  that nothing is left to do.
* *Two implementations of one format.* Messages, answers, checksums and
  addresses are built in Java and taken apart in C, or the other way round,
  byte by byte and with different byte orders.
* *Stale flags.* Three booleans say which of drawing, verification and keys are
  out of date; edits, undo, files and checks set them, two buttons follow them,
  at some of the places where they change.

**What makes each component correct.**

* Receiver: an answer names exactly what was accepted since the previous one
  (`AnswerTruthful`), what was accepted is stored (`HeardIsStored`), a stored
  key is not disturbed (`StoredKeysStay`), the answer goes to the node that
  sent the keys (`AcksWhoSentKeys`).
* Splitting: every key is in exactly one message (`SplitIsExact`), headers tell
  the messages apart as far as three bits can (`HeadersTellApart`), and what an
  answer does not cover, and only that, is sent again
  (`DroppedMessagesArrived`, `MaskIsCurrent`).
* Bytes: both sides mean the same by a message (`FramesUnderstood`), an answer
  (`AnswersUnderstood`), a checksum (`ChecksumIsCcitt`) and an address
  (`KeysFoundByAddress`), and damage is noticed (`DamageIsSeen`).
* Gateway: lines are lost or forwarded, never mixed up, doubled or sent to
  another node (`RelayKept`, `NoMixture`); no buffer is overwritten while it is
  read (`BufferHeld`), no queue of the kernel overflows (`PostsSucceed`), nothing
  is left behind when the CPU sleeps (`SleepsOnlyWhenDone`, `QueueHasTimer`,
  `ComesToRest`).
* Rollout: nodes share keys with their neighbours in the drawing, and with
  nobody else (`SharedKeysFit`), and know each other's cluster keys until new
  ones are generated (`ClusterKeysAgree`).
* Deployment: the coordinator leaves only complete nodes behind
  (`ServedComplete`, `PromiseKept`), and a deployment ends (`DeploymentEnds`).
* Link: an answer appears only while one is waited for (`AnswersOnlyInWait`),
  in the round it was read in (`DeliveryWithinRound`), nobody blocks for ever
  (`NobodyStuck`), no reader outlives its link (`ReaderEnds`).
* Editor: the flags tell the truth (`FlagsAreRight`), what is deployed is what
  is drawn (`DeployedWhatIsDrawn`), no change is lost (`NothingLost`).
* Topology: the search finds the sink where it is connected
  (`SearchFindsSink`); generated keys are shared by neighbours and by nobody
  else (`GeneratedKeysFit`), bundles of one deployment agree (`BundlesAgree`).


## 2. The modules

    LeapReceiver ──┬── LeapNode ─────┬── NodeOnWire ── LeapNodeMC
                   │       └─────────│── LeapNodeProofs (WireProofs, MessageProofs)
    Addresses ─────│── Wire ─────────┘
    MessageWrapper ┴── Deployment ── DeploymentMC
           └── Wire        │  │ └─── DeploymentProofs (MessageProofs)
                           │  └ implements KeyDeployment
                           └ Rollout ─┬ RolloutMC
                                      └ RolloutProofs (DeploymentProofs)
    Topology ──┬── Rollout
               └── EditorWorkflow ── EditorMC
                           └──────── EditorProofs
    SerialLink ── implements AnswerWait, proved in SerialLinkProofs
    Gateway ── GatewayMC, GatewayProofs
        └ implements LossyRelay, the queues of Deployment

An operator whose comment starts with "A slip" is a plausible mistake in the
definition that follows it. Nothing uses these operators; put in the place of
that definition, each makes TLC find a property violated, which is how we know
that the property says something about the code.

### LeapReceiver: the handlers of one mote

A node's RAM is one record, `NodeState`, whose fields have the names of the
static variables of `leap.c`. A Contiki handler runs to completion, so each is
an operator from RAM to RAM: `KnowSender` (the assignment to `key_sender` in
`recv_uc`), `ParseBasic`, `ParseExtended` with `Insert` (`insert_into_list`,
which keeps the first key of an address), `HeaderSeen`, `ArmsNackProcess` and
`ProcessHeader` (`process_header`), `Answered` (the end of `send_ack_nack`),
`Multiplex` (`multiplex_message`). `AnswersByRadio` is the test that decides
between radio and console; it compares the octets of the address separately.
Key material is abstracted to the generation it comes from.

### LeapNode: a receiver on its own

One node receives any message of its wrapper in any order, repeated or not at
all, and may lose power. Two history variables remember the frames accepted
since the last answer and what the last answer was about. `NackTimer` is the
body of `nack_process`; `Spec` leaves it out because it can never be enabled
(which `NackProcessIdle` shows), `TimerSpec` has it.

### MessageWrapper: splitting and acknowledging

Pure operators: `ExtendedMessages` (the packing loop, as a recursive function of
the pair of its counters; `NextKeys` is one turn of the loop and `KeysBetween`
the message it makes), `GenerateHeader` with `Field` (`Bitter.setSeq`,
`setRem`: three bits, a larger value leaves 0), `Misses`, `Descending` and
`AdjustMisses` (the mask arithmetic and the new list, in reverse order).
`Slots` is the code's `freeSlots` (5).

### Wire, Addresses and NodeOnWire: the bytes

`Wire` translates both ends of each format: `GenerateMessage` (with `Bitter`'s
header byte, the entities and `CRC16`) against `VerifyCrc`, `HeaderOf`,
`ParseBasicMessage` and `ParseExtendedMessage`; `SendAckNack` against
`ReceiveString`. A number that the code computes with bits is the set of its
bits here: `&` is `\cap`, `|` is `\cup`, `Shift` is a shift in a word of a given
width. `Crc16Add` is the C code with its 16-bit shorts, `Crc16Step` a turn of the
loop in Java with its masks, `CcittRemainder` the definition of the checksum, bit
by bit. The hexadecimal text of a byte is left out.
`Addresses` has the three ways the octets of a label go: into the setup line,
into a message, and into the integer a node looks up.

`NodeOnWire` composes this with `LeapNode`: each frame the node may receive is
`FrameOf` a message, and `BytesOf` the same message; so what `LeapReceiver` and
`Deployment` take for a record is shown to be what the bytes say. Damage is one
byte that arrives as any other byte.

### Deployment: the protocol as a whole

| Code | Model |
|---|---|
| `SerialWorker.run` | `pc`, `i`, `wrappers`, `sent`; `StartRound`, `SendLine`, `BeginWait`, `Finish`, `Abort` |
| `analyseNACK`, one action per outcome | `NoAnswer`, `NothingMissing`, `SomethingMissing` |
| `SendSetup.receiveString` | `Response`, `CorruptResponse` |
| `sky_shell_process` and the setup command at the gateway | `Forward`, `SetupLocally` |
| `recv_uc` at any mote | `ReceiveData`, `ReceiveNack` |
| a new worker, after *Deploy* or *Generate* and *Deploy* | `Redeploy` |
| overrun serial input; MAC failure, full queue, bad checksum; a cancelled deployment's reader that takes the answer | `LoseLine`, `LoseFrame`, `LoseResponse` |
| a mote loses power | `Reboot` |

The serial line, the air to each node and the gateway's console are sequences:
in order, and anything in them may be lost. `Prompt` states the one assumption
about time. With `Prompt = TRUE` a wait runs out only when nothing is under way
any more. The code does not guarantee it: `serial.RTT` is 80 ms, while a
receiver looks at its channel only 8 times a second
(`contiki-image/platform/sky/contiki-conf.h:22`), the burst is written byte by
byte to a serial line, and the MAC retries. So `Prompt = FALSE` is checked as
well, for the properties that hold then and for what goes wrong. Of the
theorems of `DeploymentProofs` those about types, keys and senders hold for both
values; those about rounds (from `RoundsAreInOrder` on) need `TRUE`.

`KeyDeployment` is the abstract promise: `served` destinations, and the set of
those whose nodes are `complete`; the coordinator may advance only past a
complete one. `PromiseKept` is the refinement, with `served <- i - 1`.

### Rollout: from the drawing to the nodes

`Rollout` instantiates `Deployment` with the messages that `Topology` and
`MessageWrapper` make of a drawing: `DrawnMessages` wraps the bundle of every
mote. `SharedKeysFit` and `ClusterKeysAgree` are about both ends, the drawing and
the RAM of the nodes.
`RolloutMC` gives the messages of the chain as a literal (TLC would compute
them again in every state); `RolloutAssumption`, which TLC evaluates, says that
they are the drawing's. `Rollout` also looks at the splitting itself, with the
code's five slots (`Code`): `Split` is what the wrapper makes for every number of
neighbours up to `MaxKeys`, `Headers` the headers of these messages.

### Gateway and LossyRelay: the mote in between

| Code | Model |
|---|---|
| `uart1_rx_interrupt`, `serial_line_input_byte`, `ringbuf_put` | `UartInterrupt`, `UartError`, `InputByte`, `RingbufPut` |
| timer interrupt of `clock.c`, `etimer_request_poll` | `ClockInterrupt` |
| `main`, `process_run`, `do_poll`, `do_event`, `process_poll` | `Sleep`, `ProcessRun`, `PollSerial`, `PollEtimer`, `PollInBroadcast`, `NoEvent`, `EndBroadcast` |
| `serial_line_process` | `TakePiece`, `EndLine`, `RingEmpty`, `Continue` |
| `etimer_process`, `ctimer_process` | `PostTimer`, `EndExpire`, `TransmitPacketList` |
| `shell_input`, the setup command, `csma.c: send_packet` | `ShellInput`, `SendPacket` |
| `contikimac.c: qsend_list`, `csma.c: packet_sent`, `free_first_packet` | `TransmitOK`, `TransmitNoAck`, `TransmitLater`, `FreeFirstPacket` |
| `contikimac.c: input_packet` of the receiving node | `Hear` |

The platform is sky (msp430). The model goes by steps of the CPU; an interrupt
may come between any two. A line is a few numbered pieces, so that one can see
which line a piece came from; a line that lost a piece is either no command, or
a frame with a wrong checksum (`Garbage`), for any destination. CSMA gives
packet 0 no number, so the framer's random one is used (`SeqOfPacket`). A node
may remember numbers of an earlier life of the gateway (`Remembered`), and then
drops what it acknowledges. A neighbour has one timer at a time, CSMA's or the
phase module's; the two other users of `ctimer_process` that may have an event
in the queue leave room in the code's eight entries, and `NumEvents` has the
room that the modelled ones need. `TransmitLater` also stands for the case that
the radio is receiving a burst.

`LossyRelay` is what `Deployment` assumes of all this: a queue of lines and one
of frames per node, from which anything may get lost, but where nothing is
mixed, doubled, reordered or misdirected. Lines are numbered as they are written,
so that a queue is the set of the numbers in it and its first element the least.
`RelayKept` is the refinement: the lines on their way (`Coming`) are those whose
pieces, as far as written, are all in the ring buffer or in `buf` (`Stream`), and
the frames on their way to a node (`Flying`) are those in its packet queue that
it has not heard yet.

### SerialLink and AnswerWait: the threads

Here the content of an answer is gone, and the monitors are variables: `W` (the
worker's own) and `S` (`SendSetup`'s), each with its owner. Every entry into a
synchronized method is an action that needs the monitor; `this.wait` leaves `W`
and needs it again to return; `notify` is lost on a worker that does not wait.
The reader keeps `S` through `Deliver` and `Notify`, as `receiveString` does.
`reader = "reading"` means that the lock inside `BufferedReader` is held.
`AnswerWait` is what the worker relies on: an answer is put down only during a
wait, and used up at its end. `Deployment` is written against it: its action
`Response` is enabled only while `pc = "waiting"`.

### Topology and EditorWorkflow: from the drawing to the bundles

A drawing is a record of labels and of edges in the order they were drawn.
`Topology` has the depth-first search of `VerifyAction` with its shared set of
visited vertices (a recursive function of vertex, edge and visited set, whose
body `SearchFrom` says what the search does at one of these places),
the two checks of names, the key store of `GenerateAction`, where what is put
for a label replaces what was put before, and the bundles of `DeployAction`. A
key is named by the vertex or edge it was made for.

`EditorWorkflow` has one action per handler of `EditorActions` and per change
the graph library makes. `Changed` is every change of the graph model:
`undoHandler` notes it, `changeTracker` sets the three flags. `UpdateTitle` is
part of exactly those actions whose handler calls it. `Save` is the whole
handler, with the dialog, the extension, the answer to "override?" and the case
in which no writer exists. `disk` maps each file to the drawing it was written
from. Swing runs all handlers on one thread, so each is one step.


## 3. The runs

Deadlock checking is off in every configuration, because every model really may
stop: a deployment is done or aborted, the link is closed, a bound on rounds,
edits or losses is reached. That nobody stops where he must not is said by
properties (`DeploymentEnds`, `NobodyStuck`, `ReaderEnds`).

| Run | Checks | What it shows |
|---|---|---|
| `leap_node` | `TypeOK`, `NackProcessIdle`, `AnswerTruthful`, `HeardIsStored`, `ChecksumIsCcitt`, `FramesUnderstood`, `AnswersUnderstood`, `DamageIsSeen`, `KeysFoundByAddress` | A node that receives its messages in any order, repeated or not, and may lose power answers for exactly what it accepted and has stored it; and the bytes of all this mean the same to both sides. |
| `deployment` | `TypeOK`, `ServedComplete`, `DroppedMessagesArrived`, `MaskIsCurrent`, `RoundInOrder`, `SharedKeysFit`, `ClusterKeysAgree`, `SplitIsExact`, `HeadersTellApart`, `PromiseKept`, `DeploymentEnds` | With a long enough `RTT`, whatever is lost and whichever nodes lose power, renumbering the list is sound, only complete nodes are left behind, neighbours share keys, know each other's cluster keys exactly as long as none are generated anew, and the deployment ends once the losses stop; the protocol implements `KeyDeployment`, across two deployments and two generations of keys. |
| `deployment_adverse` | `AcksWhoSentKeys`, `StoredKeysStay` | With late answers, cancellation, redeployment, losses and a reboot all together, a node keeps its gateway and its keys. |
| `serial_link` | `TypeOK`, `DeliveryWithinRound`, `AnswersOnlyInWait`, `ReaderEnds` | The monitors do what `Deployment` takes for granted, in every interleaving of the two threads and the user. |
| `editor` | `TypeOK`, `FlagsAreRight`, `SearchFindsSink`, `BundlesAgree`, `GeneratedKeysFit` | Whatever is edited, taken back, saved or opened, the flags of a modified drawing are right, the search is complete, and keys fit each other. |
| `gateway` | `TypeOK`, `SleepsOnlyWhenDone`, `BufferHeld`, `PostsSucceed`, `NoMixture`, `QueueHasTimer`, `RelayKept`, `ComesToRest` | Under overruns, byte errors, collisions, lost frames and lost acknowledgements the gateway is a lossy relay and nothing worse, and it always comes to rest. |
| `leap_node_timer` | `PartialBurstAnswered` (violated) | finding 1 |
| `deployment_late` | `ServedComplete` (violated) | finding 2 |
| `deployment_octet` | `DeploymentEnds` (violated) | finding 3 |
| `serial_link_stuck` | `NobodyStuck` (violated) | finding 4 |
| `editor_stale_keys` | `DeployedWhatIsDrawn` (violated) | finding 5 |
| `editor_lost_changes` | `NothingLost` (violated) | finding 6 |

### Bounds, and why they are enough

* `leap_node`: a node with four neighbours, whose eight keys make a basic, a
  full and mixed, and a shorter message (`Slots = 5`, as in the code); each at
  the three places of the full burst and alone, which gives the headers
  `(0,2) (1,1) (2,0)` and `(0,0)`. With these the last message comes first,
  alone, twice or never. At most three frames are accepted between two answers
  (`MaxHeard`). `KeyLen = 1` instead of 16: offsets differ by multiples of it.
  The octets of the labels are on both sides of the limits of a byte (272), of
  its sign (129, 255) and of its digits (15). Damage is one wrong
  byte, at any place and of any value.
* `deployment`: the chain sink, gateway, A, B; the gateway is first in the
  queue, so both ways of executing a command occur. `Slots = 2` (instead of 5)
  gives A three messages, which is the shortest list that can shrink twice and
  be reversed in between. Three losses are enough to lose a part of a burst, a
  part of its repetition and an answer in one deployment. A and B may each lose
  power once, before, while or after they are served. A node that lost power
  has lost its keys and nobody tells the coordinator, so `ServedComplete` speaks
  of the nodes that kept theirs (`KeptPower`). `MaxGeneration = 2` allows
  one more *Generate*. All nodes hear the gateway: the radio links of a
  deployment are the gateway's, not those of the drawing. Lists are split for up
  to 18 neighbours (`MaxKeys`), where the header overflows.
* `gateway`: three lines for two nodes, two of them for the same one; a line of
  three pieces and a ring buffer that holds one line, room for two packets and
  for one neighbour less than there are, three events (the least that
  `QueueAssumption` allows), two attempts per packet, three sequence numbers of
  which a node remembers two, one of them perhaps from before. Every limit is
  reached with these. At most one byte is lost in the UART (`MaxErrors`), at
  most one transmission collides or is put off (`MaxSetbacks`).
* `deployment_adverse`: gateway and one node; a wait may run out with one line
  and one frame per node still under way (`MaxInFlight`), which is what it takes
  for an answer to be a round late.
* `serial_link`: two destinations (so there is a round after a served one),
  three rounds, three lines of output.
* `editor`: two addresses; a sink and at most three motes with three edges,
  which covers chains, rings, islands and double edges; two edits or saves, and
  one step of undo. Two edits alone would not draw an interesting network, so
  the files that exist at first (`Shelf`) supply a chain connected to the sink
  and a ring that is not: every edit of these is covered.

### Fairness

`Deployment!LiveSpec` assumes weak fairness of the worker thread, of the reader
thread's `Response`, of the gateway's two ways to execute a command, and of
every mote's handlers: threads are scheduled, a wait with a timeout ends, and
Contiki's event loop executes what is in its queue. Losses, reboots, the cancel
button and *Deploy* are under no obligation. `MaxLosses` makes losses stop at
some point, which is the usual assumption under which a retransmission protocol
ends. `Gateway!Fairness` is the CPU's: it goes on as long as it has something to do,
and a timer that runs goes off. Nobody has to write a byte, frames and
acknowledgements may all get lost. Collisions stop (`MaxSetbacks`), because CSMA
does not count them (`csma.c:250`) and would send for ever.
`SerialLink!LiveSpec` assumes weak fairness of each of the two threads
and nothing of the mote and the user; so `ReaderEnds` starts only once the link
is closed. `LeapNode!TimerSpec` assumes that a timer that was set goes off, to
show that silence is not the timer's fault.

### What the models found

1. **`nack_process` is never started** (`leap_node_timer`). `process_header`
   asks for `nack_running == 1` before setting it to 1 (`leap.c:189-191`), and
   nothing else sets it. `leap.c:334` and `leap.c:404-405` promise an answer
   after a timeout; a node that misses the last message of a burst stays
   silent. The deployment survives because the coordinator repeats the round.
2. **A late answer counts for the wrong round** (`deployment_late`).
   `latestResponse` names neither node nor round. An answer that misses the end
   of its wait is analysed in a later round, for another list of messages or
   another destination: `analyseNACK` "returns true if all messages arrived"
   (`SerialWorker.java:122`), and returns true although they did not.
3. **Nodes that share an octet with the gateway never answer it**
   (`deployment_octet`). `leap.c:155` joins two inequalities with `&&`.
   The node holds its keys and prints its answer on its own console; the
   coordinator resends for ever.
4. **Worker and reader block each other** (`serial_link_stuck`). The worker
   enters `SendSetup`'s monitor inside its own (`SerialWorker.java:61`), the
   reader enters the worker's inside `SendSetup`'s (`SendSetup.java:70`).
5. **Deploy is enabled for drawings nobody verified** (`editor_stale_keys`).
   Saving and opening clear all three flags (`Editor.java:260-272`), and not
   every change of the drawing updates the buttons.
6. **Saving without an extension loses changes** (`editor_lost_changes`). The
   name without its extension is remembered; the next *Save* finds no writer
   for it, writes nothing, and forgets that there were changes.

More was met that no document speaks of, and is listed among the hazards:

* A cancelled deployment answers for the next one. Bits that a node collected
  for a list that `adjustMisses` renumbered stay in its mask when the worker is
  cancelled (`SerialWorker.java:50-51`), because only an answer clears it. They
  are part of the node's answer to the next deployment's full list, where the
  same bits mean other messages. `DeploymentLate.cfg` with one destination
  (`Queue <- OneNode`), `Prompt = TRUE`, `MayAbort = TRUE` and `MaxLosses = 4`
  violates `ServedComplete`.
* A reset gateway learns a wrong sender. Until a node knows a `key_sender`, it
  takes the sender of any frame for it (`leap.c:339-341`); for a gateway that has
  lost its memory this may be a node's answer, and it then sends the answer to
  its own keys to that node instead of printing it. `DeploymentAdverse.cfg` with
  `Rebooting <- OnlyG`, and even without losses, delays and cancelling, violates
  `AcksWhoSentKeys`.
* A wrapper of nine messages, which a node with 18 neighbours needs, overflows
  the three-bit header: two messages have number 0 and the first one claims to
  be the last (`HeadersTellApart` states the limit).
* Newly generated keys are acknowledged by nodes that keep their old ones
  (`srime.c:117`), except for a node's own cluster key, which is overwritten
  (`leap.c:258`) and so differs from then on from what its neighbours have
  (`ClusterKeysAgree`: neighbours that count as served agree exactly as long as
  there is one generation).
  `StoredKeysStay` states what the code does, and `Installed` asks for the new
  generation only of a node's own keys, so that `ServedComplete` does not depend
  on what was intended.
* `1.1`, `01.1` and `257.1` are three names to *Verify* and one address to the
  motes. `AddressesAgree` separates nodes only for octets below 256.
* A node that remembers a sequence number from before the gateway's reset
  acknowledges a new frame and drops it (`Remembered`).

## 4. What is proved

All proofs are checked by TLAPS to the last leaf, for every value of the
constants that satisfies the modules' named assumptions. TLC evaluates all of
them, and each says no more than the code does:

* `NodesAssumption`: the null address belongs to no node. `NamesAssumption`: a
  label is two numbers. `SlotsAssumption`: `Slots > 0`.
* `WireAssumption`: a key is `KeyLen > 0` bytes.
* `NodeOnWireAssumption`: the neighbours are names and none occurs twice (the
  keys are in maps by neighbour, `KeyStore.java`), and a place in a list is a
  place in it. `ArrivingAssumption`: what arrives are messages of the node's
  wrapper.
* `LeapNodeAssumption`: the nodes are those that `Names` are the labels of, and
  what arrives are LEAP frames.
* `DeploymentAssumption`: the gateway is a node, no destination occurs twice,
  and every list of messages starts with a basic message, as the constructor of
  `MessageWrapper` makes it.
* `RolloutAssumption`: the drawing is finite, its edges join two different
  vertices, it passes *Verify*, `DeployAction` finds an address in every label,
  and the messages are those that `DrawnMessages` makes of it.
* `EditorAssumption`, `ShelfAssumption`: files on the disk at the beginning are
  drawings, labels are labels, the history has room for one edit.
* `GatewayAssumption`: sizes are numbers, the ring holds something, a line has
  more than one byte. `QueueAssumption`: the event queue has room for one timer
  per neighbour queue and for two more events.
* `SerialLinkAssumption`: its bounds are numbers.

| Theorem | States | Argument |
|---|---|---|
| `NodeTyped`, `NackProcessNeverRuns` | `TypeOK`, `NackProcessIdle` of `LeapNode` | The two are inductive together (`NodeInv`): `TypeOK` alone is lost if `nack_running` could be set. |
| `AnswersAreTruthful` | `AnswerTruthful` | Inductive over `NodeInv`, because only an answer resets the mask and only an answer resets `heard`. |
| `HeardMessagesAreStored` | `HeardIsStored` | Inductive over `NodeInv` with the lemmas that `Insert` keeps and adds (`MultiplexFacts`, `MultiplexStores`). |
| `DeploymentTyped` | `TypeOK` of `Deployment` | `TypeInv == TypeOK /\ NodesIdle /\ RoundHasDest`. `NodesIdle` keeps every `nack_process` idle at every node, `RoundHasDest` says that a round in progress has a destination, without which `i` leaves its range. One lemma per group of actions. |
| `KeysAreKept` | `StoredKeysStay` | Each handler keeps the entries that are there (`ProcessKeeps`); no other action but `Reboot` touches a node. Holds for any delay, loss and cancellation. |
| `NodesAnswerGateway` | `AcksWhoSentKeys`, assuming the gateway is not rebooted | `SenderInv` adds that all messages in the air come from the gateway and all answers go to it, and that the gateway knows itself as soon as anything is in the air, so that an answer that reaches it teaches it nothing. |
| `RoundsAreInOrder` | `RoundInOrder`, in an orderly deployment | A conjunct of `RoundInv`, below. |
| `MasksAreCurrent` | `MaskIsCurrent`, likewise | likewise |
| `NothingNeededIsDropped` | `DroppedMessagesArrived`, likewise | likewise |
| `ServedNodesHaveTheirKeys` | `ServedComplete`, likewise | likewise |
| `DeploymentKeepsPromise` | `PromiseKept`, likewise | Refinement by `RoundInv /\ PastKeys`: `i` grows only in `NothingMissing`, past a node that `RoundInv` shows complete; only a loss of power, which the promise allows for, or a new *Generate* take that away. `PastKeys` says that no node has keys of a *Generate* to come. |
| `SharedKeysAlwaysFit` | `SharedKeysFit` of `Rollout`, likewise | `KeyInv == ListsAreOwn /\ NoStrangers /\ FirstKeys` over `RoundInv`: lists hold only messages of their wrapper, which hold keys only for neighbours; and all keys of a served node for its neighbours, pairwise and cluster, are of the first *Generate*, because `insert_into_list` keeps the first one. That the messages of a drawing have each neighbour once follows from `KeysAreSplitExactly`. |
| `ClusterKeysAgreeOnce` | `ClusterKeysAgree` of `Rollout`, likewise | The same `KeyInv`: what a served node has of its neighbour is of the first *Generate*, and by `ServedComplete` the neighbour's own cluster key is of the present one. |
| `KeysAreSplitExactly` | that the wrapper puts every key into exactly one message, for all lists and every number of slots | By induction over the pairs of counters, as an induction over a set of numbers (`SetInduction`): the loop makes progress in every turn, so the recursive function exists, and its value has every key once. |
| `HeadersTellListsApart` | how far three bits tell the messages of a list apart, for all lists | Arithmetic of `Field`, and the length from `KeysAreSplitExactly`. |
| `CodeSplitsExactly`, `CodeTellsListsApart` | `SplitIsExact`, `HeadersTellApart` | The two theorems above, of the instance of `MessageWrapper` with five slots, for every `MaxKeys`. No state: what they say of lists holds whenever a deployment begins. |
| `LinkTyped` | `TypeOK` of `SerialLink` | A conjunct of `LinkInv`, below. |
| `AnswersBelongToRound` | `DeliveryWithinRound` | `LinkInv == TypeOK /\ MonitorsHeld /\ NoAnswerKept /\ LineOfThisRound /\ LoopAndLink`: who is in which monitor follows from where the threads are; a new round needs `S`, which the reader holds from picking up a line to notifying. |
| `LinkImplementsAnswerWait` | `AnswersOnlyInWait` | Refinement by `LinkInv`: every step maps to a step of `AnswerWait` or to a stutter. |
| `FlagsMeanWhatTheySay` | `FlagsAreRight` | Inductive as it stands: all steps that change the drawing set all three flags, or clear `modified`. |
| `DeployedBundlesAgree` | `BundlesAgree` | `BundlesInv == StorePaired(keyStore) /\ BundlesAgree`. In a generated store, keys for others come in pairs, whatever labels occur twice; the store is only replaced as a whole. |
| `EditorTypes` | `TypeOK` of `EditorWorkflow` | `EditorInv`: the drawings in the history and on the disk are typed as well, and history and future together are no longer than `HistorySize`. `deleteSelectedCells` must take the edges at a removed vertex with it. |
| `KeysFitTheDrawing` | `GeneratedKeysFit` | Over `EditorInv`. Without double names a label has one mote, so the last key put for a pair of labels is that of an edge between these two (`EdgesBetween`, `MoteKeys`, `OwnersOfKeys`). |
| `SearchIsComplete` | `SearchFindsSink` | `SearchIsRight`: the search visits ever fewer places (`Rest`), so the recursive function exists (`SearchEnds`); a failed search has explored all that it has seen (`RightAnswer`), so this is an island without the sink. A vertex that failed below one branch need not be tried below another. |
| `GatewayTypes` | `TypeOK` of `Gateway` | A conjunct of `GatewayInv`, below. |
| `GatewayPosts` | `PostsSucceed` | `RoomForEvents`: the queue holds no event twice (`EventsInOrder`, `TimersAgree`), a timer's event belongs to a neighbour with packets, of which there are at most `MaxNeighbors` (pigeonhole, `WithoutDuplicates`), and while the serial process reads the ring neither of its own events is out. |
| `GatewaySleeps` | `SleepsOnlyWhenDone` | `NothingForgotten`: whoever has something to do has his flag set or an event on its way, or the CPU is with him. |
| `GatewayBuffer` | `BufferHeld` | `EventsInOrder`: the line is before CONTINUE in the queue, and the serial process waits as long as CONTINUE is in it. |
| `GatewayTimers` | `QueueHasTimer` | A conjunct of `TimersAgree`. |
| `GatewayLines` | `NoMixture` | `LinesInOrder`: the ring buffer holds pieces in the order they were written, each behind the one before or at the start of a line, and what is in it continues what is in `buf`. |
| `GatewayIsLossyRelay` | `RelayKept` | Refinement by `GatewayInv /\ LineTaken /\ StreamInOrder /\ FramesInOrder`, below. |
| `NamesAgree` | `AddressesAgree`, for all labels | Arithmetic of bytes; no state. |
| `ChecksumsAgree` | `ChecksumIsCcitt` of `NodeOnWire` | `NodeInv` (what was accepted is among what arrives) and `SumsAgree`, below. |
| `MessagesAreUnderstood` | `FramesUnderstood` | likewise, with `BasicRead` and `ExtendedRead`: what is read at an offset is what was written there. |
| `AnswersAreUnderstood` | `AnswersUnderstood` | Type invariant (a mask is eight bits) and `ByteAndBits`. |
| `OneWrongByteIsSeen` | `DamageIsSeen` | `OneByteApart`, below. |
| `KeysAreFound` | `KeysFoundByAddress` | `NodeInv` and `NamesAgree`: the frames with keys for a neighbour go through the same conversion as the neighbour's own address. |

**The rounds.** `RoundInv` is `TypeInv`, `RoundInOrder`, `MaskIsCurrent`,
`DroppedMessagesArrived` and `ServedComplete` with two facts about lists and
loop. None of the four is inductive alone: that an answer is the answer to the
present list makes the masks current, current masks make the answers true, true
answers make the lists shrink rightly, and only a list that shrank rightly may
be empty when the coordinator goes on. There is one lemma per phase of a round
(lines written, frames under way, answer under way, answer read). The hypothesis
`Orderly` has three parts, and each is needed: without `Prompt` there is
finding 2; with `MayAbort` a node's mask keeps bits of the
cancelled list (section 3); with more than eight messages in a list the header overflows.
Losses, reboots of any node, the gateway included, and any number of new
deployments and new keys are covered.

The theorem `NodesAnswerGateway` has the hypothesis `Gateway \notin Rebooting`
because it is needed: a gateway that is reset in the middle of a deployment
learns a wrong `key_sender` from an answer (section 3).

`GatewayInv == TypeOK /\ CpuConsistent /\ EventsInOrder /\ TimersAgree /\
NothingForgotten` is inductive for any number of lines, nodes, buffers and
queues: that a post succeeds depends on which timers are pending, which depends
on the packet queues, and that nothing is forgotten depends on posts that
succeed, so none of the parts is inductive alone. There is one lemma per action
that changes more than one part.

The refinement `GatewayIsLossyRelay` adds three parts to it. `StreamInOrder`:
pieces are read in the order they were written. `LineTaken`: the line that the
shell has is no longer announced, so that it is off the relay when it has been
read. `FramesInOrder`: the frames for a node are in the order of their lines,
nothing of these lines is left to read (`Behind`), and only the first of the
frames may be one that the node has heard, in which case it still has its number
in `received_seqnos` and will drop it. There is one lemma per kind of step: those
that touch neither end (`QuietRelay`), a byte from the UART (`UartRelay`), the
setup command (`ShellRelay`) and a transmission (`RadioRelay`).

**The bytes.** `WireProofs` goes from bits to messages. A byte and the set of its
bits determine each other (`ByteAndBits`), which makes every step of a checksum
one about sixteen membership facts: `EightTurns` says for each bit of the
register what eight turns of the division do to it, and the five steps of the C
code (`Crc16AddAfterEight`) and of the Java code (`WidthsAgree`) do the same, bit
by bit. A sum over a list is a fold; `FoldRegisters` shows, by induction over the
lengths of the beginnings of the list, that the fold goes through a trace of
registers in which each is made of the one before (that the fold's recursive
function exists is part of it, `FoldExists`). Two lists with one different byte
have the same registers up to it and different ones from there on, because a turn
loses nothing (`OneByteApart`); and if the wrong byte is in the checksum itself,
the sum is right and the checksum is not. For the keys, a message is a list of
pieces of one length, so the piece that `parse_extended_message` copies from an
offset is the one that the wrapper wrote there (`PieceOf`, `EntitiesFacts`).

`MessageProofs` holds what the other modules share: what each handler of a node
does to each field, and what the wrapper does to lists.

**Model-checked only.** `DeploymentEnds`, `ReaderEnds` and `ComesToRest`, which
are liveness under fairness. Every invariant and action property of a passing
run, and every refinement, is proved as well, under the hypotheses named above.


## 5. What is not modelled, and why

* *The heap of a mote.* `parse_extended_message` allocates a block per key and
  does not test the result; retransmissions use it up. The retransmissions are
  modelled, the allocator is not.
* *Random key material and hexadecimal text.* In the models of behaviour a key
  is named by what it was made for and when; only `Wire` has its bytes.
* *Reading a node's address.* The keyword it waits for ends in a line feed
  (`EditorActions.java:1434`), which `readLine` never returns, so the callback
  is never called; with exactly one serial port nothing is sent at all.
* *The `serialdump` child process, read errors, unreadable files, leaving the
  program, dialogs' layout, zooming.* No state of the deployment.
* *The rest of Contiki.* Of Contiki, the way of a setup line through the
  gateway is modelled. The way of an answer back uses the same code in other
  roles and is a lossy queue in `Deployment`. Start-up, a reset of the gateway in
  the middle of a line, and ContikiMAC's radio cycle (when a receiver listens) are
  left out. So are three details of the gateway's way: the end of a burst of
  transmissions after an error of the MAC, which needs a frame whose headers do
  not fit the room kept for them (`contikimac.c:497-523`); the test of
  `uart1_active` before sleeping, which only keeps the CPU awake longer
  (`contiki-sky-main.c:425-426`); and the events of processes that take no part
  in this, for which `QueueAssumption` stands: the modelled events need fewer
  entries than the code's queue has. The repository holds the whole of Contiki, with its drivers, ports,
  IP stack, examples and tools: some 340,000 of its 350,000 lines, of which
  topkey links or uses a few thousand. They are third-party code, so the share of
  the repository's lines that the models cover stays small, while of topkey's own
  few thousand lines the larger part of the logic is covered.
* *What the interpreter of the line does with others' commands.* The shell has
  more commands than `setup`; none of them is sent by the coordinator.
* *Other people's files.* `disk` holds drawings of this editor, so overwriting
  a stranger's file after declining to (`EditorActions.java:331`) is a step of
  the model but no property is about it.


## 6. Plan

Built so far, in this order: the receiver and `LeapNode`; `MessageWrapper`;
`Deployment` with `KeyDeployment`; `SerialLink` with `AnswerWait`; `Topology`
and `EditorWorkflow`; `Gateway` with `LossyRelay`; `Rollout`; `Addresses`,
`Wire` and `NodeOnWire`; the proofs of section 4.

Next, to extend the model: `SerialLink`'s worker with `Deployment`'s answers, so
that the round-trip is one specification and `Deployment` its abstraction; the
way of an answer back through the gateway; a property of files the user declined
to override.

And to prove more: that the steps of `Deployment` on its line and in its air are
steps of `LossyRelay`, so that the two abstractions meet in a theorem.
