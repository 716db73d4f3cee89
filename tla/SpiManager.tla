------------------------------ MODULE SpiManager ------------------------------
(***************************************************************************)
(* The manager on the CAN bus: SpiCanBus of manager/scp_manager/can.py and *)
(* the firmware of modules/spi_can_bridge.  The manager is the SPI master. *)
(* One exchange carries a packet each way, so that the bridge has chosen   *)
(* its answer before it sees the request: the status of a CAN_TX comes in  *)
(* a later exchange.                                                       *)
(*                                                                         *)
(* The coroutines of the manager switch only where they await a transfer,  *)
(* the lock or a sleep; what lies between is one step.  The lock is an     *)
(* asyncio.Lock, first come first served.                                  *)
(*                                                                         *)
(* The bridge waits for the host inside spi_write_read_blocking, except    *)
(* while it transmits, which it may retry for 2 ms.  What the host clocks  *)
(* meanwhile overruns the receive FIFO of half a packet: the bridge then   *)
(* finds half a request before the next one, and reads every later request *)
(* across two of the host's packets.  Nothing realigns it.                 *)
(*                                                                         *)
(* Left out: PING and SET_BITRATE, which the manager never sends; the      *)
(* update of the bridge itself (module FlashTarget); the CAN ring's own    *)
(* limit (module CanRxQueue).                                              *)
(***************************************************************************)
EXTENDS Integers, Sequences, FiniteSets

CONSTANTS
  Commands,       \* coroutines that send a command
  ReceiveLoop,    \* the coroutine of receive_loop
  QueueSlots,     \* SPI_CAN_RESPONSE_QUEUE_CAPACITY (32)
  RxQueueSize,    \* maxsize of _rx_queue (256)
  IdleTries,      \* idle packets sent for a status (16)
  BusyTransfers,  \* transfers the host can make while the bridge transmits
  MaxFrames       \* bound: frames on the bus

\* Sixteen packets take 2.048 ms at 1 MHz, longer than the bridge retries.
ASSUME SpiAssumption ==
  /\ ReceiveLoop \notin Commands
  /\ {QueueSlots, RxQueueSize, IdleTries} \subseteq Nat \ {0}
  /\ QueueSlots > 1
  /\ {BusyTransfers, MaxFrames} \subseteq Nat
  /\ BusyTransfers < IdleTries

VARIABLES
  arrived,       \* frames of the modules so far; frame n is the nth
  bridge,        \* the bridge
  transmitted,   \* commands the bridge put on the bus
  lock,          \* _lock: its holder, then those who wait for it
  step,          \* where send is, for each command
  tries,         \* idle packets sent by the holder of the lock
  result,        \* what submit_command reports of each command
  looping,       \* receive_loop is past its drain, not in its sleep
  rx_queue,      \* _rx_queue
  evicted,       \* history: frames _rx_queue gave up for newer ones
  status_queue,  \* _status_queue
  ingested       \* frames given to on_frame

host == <<lock, step, tries, result, looping, rx_queue, evicted, status_queue, ingested>>
vars == <<arrived, bridge, transmitted, host>>

Nothing == [type |-> "idle"]
CanTx(c) == [type |-> "can_tx", command |-> c]
CanRx(n) == [type |-> "can_rx", frame |-> n]
Status(ok) == [type |-> "status", ok |-> ok]

Init ==
  /\ arrived = 0
  /\ bridge = [ring |-> <<>>,       \* frames in the CAN ring
               queue |-> <<>>,      \* can_rx_queue
               loaded |-> Nothing,  \* tx_packet of the exchange it waits in
               busy |-> {},         \* the command it is transmitting
               overlaps |-> 0,      \* transfers the host made meanwhile
               skewed |-> FALSE,    \* requests are read across packets
               dropped |-> {}]      \* history: frames the queue overwrote
  /\ transmitted = {}
  /\ lock = <<>>
  /\ step = [c \in Commands |-> "new"]
  /\ tries = 0
  /\ result = [c \in Commands |-> "none"]
  /\ looping = FALSE
  /\ rx_queue = <<>>
  /\ evicted = {}
  /\ status_queue = <<>>
  /\ ingested = <<>>

Elements(s) == {s[i] : i \in DOMAIN s}

\* The last n elements of s, and those before them.
Newest(s, n) == IF Len(s) <= n THEN s ELSE SubSeq(s, Len(s) - n + 1, Len(s))
Oldest(s, n) == SubSeq(s, 1, Len(s) - Len(Newest(s, n)))
-----------------------------------------------------------------------------
(* The bridge *)

\* A faulty queue that uses all its slots.
ServicedFull(b) ==
  LET all == b.queue \o b.ring IN
  [b EXCEPT !.ring = <<>>,
            !.queue = Newest(all, QueueSlots),
            !.dropped = @ \cup Elements(Oldest(all, QueueSlots))]

\* A faulty queue that refuses what does not fit.
ServicedRefusing(b) ==
  LET all == b.queue \o b.ring
      kept == IF Len(all) < QueueSlots THEN all ELSE SubSeq(all, 1, QueueSlots - 1)
  IN [b EXCEPT !.ring = <<>>,
               !.queue = kept,
               !.dropped = @ \cup (Elements(all) \ Elements(kept))]

\* spi_can_service_can_bus: the ring is moved to a queue that overwrites its
\* oldest packet when full.
Serviced(b) ==
  LET all == b.queue \o b.ring IN
  [b EXCEPT !.ring = <<>>,
            !.queue = Newest(all, QueueSlots - 1),
            !.dropped = @ \cup Elements(Oldest(all, QueueSlots - 1))]

\* The start of spi_can_exchange_with_host without a control response.
LoadFrame(b) ==
  IF b.queue = <<>> THEN [b EXCEPT !.loaded = Nothing]
  ELSE [b EXCEPT !.loaded = CanRx(Head(b.queue)), !.queue = Tail(@)]

\* A faulty start of the exchange that also takes a packet from the queue.
LoadStatusPopping(b, status) ==
  [b EXCEPT !.loaded = status, !.queue = IF @ = <<>> THEN @ ELSE Tail(@)]

\* pending_control_response goes before the queue.
LoadStatus(b, status) == [b EXCEPT !.loaded = status]

\* The rest of an exchange, and the loop up to the next one.  Out of step,
\* the first half of every request is the end of the packet before.
Exchanged(b, request) ==
  IF request.type = "can_tx" /\ ~b.skewed
    THEN [b EXCEPT !.busy = {request.command}, !.loaded = Nothing]
    ELSE LoadFrame(Serviced(b))

\* What the bridge does to one transfer of the host, and what it answers.
Transfer(request) ==
  /\ bridge.busy # {} => bridge.overlaps < BusyTransfers
  /\ bridge' = IF bridge.busy # {} THEN [bridge EXCEPT !.overlaps = @ + 1]
                                   ELSE Exchanged(bridge, request)

Response == bridge.loaded

\* can_transmit_with_retry ends, and the status is loaded.
TransmitEnds ==
  /\ bridge.busy # {}
  /\ \E ok \in BOOLEAN :
       /\ transmitted' = IF ok THEN transmitted \cup bridge.busy ELSE transmitted
       /\ bridge' = [LoadStatus(Serviced(bridge), Status(ok)) EXCEPT
                       !.busy = {},
                       !.overlaps = 0,
                       !.skewed = bridge.overlaps > 0]
  /\ UNCHANGED <<arrived, host>>

FrameArrives ==
  /\ arrived < MaxFrames
  /\ arrived' = arrived + 1
  /\ bridge' = [bridge EXCEPT !.ring = Append(@, arrived')]
  /\ UNCHANGED <<transmitted, host>>
-----------------------------------------------------------------------------
(* SpiCanBus *)

FrameOf(response) == IF response.type = "can_rx" THEN <<response.frame>> ELSE <<>>

\* _dispatch_spi_packet, for a send: nothing is handed to on_frame.
QueueFrame(response) ==
  LET all == rx_queue \o FrameOf(response) IN
  /\ rx_queue' = Newest(all, RxQueueSize)
  /\ evicted' = evicted \cup Elements(Oldest(all, RxQueueSize))

QueueStatus(q, response) ==
  IF response.type = "status" THEN Append(q, response.ok) ELSE q

\* submit_command calls send, which waits for the lock.
Submit(c) ==
  /\ step[c] = "new"
  /\ step' = [step EXCEPT ![c] = "request"]
  /\ lock' = Append(lock, c)
  /\ UNCHANGED <<arrived, bridge, transmitted, tries, result, looping, rx_queue,
                 evicted, status_queue, ingested>>

\* A faulty lock, released between the request and its status.
MayProceedUnlocked(task) == \E i \in DOMAIN lock : lock[i] = task

MayProceed(task) == lock # <<>> /\ Head(lock) = task

SendRequest(c) ==
  /\ step[c] = "request"
  /\ MayProceed(c)
  /\ Transfer(CanTx(c))
  /\ QueueFrame(Response)
  /\ status_queue' = QueueStatus(status_queue, Response)
  /\ step' = [step EXCEPT ![c] = "poll"]
  /\ tries' = 0
  /\ UNCHANGED <<arrived, transmitted, lock, result, looping, ingested>>

EndSend(c, ok) ==
  /\ step' = [step EXCEPT ![c] = "done"]
  /\ result' = [result EXCEPT ![c] = IF ok THEN "accepted" ELSE "transport_error"]
  /\ lock' = Tail(lock)

\* A faulty loop that waits for its status as long as it takes.
PollEndless(c) ==
  /\ step[c] = "poll"
  /\ MayProceed(c)
  /\ Transfer(Nothing)
  /\ QueueFrame(Response)
  /\ IF Response.type = "status" THEN EndSend(c, Response.ok)
                                 ELSE UNCHANGED <<step, result, lock>>
  /\ UNCHANGED <<arrived, transmitted, tries, looping, status_queue, ingested>>

\* One turn of the loop of send.
Poll(c) ==
  /\ step[c] = "poll"
  /\ MayProceed(c)
  /\ tries < IdleTries
  /\ IF status_queue # <<>>
       THEN /\ EndSend(c, Head(status_queue))
            /\ status_queue' = Tail(status_queue)
            /\ UNCHANGED <<bridge, rx_queue, evicted, tries>>
       ELSE /\ Transfer(Nothing)
            /\ QueueFrame(Response)
            /\ IF Response.type = "status"
                 THEN EndSend(c, Response.ok) /\ UNCHANGED tries
                 ELSE tries' = tries + 1 /\ UNCHANGED <<step, result, lock>>
            /\ UNCHANGED status_queue
  /\ UNCHANGED <<arrived, transmitted, looping, ingested>>

\* "spi bridge did not return CAN_TX status"
PollFails(c) ==
  /\ step[c] = "poll"
  /\ MayProceed(c)
  /\ tries = IdleTries
  /\ EndSend(c, FALSE)
  /\ UNCHANGED <<arrived, bridge, transmitted, tries, looping, rx_queue, evicted,
                 status_queue, ingested>>

\* A faulty drain, of one frame at a time.
DrainOne ==
  /\ ~looping
  /\ looping' = TRUE
  /\ ingested' = ingested \o Oldest(rx_queue, Len(rx_queue) - 1)
  /\ rx_queue' = Newest(rx_queue, Len(rx_queue) - 1)
  /\ lock' = Append(lock, ReceiveLoop)
  /\ UNCHANGED <<arrived, bridge, transmitted, step, tries, result, evicted, status_queue>>

\* receive_loop: the frames kept by send first, then the lock.
Drain ==
  /\ ~looping
  /\ looping' = TRUE
  /\ ingested' = ingested \o rx_queue
  /\ rx_queue' = <<>>
  /\ lock' = Append(lock, ReceiveLoop)
  /\ UNCHANGED <<arrived, bridge, transmitted, step, tries, result, evicted, status_queue>>

\* The transfer, and what is done with the answer when the lock is released.
Receive ==
  /\ looping
  /\ MayProceed(ReceiveLoop)
  /\ Transfer(Nothing)
  /\ ingested' = ingested \o FrameOf(Response)
  /\ status_queue' = QueueStatus(status_queue, Response)
  /\ looping' = FALSE
  /\ lock' = Tail(lock)
  /\ UNCHANGED <<arrived, transmitted, step, tries, result, rx_queue, evicted>>

Next ==
  \/ FrameArrives
  \/ TransmitEnds
  \/ \E c \in Commands : Submit(c) \/ SendRequest(c) \/ Poll(c) \/ PollFails(c)
  \/ Drain
  \/ Receive

\* The event loop runs whatever is ready, and the bridge its loop.
Spec ==
  /\ Init /\ [][Next]_vars
  /\ WF_vars(TransmitEnds)
  /\ WF_vars(Drain)
  /\ WF_vars(Receive)
  /\ \A c \in Commands : WF_vars(SendRequest(c) \/ Poll(c) \/ PollFails(c))
-----------------------------------------------------------------------------
Frames == 1 .. MaxFrames

Packets == {Nothing} \cup {CanRx(n) : n \in Frames} \cup {Status(ok) : ok \in BOOLEAN}

TypeOK ==
  /\ arrived \in 0 .. MaxFrames
  /\ bridge \in [ring : Seq(Frames), queue : Seq(Frames), loaded : Packets,
                 busy : SUBSET Commands, overlaps : 0 .. BusyTransfers,
                 skewed : BOOLEAN, dropped : SUBSET Frames]
  /\ Len(bridge.queue) < QueueSlots
  /\ transmitted \subseteq Commands
  /\ lock \in Seq(Commands \cup {ReceiveLoop})
  /\ step \in [Commands -> {"new", "request", "poll", "done"}]
  /\ tries \in 0 .. IdleTries
  /\ result \in [Commands -> {"none", "accepted", "transport_error"}]
  /\ looping \in BOOLEAN
  /\ rx_queue \in Seq(Frames) /\ Len(rx_queue) <= RxQueueSize
  /\ evicted \subseteq Frames
  /\ status_queue \in Seq(BOOLEAN)
  /\ ingested \in Seq(Frames)

\* A status on its way to the manager is the one its lock holder waits for: no
\* command ever takes the status of another for its own.
StatusBelongs ==
  (bridge.busy # {} \/ bridge.loaded.type = "status" \/ status_queue # <<>>) =>
    \E c \in Commands : lock # <<>> /\ Head(lock) = c /\ step[c] = "poll"

\* What the manager reports of a command is what became of it, whichever other
\* commands and receptions it shared the bridge with.
CommandTruthful ==
  \A c \in Commands :
    result[c] # "none" => (result[c] = "accepted" <=> c \in transmitted)

\* Where the frames of the modules are, from the manager to the bus.
InTransit ==
  ingested \o rx_queue \o FrameOf(bridge.loaded) \o bridge.queue \o bridge.ring

\* Every frame is on its way once or ingested once, unless the queue of the
\* bridge or _rx_queue was full and gave it up for a newer one: neither a send
\* nor receive_loop loses or repeats one in any other way.
FramesConserved ==
  /\ Elements(InTransit) = (1 .. arrived) \ (bridge.dropped \cup evicted)
  /\ Cardinality(Elements(InTransit)) = Len(InTransit)

\* The frames send keeps aside are overtaken by at most one newer frame.
OvertakenOnce ==
  \A j \in DOMAIN ingested :
    Cardinality({i \in 1 .. j - 1 : ingested[i] > ingested[j]}) <= 1

\* Every command ends with a result.
CommandsEnd == \A c \in Commands : step[c] = "request" ~> step[c] = "done"

\* The newest frame is ingested, unless there is a newer one.
NewestIngested ==
  \A n \in Frames : arrived = n ~> (arrived > n \/ n \in Elements(ingested))

\* The manager "maintains live module state" (docs/manager-web-server.md): once
\* all frames are ingested, the last one ingested is the last one sent.
LiveState ==
  (arrived > 0 /\ Len(ingested) = arrived) => ingested[arrived] = arrived
=============================================================================
