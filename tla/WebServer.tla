------------------------------ MODULE WebServer ------------------------------
(***************************************************************************)
(* How the state of the manager reaches a browser: the bounded queue of a  *)
(* WebSocket session and its snapshots (manager/scp_manager/server.py),    *)
(* the messages that StateStore and ManagerRuntime hand to it (state.py,   *)
(* app.py), and the page that applies them (manager/static/index.html).    *)
(* A coroutine runs without interruption until it has to wait: for the     *)
(* network, the bus or a full transport.  What ingests a frame and queues  *)
(* its messages never waits, and is one action here.                       *)
(*                                                                         *)
(* One browser, which connects again when its connection ends.  What a     *)
(* session does after that, until the server notices, reaches nobody.      *)
(* Left out: HTTP, the framing and the closing of connections.             *)
(***************************************************************************)
EXTENDS Integers, Sequences

CONSTANTS
  Modules,
  Gauge,         \* the module whose pressure readings arrive
  QueueSize,     \* maxsize of WebSocketSession.queue (256)
  WireSize,      \* messages the transport takes before drain() waits
  ServerLimit,   \* PRESSURE_HISTORY_LIMIT (600)
  ClientLimit,   \* samples the page keeps when it appends one (300)
  MaxUpdates,    \* bound: frames ingested, timeouts and commands
  MaxBreaks      \* bound: connections that end, restarts of the manager

ASSUME GaugeAssumption == Gauge \in Modules
ASSUME SizeAssumption ==
  {QueueSize, WireSize, ServerLimit, ClientLimit} \subseteq Nat \ {0}

VARIABLES
  known,         \* StateStore._modules: a partial function of Modules
  history,       \* _pressure_history of Gauge: numbers of its samples
  samples,       \* samples taken so far
  updates,       \* frames ingested, timeouts and commands so far
  breaks,        \* connections ended and restarts so far
  connected,     \* the browser's session is open
  subscribe,     \* the page's subscribe is on its way
  queue,         \* WebSocketSession.queue
  wire,          \* messages written and not yet received
  shown,         \* the page's modules
  plotted,       \* the page's histories.get(Gauge)
  forgotten,     \* history: samples when this run of the manager began
  overwritten,   \* history: modules whose newest update was dropped
  missed         \* history: a sample or a history newer than all queued histories was dropped

vars == <<known, history, samples, updates, breaks, connected, subscribe, queue,
          wire, shown, plotted, forgotten, overwritten, missed>>

Empty == [m \in {} |-> {}]

\* The modules, with what is new of one or of several.
With(modules, m, value) ==
  [k \in DOMAIN modules \cup {m} |-> IF k = m THEN value ELSE modules[k]]

Merged(modules, new) ==
  [m \in DOMAIN modules \cup DOMAIN new |-> IF m \in DOMAIN new THEN new[m] ELSE modules[m]]

\* seen: last_seen_ms is set.
Fresh == [seen |-> FALSE, online |-> FALSE, value |-> 0]

Init ==
  /\ known = Empty /\ history = <<>> /\ samples = 0
  /\ updates = 0 /\ breaks = 0
  /\ connected = FALSE /\ subscribe = FALSE
  /\ queue = <<>> /\ wire = <<>>
  /\ shown = Empty /\ plotted = <<>>
  /\ forgotten = 0 /\ overwritten = {} /\ missed = FALSE
-----------------------------------------------------------------------------
(* WebSocketSession.send_json *)

List(modules) == [type |-> "module_list", modules |-> modules]
History(h) == [type |-> "history", samples |-> h]
State(m, value) == [type |-> "module_state", module |-> m, value |-> value]
Sample(n) == [type |-> "pressure_sample", number |-> n]
Result == [type |-> "command_result"]

About(message) ==
  CASE message.type = "module_list" -> DOMAIN message.modules
    [] message.type = "module_state" -> {message.module}
    [] OTHER -> {}

Mentioned(messages) == UNION {About(messages[i]) : i \in DOMAIN messages}
Replaced(messages) == \E i \in DOMAIN messages : messages[i].type = "history"

\* A faulty queue that, when full, refuses the new message.
QueuedRefusing(messages) ==
  SubSeq(queue \o messages, 1, IF Len(queue \o messages) < QueueSize
                                 THEN Len(queue \o messages) ELSE QueueSize)

\* Each message that finds the queue full takes the place of the oldest one.
Queued(messages) ==
  LET all == queue \o messages
      excess == IF Len(all) > QueueSize THEN Len(all) - QueueSize ELSE 0
  IN SubSeq(all, excess + 1, Len(all))

\* What a queue that drops the oldest loses, for the properties to tell.
Dropped(messages) ==
  LET all == queue \o messages
  IN SubSeq(all, 1, IF Len(all) > QueueSize THEN Len(all) - QueueSize ELSE 0)

Kept(messages) ==
  LET all == queue \o messages IN SubSeq(all, Len(Dropped(messages)) + 1, Len(all))

SendJson(messages) ==
  /\ queue' = Queued(messages)
  /\ overwritten' =
       (overwritten \cup Mentioned(Dropped(messages))) \ Mentioned(Kept(messages))
  /\ missed' = /\ ~Replaced(Kept(messages))
               /\ \/ missed
                  \/ \E i \in DOMAIN Dropped(messages) :
                       Dropped(messages)[i].type \in {"history", "pressure_sample"}

\* ManagerServer.broadcast
Broadcast(messages) ==
  IF connected THEN SendJson(messages) ELSE UNCHANGED <<queue, overwritten, missed>>

Snapshot(modules, h) ==
  IF h = <<>> THEN <<List(modules)>> ELSE <<List(modules), History(h)>>

manager == <<known, history, samples, updates, forgotten>>
page == <<shown, plotted>>
link == <<connected, subscribe, wire>>
-----------------------------------------------------------------------------
(* The manager *)

Update(m, value) ==
  /\ updates < MaxUpdates /\ updates' = updates + 1
  /\ known' = With(known, m, value)

ValueOf(m) == IF m \in DOMAIN known THEN known[m] ELSE Fresh

\* A heartbeat or connection_detected, or connection_lost.
IngestPresence(m, online) ==
  LET value == [ValueOf(m) EXCEPT !.seen = TRUE, !.online = online]
  IN /\ Update(m, value)
     /\ Broadcast(<<State(m, value)>>)
     /\ UNCHANGED <<history, samples, breaks, forgotten, link, page>>

\* refresh_offline_modules finds a heartbeat too old.
HeartbeatTimeout(m) ==
  /\ m \in DOMAIN known /\ known[m].online
  /\ LET value == [known[m] EXCEPT !.online = FALSE]
     IN Update(m, value) /\ Broadcast(<<State(m, value)>>)
  /\ UNCHANGED <<history, samples, breaks, forgotten, link, page>>

IngestReading ==
  /\ samples' = samples + 1
  /\ LET value == [ValueOf(Gauge) EXCEPT !.seen = TRUE, !.value = samples']
         all == Append(history, samples')
     IN /\ Update(Gauge, value)
        /\ history' = IF Len(all) > ServerLimit THEN Tail(all) ELSE all
        /\ Broadcast(<<Sample(samples'), State(Gauge, value)>>)
  /\ UNCHANGED <<breaks, forgotten, link, page>>

\* submit_command, whose result is broadcast; it makes the module known.
Command(m) ==
  /\ Update(m, ValueOf(m))
  /\ Broadcast(<<Result>>)
  /\ UNCHANGED <<history, samples, breaks, forgotten, link, page>>

\* handle_connection after the handshake, up to the first read of run.
Accept ==
  /\ ~connected
  /\ connected' = TRUE /\ subscribe' = TRUE
  /\ SendJson(Snapshot(known, history))
  /\ UNCHANGED <<manager, breaks, wire, page>>

HandleSubscribe ==
  /\ connected /\ subscribe
  /\ subscribe' = FALSE
  /\ SendJson(Snapshot(known, history))
  /\ UNCHANGED <<manager, breaks, connected, wire, page>>

\* WebSocketSession._sender
SendFrame ==
  /\ connected /\ queue # <<>> /\ Len(wire) < WireSize
  /\ wire' = Append(wire, Head(queue))
  /\ queue' = Tail(queue)
  /\ UNCHANGED <<manager, breaks, connected, subscribe, page, overwritten, missed>>

\* The connection ends, and what was under way with it.
Disconnected ==
  /\ breaks < MaxBreaks /\ breaks' = breaks + 1
  /\ connected' = FALSE /\ subscribe' = FALSE
  /\ queue' = <<>> /\ wire' = <<>>
  /\ overwritten' = {} /\ missed' = FALSE

Disconnect ==
  /\ connected
  /\ Disconnected
  /\ UNCHANGED <<manager, page>>

Restart ==
  /\ known' = Empty /\ history' = <<>> /\ forgotten' = samples
  /\ Disconnected
  /\ UNCHANGED <<samples, updates, page>>
-----------------------------------------------------------------------------
(* The page *)

\* A faulty page that appends a history to the samples it has.
PlottedMerging(message, h) ==
  CASE message.type = "history" -> h \o message.samples
    [] message.type = "pressure_sample" ->
         LET all == Append(h, message.number)
         IN SubSeq(all, IF Len(all) > ClientLimit THEN Len(all) - ClientLimit + 1 ELSE 1, Len(all))
    [] OTHER -> h

Plotted(message, h) ==
  CASE message.type = "history" -> message.samples
    [] message.type = "pressure_sample" ->
         LET all == Append(h, message.number)
         IN SubSeq(all, IF Len(all) > ClientLimit THEN Len(all) - ClientLimit + 1 ELSE 1, Len(all))
    [] OTHER -> h

\* mergeModuleList, and the handlers of module_state and pressure_sample; a
\* module of which the page has only a sample is drawn offline.
Shown(message, modules) ==
  CASE message.type = "module_list" -> Merged(modules, message.modules)
    [] message.type = "module_state" -> With(modules, message.module, message.value)
    [] message.type = "pressure_sample" ->
         LET old == IF Gauge \in DOMAIN modules THEN modules[Gauge] ELSE Fresh
         IN With(modules, Gauge, [old EXCEPT !.value = message.number])
    [] OTHER -> modules

Receive ==
  /\ wire # <<>>
  /\ shown' = Shown(Head(wire), shown)
  /\ plotted' = Plotted(Head(wire), plotted)
  /\ wire' = Tail(wire)
  /\ UNCHANGED <<manager, breaks, connected, subscribe, queue, overwritten, missed>>

Next ==
  \/ \E m \in Modules :
       \/ \E online \in BOOLEAN : IngestPresence(m, online)
       \/ HeartbeatTimeout(m)
       \/ Command(m)
  \/ IngestReading
  \/ Accept \/ HandleSubscribe \/ SendFrame \/ Disconnect \/ Restart
  \/ Receive

Spec == Init /\ [][Next]_vars
-----------------------------------------------------------------------------

\* What a page that has received the messages shows, and draws.
Applied(message, view) ==
  [shown |-> Shown(message, view.shown), plotted |-> Plotted(message, view.plotted)]

After(view, messages) ==
  LET applied[k \in 0 .. Len(messages)] ==
        IF k = 0 THEN view ELSE Applied(messages[k], applied[k - 1])
  IN applied[Len(messages)]

\* What the page will show once it has received everything under way.
Under == wire \o queue
Finally == After([shown |-> shown, plotted |-> plotted], Under)
FinallyShown == Finally.shown
FinallyPlotted == Finally.plotted

\* A connected browser is going to show every module that this run of the
\* manager has heard as the manager has it, unless the queue overflowed and
\* dropped the newest update of that very module.
ViewCurrent ==
  connected =>
    \A m \in DOMAIN known \ overwritten :
      known[m].seen => m \in DOMAIN FinallyShown /\ FinallyShown[m] = known[m]

\* The samples drawn never repeat or go back, through reconnections, overflows
\* and restarts of the manager.  Those of this run of the manager, counted from
\* the newest, are all there as far as the page and the manager remember, and
\* none is left out among those drawn, unless the queue of this connection
\* dropped some.  Before them the page may still draw samples of a run of the
\* manager that ended, and what came between the two may be missing: a manager
\* with an empty history sends none.
HistoryTrue ==
  LET drawn == FinallyPlotted
      run == samples - forgotten
  IN /\ \A i, j \in DOMAIN drawn : i < j => drawn[i] < drawn[j]
     /\ connected /\ ~missed =>
          \A k \in 0 .. run - 1 :
            /\ k < Len(drawn) => drawn[Len(drawn) - k] = samples - k
            /\ k < ClientLimit /\ k < ServerLimit => k < Len(drawn)
=============================================================================
