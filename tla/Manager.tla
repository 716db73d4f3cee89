------------------------------- MODULE Manager -------------------------------
(***************************************************************************)
(* What the manager knows of the modules: StateStore and ManagerRuntime of *)
(* manager/scp_manager (state.py, app.py), fed with the heartbeats and the *)
(* connection events of modules that are switched on and off.              *)
(*                                                                         *)
(* Time passes in ticks of half a second, SCP_HEARTBEAT_PERIOD.  What is   *)
(* due at a tick is done before the next one.  The times that StateStore   *)
(* keeps are their ages here, which stop at MaxAge.                        *)
(*                                                                         *)
(* Left out: the values of telemetry and their history; the browsers; the  *)
(* order of frames on their way (module SpiManager).                       *)
(***************************************************************************)
EXTENDS Integers, Sequences, FiniteSets

CONSTANTS
  Modules,            \* modules on the bus
  Commands,           \* commands of browsers
  HeartbeatTimeout,   \* HEARTBEAT_TIMEOUT_MS (4 ticks)
  MaintenancePeriod,  \* the sleep of maintenance_loop (2 ticks)
  LogLimit,           \* COMMAND_LOG_LIMIT (200)
  MaxEvents           \* bound: switchings, sensor changes, losses, restarts

ASSUME ManagerAssumption ==
  /\ {HeartbeatTimeout, MaintenancePeriod, LogLimit} \subseteq Nat \ {0}
  /\ HeartbeatTimeout > 1 /\ MaxEvents \in Nat

VARIABLES
  on,            \* modules that are switched on
  connected,     \* modules whose sensor or pump is plugged in
  heartbeat_in,  \* ticks to the next heartbeat of a module
  refresh_in,    \* ticks to the next turn of maintenance_loop
  modules,       \* StateStore._modules
  command_log,   \* StateStore._command_log
  commands,      \* the calls of submit_command
  events         \* events counted against MaxEvents

world == <<on, connected, heartbeat_in>>
vars == <<world, refresh_in, modules, command_log, commands, events>>

None == -1
MaxAge == HeartbeatTimeout + MaintenancePeriod + 1
Ages == {None} \cup 0 .. MaxAge

\* The fields of a new ModuleState.
Unknown ==
  [online |-> FALSE, state |-> "unknown", last_heartbeat |-> None, last_seen |-> None,
   last_command |-> <<>>]

Init ==
  /\ on \in SUBSET Modules
  /\ connected \in SUBSET Modules
  /\ heartbeat_in = [m \in Modules |-> 1]
  /\ refresh_in = 0
  /\ modules = [m \in Modules |-> Unknown]
  /\ command_log = <<>>
  /\ commands = [c \in Commands |-> [step |-> "new"]]
  /\ events = 0

Event == events < MaxEvents /\ events' = events + 1
-----------------------------------------------------------------------------
(* StateStore *)

\* ingest_decoded_message, for each type of message.
Seen(r) == [r EXCEPT !.last_seen = 0]

\* A faulty heartbeat that does not bring a module back.
IngestHeartbeatOffline(r) == [Seen(r) EXCEPT !.state = "run", !.last_heartbeat = 0]

IngestHeartbeat(r) ==
  [Seen(r) EXCEPT !.online = TRUE, !.state = "run", !.last_heartbeat = 0]

IngestConnection(r, detected) == [Seen(r) EXCEPT !.online = detected]

IngestReading(r) == Seen(r)

\* A faulty timeout, off by one.
TimedOutEarly(r) ==
  /\ r.last_heartbeat # None
  /\ r.online
  /\ r.last_heartbeat >= HeartbeatTimeout

\* A faulty timeout, late by a turn of the loop.
TimedOutLate(r) ==
  /\ r.last_heartbeat # None
  /\ r.online
  /\ r.last_heartbeat > HeartbeatTimeout + MaintenancePeriod

TimedOut(r) ==
  /\ r.last_heartbeat # None
  /\ r.online
  /\ r.last_heartbeat > HeartbeatTimeout

\* refresh_offline_modules
Refreshed(r) ==
  IF TimedOut(r) THEN [r EXCEPT !.online = FALSE, !.state = "offline"] ELSE r

\* A faulty log without a limit.
NewestAll(s, n) == s

Newest(s, n) == IF Len(s) <= n THEN s ELSE SubSeq(s, Len(s) - n + 1, Len(s))

\* A faulty result that is logged and not kept with its module.
MarkLogOnly(c, m, status) ==
  /\ command_log' = Newest(Append(command_log, <<c, m, status>>), LogLimit)
  /\ UNCHANGED modules

\* mark_command_result: the log is a deque with a maxlen.
MarkCommandResult(c, m, status) ==
  /\ modules' = [modules EXCEPT ![m].last_command = <<c, m, status>>]
  /\ command_log' = Newest(Append(command_log, <<c, m, status>>), LogLimit)
-----------------------------------------------------------------------------
(* The modules and their frames, which may be lost *)

Receive(m, r) ==
  \/ modules' = [modules EXCEPT ![m] = r] /\ UNCHANGED events
  \/ Event /\ UNCHANGED modules

Heartbeat(m) ==
  /\ m \in on
  /\ heartbeat_in[m] = 0
  /\ heartbeat_in' = [heartbeat_in EXCEPT ![m] = 1]
  /\ Receive(m, IngestHeartbeat(modules[m]))
  /\ UNCHANGED <<on, connected, refresh_in, command_log, commands>>

\* A reading of the sensor or a change of the switch.
Reading(m) ==
  /\ m \in on
  /\ Receive(m, IngestReading(modules[m]))
  /\ UNCHANGED <<world, refresh_in, command_log, commands>>

\* A module reports its connection at once, and its heartbeat a period later.
SwitchOn(m) ==
  /\ m \notin on
  /\ Event
  /\ on' = on \cup {m}
  /\ heartbeat_in' = [heartbeat_in EXCEPT ![m] = 1]
  /\ modules' = IF m \in connected
                  THEN [modules EXCEPT ![m] = IngestConnection(@, TRUE)]
                  ELSE modules
  /\ UNCHANGED <<connected, refresh_in, command_log, commands>>

SwitchOff(m) ==
  /\ m \in on
  /\ Event
  /\ on' = on \ {m}
  /\ UNCHANGED <<connected, heartbeat_in, refresh_in, modules, command_log, commands>>

Plug(m, detected) ==
  /\ detected # (m \in connected)
  /\ Event
  /\ connected' = IF detected THEN connected \cup {m} ELSE connected \ {m}
  /\ modules' = IF m \in on
                  THEN [modules EXCEPT ![m] = IngestConnection(@, detected)]
                  ELSE modules
  /\ UNCHANGED <<on, heartbeat_in, refresh_in, command_log, commands>>
-----------------------------------------------------------------------------
(* ManagerRuntime *)

\* One turn of maintenance_loop.
Maintenance ==
  /\ refresh_in = 0
  /\ refresh_in' = MaintenancePeriod
  /\ modules' = [m \in Modules |-> Refreshed(modules[m])]
  /\ UNCHANGED <<world, command_log, commands, events>>

\* submit_command, up to its await of the bus.
Submit(c, m) ==
  /\ commands[c].step = "new"
  /\ \/ /\ modules[m].online
        /\ commands' = [commands EXCEPT ![c] = [step |-> "sending", target |-> m]]
        /\ UNCHANGED <<modules, command_log>>
     \/ /\ MarkCommandResult(c, m, "rejected")
        /\ commands' = [commands EXCEPT ![c] = [step |-> "done"]]
  /\ UNCHANGED <<world, refresh_in, events>>

\* The bus has the frame, or refused it, or _build_frame raised.
SendEnds(c) ==
  /\ commands[c].step = "sending"
  /\ \E status \in {"accepted", "transport_error"} :
       MarkCommandResult(c, commands[c].target, status)
  /\ commands' = [commands EXCEPT ![c] = [step |-> "done"]]
  /\ UNCHANGED <<world, refresh_in, events>>

\* The manager is stopped and started: nothing is kept.
Restart ==
  /\ Event
  /\ modules' = [m \in Modules |-> Unknown]
  /\ command_log' = <<>>
  /\ commands' = [c \in Commands |-> IF commands[c].step = "new" THEN commands[c]
                                                                  ELSE [step |-> "done"]]
  /\ refresh_in' = 0
  /\ UNCHANGED world

Older(age) == IF age = None \/ age = MaxAge THEN age ELSE age + 1

Tick ==
  /\ refresh_in > 0
  /\ \A m \in on : heartbeat_in[m] > 0
  /\ refresh_in' = refresh_in - 1
  /\ heartbeat_in' = [m \in Modules |-> IF m \in on THEN heartbeat_in[m] - 1
                                                    ELSE heartbeat_in[m]]
  /\ modules' = [m \in Modules |-> [modules[m] EXCEPT !.last_heartbeat = Older(@),
                                                      !.last_seen = Older(@)]]
  /\ UNCHANGED <<on, connected, command_log, commands, events>>

Next ==
  \/ \E m \in Modules :
       \/ Heartbeat(m) \/ Reading(m) \/ SwitchOn(m) \/ SwitchOff(m)
       \/ \E detected \in BOOLEAN : Plug(m, detected)
       \/ \E c \in Commands : Submit(c, m)
  \/ \E c \in Commands : SendEnds(c)
  \/ Maintenance \/ Restart \/ Tick

\* Time passes, the modules that are on send, and the event loop runs.
Spec ==
  /\ Init /\ [][Next]_vars
  /\ WF_vars(Tick)
  /\ WF_vars(Maintenance)
  /\ \A m \in Modules : WF_vars(Heartbeat(m))
  /\ \A c \in Commands : WF_vars(SendEnds(c))
-----------------------------------------------------------------------------

Results == Commands \X Modules \X {"rejected", "accepted", "transport_error"}

TypeOK ==
  /\ on \subseteq Modules /\ connected \subseteq Modules
  /\ heartbeat_in \in [Modules -> 0 .. 1]
  /\ refresh_in \in 0 .. MaintenancePeriod
  /\ modules \in [Modules ->
       [online : BOOLEAN, state : {"unknown", "run", "offline"}, last_heartbeat : Ages,
        last_seen : Ages, last_command : Results \cup {<<>>}]]
  /\ command_log \in Seq(Results) /\ Len(command_log) <= LogLimit
  /\ commands \in [Commands -> {[step |-> "new"], [step |-> "done"]}
                     \cup {[step |-> "sending", target |-> m] : m \in Modules}]
  /\ events \in 0 .. MaxEvents

\* Longer than a timeout and the wait for the next refresh.
Silent(r) == r.last_seen = MaxAge

\* A module that once sent a heartbeat is not shown online when it has been
\* silent, whatever connection events came between.
SilentHeardIsOffline ==
  \A m \in Modules :
    (modules[m].last_heartbeat # None /\ Silent(modules[m])) => ~modules[m].online

\* One event alone, a lost heartbeat or any other, never makes the refresh take
\* a module offline that is running.
OneLossTolerated == events <= 1 => \A m \in on : modules[m].state # "offline"

\* A module that stays on is shown online for good, even if its sensor was
\* unplugged, frames were lost or the manager was restarted.
RunningShownOnline ==
  \A m \in Modules : <>[](m \in on) => <>[](modules[m].online)

\* The last command shown for a module is the newest of the log that is its own,
\* or older than the whole log; and a command is logged at most once.
LogAgrees ==
  /\ \A m \in Modules :
       LET own == {i \in DOMAIN command_log : command_log[i][2] = m} IN
       IF own = {} THEN modules[m].last_command # <<>> => Len(command_log) = LogLimit
       ELSE \E i \in own : /\ \A j \in own : j <= i
                           /\ modules[m].last_command = command_log[i]
  /\ \A i, j \in DOMAIN command_log : command_log[i][1] = command_log[j][1] => i = j

\* "heartbeat timeout -> offline" (docs/manager-web-server.md).
SilentIsOffline ==
  \A m \in Modules : Silent(modules[m]) => ~modules[m].online
=============================================================================
