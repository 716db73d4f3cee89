------------------------------- MODULE Monitor -------------------------------
(***************************************************************************)
(* The main loop of modules/monitor/src/main.c, with its display (module   *)
(* MonitorDisplay), and the modules it speaks with: the gauges, which take *)
(* a display unit, and one whose heartbeats the table of connections       *)
(* follows.  While a flash session is open or an image ready, the frames   *)
(* that are not the flash handler's are dropped and nothing but heartbeats *)
(* is sent.                                                                *)
(*                                                                         *)
(* Time passes in ticks of half a second, SCP_HEARTBEAT_PERIOD; a turn of  *)
(* the loop is short against it.  The time of the last heartbeat is its    *)
(* age here.                                                               *)
(*                                                                         *)
(* Left out: the budgets of frames per turn and the ring behind them       *)
(* (CanRxQueue), the readings and the event log, the statistics, the       *)
(* monitor's own heartbeat and LED.                                        *)
(***************************************************************************)
EXTENDS MonitorDisplay

CONSTANTS
  Gauges,      \* the modules a unit is sent to
  RowTimeout   \* MONITOR_HEARTBEAT_TIMEOUT_MS (3 ticks)

ASSUME RowAssumption == RowTimeout \in Nat \ {0}

VARIABLES
  flash_active,  \* a flash session is open, or an image ready
  on_its_way,    \* frames SET_DISPLAY_UNIT from the monitor to each gauge
  display_unit,  \* the unit of each gauge
  missed,        \* history: gauges that the newest unit sent to them does not reach,
                 \* or that the manager gave another one since
  on,            \* the other module is switched on
  beat_due,      \* it has yet to send the heartbeat of this tick
  beat_queued,   \* its heartbeat is in the ring of the monitor
  row            \* age of its heartbeat in s_connection_rows, None without a row

bus == <<on_its_way, display_unit, missed>>
other == <<on, beat_due, beat_queued>>
vars == <<display_vars, flash_active, bus, other, row>>

None == -1

Init ==
  /\ DisplayInit
  /\ flash_active = FALSE
  /\ on_its_way = [g \in Gauges |-> <<>>]
  /\ display_unit = [g \in Gauges |-> DefaultUnit]
  /\ missed = {}
  /\ on \in BOOLEAN /\ beat_due = FALSE /\ beat_queued = FALSE
  /\ row = None
-----------------------------------------------------------------------------
(* The main loop *)

\* The heartbeat of the other module, for which a row is made if need be.
Heard == IF beat_queued /\ ~flash_active THEN 0 ELSE row

\* scp_can_try_read until the ring is empty.
Drain ==
  /\ pc = "drain"
  /\ row' = Heard
  /\ beat_queued' = FALSE
  /\ pc' = "nav"
  /\ UNCHANGED <<encoder, next_pc, loaded, navigation, units, calibration, record, events,
                 flash_active, bus, on, beat_due>>

\* BEGIN, and ABORT: whatever the handler does else is in FlashTarget.
FlashFrame ==
  /\ pc = "drain"
  /\ IF flash_active THEN UNCHANGED events ELSE Event
  /\ flash_active' = ~flash_active
  /\ UNCHANGED <<encoder, pc, next_pc, loaded, navigation, units, calibration, record, bus,
                 other, row>>

\* A faulty refresh that keeps every row.
RefreshNothing == pc = "view" /\ mode = "ui" /\ pc' = "touch" /\ UNCHANGED row

\* refresh_connection_rows, outside a calibration.
RefreshRows ==
  /\ pc = "view" /\ mode = "ui"
  /\ row' = IF row > RowTimeout THEN None ELSE row
  /\ pc' = "touch"

TaskHandler ==
  \/ /\ (Navigate \/ Calibrate \/ Touch)
     /\ UNCHANGED <<flash_active, bus, other, row>>
  \/ /\ RefreshRows
     /\ UNCHANGED <<encoder, next_pc, loaded, navigation, units, calibration, record, events,
                    flash_active, bus, other>>

\* A faulty loop that takes the command before it looks at the flash session.
TakeUnitAnyway ==
  /\ pc = "units"
  /\ unit_pending' = FALSE
  /\ on_its_way' = IF unit_pending /\ ~flash_active
                     THEN [g \in Gauges |-> Append(on_its_way[g], selected_unit)]
                     ELSE on_its_way
  /\ pc' = "drain"
  /\ UNCHANGED <<encoder, next_pc, loaded, navigation, selected_unit, calibration, record,
                 events, flash_active, display_unit, missed, other, row>>

\* The command is taken, and sent to one gauge after the other whatever
\* scp_can_transmit returns.
TakeUnit ==
  /\ pc = "units"
  /\ IF unit_pending /\ ~flash_active
       THEN \E refused \in SUBSET Gauges :
              /\ IF refused = {} THEN UNCHANGED events ELSE Event
              /\ unit_pending' = FALSE
              /\ on_its_way' = [g \in Gauges |-> IF g \in refused THEN on_its_way[g]
                                                 ELSE Append(on_its_way[g], selected_unit)]
              /\ missed' = refused
       ELSE UNCHANGED <<events, unit_pending, on_its_way, missed>>
  /\ pc' = "drain"
  /\ UNCHANGED <<encoder, next_pc, loaded, navigation, selected_unit, calibration, record,
                 flash_active, display_unit, other, row>>

\* The power of the monitor fails, or a flash command resets it.
Restart ==
  /\ Event
  /\ Booted(record)
  /\ flash_active' = FALSE /\ beat_queued' = FALSE /\ row' = None
  /\ UNCHANGED <<record, bus, on, beat_due>>
-----------------------------------------------------------------------------
(* The other modules *)

GaugeHandles(g) ==
  /\ on_its_way[g] # <<>>
  /\ display_unit' = [display_unit EXCEPT ![g] = Head(on_its_way[g])]
  /\ on_its_way' = [on_its_way EXCEPT ![g] = Tail(@)]
  /\ UNCHANGED <<display_vars, flash_active, missed, other, row>>

\* A gauge comes back with the default unit, and without what was sent to it.
GaugeRestarts(g) ==
  /\ Event
  /\ display_unit' = [display_unit EXCEPT ![g] = DefaultUnit]
  /\ on_its_way' = [on_its_way EXCEPT ![g] = <<>>]
  /\ missed' = missed \cup {g}
  /\ UNCHANGED <<encoder, pc, next_pc, loaded, navigation, units, calibration, record,
                 flash_active, other, row>>

\* The ring of a gauge is full: a frame for it is not handled.
LoseUnit(g) ==
  /\ Event
  /\ on_its_way[g] # <<>>
  /\ on_its_way' = [on_its_way EXCEPT ![g] = Tail(@)]
  /\ missed' = IF on_its_way'[g] = <<>> THEN missed \cup {g} ELSE missed
  /\ UNCHANGED <<encoder, pc, next_pc, loaded, navigation, units, calibration, record,
                 flash_active, display_unit, other, row>>

\* A gauge handles SET_DISPLAY_UNIT from the manager, whose page chooses units
\* as well and does not follow the monitor's.
ManagerUnit(g) ==
  /\ Event
  /\ \E unit \in Units : display_unit' = [display_unit EXCEPT ![g] = unit]
  /\ missed' = IF on_its_way[g] = <<>> THEN missed \cup {g} ELSE missed
  /\ UNCHANGED <<encoder, pc, next_pc, loaded, navigation, units, calibration, record,
                 flash_active, on_its_way, other, row>>

SendHeartbeat ==
  /\ beat_due
  /\ beat_due' = FALSE
  /\ \/ beat_queued' = TRUE /\ UNCHANGED events
     \/ Event /\ UNCHANGED beat_queued
  /\ UNCHANGED <<encoder, pc, next_pc, loaded, navigation, units, calibration, record,
                 flash_active, bus, on, row>>

Switch ==
  /\ Event
  /\ on' = ~on
  /\ beat_due' = FALSE
  /\ UNCHANGED <<encoder, pc, next_pc, loaded, navigation, units, calibration, record,
                 flash_active, bus, beat_queued, row>>

Tick ==
  /\ ~beat_due /\ ~beat_queued
  /\ beat_due' = on
  /\ row' = IF row \in {None, RowTimeout + 1} THEN row ELSE row + 1
  /\ UNCHANGED <<display_vars, flash_active, bus, on, beat_queued>>

Interrupt == (Step(1) \/ Step(-1) \/ Click) /\ UNCHANGED <<flash_active, bus, other, row>>

Turn == Drain \/ TaskHandler \/ TakeUnit

Next ==
  \/ Turn \/ FlashFrame \/ Interrupt \/ Restart
  \/ \E g \in Gauges : GaugeHandles(g) \/ GaugeRestarts(g) \/ LoseUnit(g) \/ ManagerUnit(g)
  \/ SendHeartbeat \/ Switch \/ Tick

\* Every loop runs and time passes; no session has to end.
Spec ==
  /\ Init /\ [][Next]_vars
  /\ WF_vars(Turn) /\ WF_vars(SendHeartbeat) /\ WF_vars(Tick)
  /\ \A g \in Gauges : WF_vars(GaugeHandles(g))
-----------------------------------------------------------------------------

\* A gauge ends with the unit selected on the monitor, whatever the order of
\* choices, restarts of the monitor and flash sessions, unless a
\* session is never ended, the last frame to the gauge was refused or lost by
\* its ring or its restart, or the manager's page chose a unit after it.
UnitsAgree ==
  \A g \in Gauges :
    <>[](~flash_active /\ g \notin missed) => <>[](display_unit[g] = selected_unit)

\* A module that stays on is shown for good, once no flash session is open; one
\* that stays off goes, during a session too, once no calibration is going on.
PresenceFollows ==
  /\ <>[](on /\ ~flash_active) => <>[](row # None)
  /\ <>[](~on /\ mode = "ui") => <>[](row = None)
=============================================================================
