------------------------------ MODULE PumpSwitch ------------------------------
(***************************************************************************)
(* The switches on the panels of three modules, and what they switch:      *)
(*   modules/roughing_pump/src/main.c  the relay of the pump, which        *)
(*                                     SET_SWITCH commands switch as well, *)
(*   modules/turbo_pump/src/main.c     the relay, and a second switch for  *)
(*                                     low speed,                          *)
(*   modules/ion_gauge/src/main.c      the enabling of the gauge.          *)
(* Each change of the first is reported once, in an event the manager      *)
(* shows.                                                                  *)
(*                                                                         *)
(* One turn of a main loop samples the switches, debounces them, and       *)
(* handles the frames in the CAN ring until there are none.  The turbo     *)
(* pump and the ion gauge debounce last, with the samples and the clock    *)
(* read at the start of the turn.  Switches move, frames arrive and time   *)
(* passes between any two steps: a flash frame may take seconds.           *)
(*                                                                         *)
(* Events reach the manager through SpiCanBus (manager/scp_manager/can.py, *)
(* module SpiManager): a command that is being sent to any module keeps    *)
(* the frames it meets for receive_loop, which may by then be past the     *)
(* drain of those kept, and takes a newer frame first.                     *)
(*                                                                         *)
(* Left out: heartbeats, the connection, the LEDs (module Manager), flash  *)
(* frames (module FlashTarget) except for the restarts they end in, the    *)
(* unit of the displays (module Monitor), and three inputs of the turbo    *)
(* pump that are debounced alike and only printed.                         *)
(***************************************************************************)
EXTENDS Naturals, Sequences

CONSTANTS
  Modules,         \* modules looked at
  DebounceTicks,   \* SWITCH_DEBOUNCE_US
  MaxMoves,        \* bound: movements of the switches, bounces included
  MaxCommands,     \* bound: commands received
  MaxFaults        \* bound: restarts of the module or the manager, events lost, and
                   \* events that a command being sent keeps aside

ASSUME PumpAssumption ==
  /\ Modules \subseteq {"roughing_pump", "turbo_pump", "ion_gauge"}
  /\ DebounceTicks \in Nat \ {0}
  /\ {MaxMoves, MaxCommands, MaxFaults} \subseteq Nat

VARIABLES
  module,           \* the module this is, one of Modules
  switch,           \* the positions of its switches
  pc,               \* where main is
  output,           \* what the switches switch: pump_enabled, the GPIOs
  last_state,       \* last_physical_switch_state, last_switch_state
  candidate_state,  \* switch_candidate_state
  candidate_age,    \* ticks since switch_candidate_since
  sample,           \* what this turn sampled
  sample_age,       \* ticks since the now of this turn
  ring,             \* SET_SWITCH frames in the CAN ring
  events,           \* events on the bus and in the SPI bridge
  kept,             \* events in _rx_queue of SpiCanBus
  past_drain,       \* receive_loop takes a frame from the bridge before those
  shown,            \* last_switch_value of the manager, empty for None
  moves, commands, faults,  \* counted against their bounds
  candidate_moves,  \* history: moves when the candidate was sampled
  settled_moves,    \* history: candidate_moves of the position accepted
  asked,            \* history: the command that nothing followed, if any
  outdated          \* history: the newest event was lost, or overtook another

turn == <<sample, sample_age>>
debouncer == <<last_state, candidate_state, candidate_age, candidate_moves, settled_moves>>
path == <<kept, past_drain, shown>>
manager == <<events, path, outdated>>
world == <<module, switch, moves, commands, asked>>
vars == <<pc, output, ring, turn, debouncer, manager, world, faults>>

Inputs == IF module = "turbo_pump" THEN {"enable", "low_speed"} ELSE {"enable"}

Remote == module = "roughing_pump"

Everywhere(value) == [i \in Inputs |-> value]

NoSample == [state |-> Everywhere(FALSE), due |-> Everywhere(FALSE), moves |-> 0]

pump_enabled == output["enable"]

\* The locals of main before it sets them.
Blank(last, candidate, age, seen, settled) ==
  /\ last = Everywhere(FALSE) /\ candidate = Everywhere(FALSE) /\ age = Everywhere(0)
  /\ seen = 0 /\ settled = 0

Init ==
  /\ module \in Modules
  /\ switch \in [Inputs -> BOOLEAN]
  /\ pc = "boot"
  /\ output = Everywhere(FALSE)
  /\ Blank(last_state, candidate_state, candidate_age, candidate_moves, settled_moves)
  /\ sample = NoSample /\ sample_age = 0
  /\ ring = <<>>
  /\ events = <<>> /\ kept = <<>> /\ past_drain = FALSE /\ outdated = FALSE
  /\ shown = <<>>
  /\ moves = 0 /\ commands = 0 /\ faults = 0
  /\ asked = <<>>
Fault == faults < MaxFaults /\ faults' = faults + 1
-----------------------------------------------------------------------------
(* main *)

\* A faulty report of the value before the change.
ReportLate(on) ==
  /\ \/ events' = Append(events, ~on) /\ outdated' = FALSE /\ UNCHANGED faults
     \/ Fault /\ outdated' = TRUE /\ UNCHANGED events
  /\ UNCHANGED path

\* The event is given to scp_can_transmit once, and its result ignored.
Report(on) ==
  /\ \/ events' = Append(events, on) /\ outdated' = FALSE /\ UNCHANGED faults
     \/ Fault /\ outdated' = TRUE /\ UNCHANGED events
  /\ UNCHANGED path

\* main up to its loop: the outputs take the positions of the switches.
Start ==
  /\ pc = "boot"
  /\ pc' = IF Remote THEN "online" ELSE "sample"
  /\ last_state' = switch
  /\ candidate_state' = switch
  /\ candidate_age' = Everywhere(0)
  /\ candidate_moves' = moves /\ settled_moves' = moves
  /\ output' = switch
  /\ Report(switch["enable"])
  /\ UNCHANGED <<ring, turn, world>>

\* The roughing pump sleeps for 5 s before its loop.
Online ==
  /\ pc = "online"
  /\ pc' = "sample"
  /\ UNCHANGED <<output, ring, turn, debouncer, manager, world, faults>>

Sample ==
  /\ pc = "sample"
  /\ pc' = IF Remote THEN "debounce" ELSE "drain"
  /\ sample' = [state |-> switch,
                due   |-> [i \in Inputs |-> candidate_age[i] >= DebounceTicks],
                moves |-> moves]
  /\ sample_age' = 0
  /\ UNCHANGED <<output, ring, debouncer, manager, world, faults>>

\* A faulty debouncer that starts again with every sample.
CandidateAgeRestarting(i) == sample_age

\* switch_candidate_since becomes the now of this turn when the sample
\* differs from the candidate.
CandidateAge(i) ==
  IF sample.state[i] # candidate_state[i] THEN sample_age ELSE candidate_age[i]

\* A faulty loop that makes the output follow the sample, moved or not.
SettlesLevel(i) ==
  sample.state[i] = candidate_state[i] /\ candidate_state[i] # output[i]

Settles(i) ==
  /\ sample.state[i] = candidate_state[i]
  /\ candidate_state[i] # last_state[i]
  /\ sample.due[i]

Debounce ==
  /\ pc = "debounce"
  /\ pc' = IF Remote THEN "drain" ELSE "sample"
  /\ candidate_state' = sample.state
  /\ candidate_age' = [i \in Inputs |-> CandidateAge(i)]
  /\ last_state' = [i \in Inputs |-> IF Settles(i) THEN candidate_state[i] ELSE last_state[i]]
  /\ output' = [i \in Inputs |-> IF Settles(i) THEN candidate_state[i] ELSE output[i]]
  /\ IF Settles("enable") THEN Report(candidate_state["enable"])
                          ELSE UNCHANGED <<manager, faults>>
  /\ candidate_moves' = IF sample.state["enable"] # candidate_state["enable"]
                          THEN sample.moves ELSE candidate_moves
  /\ settled_moves' = IF Settles("enable") THEN candidate_moves ELSE settled_moves
  /\ sample' = NoSample /\ sample_age' = 0
  /\ UNCHANGED <<ring, world>>

\* try_parse_set_switch_command and apply_pump_state.
HandleCommand ==
  LET on == Head(ring).on IN
  IF on # pump_enabled THEN output' = [output EXCEPT !["enable"] = on] /\ Report(on)
                       ELSE UNCHANGED <<output, manager, faults>>

AfterDrain == IF Remote THEN "sample" ELSE "debounce"

\* A faulty loop that handles one frame a turn.
DrainOne ==
  /\ pc = "drain"
  /\ pc' = AfterDrain
  /\ IF ring = <<>> THEN UNCHANGED <<output, ring, manager, faults>>
                    ELSE HandleCommand /\ ring' = Tail(ring)
  /\ UNCHANGED <<turn, debouncer, world>>

\* The loop over the frames received.
Drain ==
  /\ pc = "drain"
  /\ IF ring = <<>>
       THEN pc' = AfterDrain /\ UNCHANGED <<output, ring, manager, faults>>
       ELSE HandleCommand /\ ring' = Tail(ring) /\ UNCHANGED pc
  /\ UNCHANGED <<turn, debouncer, world>>

\* A faulty restart that leaves the relay closed.
RestartEnabled ==
  /\ pc # "boot"
  /\ Fault
  /\ pc' = "boot"
  /\ ring' = <<>>
  /\ asked' = <<>>
  /\ \E n \in 0 .. Len(events) : events' = SubSeq(events, 1, n)
  /\ UNCHANGED <<output, turn, debouncer, path, outdated, module, switch, moves, commands>>

\* Power, watchdog or bootloader.  The outputs are low until main sets them,
\* and what the controller has not sent is lost.
Restart ==
  /\ pc # "boot"
  /\ Fault
  /\ pc' = "boot"
  /\ output' = Everywhere(FALSE)
  /\ Blank(last_state', candidate_state', candidate_age', candidate_moves', settled_moves')
  /\ sample' = NoSample /\ sample_age' = 0
  /\ ring' = <<>>
  /\ asked' = <<>>
  /\ \E n \in 0 .. Len(events) : events' = SubSeq(events, 1, n)
  /\ UNCHANGED <<path, outdated, module, switch, moves, commands>>
-----------------------------------------------------------------------------
(* The world *)

Move(i) ==
  /\ moves < MaxMoves
  /\ moves' = moves + 1
  /\ switch' = [switch EXCEPT ![i] = ~@]
  /\ asked' = <<>>
  /\ UNCHANGED <<module, pc, output, ring, turn, debouncer, manager, commands, faults>>

AtRest ==
  LET position == switch["enable"] IN
  position = last_state["enable"] /\ position = candidate_state["enable"]

\* The interrupt puts a command in the ring.
Command(on) ==
  /\ Remote
  /\ pc # "boot"
  /\ commands < MaxCommands
  /\ commands' = commands + 1
  /\ ring' = Append(ring, [on |-> on, moves |-> moves])
  /\ asked' = IF AtRest THEN <<on>> ELSE <<>>
  /\ UNCHANGED <<module, pc, output, turn, debouncer, manager, switch, moves, faults>>

\* Ages beyond DebounceTicks are all alike.
Older(age) == IF age < DebounceTicks THEN age + 1 ELSE age

Sampled == pc = "debounce" \/ (pc = "drain" /\ ~Remote)

Tick ==
  /\ pc # "boot"
  /\ candidate_age' = [i \in Inputs |-> Older(candidate_age[i])]
  /\ sample_age' = IF Sampled THEN Older(sample_age) ELSE sample_age
  /\ UNCHANGED <<pc, output, ring, sample, last_state, candidate_state,
                 candidate_moves, settled_moves, manager, world, faults>>

pump == <<pc, output, ring, turn, debouncer, world>>

\* ingest_decoded_message, for switch_changed.
Ingest(on) == shown' = <<on>>

\* send keeps a frame that comes while it waits for its status.  receive_loop
\* may be past its drain by then, and wait for the lock.
Keep ==
  /\ events # <<>>
  /\ Fault
  /\ kept' = Append(kept, Head(events))
  /\ events' = Tail(events)
  /\ past_drain' \in IF kept = <<>> THEN BOOLEAN ELSE {past_drain}
  /\ UNCHANGED <<shown, outdated, pump>>

\* receive_loop takes what was kept, until there is nothing left.
DrainKept ==
  /\ kept # <<>> /\ ~past_drain
  /\ Ingest(Head(kept))
  /\ kept' = Tail(kept)
  /\ UNCHANGED <<events, past_drain, outdated, pump, faults>>

\* It gets the lock and a frame from the bridge: an event of this module, or
\* nothing that concerns it.
Receive ==
  /\ kept = <<>> \/ past_drain
  /\ past_drain' = FALSE
  /\ \/ /\ events # <<>>
        /\ Ingest(Head(events))
        /\ events' = Tail(events)
        /\ outdated' = (outdated \/ (events' = <<>> /\ kept # <<>>))
     \/ UNCHANGED <<events, shown, outdated>>
  /\ UNCHANGED <<kept, pump, faults>>

\* A full queue of the bridge or of SpiCanBus gives up its oldest frame.
Overwrite ==
  /\ Fault
  /\ \/ /\ events # <<>> /\ events' = Tail(events) /\ UNCHANGED kept
        /\ outdated' = (outdated \/ events' = <<>>) /\ UNCHANGED past_drain
     \/ /\ kept # <<>> /\ kept' = Tail(kept) /\ UNCHANGED events
        /\ outdated' = (outdated \/ (events = <<>> /\ kept' = <<>>))
        /\ past_drain' = (past_drain /\ kept' # <<>>)
  /\ UNCHANGED <<shown, pump>>

\* It misses what arrives while it is down, and knows nothing of before.
ManagerRestart ==
  /\ Fault
  /\ shown' = <<>> /\ kept' = <<>> /\ past_drain' = FALSE
  /\ \E n \in 1 .. Len(events) + 1 : events' = SubSeq(events, n, Len(events))
  /\ outdated' = (outdated /\ events' # <<>>)
  /\ UNCHANGED pump

Main == Start \/ Online \/ Sample \/ Debounce \/ Drain

Next ==
  \/ Main \/ Restart
  \/ (\E i \in Inputs : Move(i)) \/ (\E on \in BOOLEAN : Command(on))
  \/ Tick \/ Keep \/ DrainKept \/ Receive \/ Overwrite \/ ManagerRestart

\* The main loop runs, and time passes.
Spec == Init /\ [][Next]_vars /\ WF_vars(Main) /\ WF_vars(Tick)
-----------------------------------------------------------------------------

Optional == {<<>>} \cup {<<on>> : on \in BOOLEAN}

Positions == [Inputs -> BOOLEAN]

TypeOK ==
  /\ module \in Modules
  /\ {switch, output, last_state, candidate_state} \subseteq Positions
  /\ pc \in {"boot", "online", "sample", "debounce", "drain"}
  /\ pc = "boot" => output = Everywhere(FALSE) /\ ring = <<>>
  /\ candidate_age \in [Inputs -> 0 .. DebounceTicks]
  /\ sample \in [state : Positions, due : Positions, moves : 0 .. MaxMoves]
  /\ sample_age \in 0 .. DebounceTicks
  /\ ring \in Seq([on : BOOLEAN, moves : 0 .. MaxMoves])
  /\ {events, kept} \subseteq Seq(BOOLEAN) /\ {past_drain, outdated} \subseteq BOOLEAN
  /\ shown \in Optional
  /\ moves \in 0 .. MaxMoves /\ commands \in 0 .. MaxCommands
  /\ faults \in 0 .. MaxFaults
  /\ candidate_moves \in 0 .. MaxMoves /\ settled_moves \in 0 .. MaxMoves
  /\ asked \in Optional

\* Once the pump has obeyed the switch, no command sent before the switch was
\* moved changes it any more.
SwitchOverridesOlder ==
  \A i \in DOMAIN ring : ring[i].moves >= settled_moves

\* A command that finds the switch at rest stands until something follows it.
CommandStands == <>[](asked # <<>> => asked = <<pump_enabled>>)

\* A switch that is left where it is is obeyed, bounces, long turns and all.
\* Where no command interferes, its output stays with it.
SwitchObeyed ==
  \A i \in {"enable", "low_speed"}, p \in BOOLEAN :
    <>[](i \in Inputs /\ switch[i] = p) =>
      <>[](i \in Inputs => last_state[i] = p /\ (~Remote => output[i] = p))

\* The manager ends with the switch value that is true of the output, whatever
\* was sampled, restarted or commanded in between and whichever older events
\* were lost or overtaken, unless the newest event was lost itself or was
\* ingested before an older one that send had kept.
NewestReportTrue ==
  (pc # "boot" /\ ~outdated) =>
    CASE events # <<>> -> events[Len(events)] = pump_enabled
      [] events = <<>> /\ kept # <<>> -> kept[Len(kept)] = pump_enabled
      [] OTHER -> shown \in {<<>>, <<pump_enabled>>}
=============================================================================
