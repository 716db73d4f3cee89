---------------------------- MODULE MonitorDisplay ----------------------------
(***************************************************************************)
(* The user's side of the monitor:                                         *)
(* modules/monitor/src/touch_calibrator_display.c.  A timer interrupt      *)
(* counts the steps of the rotary encoder and its clicks; a turn of the    *)
(* main loop (module Monitor) calls touch_calibrator_display_task_handler, *)
(* which acts upon them, continues a calibration of the touch panel, and   *)
(* runs the widgets a finger may have pressed.  The interrupt may fall     *)
(* between any load and store of the main loop to what they share, and pc  *)
(* has a value for each place where that matters.                          *)
(*                                                                         *)
(* Left out: drawing, the event log, the brightness, the decoding of       *)
(* contacts into steps and clicks, and all samples of a touch but whether  *)
(* they make a point.                                                      *)
(***************************************************************************)
EXTENDS Integers, Sequences, FiniteSets

CONSTANTS
  TabCount,      \* MONITOR_TAB_COUNT (4); the settings are the last tab
  Units,         \* display units of a gauge
  DefaultUnit,   \* SCP_DISPLAY_UNIT_TORR
  Focusables,    \* settings in the order of the focus: calibration, brightness, units
  Points,        \* TOUCH_CALIBRATION_POINT_COUNT (5)
  MaxEvents      \* bound: inputs of the user, and faults (restarts, flash sessions, losses)

ASSUME DisplayAssumption ==
  /\ TabCount \in Nat /\ TabCount >= 2 /\ Points \in Nat \ {0}
  /\ DefaultUnit \in Units
  /\ Focusables \in Seq(Units \cup {"calibration", "brightness"}) /\ Focusables # <<>>
  /\ MaxEvents \in Nat

VARIABLES
  step_delta,     \* s_encoder_step_delta, written by the interrupt too
  click_pending,  \* s_encoder_button_click_pending, set by the interrupt
  pc,             \* where the main loop is
  next_pc,        \* where its branch goes on
  loaded,         \* the value loaded of step_delta
  tab, tab_entered, slider_mode, focus,
  selected_unit, unit_pending,
  mode, point, transform,
  record,         \* the calibration in flash, 0 when there is none
  events,         \* counted against MaxEvents
  open_steps,     \* history: steps made less steps acted upon or discarded
  raced,          \* history: steps made where they may be lost
  open_clicks,    \* history: the same for clicks
  merged          \* history: clicks made while one was pending

encoder == <<step_delta, click_pending, open_steps, raced, open_clicks, merged>>
navigation == <<tab, tab_entered, slider_mode, focus>>
units == <<selected_unit, unit_pending>>
calibration == <<mode, point, transform>>
display_vars ==
  <<encoder, pc, next_pc, loaded, navigation, units, calibration, record, events>>

Settings == TabCount - 1

Event == events < MaxEvents /\ events' = events + 1

\* touch_calibrator_display_init; without a record a calibration begins.
Booted(stored) ==
  /\ step_delta' = 0 /\ click_pending' = FALSE
  /\ open_steps' = 0 /\ raced' = 0 /\ open_clicks' = 0 /\ merged' = 0
  /\ pc' = "drain" /\ next_pc' = "drain" /\ loaded' = 0
  /\ tab' = 0 /\ tab_entered' = FALSE /\ slider_mode' = FALSE /\ focus' = 1
  /\ selected_unit' = DefaultUnit /\ unit_pending' = TRUE
  /\ mode' = IF stored = 0 THEN "calibration" ELSE "ui"
  /\ point' = 0 /\ transform' = stored

DisplayInit ==
  /\ step_delta = 0 /\ click_pending = FALSE
  /\ open_steps = 0 /\ raced = 0 /\ open_clicks = 0 /\ merged = 0
  /\ pc = "drain" /\ next_pc = "drain" /\ loaded = 0
  /\ tab = 0 /\ tab_entered = FALSE /\ slider_mode = FALSE /\ focus = 1
  /\ selected_unit = DefaultUnit /\ unit_pending = TRUE
  /\ record \in {0, 1}
  /\ mode = IF record = 0 THEN "calibration" ELSE "ui"
  /\ point = 0 /\ transform = record
  /\ events = 0
-----------------------------------------------------------------------------
(* monitor_encoder_sample, in the interrupt *)

\* save_calibration_to_flash masks interrupts.
Masked == pc = "program"

Step(d) ==
  /\ ~Masked /\ Event
  /\ step_delta' = step_delta + d
  /\ open_steps' = open_steps + d
  /\ raced' = IF pc \in {"tab_zero", "store"} THEN raced + 1 ELSE raced
  /\ UNCHANGED <<click_pending, open_clicks, merged, pc, next_pc, loaded, navigation,
                 units, calibration, record>>

Click ==
  /\ ~Masked /\ Event
  /\ click_pending' = TRUE
  /\ open_clicks' = open_clicks + 1
  /\ merged' = IF click_pending THEN merged + 1 ELSE merged
  /\ UNCHANGED <<step_delta, open_steps, raced, pc, next_pc, loaded, navigation, units,
                 calibration, record>>
-----------------------------------------------------------------------------
(* The calibration and the unit, from a widget or the encoder *)

\* start_calibration_session
StartCalibration ==
  /\ mode' = "calibration" /\ point' = 0
  /\ UNCHANGED <<transform, units>>

\* request_pressure_unit_change
RequestUnit(u) ==
  /\ selected_unit' = u /\ unit_pending' = TRUE
  /\ UNCHANGED calibration

\* What a click does to the widget w, the slider excepted.
Clicked(w) == IF w = "calibration" THEN StartCalibration ELSE RequestUnit(w)
-----------------------------------------------------------------------------
(* monitor_encoder_apply_tab_navigation *)

NavigateElsewhere ==
  /\ pc = "nav" /\ mode # "ui"
  /\ step_delta' = 0 /\ click_pending' = FALSE
  /\ open_steps' = open_steps - step_delta
  /\ open_clicks' = IF click_pending THEN open_clicks - 1 ELSE open_clicks
  /\ tab_entered' = FALSE /\ slider_mode' = FALSE
  /\ pc' = "view"
  /\ UNCHANGED <<raced, merged, next_pc, loaded, tab, focus, units, calibration, record, events>>

NavigateTabs ==
  /\ pc = "nav" /\ mode = "ui"
  /\ tab = Settings => ~tab_entered
  /\ next_pc' = IF tab = Settings THEN "enter" ELSE "drop_click"
  /\ pc' = IF step_delta # 0 THEN "tab" ELSE next_pc'
  /\ tab_entered' = FALSE
  /\ slider_mode' = IF tab = Settings THEN slider_mode ELSE FALSE
  /\ UNCHANGED <<encoder, loaded, tab, focus, units, calibration, record, events>>

Clamped(t) == IF t < 0 THEN 0 ELSE IF t > Settings THEN Settings ELSE t

MoveTab ==
  /\ pc = "tab"
  /\ tab' = Clamped(tab + step_delta)
  /\ open_steps' = open_steps - step_delta
  /\ pc' = "tab_zero"
  /\ UNCHANGED <<step_delta, click_pending, raced, open_clicks, merged, next_pc, loaded,
                 tab_entered, slider_mode, focus, units, calibration, record, events>>

\* A faulty navigation that keeps the steps it has acted upon.
KeepSteps ==
  /\ pc = "tab_zero"
  /\ pc' = next_pc
  /\ UNCHANGED <<encoder, next_pc, loaded, navigation, units, calibration, record, events>>

ZeroSteps ==
  /\ pc = "tab_zero"
  /\ step_delta' = 0
  /\ pc' = next_pc
  /\ UNCHANGED <<click_pending, open_steps, raced, open_clicks, merged, next_pc, loaded,
                 navigation, units, calibration, record, events>>

\* Outside the settings a click does nothing.
DropClick ==
  /\ pc = "drop_click"
  /\ click_pending' = FALSE
  /\ open_clicks' = IF click_pending THEN open_clicks - 1 ELSE open_clicks
  /\ pc' = "view"
  /\ UNCHANGED <<step_delta, open_steps, raced, merged, next_pc, loaded, navigation, units,
                 calibration, record, events>>

EnterTab ==
  /\ pc = "enter"
  /\ IF click_pending
       THEN /\ tab_entered' = TRUE /\ slider_mode' = FALSE
            /\ open_clicks' = open_clicks - 1
            /\ pc' = "clear_click"
       ELSE pc' = "view" /\ UNCHANGED <<tab_entered, slider_mode, open_clicks>>
  /\ UNCHANGED <<step_delta, click_pending, open_steps, raced, merged, next_pc, loaded, tab,
                 focus, units, calibration, record, events>>

ClearClick ==
  /\ pc = "clear_click"
  /\ click_pending' = FALSE
  /\ pc' = "view"
  /\ UNCHANGED <<step_delta, open_steps, raced, open_clicks, merged, next_pc, loaded,
                 navigation, units, calibration, record, events>>

NavigateSettings ==
  /\ pc = "nav" /\ mode = "ui" /\ tab = Settings /\ tab_entered
  /\ pc' = "up"
  /\ UNCHANGED <<encoder, next_pc, loaded, navigation, units, calibration, record, events>>

\* One pass of the two loops, which move the focus or the slider by one.
Focused(d) == ((focus - 1 + d) % Len(Focusables)) + 1

TurnOne(here, d, after) ==
  /\ pc = here
  /\ IF step_delta * d > 0
       THEN /\ focus' = IF slider_mode THEN focus ELSE Focused(d)
            /\ open_steps' = open_steps - d
            /\ pc' = "load" /\ next_pc' = here
       ELSE pc' = after /\ UNCHANGED <<focus, open_steps, next_pc>>
  /\ UNCHANGED <<step_delta, click_pending, raced, open_clicks, merged, loaded, tab,
                 tab_entered, slider_mode, units, calibration, record, events>>

LoadSteps ==
  /\ pc = "load"
  /\ loaded' = step_delta
  /\ pc' = "store"
  /\ UNCHANGED <<encoder, next_pc, navigation, units, calibration, record, events>>

StoreSteps ==
  /\ pc = "store"
  /\ step_delta' = IF next_pc = "up" THEN loaded - 1 ELSE loaded + 1
  /\ pc' = next_pc
  /\ UNCHANGED <<click_pending, open_steps, raced, open_clicks, merged, next_pc, loaded,
                 navigation, units, calibration, record, events>>

Activate ==
  /\ pc = "activate"
  /\ IF click_pending
       THEN /\ open_clicks' = open_clicks - 1
            /\ pc' = "clear_click"
            /\ IF slider_mode \/ Focusables[focus] = "brightness"
                 THEN slider_mode' = ~slider_mode /\ UNCHANGED <<units, calibration>>
                 ELSE Clicked(Focusables[focus]) /\ UNCHANGED slider_mode
       ELSE pc' = "view" /\ UNCHANGED <<open_clicks, slider_mode, units, calibration>>
  /\ UNCHANGED <<step_delta, click_pending, open_steps, raced, merged, next_pc, loaded, tab,
                 tab_entered, focus, record, events>>

Navigate ==
  \/ NavigateElsewhere \/ NavigateTabs \/ NavigateSettings
  \/ MoveTab \/ ZeroSteps \/ DropClick \/ EnterTab \/ ClearClick
  \/ TurnOne("up", 1, "down") \/ TurnOne("down", -1, "activate")
  \/ LoadSteps \/ StoreSteps \/ Activate
-----------------------------------------------------------------------------
(* update_calibration and finish_calibration *)

\* No touch, a touch that lasts, or one too short to count.
NoPoint ==
  /\ pc = "view" /\ mode = "calibration"
  /\ pc' = "touch"
  /\ UNCHANGED <<encoder, next_pc, loaded, navigation, units, calibration, record, events>>

CapturePoint ==
  /\ pc = "view" /\ mode = "calibration" /\ point + 1 < Points
  /\ point' = point + 1
  /\ pc' = "touch"
  /\ UNCHANGED <<encoder, next_pc, loaded, navigation, units, mode, transform, record, events>>

\* A faulty end of a calibration that does not look at the solution.
FinishUnsolved ==
  /\ pc = "view" /\ mode = "calibration" /\ point + 1 = Points
  /\ \/ transform' = transform + 1 /\ pc' = "erase" /\ UNCHANGED <<mode, point>>
     \/ mode' = "ui" /\ point' = 0 /\ pc' = "touch" /\ UNCHANGED transform
  /\ UNCHANGED <<encoder, next_pc, loaded, navigation, units, record, events>>

\* The last point; the equations may have no solution.
Finish ==
  /\ pc = "view" /\ mode = "calibration" /\ point + 1 = Points
  /\ \/ transform' = transform + 1 /\ pc' = "erase" /\ UNCHANGED point
     \/ point' = 0 /\ pc' = "touch" /\ UNCHANGED transform
  /\ UNCHANGED <<encoder, next_pc, loaded, navigation, units, mode, record, events>>

\* save_calibration_to_flash
EraseRecord ==
  /\ pc = "erase"
  /\ record' = 0
  /\ pc' = "program"
  /\ UNCHANGED <<encoder, next_pc, loaded, navigation, units, calibration, events>>

\* A worn sector does not take the record.
ProgramRecord ==
  /\ pc = "program"
  /\ \/ record' = transform /\ UNCHANGED events
     \/ Event /\ UNCHANGED record
  /\ mode' = "ui"
  /\ pc' = "touch"
  /\ UNCHANGED <<encoder, next_pc, loaded, navigation, units, point, transform>>

Calibrate == NoPoint \/ CapturePoint \/ Finish \/ EraseRecord \/ ProgramRecord
-----------------------------------------------------------------------------
(* lv_timer_handler, which reads the touch panel in the UI *)

NoTouch ==
  /\ pc = "touch"
  /\ pc' = "units"
  /\ UNCHANGED <<encoder, next_pc, loaded, navigation, units, calibration, record, events>>

TouchTab ==
  /\ pc = "touch" /\ mode = "ui" /\ Event
  /\ tab' \in 0 .. Settings
  /\ pc' = "units"
  /\ UNCHANGED <<encoder, next_pc, loaded, tab_entered, slider_mode, focus, units, calibration,
                 record>>

TouchWidget ==
  /\ pc = "touch" /\ mode = "ui" /\ tab = Settings /\ Event
  /\ \E i \in DOMAIN Focusables : Focusables[i] # "brightness" /\ Clicked(Focusables[i])
  /\ pc' = "units"
  /\ UNCHANGED <<encoder, next_pc, loaded, navigation, record>>

Touch == NoTouch \/ TouchTab \/ TouchWidget
-----------------------------------------------------------------------------

\* The interrupt takes no part in the main loop's arithmetic: no step is acted
\* upon twice or in the wrong direction, and none is lost but those made
\* between a load of the counter and the store that follows; a click is lost
\* only to one that is still waiting.
InputConserved ==
  /\ pc \notin {"tab_zero", "load", "store"} =>
       open_steps - step_delta \in -raced .. raced
  /\ pc # "clear_click" => open_clicks = merged + (IF click_pending THEN 1 ELSE 0)

\* Outside a calibration there is one to map touches with, and a restart brings
\* back that one or asks for a new one, never an older one, wherever the power
\* fails and whatever the flash takes.
CalibrationKept ==
  /\ mode = "ui" => transform # 0
  /\ record \in {0, transform} \/ pc = "erase"
=============================================================================
