----------------------------- MODULE MonitorProofs -----------------------------
(***************************************************************************)
(* Proofs about Monitor, for any number of tabs, settings, calibration     *)
(* points and gauges: that the encoder's input is conserved, and that a    *)
(* calibration is kept.                                                    *)
(***************************************************************************)
EXTENDS Monitor, TLAPS

\* The direction the loop interrupted between its load and its store turns in.
Direction == IF next_pc = "up" THEN 1 ELSE -1

\* What the steps acted upon differ by from those the counter says are left,
\* once the main loop has stored what it is about to store.
Drift ==
  CASE pc = "tab_zero" -> open_steps
    [] pc = "load"     -> open_steps + Direction - step_delta
    [] pc = "store"    -> open_steps + Direction - loaded
    [] OTHER           -> open_steps - step_delta

StepsInv ==
  /\ {step_delta, open_steps, loaded} \subseteq Int /\ raced \in Nat
  /\ next_pc \notin {"tab_zero", "load", "store", "clear_click"}
  /\ pc \in {"load", "store"} => next_pc \in {"up", "down"}
  /\ -raced <= Drift /\ Drift <= raced

\* A click that is being acted upon is pending still.
ClicksInv ==
  /\ click_pending \in BOOLEAN /\ {open_clicks, merged} \subseteq Int
  /\ next_pc # "clear_click"
  /\ IF pc = "clear_click"
       THEN click_pending /\ open_clicks = merged
       ELSE open_clicks = merged + (IF click_pending THEN 1 ELSE 0)

\* A calibration that is being saved is not the empty one.
CalibrationInv ==
  /\ transform \in Nat /\ record \in Nat
  /\ mode = "ui" \/ pc \in {"erase", "program"} => transform # 0
  /\ record \in {0, transform} \/ pc = "erase"
  /\ next_pc \notin {"erase", "program"}

Inv == StepsInv /\ ClicksInv /\ CalibrationInv
-----------------------------------------------------------------------------
(* Which step disturbs what *)

\* The steps of the other modules and of the flash handler leave the display
\* alone, but for the count of faults.
LEMMA OthersLeaveDisplay ==
  ASSUME FlashFrame
           \/ (\E g \in Gauges :
                 GaugeHandles(g) \/ GaugeRestarts(g) \/ LoseUnit(g) \/ ManagerUnit(g))
           \/ SendHeartbeat \/ Switch \/ Tick \/ UNCHANGED vars
  PROVE  UNCHANGED <<encoder, pc, next_pc, loaded, navigation, units, calibration, record>>
  BY DEF FlashFrame, GaugeHandles, GaugeRestarts, LoseUnit, ManagerUnit, SendHeartbeat,
     Switch, Tick, vars, display_vars

\* The parts of a turn outside the navigation leave the input alone.
LEMMA TurnLeavesInput ==
  ASSUME \/ Calibrate \/ Touch \/ Drain \/ TakeUnit
         \/ RefreshRows /\ UNCHANGED <<encoder, next_pc, loaded>>
  PROVE  /\ UNCHANGED <<encoder, next_pc, loaded>>
         /\ pc \notin {"tab_zero", "load", "store", "clear_click"}
         /\ pc' \notin {"tab_zero", "load", "store", "clear_click"}
  BY DEF Calibrate, NoPoint, CapturePoint, Finish, EraseRecord, ProgramRecord, Touch, NoTouch,
     TouchTab, TouchWidget, Drain, TakeUnit, RefreshRows, navigation
-----------------------------------------------------------------------------
(* The encoder *)

LEMMA StepsNavigate == StepsInv /\ Navigate => StepsInv'
  <1> SUFFICES ASSUME StepsInv, Navigate PROVE StepsInv'
    OBVIOUS
  <1> USE DEF StepsInv, Drift, Direction, calibration, encoder, navigation
  <1>1. CASE NavigateElsewhere
    BY <1>1 DEF NavigateElsewhere
  <1>2. CASE NavigateTabs \/ NavigateSettings
    BY <1>2 DEF NavigateTabs, NavigateSettings
  <1>3. CASE MoveTab
    BY <1>3 DEF MoveTab
  <1>4. CASE ZeroSteps
    BY <1>4 DEF ZeroSteps
  <1>5. CASE DropClick \/ EnterTab \/ ClearClick
    BY <1>5 DEF DropClick, EnterTab, ClearClick
  <1>6. CASE TurnOne("up", 1, "down")
    BY <1>6 DEF TurnOne
  <1>7. CASE TurnOne("down", -1, "activate")
    BY <1>7 DEF TurnOne
  <1>8. CASE LoadSteps
    BY <1>8 DEF LoadSteps
  <1>9. CASE StoreSteps
    BY <1>9 DEF StoreSteps
  <1>10. CASE Activate
    BY <1>10 DEF Activate
  <1>11. QED
    BY <1>1, <1>2, <1>3, <1>4, <1>5, <1>6, <1>7, <1>8, <1>9, <1>10 DEF Navigate

\* A step made while the counter is loaded or being cleared is one that may be
\* lost.
LEMMA StepsInterrupt == StepsInv /\ Interrupt => StepsInv'
  <1> SUFFICES ASSUME StepsInv, Interrupt PROVE StepsInv'
    OBVIOUS
  <1> USE DEF StepsInv, Drift, Direction
  <1>1. ASSUME NEW d \in {1, -1}, Step(d) PROVE StepsInv'
    BY <1>1 DEF Step
  <1>2. CASE Click
    BY <1>2 DEF Click
  <1>3. QED
    BY <1>1, <1>2 DEF Interrupt

LEMMA ClicksNavigate == ClicksInv /\ Navigate => ClicksInv'
  <1> SUFFICES ASSUME ClicksInv, Navigate PROVE ClicksInv'
    OBVIOUS
  <1> USE DEF ClicksInv, encoder
  <1>1. CASE NavigateElsewhere
    <2>1. /\ pc # "clear_click" /\ pc' # "clear_click" /\ next_pc' # "clear_click"
          /\ UNCHANGED merged /\ click_pending' \in BOOLEAN /\ ~click_pending'
      BY <1>1, Zenon DEF NavigateElsewhere
    <2>2. open_clicks' = IF click_pending THEN open_clicks - 1 ELSE open_clicks
      BY <1>1 DEF NavigateElsewhere
    <2>3. QED
      BY <2>1, <2>2
  <1>2. CASE NavigateTabs \/ NavigateSettings
    <2>1. /\ pc # "clear_click" /\ pc' # "clear_click" /\ next_pc' # "clear_click"
          /\ UNCHANGED <<click_pending, open_clicks, merged>>
      BY <1>2 DEF NavigateTabs, NavigateSettings
    <2>2. QED
      BY <2>1
  <1>3. CASE MoveTab \/ ZeroSteps
    BY <1>3 DEF MoveTab, ZeroSteps
  <1>4. CASE DropClick
    <2>1. /\ pc # "clear_click" /\ pc' # "clear_click" /\ next_pc' # "clear_click"
          /\ UNCHANGED merged /\ click_pending' \in BOOLEAN /\ ~click_pending'
      BY <1>4, Zenon DEF DropClick
    <2>2. open_clicks' = IF click_pending THEN open_clicks - 1 ELSE open_clicks
      BY <1>4 DEF DropClick
    <2>3. QED
      BY <2>1, <2>2
  <1>5. CASE EnterTab
    BY <1>5 DEF EnterTab
  <1>6. CASE ClearClick
    <2>1. /\ pc = "clear_click" /\ pc' # "clear_click" /\ next_pc' # "clear_click"
          /\ UNCHANGED <<merged, open_clicks>> /\ click_pending' \in BOOLEAN /\ ~click_pending'
      BY <1>6, Zenon DEF ClearClick
    <2>2. QED
      BY <2>1
  <1>7. CASE TurnOne("up", 1, "down") \/ TurnOne("down", -1, "activate")
    BY <1>7 DEF TurnOne
  <1>8. CASE LoadSteps \/ StoreSteps
    BY <1>8 DEF LoadSteps, StoreSteps
  <1>9. CASE Activate
    BY <1>9 DEF Activate
  <1>10. QED
    BY <1>1, <1>2, <1>3, <1>4, <1>5, <1>6, <1>7, <1>8, <1>9 DEF Navigate

LEMMA ClicksInterrupt == ClicksInv /\ Interrupt => ClicksInv'
  <1> SUFFICES ASSUME ClicksInv, Interrupt PROVE ClicksInv'
    OBVIOUS
  <1> USE DEF ClicksInv
  <1>1. ASSUME NEW d \in {1, -1}, Step(d) PROVE ClicksInv'
    BY <1>1 DEF Step
  <1>2. CASE Click
    BY <1>2 DEF Click
  <1>3. QED
    BY <1>1, <1>2 DEF Interrupt

LEMMA StepsInit == Init => StepsInv
  BY DEF Init, DisplayInit, StepsInv, Drift

LEMMA ClicksInit == Init => ClicksInv
  <1> SUFFICES ASSUME Init PROVE ClicksInv
    OBVIOUS
  <1>1. click_pending \in BOOLEAN /\ ~click_pending
    BY Zenon DEF Init, DisplayInit
  <1>2. pc # "clear_click" /\ next_pc # "clear_click" /\ open_clicks = 0 /\ merged = 0
    BY DEF Init, DisplayInit
  <1>3. QED
    BY <1>1, <1>2 DEF ClicksInv

LEMMA BootedInput == Restart => StepsInv' /\ ClicksInv'
  <1> SUFFICES ASSUME Restart PROVE StepsInv' /\ ClicksInv'
    OBVIOUS
  <1>1. click_pending' \in BOOLEAN /\ ~click_pending'
    BY Zenon DEF Restart, Booted
  <1>2. /\ step_delta' = 0 /\ open_steps' = 0 /\ raced' = 0 /\ loaded' = 0
        /\ open_clicks' = 0 /\ merged' = 0 /\ pc' = "drain" /\ next_pc' = "drain"
    BY DEF Restart, Booted
  <1>3. StepsInv'
    BY <1>2 DEF StepsInv, Drift
  <1>4. ClicksInv'
    BY <1>1, <1>2 DEF ClicksInv
  <1>5. QED
    BY <1>3, <1>4

LEMMA InputKept ==
  ASSUME StepsInv, ClicksInv,
         \/ Calibrate \/ Touch \/ Drain \/ TakeUnit
         \/ RefreshRows /\ UNCHANGED <<encoder, next_pc, loaded>>
  PROVE  StepsInv' /\ ClicksInv'
  <1>1. /\ UNCHANGED <<encoder, next_pc, loaded>>
        /\ pc \notin {"tab_zero", "load", "store", "clear_click"}
        /\ pc' \notin {"tab_zero", "load", "store", "clear_click"}
    BY TurnLeavesInput
  <1>2. StepsInv'
    BY <1>1 DEF StepsInv, Drift, encoder
  <1>3. ClicksInv'
    BY <1>1 DEF ClicksInv, encoder
  <1>4. QED
    BY <1>2, <1>3

LEMMA InputNext == StepsInv /\ ClicksInv /\ [Next]_vars => StepsInv' /\ ClicksInv'
  <1> SUFFICES ASSUME StepsInv, ClicksInv, [Next]_vars PROVE StepsInv' /\ ClicksInv'
    OBVIOUS
  <1>1. CASE Navigate
    BY <1>1, StepsNavigate, ClicksNavigate
  <1>2. CASE \/ Calibrate \/ Touch \/ Drain \/ TakeUnit
             \/ RefreshRows /\ UNCHANGED <<encoder, next_pc, loaded>>
    BY <1>2, InputKept
  <1>3. CASE Interrupt
    BY <1>3, StepsInterrupt, ClicksInterrupt
  <1>4. CASE Restart
    BY <1>4, BootedInput
  <1>5. CASE UNCHANGED <<encoder, pc, next_pc, loaded>>
    <2>1. StepsInv'
      BY <1>5 DEF StepsInv, Drift, Direction, encoder
    <2>2. ClicksInv'
      BY <1>5 DEF ClicksInv, encoder
    <2>3. QED
      BY <2>1, <2>2
  <1>6. QED
    BY <1>1, <1>2, <1>3, <1>4, <1>5, OthersLeaveDisplay DEF Next, Turn, TaskHandler
-----------------------------------------------------------------------------
(* The calibration *)

LEMMA CalibrationInit == Init => CalibrationInv
  BY DEF Init, DisplayInit, CalibrationInv

\* Whatever a click or a finger starts, it leaves the transform alone and the
\* user interface only for a calibration.
LEMMA ClickedKeepsTransform ==
  ASSUME NEW w, Clicked(w)
  PROVE  UNCHANGED transform /\ mode' \in {"calibration", mode}
  BY DEF Clicked, StartCalibration, RequestUnit, calibration

LEMMA CalibrationNavigate == CalibrationInv /\ Navigate => CalibrationInv'
  <1> SUFFICES ASSUME CalibrationInv, Navigate PROVE CalibrationInv'
    OBVIOUS
  <1>1. /\ pc' \notin {"erase", "program"} /\ pc \notin {"erase", "program"}
        /\ next_pc' \notin {"erase", "program"}
        /\ UNCHANGED <<transform, record>> /\ mode' \in {"calibration", mode}
    <2> USE DEF CalibrationInv, calibration
    <2>1. CASE Activate
      BY <2>1, ClickedKeepsTransform DEF Activate
    <2>2. CASE NavigateElsewhere \/ NavigateTabs \/ NavigateSettings
      BY <2>2 DEF NavigateElsewhere, NavigateTabs, NavigateSettings
    <2>3. CASE MoveTab \/ ZeroSteps \/ DropClick \/ EnterTab \/ ClearClick
      BY <2>3 DEF MoveTab, ZeroSteps, DropClick, EnterTab, ClearClick
    <2>4. CASE TurnOne("up", 1, "down") \/ TurnOne("down", -1, "activate")
      BY <2>4 DEF TurnOne
    <2>5. CASE LoadSteps \/ StoreSteps
      BY <2>5 DEF LoadSteps, StoreSteps
    <2>6. QED
      BY <2>1, <2>2, <2>3, <2>4, <2>5 DEF Navigate
  <1>2. QED
    BY <1>1 DEF CalibrationInv

LEMMA CalibrationCalibrate == CalibrationInv /\ Calibrate => CalibrationInv'
  <1> SUFFICES ASSUME CalibrationInv, Calibrate PROVE CalibrationInv'
    OBVIOUS
  <1> USE DEF CalibrationInv, calibration
  <1>1. CASE NoPoint \/ CapturePoint
    BY <1>1 DEF NoPoint, CapturePoint
  <1>2. CASE Finish
    BY <1>2 DEF Finish
  <1>3. CASE EraseRecord
    BY <1>3 DEF EraseRecord
  <1>4. CASE ProgramRecord
    BY <1>4 DEF ProgramRecord
  <1>5. QED
    BY <1>1, <1>2, <1>3, <1>4 DEF Calibrate

LEMMA CalibrationTouch == CalibrationInv /\ Touch => CalibrationInv'
  <1> SUFFICES ASSUME CalibrationInv, Touch PROVE CalibrationInv'
    OBVIOUS
  <1>1. /\ pc' \notin {"erase", "program"} /\ pc \notin {"erase", "program"}
        /\ UNCHANGED <<next_pc, transform, record>> /\ mode' \in {"calibration", mode}
    BY ClickedKeepsTransform DEF Touch, NoTouch, TouchTab, TouchWidget, calibration, navigation
  <1>2. QED
    BY <1>1 DEF CalibrationInv

LEMMA CalibrationNext == CalibrationInv /\ [Next]_vars => CalibrationInv'
  <1> SUFFICES ASSUME CalibrationInv, [Next]_vars PROVE CalibrationInv'
    OBVIOUS
  <1>1. CASE Navigate \/ Calibrate \/ Touch
    BY <1>1, CalibrationNavigate, CalibrationCalibrate, CalibrationTouch
  <1>2. CASE Drain \/ TakeUnit \/ (RefreshRows /\ UNCHANGED <<next_pc, calibration, record>>)
    BY <1>2 DEF Drain, TakeUnit, RefreshRows, calibration, CalibrationInv
  <1>3. CASE Interrupt
    BY <1>3 DEF Interrupt, Step, Click, Masked, calibration, CalibrationInv
  <1>4. CASE Restart
    BY <1>4 DEF Restart, Booted, CalibrationInv
  <1>5. CASE UNCHANGED <<pc, next_pc, calibration, record>>
    BY <1>5 DEF calibration, CalibrationInv
  <1>6. CASE Turn
    BY <1>1, <1>2, <1>6 DEF Turn, TaskHandler
  <1>7. CASE UNCHANGED vars \/ FlashFrame \/ SendHeartbeat \/ Switch \/ Tick
               \/ \E g \in Gauges :
                    GaugeHandles(g) \/ GaugeRestarts(g) \/ LoseUnit(g) \/ ManagerUnit(g)
    BY <1>5, <1>7, OthersLeaveDisplay
  <1>8. QED
    BY <1>3, <1>4, <1>6, <1>7 DEF Next
-----------------------------------------------------------------------------
(* The theorems *)

\* The main loop loses no step of the encoder but those made between its load
\* and its store of the counter, acts upon none twice, and loses no click but
\* to another, wherever the interrupt falls.
THEOREM InputIsConserved == Spec => []InputConserved
  <1>1. Init => StepsInv /\ ClicksInv
    BY StepsInit, ClicksInit
  <1>2. StepsInv /\ ClicksInv => InputConserved
    <2> SUFFICES ASSUME StepsInv, ClicksInv PROVE InputConserved
      OBVIOUS
    <2>1. ASSUME pc \notin {"tab_zero", "load", "store"}
          PROVE  open_steps - step_delta \in -raced .. raced
      BY <2>1 DEF StepsInv, Drift
    <2>2. QED
      BY <2>1 DEF ClicksInv, InputConserved
  <1>3. QED
    BY <1>1, <1>2, InputNext, PTL DEF Spec

\* There is a calibration whenever there are widgets, and the flash holds it or
\* none, wherever the power fails and even if the sector does not take it.
THEOREM CalibrationIsKept == Spec => []CalibrationKept
  <1>1. CalibrationInv => CalibrationKept
    BY DEF CalibrationInv, CalibrationKept
  <1>2. QED
    BY <1>1, CalibrationInit, CalibrationNext, PTL DEF Spec
=============================================================================
