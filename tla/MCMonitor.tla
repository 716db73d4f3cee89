------------------------------ MODULE MCMonitor ------------------------------
(* Two tabs, three settings and two units; two points make a calibration.   *)
EXTENDS Monitor
Settable == <<"calibration", "brightness", "bar">>
=============================================================================
