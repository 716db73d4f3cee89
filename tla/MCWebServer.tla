----------------------------- MODULE MCWebServer -----------------------------
(* A queue of three overflows with the two messages of a reading after the  *)
(* two of a snapshot; the page keeps fewer samples than the manager.        *)
EXTENDS WebServer
=============================================================================
