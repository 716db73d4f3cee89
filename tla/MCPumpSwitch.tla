----------------------------- MODULE MCPumpSwitch -----------------------------
(***************************************************************************)
(* Three movements: a bounce and a move for good, or a move there, back    *)
(* and there again; two commands, of which one may wait in the ring.       *)
(***************************************************************************)
EXTENDS PumpSwitch
=============================================================================
