----------------------------- MODULE MCSpiManager -----------------------------
(***************************************************************************)
(* Two commands next to the receive loop; a bridge that queues two frames, *)
(* fewer than there are; a host that keeps two frames aside, and can clock *)
(* two packets while the bridge transmits, one less than it waits for a    *)
(* status.                                                                 *)
(***************************************************************************)
EXTENDS SpiManager
=============================================================================
