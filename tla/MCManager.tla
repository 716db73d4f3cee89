------------------------------ MODULE MCManager ------------------------------
(***************************************************************************)
(* Two modules, and a log that holds fewer results than there are          *)
(* commands.                                                               *)
(***************************************************************************)
EXTENDS Manager
=============================================================================
