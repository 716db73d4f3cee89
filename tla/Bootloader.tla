------------------------------ MODULE Bootloader ------------------------------
(***************************************************************************)
(* A module from reset to reset: shared/src/bootloader.c, the application  *)
(* that main goes on to, and the flash handler both of them run (module    *)
(* FlashTarget).  main calls scp_bootloader_run_if_requested first.  If a  *)
(* register that survives a reset holds the magic of this module, it stays *)
(* there until no flash frame has come for idle_timeout_ms, and without    *)
(* limit once a session is open or an image is ready.                      *)
(*                                                                         *)
(* The bootloader is part of the application's image: when the copy of an  *)
(* image is interrupted, there is none to come back to.                    *)
(*                                                                         *)
(* Left out: the heartbeats and the LED of the bootloader, its returns     *)
(* when the pins or the controller fail, and the length of a turn of its   *)
(* loop, far below a tick.                                                 *)
(***************************************************************************)
EXTENDS FlashTarget

CONSTANT IdleTicks  \* idle_timeout_ms

ASSUME IdleAssumption == IdleTicks \in Nat \ {0}

VARIABLES
  at,         \* "reset" until main begins, then "loader" or "app"
  requested,  \* scratch register 7 holds the magic of this module
  idle_left,  \* ticks until idle_deadline
  quiet       \* history: ticks in the loader since it last heard its host

boot == <<at, requested, idle_left, quiet>>
loader_vars == <<boot, vars>>

FlashActive == session.active \/ image_ready

LoaderInit ==
  /\ Init
  /\ at = "reset"
  /\ requested = FALSE
  /\ idle_left = 0 /\ quiet = 0
-----------------------------------------------------------------------------
(* main and its bootloader *)

\* A faulty entry that leaves the request in the register.
EnterUncleared ==
  /\ at = "reset" /\ mode = "running" /\ requested
  /\ at' = "loader"
  /\ idle_left' = IdleTicks /\ quiet' = 0
  /\ UNCHANGED <<requested, vars>>

\* scp_bootloader_run_if_requested, up to its loop.
Enter ==
  /\ at = "reset" /\ mode = "running" /\ requested
  /\ at' = "loader"
  /\ requested' = FALSE
  /\ idle_left' = IdleTicks /\ quiet' = 0
  /\ UNCHANGED vars

NotRequested ==
  /\ at = "reset" /\ mode = "running" /\ ~requested
  /\ at' = "app"
  /\ UNCHANGED <<requested, idle_left, quiet, vars>>

Idle == at = "loader" /\ mode = "running" /\ ~FlashActive /\ idle_left = 0

\* The application's scp_flash_can_target_init follows.
Leave ==
  /\ Idle
  /\ at' = "app"
  /\ RestartInto("running")
  /\ replies' = <<>>
  /\ idle_left' = 0 /\ quiet' = 0
  /\ UNCHANGED <<requested, flash, boot_image>>

\* Time stops at the next turn of the loop that leaves.
Tick ==
  /\ at = "loader" /\ ~Idle
  /\ idle_left' = IF idle_left > 0 THEN idle_left - 1 ELSE 0
  /\ quiet' = IF quiet <= IdleTicks THEN quiet + 1 ELSE quiet
  /\ UNCHANGED <<at, requested, vars>>
-----------------------------------------------------------------------------
(* What the flash handler does, and the boot state with it *)

\* The loader's deadline moves with every frame the handler took.
Handled ==
  /\ idle_left' = IF at = "loader" THEN IdleTicks ELSE idle_left
  /\ quiet' = 0
  /\ UNCHANGED <<at, requested>>

ResetWith(request) ==
  /\ at' = "reset"
  /\ requested' = request
  /\ idle_left' = 0 /\ quiet' = 0

Frame(id) ==
  \/ \E size \in ImageSizes : Begin(id, size)
  \/ \E crc \in {session.crc, <<>>} : Finish(id, crc)
  \/ Commit(id) \/ Abort(id) \/ UnknownCommand(id) \/ DataFrame(id)

Taken(id) ==
  /\ at # "reset"
  /\ \/ Frame(id) /\ Handled
     \/ EnterBootsel(id) /\ (IF session.active THEN Handled ELSE ResetWith(requested))
     \/ RebootToBootloader(id) /\ (IF session.active THEN Handled ELSE ResetWith(TRUE))

LoaderNext ==
  \/ Enter \/ NotRequested \/ Leave \/ Tick
  \/ \E id \in SessionIds : Taken(id)
  \/ Stage /\ Handled
  \/ (ApplyErase \/ ApplyProgram) /\ UNCHANGED boot
  \/ (ApplyReboot \/ UsbFlash) /\ ResetWith(requested)
  \/ PowerFails /\ ResetWith(FALSE)

LoaderSpec == LoaderInit /\ [][LoaderNext]_loader_vars
-----------------------------------------------------------------------------

\* A request to enter the bootloader is honoured once, by the next reset: an
\* image that was just installed, or whose application fails, is not kept
\* from running.  And a bootloader that hears nothing goes on to the
\* application in time, unless a session was left open or an image ready.
LoaderLeaves ==
  /\ requested => at = "reset"
  /\ at = "loader" /\ ~FlashActive => quiet <= IdleTicks
=============================================================================
