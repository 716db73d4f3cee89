---------------------------- MODULE FlashTransfer ----------------------------
(***************************************************************************)
(* An update over CAN from end to end: the host program tools/can_flash.py *)
(* (flash_image and what it calls), the link through usb_can_bridge and    *)
(* the bus, and the target of module FlashTarget.                          *)
(*                                                                         *)
(* The link keeps frames in order and may lose them: the bridge gives up   *)
(* on a frame and may say so (TX_FAILED), a ring or a transmit queue       *)
(* overflows.  The host learns of arrivals in chunks: iter_usb_packets     *)
(* looks at what it has buffered only after it has read new bytes.         *)
(*                                                                         *)
(* Left out: the pacing of the frames, the progress bar, and the limit of  *)
(* 80 TX_FAILED reports, above MaxLosses.                                  *)
(***************************************************************************)
EXTENDS FlashTarget

CONSTANTS
  Image,            \* the image on the host's disk
  SessionId,        \* session_id
  SetupSessionId,   \* setup_session_id
  ControlAttempts,  \* SCP_FLASH_CONTROL_RETRY_ATTEMPTS (4); an ABORT gets 2
  MaxTimeouts,      \* SCP_FLASH_MAX_PROGRESS_TIMEOUTS (12)
  LinkCapacity,     \* bound: status frames on their way to the host
  MaxLosses         \* bound: frames lost

ASSUME TransferAssumption ==
  /\ Image \in Seq(Bytes) /\ Image # <<>>
  /\ {SessionId, SetupSessionId} \subseteq SessionIds /\ SessionId # SetupSessionId
  /\ {ControlAttempts, MaxTimeouts, LinkCapacity} \subseteq Nat \ {0}
  /\ MaxLosses \in Nat

VARIABLES
  patient,    \* a wait ends only when nothing more can come; chosen once
  host,       \* the locals of flash_image and of the calls it is in
  to_target,  \* frames on their way to the target
  to_host,    \* packets on their way to the host, or in its serial driver
  sync,       \* packet_sync: packets read and not looked at
  losses      \* frames lost so far

link == <<to_target, to_host, sync, losses>>
target == vars
transfer_vars == <<patient, host, link, target>>

Size == Len(Image)
None == -1

Errors == {"INVALID_ARGUMENT", "INVALID_STATE", "SESSION_MISMATCH", "BAD_SEQUENCE",
           "IMAGE_TOO_LARGE", "FLASH_WRITE_FAILED", "CRC_MISMATCH", "UNSUPPORTED",
           "IMAGE_INCOMPLETE"}

TxFailed == [status |-> "TX_FAILED", session_id |-> 0, argument |-> 0]

Larger(a, b) == IF a > b THEN a ELSE b
Smaller(a, b) == IF a < b THEN a ELSE b

\* The steps of flash_image, and what it waits for in each.
Setup == {"ABORT", "REBOOT", "ABORT_AGAIN"}
ControlStages == Setup \cup {"BEGIN", "FINISH", "COMMIT", "GIVE_UP"}
Ended == {"done", "failed"}

Expected(stage) ==
  CASE stage = "FINISH" -> {"READY"} \cup Errors
    [] stage = "COMMIT" -> {"COMMITTING"} \cup Errors
    [] OTHER            -> {"ACK"} \cup Errors

\* The staging area is blank at first, which changes nothing: BEGIN erases it.
TransferInit ==
  /\ Init
  /\ patient \in BOOLEAN
  /\ flash[StagingOffset] = Erased
  /\ host = [stage |-> "ABORT", waits_for |-> "nothing", attempt |-> 0,
             tx_failed |-> FALSE, offset |-> 0, sequence |-> 0,
             frames_since_sync |-> 0, confirmed |-> 0, timeouts |-> 0,
             latest |-> None, error |-> "NONE", best |-> None,
             saw_incomplete |-> FALSE]
  /\ to_target = <<>>
  /\ to_host = <<>>
  /\ sync = <<>>
  /\ losses = 0

-----------------------------------------------------------------------------
(* Where flash_image goes next: operators on its locals *)

GoToStage(h, stage) == [h EXCEPT !.stage = stage, !.waits_for = "nothing", !.attempt = 0]

\* main catches the exception and sends an ABORT.
Fail(h) == GoToStage(h, "GIVE_UP")

\* The test of the DATA loop.
Loop(h) ==
  IF h.offset < Size
    THEN [h EXCEPT !.waits_for = "nothing", !.frames_since_sync = 0, !.error = "NONE"]
    ELSE GoToStage(h, "FINISH")

SequenceAt(offset) == (offset \div FrameBytes) % SequenceModulus

\* A faulty resynchronisation that goes on with the next sequence number.
GoToKeepsSequence(h, offset) == [h EXCEPT !.offset = offset]

GoTo(h, offset) == [h EXCEPT !.offset = offset, !.sequence = SequenceAt(offset)]

Resync(h) == Loop(GoTo(h, Smaller(h.confirmed, Size)))

\* A faulty confirmation of what was sent, not of what was reported.
ConfirmSent(h, progress) == [h EXCEPT !.confirmed = Larger(@, h.offset)]

Confirm(h, progress) == [h EXCEPT !.confirmed = Larger(@, progress)]

\* The end of the treatment of BAD_SEQUENCE and IMAGE_INCOMPLETE.
Rejected(h) ==
  IF h.confirmed > 0 THEN Resync(h)
  ELSE IF h.error = "IMAGE_INCOMPLETE" THEN Loop(h)
  ELSE Fail(h)

\* What follows query_progress_via_finish_probe, which either of two waits
\* that timed out may have called.
ProbeEnds(h, progress) ==
  IF h.error # "NONE" THEN Rejected(Confirm(h, progress))
  ELSE IF progress # None THEN Resync(Confirm([h EXCEPT !.timeouts = 0], progress))
  ELSE IF h.timeouts + 1 >= MaxTimeouts THEN Fail(h)
  ELSE Loop([h EXCEPT !.timeouts = @ + 1])

\* A faulty host that takes any answer for a success.
ControlAnsweredBlind(h, p) ==
  CASE h.stage = "ABORT" -> GoToStage(h, "REBOOT")
    [] h.stage = "REBOOT" -> GoToStage(h, "ABORT_AGAIN")
    [] h.stage = "ABORT_AGAIN" -> GoToStage(h, "BEGIN")
    [] h.stage = "GIVE_UP" -> GoToStage(h, "failed")
    [] h.stage = "BEGIN" -> GoToStage(h, "DATA")
    [] h.stage = "FINISH" -> GoToStage(h, "COMMIT")
    [] h.stage = "COMMIT" -> GoToStage(h, "done")

ControlAnswered(h, p) ==
  CASE h.stage = "ABORT" -> GoToStage(h, "REBOOT")
    [] h.stage = "REBOOT" -> GoToStage(h, IF p.status = "ACK" THEN "ABORT_AGAIN" ELSE "BEGIN")
    [] h.stage = "ABORT_AGAIN" -> GoToStage(h, "BEGIN")
    [] h.stage = "GIVE_UP" -> GoToStage(h, "failed")
    [] h.stage \in {"BEGIN", "FINISH", "COMMIT"} ->
         IF p.status \in Errors \/ (h.stage = "BEGIN" /\ p.argument # Size) THEN Fail(h)
         ELSE GoToStage(h, CASE h.stage = "BEGIN" -> "DATA"
                             [] h.stage = "FINISH" -> "COMMIT"
                             [] h.stage = "COMMIT" -> "done")

\* A faulty end that repeats its ABORT until the target takes it.
ControlTimedOutAgain(h) ==
  CASE h.stage = "ABORT" -> GoToStage(h, "REBOOT")
    [] h.stage \in {"REBOOT", "ABORT_AGAIN"} -> GoToStage(h, "BEGIN")
    [] OTHER -> Fail(h)

\* A control command timed out for good.
ControlTimedOut(h) ==
  CASE h.stage = "ABORT" -> GoToStage(h, "REBOOT")
    [] h.stage \in {"REBOOT", "ABORT_AGAIN"} -> GoToStage(h, "BEGIN")
    [] h.stage = "GIVE_UP" -> GoToStage(h, "failed")
    [] OTHER -> Fail(h)

ProgressAnswered(h, p) ==
  LET g == Confirm([h EXCEPT !.timeouts = 0], h.latest) IN
  IF p.status = "PROGRESS"
    THEN Loop(IF g.confirmed > g.offset THEN GoTo(g, g.confirmed) ELSE g)
  ELSE IF p.status \in {"BAD_SEQUENCE", "IMAGE_INCOMPLETE"}
    THEN [g EXCEPT !.waits_for = "resolve", !.error = p.status]
  ELSE Fail(g)

ProbeAnswered(h, p) ==
  LET g == [h EXCEPT !.best = Larger(@, h.latest)] IN
  IF p.status = "PROGRESS"
    THEN IF h.saw_incomplete THEN ProbeEnds(g, g.best) ELSE g
  ELSE IF p.status = "IMAGE_INCOMPLETE"
    THEN IF g.best # None THEN ProbeEnds(g, g.best)
                          ELSE [g EXCEPT !.saw_incomplete = TRUE]
  ELSE ProbeEnds(g, None)

Answered(h, p) ==
  CASE h.waits_for = "control"  -> ControlAnswered(h, p)
    [] h.waits_for = "progress" -> ProgressAnswered(h, p)
    [] h.waits_for = "probe"    -> ProbeAnswered(h, p)
    [] h.waits_for = "resolve"  -> Rejected(Confirm(h, p.argument))

-----------------------------------------------------------------------------
(* Sending *)

Attempts(stage) == CASE stage \in {"ABORT", "ABORT_AGAIN"} -> 2
                     [] stage = "GIVE_UP" -> 1
                     [] OTHER -> ControlAttempts

SetupOr(stage, id) == IF stage \in Setup THEN SetupSessionId ELSE id

ControlFrame(stage) ==
  [command    |-> IF stage \in {"ABORT_AGAIN", "GIVE_UP"} THEN "ABORT" ELSE stage,
   session_id |-> SetupOr(stage, SessionId)]

\* send_flash_control_with_status_retry, up to its wait.
SendControl ==
  /\ host.stage \in ControlStages
  /\ host.waits_for = "nothing"
  /\ to_target' = Append(to_target, ControlFrame(host.stage))
  /\ host' = [host EXCEPT !.waits_for = "control", !.attempt = @ + 1, !.tx_failed = FALSE]
  /\ UNCHANGED <<patient, to_host, sync, losses, target>>

Chunk(offset) ==
  [i \in 1 .. FrameBytes |-> IF offset + i <= Size THEN Image[offset + i] ELSE Erased]

SendData ==
  /\ host.stage = "DATA"
  /\ host.waits_for = "nothing"
  /\ to_target' = Append(to_target,
                         [command |-> "DATA", session_id |-> SessionId,
                          sequence |-> host.sequence, data |-> Chunk(host.offset)])
  /\ LET offset == Smaller(host.offset + FrameBytes, Size)
         frames == host.frames_since_sync + 1
     IN host' = [host EXCEPT !.offset = offset,
                             !.sequence = (@ + 1) % SequenceModulus,
                             !.frames_since_sync = frames,
                             !.waits_for = IF frames >= ProgressInterval \/ offset >= Size
                                             THEN "progress" ELSE "nothing"]
  /\ UNCHANGED <<patient, to_host, sync, losses, target>>

-----------------------------------------------------------------------------
(* wait_for_flash_status *)

Awaited(p) ==
  /\ p.session_id = SetupOr(host.stage, SessionId)
  /\ CASE host.waits_for = "control" -> p.status \in Expected(host.stage)
       [] host.waits_for = "resolve" -> p.status = "PROGRESS"
       [] OTHER -> p.status = "PROGRESS" \/ p.status \in Errors
  /\ p.status = "PROGRESS" => p.argument >= host.confirmed

\* The best PROGRESS and the failures reported among packets looked at.
Noted(packets) ==
  LET progress == {packets[k].argument : k \in
                     {i \in DOMAIN packets : /\ packets[i].status = "PROGRESS"
                                             /\ packets[i].session_id = SessionId
                                             /\ packets[i].argument >= host.confirmed}}
  IN [host EXCEPT
        !.latest = CHOOSE m \in progress \cup {@} : \A v \in progress \cup {@} : v <= m,
        !.tx_failed = @ \/ \E k \in DOMAIN packets : packets[k] = TxFailed]

\* A buffer is cleared where a new exchange is known to start.
Kept(h, rest) == IF h.stage \in {"ABORT_AGAIN", "BEGIN", "GIVE_UP"} THEN <<>> ELSE rest

Hear ==
  /\ host.waits_for # "nothing"
  /\ \E n \in 1 .. Len(to_host) :
       LET buffer == sync \o SubSeq(to_host, 1, n)
           hits == {k \in DOMAIN buffer : Awaited(buffer[k])}
           hit == CHOOSE k \in hits : \A j \in hits : k <= j
       IN /\ to_host' = SubSeq(to_host, n + 1, Len(to_host))
          /\ IF hits = {}
               THEN host' = Noted(buffer) /\ sync' = <<>>
               ELSE LET next == Answered(Noted(SubSeq(buffer, 1, hit)), buffer[hit]) IN
                      /\ host' = [next EXCEPT !.latest = None]
                      /\ sync' = Kept(next, SubSeq(buffer, hit + 1, Len(buffer)))
  /\ UNCHANGED <<patient, to_target, losses, target>>

Quiet == to_target = <<>> /\ to_host = <<>> /\ mode = "running"

Late == host.waits_for # "nothing" /\ (patient => Quiet)

ControlTimeout ==
  /\ Late
  /\ host.waits_for = "control"
  /\ IF host.tx_failed /\ host.attempt < Attempts(host.stage)
       THEN /\ host' = [host EXCEPT !.waits_for = "nothing", !.latest = None]
            /\ sync' = <<>>
       ELSE LET next == ControlTimedOut(host) IN
            /\ host' = [next EXCEPT !.latest = None]
            /\ sync' = Kept(next, sync)
  /\ UNCHANGED <<patient, to_target, to_host, losses, target>>

\* query_progress_via_finish_probe sends a FINISH that is expected to fail.
StartProbe ==
  /\ Late
  /\ \/ host.waits_for = "progress"
     \/ (host.waits_for = "resolve" /\ host.error = "BAD_SEQUENCE")
  /\ to_target' = Append(to_target, ControlFrame("FINISH"))
  /\ host' = [host EXCEPT !.waits_for = "probe", !.latest = None, !.best = None,
                          !.saw_incomplete = FALSE]
  /\ UNCHANGED <<patient, to_host, sync, losses, target>>

EndWait ==
  /\ Late
  /\ LET next == IF host.waits_for = "probe" THEN ProbeEnds(host, host.best)
                                             ELSE Rejected(host)
     IN /\ \/ host.waits_for = "probe"
           \/ (host.waits_for = "resolve" /\ host.error # "BAD_SEQUENCE")
        /\ host' = [next EXCEPT !.latest = None]
        /\ sync' = Kept(next, sync)
  /\ UNCHANGED <<patient, to_target, to_host, losses, target>>

-----------------------------------------------------------------------------
(* The link and the target *)

Queued(packets) ==
  LET all == to_host \o packets IN SubSeq(all, 1, Smaller(Len(all), LinkCapacity))

Handle(f) ==
  CASE f.command = "BEGIN"  -> Begin(f.session_id, Size)
    [] f.command = "FINISH" -> Finish(f.session_id, Image)
    [] f.command = "COMMIT" -> Commit(f.session_id)
    [] f.command = "ABORT"  -> Abort(f.session_id)
    [] f.command = "REBOOT" -> RebootToBootloader(f.session_id)
    [] f.command = "DATA"   -> Data(f.session_id, f.sequence, f.data)

Deliver ==
  /\ to_target # <<>>
  /\ Handle(Head(to_target))
  /\ to_target' = Tail(to_target)
  /\ to_host' = Queued(replies')
  /\ UNCHANGED <<patient, host, sync, losses>>

TargetStages ==
  /\ Stage
  /\ to_host' = Queued(replies')
  /\ UNCHANGED <<patient, host, to_target, sync, losses>>

TargetApplies ==
  /\ Apply
  /\ UNCHANGED <<patient, host, link>>

\* Bound: what is late and what is lost are explored apart.
LossLimit == IF patient THEN MaxLosses ELSE 0

LoseFrame ==
  /\ losses < LossLimit
  /\ to_target # <<>>
  /\ losses' = losses + 1
  /\ to_target' = Tail(to_target)
  /\ to_host' \in {to_host, Queued(<<TxFailed>>)}
  /\ UNCHANGED <<patient, host, sync, target>>

LoseStatus ==
  /\ losses < LossLimit
  /\ losses' = losses + 1
  /\ \E k \in DOMAIN to_host :
       to_host' = SubSeq(to_host, 1, k - 1) \o SubSeq(to_host, k + 1, Len(to_host))
  /\ UNCHANGED <<patient, host, to_target, sync, target>>

HostStep == SendControl \/ SendData \/ Hear \/ ControlTimeout \/ StartProbe \/ EndWait

TargetStep == Deliver \/ TargetStages \/ TargetApplies

Finished ==
  /\ host.stage \in Ended
  /\ Quiet \/ to_host # <<>>
  /\ UNCHANGED transfer_vars

TransferNext == HostStep \/ TargetStep \/ LoseFrame \/ LoseStatus \/ Finished

TransferSpec ==
  /\ TransferInit /\ [][TransferNext]_transfer_vars
  /\ WF_transfer_vars(HostStep)
  /\ WF_transfer_vars(TargetStep)
-----------------------------------------------------------------------------

OwnSession == session.active /\ session.id = SessionId

\* The host never believes more received than was, whatever statuses are lost,
\* stale or left over from an earlier window.
ConfirmedReceived ==
  host.stage = "DATA" =>
    session.id = SessionId /\ host.confirmed <= session.received

\* The frames of the image, numbered from 0.
ImageFrames == {k \in 0 .. Size - 1 : k * FrameBytes < Size}

\* What was staged as frame j, if anything, is frame k of the image.
StagedFrom(j, k) ==
  \A m \in 1 .. FrameBytes :
    j * FrameBytes + m <= session.received =>
      session.crc[j * FrameBytes + m] = Chunk(k * FrameBytes)[m]

\* Whatever is lost, late or sent again, each frame staged is one frame of the
\* image, whole, and has the sequence number of its place.  It may be the
\* frame of another place where the image has more frames than there are
\* sequence numbers: only the CRC then tells, see DoneInstalls.
StagedFrames ==
  OwnSession =>
    \A j \in ImageFrames :
      \E k \in ImageFrames : k % SequenceModulus = j % SequenceModulus /\ StagedFrom(j, k)

\* A transfer reported as done installs the image.
DoneInstalls ==
  host.stage = "done" =>
    \/ (mode \in {"applying", "programming"} /\ verified = Image)
    \/ (mode = "running" /\ boot_image = Image)

\* As long as nothing is lost, no transfer fails.
LosslessSucceeds ==
  patient /\ losses = 0 => host.stage \notin {"GIVE_UP", "failed"}

\* Every transfer ends, and a successful one with the image in place.
TransferEnds ==
  <>(\/ host.stage = "failed"
     \/ (host.stage = "done" /\ mode = "running" /\ boot_image = Image))

\* The comment of query_progress_via_finish_probe: it polls "to consume both
\* and avoid leaking stale ERROR=7 frames".  Asked where no wait is cut short:
\* when the next wait begins, no ERROR=7 is left.
ProbeConsumesIncomplete ==
  (patient /\ host.stage = "DATA" /\ host.waits_for # "probe") =>
    \A k \in DOMAIN (sync \o to_host) : (sync \o to_host)[k].status # "IMAGE_INCOMPLETE"
=============================================================================
