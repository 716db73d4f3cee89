---------------------------- MODULE FlashTarget ----------------------------
(***************************************************************************)
(* The target side of an update over CAN: shared/src/flash_can.c, run by   *)
(* every module's main loop and by its bootloader.  A host sends BEGIN, a  *)
(* stream of DATA frames, FINISH and COMMIT.  The image is staged page by  *)
(* page in the upper part of the flash, and copied over the application,   *)
(* sector by sector, when the host commits.                                *)
(*                                                                         *)
(* A frame is handled in one step, except where the image is moved: there  *)
(* is one step per byte staged, and one per sector of the application      *)
(* erased or programmed, so that the power can fail between any two.       *)
(*                                                                         *)
(* Abstractions.  CRC-32 is taken to be collision free: the running CRC is *)
(* the sequence of bytes folded into it.  worker_error is left out: it is  *)
(* set only when flash_program_page_absolute gets a null page, which no    *)
(* caller passes.                                                          *)
(***************************************************************************)
EXTENDS Integers, Sequences

CONSTANTS
  Bytes,             \* values of a byte
  Erased,            \* 0xFF, what a cell holds after an erase
  Corrupt,           \* a cell programmed twice without an erase
  FrameBytes,        \* SCP_FLASH_DATA_BYTES_PER_FRAME (6)
  PageSize,          \* FLASH_PAGE_SIZE (256)
  SectorSize,        \* FLASH_SECTOR_SIZE (4096)
  StagingOffset,     \* staging_offset (2 MiB - 64 KiB - 768 KiB)
  StagingSize,       \* staging_size (768 KiB)
  SequenceModulus,   \* expected_sequence is a uint8_t (256)
  ProgressInterval,  \* SCP_FLASH_PROGRESS_INTERVAL_FRAMES (16)
  SessionIds,        \* session ids a host uses
  ImageSizes,        \* sizes a host announces in BEGIN
  Payloads,          \* contents of a DATA frame
  FactoryImage       \* the image a USB flash installs

ASSUME BytesAssumption == Erased \in Bytes /\ Corrupt \notin Bytes

ASSUME LayoutAssumption ==
  /\ {FrameBytes, PageSize, SectorSize, SequenceModulus, ProgressInterval}
       \subseteq Nat \ {0}
  /\ StagingOffset \in Nat /\ StagingOffset % SectorSize = 0
  /\ StagingSize \in Nat \ {0} /\ StagingSize % SectorSize = 0
  /\ SectorSize % PageSize = 0

ASSUME HostAssumption ==
  /\ SessionIds \subseteq Nat
  /\ ImageSizes \subseteq Nat
  /\ \A data \in Payloads : data \in Seq(Bytes) /\ Len(data) = FrameBytes
  /\ FactoryImage \in Seq(Bytes) /\ Len(FactoryImage) <= StagingOffset

VARIABLES
  mode,              \* what the processor is doing
  session,           \* the fields that flash_session_reset clears
  image_ready,       \* a staged image passed FINISH
  ready_session_id,  \* the session it belongs to
  rx_data,           \* bytes of a DATA frame not staged yet
  apply_offset,      \* next sector scp_flash_apply_staged_image copies
  flash,             \* the flash memory, by offset
  replies,           \* status frames sent for the last frame handled
  verified,          \* history: the image FINISH vouched for, while it is ready
  boot_image         \* history: the image last committed, or flashed over USB

ram == <<session, image_ready, ready_session_id, rx_data>>
history == <<verified, boot_image>>
vars == <<mode, session, image_ready, ready_session_id, rx_data, apply_offset,
          flash, replies, verified, boot_image>>

Cells == Bytes \cup {Corrupt}
FlashOffsets == 0 .. StagingOffset + StagingSize - 1
PageIndex == 0 .. PageSize - 1

BlankPage == [i \in PageIndex |-> Erased]

\* flash_session_reset
NoSession ==
  [active |-> FALSE, id |-> 0, sequence |-> 0, frames |-> 0, size |-> 0,
   received |-> 0, programmed |-> 0, page_offset |-> 0, crc |-> <<>>,
   page_buffer |-> BlankPage, page_fill |-> 0]

\* align_up_u32
AlignUp(value, alignment) ==
  ((value + alignment - 1) \div alignment) * alignment

\* flash_range_erase
Erase(f, from, length) ==
  [i \in FlashOffsets |-> IF i \in from .. from + length - 1 THEN Erased ELSE f[i]]

\* flash_range_program: programming only clears bits, so that what was there
\* survives unless the cell is erased.
ProgramCell(old, new) ==
  IF old = Erased THEN new
  ELSE IF new \in {Erased, old} THEN old
  ELSE Corrupt

Program(f, from, length, data) ==
  [i \in FlashOffsets |-> IF i \in from .. from + length - 1
                            THEN ProgramCell(f[i], data[i - from])
                            ELSE f[i]]

\* A status frame; for SCP_FLASH_STATUS_ERROR the field names the error.
Reply(status, id, argument) ==
  [status |-> status, session_id |-> id, argument |-> argument]

Refusal(error, id) == Reply(error, id, 0)

Progress == Reply("PROGRESS", session.id, session.received)

\* The application region holds the image, from the start of the flash.
Holds(f, from, image) == \A i \in 1 .. Len(image) : f[from + i - 1] = image[i]

Init ==
  /\ mode = "running"
  /\ session = NoSession
  /\ image_ready = FALSE
  /\ ready_session_id = 0
  /\ rx_data = <<>>
  /\ apply_offset = 0
  /\ flash \in {[i \in FlashOffsets |->
                   IF i < Len(FactoryImage) THEN FactoryImage[i + 1] ELSE stale]
                : stale \in Bytes}
  /\ replies = <<>>
  /\ verified = <<>>
  /\ boot_image = FactoryImage

-----------------------------------------------------------------------------
(* Control frames *)

Refuse(answer) ==
  /\ replies' = answer
  /\ UNCHANGED <<mode, ram, apply_offset, flash, history>>

BeginError(size) ==
  IF size = 0 THEN "UNSUPPORTED"
  ELSE IF size > StagingSize \/ size > StagingOffset THEN "IMAGE_TOO_LARGE"
  ELSE "NONE"

\* A faulty BEGIN that forgets to withdraw the image staged before.
BeginKeepsReady(id, size) ==
  /\ session' = [NoSession EXCEPT !.active = TRUE, !.id = id, !.size = size]
  /\ flash' = Erase(flash, StagingOffset, AlignUp(size, SectorSize))
  /\ replies' = <<Reply("ACK", id, size)>>
  /\ UNCHANGED <<mode, image_ready, ready_session_id, rx_data, apply_offset, history>>

BeginAccepted(id, size) ==
  /\ image_ready' = FALSE
  /\ session' = [NoSession EXCEPT !.active = TRUE, !.id = id, !.size = size]
  /\ flash' = Erase(flash, StagingOffset, AlignUp(size, SectorSize))
  /\ replies' = <<Reply("ACK", id, size)>>
  /\ verified' = <<>>
  /\ UNCHANGED <<mode, ready_session_id, rx_data, apply_offset, boot_image>>

Begin(id, size) ==
  /\ mode = "running"
  /\ IF BeginError(size) # "NONE" THEN Refuse(<<Refusal(BeginError(size), id)>>)
                                  ELSE BeginAccepted(id, size)

FinishError(id, crc) ==
  IF ~session.active THEN "INVALID_STATE"
  ELSE IF id # session.id THEN "SESSION_MISMATCH"
  ELSE IF session.received # session.size THEN "IMAGE_INCOMPLETE"
  ELSE IF session.programmed # session.size THEN "FLASH_WRITE_FAILED"
  ELSE IF session.crc # crc THEN "CRC_MISMATCH"
  ELSE "NONE"

FinishAccepted(id, crc) ==
  /\ image_ready' = TRUE
  /\ ready_session_id' = id
  /\ session' = [session EXCEPT !.active = FALSE]
  /\ replies' = <<Reply("READY", id, session.size)>>
  /\ verified' = crc
  /\ UNCHANGED <<mode, rx_data, apply_offset, flash, boot_image>>

Finish(id, crc) ==
  /\ mode = "running"
  /\ LET error == FinishError(id, crc) IN
       IF error = "NONE" THEN FinishAccepted(id, crc)
       ELSE Refuse(IF error = "IMAGE_INCOMPLETE"
                     THEN <<Refusal(error, id), Progress>>
                     ELSE <<Refusal(error, id)>>)

\* A faulty COMMIT that looks at the session id alone.
CommitUnready(id) ==
  /\ mode = "running"
  /\ id = ready_session_id
  /\ mode' = "applying"
  /\ apply_offset' = 0
  /\ replies' = <<Reply("COMMITTING", id, session.size)>>
  /\ UNCHANGED <<ram, flash, history>>

\* COMMITTING is sent 10 ms before the copy starts, and nothing after it.
Commit(id) ==
  /\ mode = "running"
  /\ IF image_ready /\ id = ready_session_id
       THEN /\ mode' = "applying"
            /\ apply_offset' = 0
            /\ replies' = <<Reply("COMMITTING", id, session.size)>>
            /\ UNCHANGED <<ram, flash, history>>
       ELSE Refuse(<<Refusal("INVALID_STATE", id)>>)

\* ABORT, ENTER_BOOTSEL and REBOOT_TO_BOOTLOADER are refused during a session.
RefuseActive(id) ==
  /\ session.active
  /\ Refuse(<<Refusal("INVALID_STATE", id), Progress>>)

\* A faulty ABORT that ends the session of another host.
AbortAnySession(id) ==
  /\ mode = "running"
  /\ session' = NoSession
  /\ image_ready' = FALSE
  /\ replies' = <<Reply("ACK", id, 0)>>
  /\ verified' = <<>>
  /\ UNCHANGED <<mode, ready_session_id, rx_data, apply_offset, flash, boot_image>>

Abort(id) ==
  /\ mode = "running"
  /\ \/ RefuseActive(id)
     \/ /\ ~session.active
        /\ session' = NoSession
        /\ image_ready' = FALSE
        /\ replies' = <<Reply("ACK", id, 0)>>
        /\ verified' = <<>>
        /\ UNCHANGED <<mode, ready_session_id, rx_data, apply_offset, flash, boot_image>>

EnterBootsel(id) ==
  /\ mode = "running"
  /\ \/ RefuseActive(id)
     \/ /\ ~session.active
        /\ mode' = "bootsel"
        /\ replies' = <<Reply("ACK", id, 0)>>
        /\ UNCHANGED <<ram, apply_offset, flash, history>>

\* What a reset does to the handler: scp_flash_can_target_init.
RestartInto(next_mode) ==
  /\ mode' = next_mode
  /\ session' = NoSession
  /\ image_ready' = FALSE
  /\ ready_session_id' = 0
  /\ rx_data' = <<>>
  /\ apply_offset' = 0
  /\ verified' = <<>>

\* The reset itself follows 10 ms later, during which nothing is handled.
RebootToBootloader(id) ==
  /\ mode = "running"
  /\ \/ RefuseActive(id)
     \/ /\ ~session.active
        /\ RestartInto("running")
        /\ replies' = <<Reply("ACK", id, 0)>>
        /\ UNCHANGED <<flash, boot_image>>

UnknownCommand(id) ==
  /\ mode = "running"
  /\ Refuse(<<Refusal("INVALID_ARGUMENT", id)>>)

-----------------------------------------------------------------------------
(* DATA frames *)

DataError(id, sequence) ==
  IF ~session.active THEN "INVALID_STATE"
  ELSE IF id # session.id THEN "SESSION_MISMATCH"
  ELSE IF sequence # session.sequence THEN "BAD_SEQUENCE"
  ELSE "NONE"

Data(id, sequence, data) ==
  /\ mode = "running"
  /\ LET error == DataError(id, sequence) IN
       IF error = "NONE"
         THEN /\ mode' = "staging"
              /\ rx_data' = data
              /\ replies' = <<>>
              /\ UNCHANGED <<session, image_ready, ready_session_id, apply_offset,
                             flash, history>>
         ELSE Refuse(IF error = "BAD_SEQUENCE"
                       THEN <<Refusal(error, id), Progress>>
                       ELSE <<Refusal(error, id)>>)

\* A faulty page buffer that keeps the end of the page before.
BufferedUncleared(byte) ==
  [session EXCEPT
     !.page_buffer[session.page_fill] = byte,
     !.page_fill = @ + 1,
     !.crc = Append(@, byte),
     !.received = @ + 1]

\* The byte goes to the page buffer, which is blank at the start of a page.
Buffered(byte) ==
  [session EXCEPT
     !.page_buffer = [(IF session.page_fill = 0 THEN BlankPage ELSE @)
                        EXCEPT ![session.page_fill] = byte],
     !.page_fill = @ + 1,
     !.crc = Append(@, byte),
     !.received = @ + 1]

\* A faulty range check, off by one at the last page of the staging area.
PageFitsStrictly(s) == s.page_offset + PageSize < StagingSize

PageFits(s) == s.page_offset + PageSize <= StagingSize

\* A faulty end of page that does not empty the buffer.
PageNotEmptied(s) ==
  [s EXCEPT
     !.programmed = IF @ + s.page_fill > s.size THEN s.size ELSE @ + s.page_fill,
     !.page_offset = @ + PageSize]

\* flash_program_page_for_target, and what flash_stage_data does after it.
PageProgrammed(s) ==
  [s EXCEPT
     !.programmed = IF @ + s.page_fill > s.size THEN s.size ELSE @ + s.page_fill,
     !.page_offset = @ + PageSize,
     !.page_fill = 0]

\* A faulty loop that takes the padding of the last frame for image bytes.
StagingPadding == mode = "staging" /\ rx_data # <<>>

Staging == mode = "staging" /\ rx_data # <<>> /\ session.received < session.size

\* One turn of the loop of flash_stage_data.
StageByte ==
  /\ Staging
  /\ LET s == Buffered(Head(rx_data)) IN
       IF s.page_fill # PageSize /\ s.received # s.size
       THEN /\ session' = s
            /\ rx_data' = Tail(rx_data)
            /\ UNCHANGED <<mode, image_ready, flash, replies>>
       ELSE IF PageFits(s)
       THEN /\ session' = PageProgrammed(s)
            /\ flash' = Program(flash, StagingOffset + s.page_offset, PageSize,
                                s.page_buffer)
            /\ rx_data' = Tail(rx_data)
            /\ UNCHANGED <<mode, image_ready, replies>>
       ELSE /\ session' = NoSession
            /\ image_ready' = FALSE
            /\ mode' = "running"
            /\ rx_data' = <<>>
            /\ replies' = <<Refusal("FLASH_WRITE_FAILED", session.id)>>
            /\ UNCHANGED flash
  /\ UNCHANGED <<ready_session_id, apply_offset, history>>

StageDone ==
  /\ mode = "staging"
  /\ ~Staging
  /\ LET report == \/ session.frames + 1 >= ProgressInterval
                   \/ session.received = session.size
     IN /\ session' = [session EXCEPT
                         !.sequence = (@ + 1) % SequenceModulus,
                         !.frames = IF report THEN 0 ELSE @ + 1]
        /\ replies' = IF report THEN <<Progress>> ELSE <<>>
  /\ mode' = "running"
  /\ rx_data' = <<>>
  /\ UNCHANGED <<image_ready, ready_session_id, apply_offset, flash, history>>

-----------------------------------------------------------------------------
(* scp_flash_apply_staged_image: from RAM, interrupts off *)

\* A faulty length, rounded down.
CopyBytesTruncated == session.size - (session.size % SectorSize)

CopyBytes ==
  IF session.size % SectorSize = 0 THEN session.size
  ELSE session.size + SectorSize - (session.size % SectorSize)

ApplyErase ==
  /\ mode = "applying"
  /\ apply_offset < CopyBytes
  /\ mode' = "programming"
  /\ flash' = Erase(flash, apply_offset, SectorSize)
  /\ boot_image' = verified
  /\ UNCHANGED <<ram, apply_offset, replies, verified>>

ApplyProgram ==
  /\ mode = "programming"
  /\ mode' = "applying"
  /\ flash' = Program(flash, apply_offset, SectorSize,
                      [i \in 0 .. SectorSize - 1 |->
                         flash[StagingOffset + apply_offset + i]])
  /\ apply_offset' = apply_offset + SectorSize
  /\ UNCHANGED <<ram, replies, history>>

\* watchdog_reboot: the application starts again, with the new image.
ApplyReboot ==
  /\ mode = "applying"
  /\ apply_offset >= CopyBytes
  /\ RestartInto("running")
  /\ replies' = <<>>
  /\ UNCHANGED <<flash, boot_image>>

-----------------------------------------------------------------------------
(* The environment *)

\* The power fails and returns.  An application half overwritten does not
\* start: the module is dead until it is flashed over USB.
HalfApplied ==
  \/ mode = "programming"
  \/ mode = "applying" /\ 0 < apply_offset /\ apply_offset < CopyBytes

PowerFails ==
  /\ mode # "dead"
  /\ RestartInto(IF HalfApplied THEN "dead" ELSE "running")
  /\ replies' = <<>>
  /\ UNCHANGED <<flash, boot_image>>

\* auto_flash.sh installs an image over USB, through the boot ROM.
UsbFlash ==
  /\ mode \in {"bootsel", "dead"}
  /\ RestartInto("running")
  /\ LET length == AlignUp(Len(FactoryImage), SectorSize) IN
       flash' = Program(Erase(flash, 0, length), 0, Len(FactoryImage),
                        [i \in 0 .. Len(FactoryImage) - 1 |-> FactoryImage[i + 1]])
  /\ boot_image' = FactoryImage
  /\ replies' = <<>>

Control(id) ==
  \/ \E size \in ImageSizes : Begin(id, size)
  \/ \E crc \in {session.crc, <<>>} : Finish(id, crc)
  \/ Commit(id) \/ Abort(id) \/ EnterBootsel(id) \/ RebootToBootloader(id)
  \/ UnknownCommand(id)

DataFrame(id) ==
  \E sequence \in 0 .. SequenceModulus - 1, data \in Payloads :
    Data(id, sequence, data)

Stage == StageByte \/ StageDone

Apply == ApplyErase \/ ApplyProgram \/ ApplyReboot

Next ==
  \/ \E id \in SessionIds : Control(id) \/ DataFrame(id)
  \/ Stage \/ Apply \/ PowerFails \/ UsbFlash

Spec == Init /\ [][Next]_vars
-----------------------------------------------------------------------------

Sessions ==
  [active : BOOLEAN, id : Nat, sequence : 0 .. SequenceModulus - 1,
   frames : 0 .. ProgressInterval - 1, size : Nat, received : Nat,
   programmed : Nat, page_offset : Nat, crc : Seq(Bytes),
   page_buffer : [PageIndex -> Bytes], page_fill : 0 .. PageSize - 1]

TypeOK ==
  /\ mode \in {"running", "staging", "applying", "programming", "bootsel", "dead"}
  /\ session \in Sessions
  /\ image_ready \in BOOLEAN
  /\ ready_session_id \in Nat
  /\ rx_data \in Seq(Bytes)
  /\ apply_offset \in Nat
  /\ flash \in [FlashOffsets -> Cells]
  /\ verified \in Seq(Bytes)
  /\ boot_image \in Seq(Bytes)

(***************************************************************************)
(* The bookkeeping of the staged image, while a session is open and until  *)
(* the next one after FINISH.                                              *)
(***************************************************************************)
Complete == session.received = session.size

\* Bytes of the image already in the flash, and where the next page starts.
InFlash == IF Complete THEN session.size ELSE session.page_offset

Counters ==
  /\ session.size \in 1 .. StagingSize /\ session.size <= StagingOffset
  /\ Len(session.crc) = session.received
  /\ session.received <= session.size
  /\ session.programmed = InFlash
  /\ session.page_offset % PageSize = 0
  /\ IF Complete
       THEN session.page_fill = 0 /\ session.page_offset >= session.size
       ELSE session.page_offset + session.page_fill = session.received

BufferHolds ==
  /\ \A j \in 0 .. session.page_fill - 1 :
       session.page_buffer[j] = session.crc[session.page_offset + j + 1]
  /\ session.page_fill > 0 =>
       \A j \in session.page_fill .. PageSize - 1 : session.page_buffer[j] = Erased

StagedCells ==
  \A i \in 0 .. CopyBytes - 1 :
    flash[StagingOffset + i] = IF i < InFlash THEN session.crc[i + 1] ELSE Erased

\* What the staging area, the page buffer and the counters say about the
\* image agree with each other, byte for byte, whatever frames arrive.
StagingConsistent ==
  /\ mode = "staging" => session.active
  /\ session.active \/ image_ready => Counters /\ BufferHolds /\ StagedCells

\* COMMIT can only install what a FINISH vouched for: an image is ready only
\* while the staging area holds it completely, padded with erased cells.
ReadyImageStaged ==
  image_ready =>
    /\ ~session.active
    /\ Holds(flash, StagingOffset, verified)
    /\ Len(verified) = session.size
    /\ \A i \in session.size .. CopyBytes - 1 : flash[StagingOffset + i] = Erased

\* Whenever the module runs, its application is the image last committed or
\* installed over USB, whole, whatever was staged, refused, aborted or
\* interrupted by power failures since.
BootImageIntact ==
  /\ mode \notin {"applying", "programming", "dead"} => Holds(flash, 0, boot_image)
  /\ Len(boot_image) <= StagingOffset

\* While the copy runs, the source is untouched and what is behind
\* apply_offset is already the new image.
ApplyConsistent ==
  mode \in {"applying", "programming"} =>
    /\ image_ready
    /\ apply_offset % SectorSize = 0 /\ apply_offset <= CopyBytes
    /\ \A i \in 0 .. apply_offset - 1 : flash[i] = flash[StagingOffset + i]
    /\ IF mode = "programming"
         THEN /\ apply_offset < CopyBytes
              /\ \A i \in apply_offset .. apply_offset + SectorSize - 1 : flash[i] = Erased
         ELSE apply_offset = 0 => Holds(flash, 0, boot_image)
    /\ mode = "programming" \/ apply_offset > 0 => boot_image = verified

\* The range checks of flash_stage_data never stop a session.
NoWriteFailure ==
  \A i \in DOMAIN replies : replies[i].status # "FLASH_WRITE_FAILED"

\* Once a session is open, no ABORT, reboot request or frame of another
\* session ends it: only the success of FINISH, a new BEGIN or a reset does.
SessionNotPreempted ==
  [][session.active /\ ~session'.active =>
       \/ image_ready' /\ Complete /\ session'.crc = session.crc
       \/ session' = NoSession /\ replies' = <<>>]_vars
=============================================================================
