-------------------------- MODULE FlashUpdateProofs --------------------------
(***************************************************************************)
(* Proofs about the two sides of an update that FlashTargetProofs leaves   *)
(* out.  FlashTransfer, for every image, flash layout, sequence width,     *)
(* window, number of retries and of losses: what the host reports is so.   *)
(* Bootloader, for every idle timeout and every flash layout: the loader   *)
(* leaves in time, and a module from reset to reset is a FlashTarget, so   *)
(* that every theorem about the handler is one about the module.           *)
(***************************************************************************)
EXTENDS FlashTransfer, Bootloader, FlashTargetProofs, SequenceTheorems,
        FiniteSetTheorems, WellFoundedInduction

-----------------------------------------------------------------------------
(* The invariant.  The link is looked at as a set: what the target may     *)
(* still be sent, and what the host may still hear.                        *)

Items(s) == {s[i] : i \in DOMAIN s}

Sent == Items(to_target)

Heard == Items(sync) \cup Items(to_host)

Stages == ControlStages \cup {"DATA"} \cup Ended

\* The places where a frame of the image starts, and the end of the image.
Boundaries == {k * FrameBytes : k \in ImageFrames} \cup {Size}

\* A sequence number that belongs to a place.
InStep(offset, sequence) ==
  \A k \in ImageFrames : offset = k * FrameBytes => sequence = k % SequenceModulus

Verdicts == Errors \cup {"ACK", "READY", "COMMITTING", "PROGRESS", "TX_FAILED"}

Statuses == [status : Verdicts, session_id : Nat, argument : Nat]

ControlFrames == {ControlFrame(stage) : stage \in ControlStages}

ImageFrame(k) == [command |-> "DATA", session_id |-> SessionId,
                  sequence |-> k % SequenceModulus, data |-> Chunk(k * FrameBytes)]

DataFrames == {ImageFrame(k) : k \in ImageFrames}

LinkTypes ==
  /\ patient \in BOOLEAN
  /\ to_target \in Seq(ControlFrames \cup DataFrames)
  /\ to_host \in Seq(Statuses) /\ sync \in Seq(Statuses)
  /\ losses \in Nat

Waits == {"nothing", "control", "progress", "probe", "resolve"}

HostRecord ==
  [stage : Stages, waits_for : Waits, attempt : Nat, tx_failed : BOOLEAN,
   offset : Boundaries, sequence : Nat, frames_since_sync : Nat,
   confirmed : Boundaries, timeouts : Nat, latest : Boundaries \cup {None},
   error : {"NONE", "BAD_SEQUENCE", "IMAGE_INCOMPLETE"}, best : Boundaries \cup {None}, saw_incomplete : BOOLEAN]

\* The locals of flash_image agree with the place it is at.
HostOK(h) ==
  /\ h \in HostRecord
  /\ InStep(h.offset, h.sequence)
  /\ h.stage \in ControlStages => h.waits_for \in {"nothing", "control"}
  /\ h.stage = "DATA" => /\ h.waits_for # "control"
                         /\ h.waits_for = "nothing" => h.offset < Size
  /\ h.stage \in Ended => h.waits_for = "nothing"

\* PROGRESS of the session reports whole frames.
ReportsWhole ==
  \A p \in Heard :
    p.status = "PROGRESS" /\ p.session_id = SessionId => p.argument \in Boundaries

\* An impatient host takes part in transfers without losses only.
ImpatientLossless ==
  ~patient => /\ losses = 0
              /\ ~host.tx_failed
              /\ TxFailed \notin Heard

\* What the target has of a session of this host.
TargetInv ==
  /\ image_ready => verified = Image
  /\ session.active => session.id = SessionId /\ session.size = Size
  /\ mode = "staging" => replies = <<>>

\* It is between two frames, or in the middle of one.
FrameTaken(q, k, t) ==
  /\ k % SequenceModulus = q % SequenceModulus
  /\ session.sequence = q % SequenceModulus
  /\ session.received = q * FrameBytes + t
  /\ Len(rx_data) = FrameBytes - t
  /\ \A m \in 1 .. FrameBytes - t : rx_data[m] = Chunk(k * FrameBytes)[t + m]
  /\ StagedFrom(q, k)

BetweenFrames ==
  session.active =>
    IF mode = "staging"
      THEN session.received < Size =>
             \E q \in ImageFrames, k \in ImageFrames, t \in 0 .. FrameBytes :
               FrameTaken(q, k, t)
      ELSE session.received \in Boundaries /\ InStep(session.received, session.sequence)

\* An answer to a command of the session.
Ours(p) == p.session_id = SessionId /\ p.status # "TX_FAILED"

\* Until the target has answered BEGIN.
Early == host.stage \in Setup \cup {"BEGIN"}

EarlyInv ==
  Early =>
    /\ mode = "running"
    /\ host.offset = 0 /\ host.sequence = 0 /\ host.confirmed = 0
    /\ \A f \in Sent : \/ f.command = "BEGIN"
                       \/ /\ f.command \in {"ABORT", "REBOOT"}
                          /\ f.session_id = SetupSessionId
                          /\ ~session.active
    /\ \A i \in DOMAIN to_target : to_target[i].command = "BEGIN" => i = Len(to_target)
    /\ \A p \in Heard : p.session_id = SessionId => p.status # "PROGRESS"
    /\ to_target # <<>> => \A p \in Heard : ~Ours(p)
    /\ host.stage \in Setup \/ host.waits_for = "nothing" =>
         /\ \A f \in Sent : f.command # "BEGIN"
         /\ \A p \in Heard : ~Ours(p)
    /\ host.stage \in Setup => ~session.active
    /\ \A p \in Heard : p.session_id = SessionId /\ p.status = "ACK" => session.id = SessionId

\* While frames of the image are sent.
DataInv ==
  host.stage = "DATA" =>
    /\ session.id = SessionId
    /\ host.confirmed <= session.received
    /\ host.latest <= session.received
    /\ host.waits_for = "probe" => host.best <= session.received
    /\ \A p \in Heard : p.status = "PROGRESS" /\ p.session_id = SessionId =>
                          p.argument <= session.received

\* Before COMMIT is sent.
UncommittedInv ==
  host.stage \in {"DATA", "FINISH"} =>
    /\ mode \in {"running", "staging"}
    /\ \A f \in Sent : f.command \in {"DATA", "FINISH"}

NotCommitting ==
  Early \/ host.stage \in {"DATA", "FINISH"} =>
    \A p \in Heard : p.status # "COMMITTING"

\* The image is on its way to the application or there.
Installing ==
  \/ mode \in {"applying", "programming"} /\ verified = Image
  \/ /\ mode = "running" /\ boot_image = Image
     /\ ~session.active /\ ~image_ready

CommitInv ==
  host.stage \in {"COMMIT", "done"} =>
    /\ \A f \in Sent : f.command \in {"DATA", "FINISH", "COMMIT"}
    /\ \A i, j \in DOMAIN to_target :
         i < j /\ to_target[i].command = "COMMIT" => to_target[j].command = "COMMIT"
    /\ host.stage = "done" \/ (\E p \in Heard : p.status = "COMMITTING") =>
         Installing /\ \A f \in Sent : f.command = "COMMIT"

TransferInv ==
  /\ Inv
  /\ LinkTypes /\ HostOK(host)
  /\ ReportsWhole /\ ImpatientLossless
  /\ TargetInv /\ BetweenFrames /\ StagedFrames
  /\ EarlyInv /\ DataInv /\ UncommittedInv /\ NotCommitting /\ CommitInv

-----------------------------------------------------------------------------
(* The invariant of a transfer in which nothing is lost and nothing is late: *)
(* at most one answer is on its way, and it is the one the host waits for.   *)

Smooth == patient /\ losses = 0

\* The target takes the image.
Fits == Size <= StagingSize /\ Size <= StagingOffset

\* The target before it takes a control command, and after.
Ready(stage) ==
  /\ mode = "running"
  /\ stage \in Setup \cup {"BEGIN"} => ~session.active
  /\ stage = "FINISH" => session.active /\ session.crc = Image
  /\ stage = "COMMIT" => image_ready /\ ready_session_id = SessionId

Reached(stage) ==
  /\ stage \in Setup => mode = "running" /\ ~session.active
  /\ stage = "BEGIN" => /\ mode = "running" /\ session.active
                        /\ session.received = 0 /\ session.sequence = 0 /\ session.frames = 0
  /\ stage = "FINISH" => Ready("COMMIT")

\* And what it answers.
Answer(stage) ==
  CASE stage \in Setup -> Reply("ACK", SetupSessionId, 0)
    [] stage = "BEGIN" -> Reply("ACK", SessionId, Size)
    [] stage = "FINISH" -> Reply("READY", SessionId, Size)
    [] stage = "COMMIT" -> Reply("COMMITTING", SessionId, Size)

SmoothControl ==
  host.stage \in ControlStages =>
    /\ Early => host.frames_since_sync = 0
    /\ host.waits_for = "nothing" =>
         to_target = <<>> /\ to_host = <<>> /\ Ready(host.stage)
    /\ host.waits_for = "control" =>
         \/ to_target = <<ControlFrame(host.stage)>> /\ to_host = <<>> /\ Ready(host.stage)
         \/ to_target = <<>> /\ to_host = <<Answer(host.stage)>> /\ Reached(host.stage)

\* Frames being staged.
InHand == IF mode = "staging" THEN 1 ELSE 0

\* Frame q of the image is due or being staged, and those after it are on the link.
Sequel(q) ==
  /\ session.sequence = q % SequenceModulus
  /\ mode = "running" => session.received = Smaller(q * FrameBytes, Size)
  /\ mode = "staging" =>
       \E t \in 0 .. FrameBytes :
         /\ session.received = q * FrameBytes + t
         /\ Len(rx_data) = FrameBytes - t
         /\ \A m \in 1 .. FrameBytes - t : rx_data[m] = Chunk(q * FrameBytes)[t + m]
  /\ \A i \in DOMAIN to_target : \E k \in ImageFrames :
       k = q + InHand + i - 1 /\ to_target[i] = ImageFrame(k)
  /\ host.offset = Smaller((q + InHand + Len(to_target)) * FrameBytes, Size)

\* No report is on its way: the frames of the window are counted by both sides.
Counting ==
  /\ to_host = <<>>
  /\ session.frames + InHand + Len(to_target) = host.frames_since_sync
  /\ mode = "running" => session.received < Size
  /\ host.waits_for = "nothing" => host.frames_since_sync < ProgressInterval
  /\ host.waits_for = "progress" =>
       host.frames_since_sync = ProgressInterval \/ host.offset = Size

\* The target has reported the end of the window.
Reporting ==
  /\ to_host = <<Reply("PROGRESS", SessionId, host.offset)>>
  /\ to_target = <<>> /\ mode = "running" /\ session.frames = 0
  /\ session.received = host.offset
  /\ host.waits_for = "progress"

SmoothData ==
  host.stage = "DATA" =>
    /\ session.active /\ mode \in {"running", "staging"}
    /\ \A i \in 1 .. session.received : session.crc[i] = Image[i]
    /\ host.frames_since_sync <= ProgressInterval
    /\ \E q \in Nat : Sequel(q)
    /\ Counting \/ Reporting

SmoothInv ==
  Smooth =>
    /\ sync = <<>>
    /\ host.stage \notin {"GIVE_UP", "failed"}
    /\ host.waits_for \in {"nothing", "control", "progress"}
    /\ SmoothControl /\ SmoothData

-----------------------------------------------------------------------------
(* Frames and places *)

LEMMA Constants ==
  /\ FrameBytes \in Nat \ {0} /\ SequenceModulus \in Nat \ {0}
  /\ Image \in Seq(Bytes) /\ Size \in Nat \ {0}
  /\ SessionId \in SessionIds /\ SetupSessionId \in SessionIds
  /\ SessionId \in Nat /\ SetupSessionId \in Nat /\ SessionId # SetupSessionId
  <1>1. Image \in Seq(Bytes) /\ Image # <<>>
    BY TransferAssumption
  <1>2. Size \in Nat \ {0}
    BY <1>1 DEF Size
  <1>3. QED
    BY <1>1, <1>2, LayoutFacts, TransferAssumption, HostAssumption

\* The product of two naturals, the second not zero, is at least the first.
LEMMA ProductBounds ==
  ASSUME NEW u \in Nat \ {0}, NEW a \in Nat, NEW b \in Nat
  PROVE  /\ a * u \in Nat /\ a <= a * u
         /\ (a + 1) * u = a * u + u
         /\ a < b => a * u + u <= b * u
  <1>1. a * u \in Nat /\ a <= a * u /\ (a + 1) * u = a * u + u
    BY SMT
  <1>2. ASSUME a < b PROVE a * u + u <= b * u
    <2>1. PICK d \in Nat : b = a + 1 + d
      <3>1. b - a - 1 \in Nat /\ b = a + 1 + (b - a - 1)
        BY <1>2
      <3>2. QED
        BY <3>1
    <2>2. b * u = (a + 1) * u + d * u /\ d * u \in Nat
      BY <2>1, SMT
    <2>3. QED
      BY <1>1, <2>2
  <1>3. QED
    BY <1>1, <1>2

LEMMA Places ==
  ASSUME NEW k \in ImageFrames
  PROVE  /\ k \in Nat /\ k * FrameBytes \in Nat /\ k * FrameBytes < Size
         /\ (k + 1) * FrameBytes = k * FrameBytes + FrameBytes
         /\ k * FrameBytes + FrameBytes < Size => k + 1 \in ImageFrames
  <1> DEFINE u == FrameBytes
             n == Size
  <1>1. u \in Nat \ {0} /\ n \in Nat \ {0}
    BY Constants
  <1>2. k \in Nat /\ k * u < n
    BY <1>1 DEF ImageFrames
  <1>3. k * u \in Nat /\ (k + 1) * u = k * u + u /\ k + 1 <= (k + 1) * u
    BY <1>1, <1>2, ProductBounds
  <1>4. ASSUME k * u + u < n PROVE k + 1 \in 0 .. n - 1 /\ (k + 1) * u < n
    <2> DEFINE a == k * u
               b == (k + 1) * u
    <2>1. a \in Nat /\ b = a + u /\ k + 1 <= b /\ a + u < n
      BY <1>3, <1>4
    <2> HIDE DEF a, b
    <2>2. QED
      BY <1>1, <1>2, <2>1 DEF b
  <1>5. QED
    BY <1>2, <1>3, <1>4 DEF ImageFrames

LEMMA OnePlace ==
  ASSUME NEW j \in ImageFrames, NEW k \in Nat, j * FrameBytes = k * FrameBytes
  PROVE  j = k
  <1>1. j \in Nat
    BY Places
  <1>2. j < k => j * FrameBytes + FrameBytes <= k * FrameBytes
    BY <1>1, Constants, ProductBounds
  <1>3. k < j => k * FrameBytes + FrameBytes <= j * FrameBytes
    BY <1>1, Constants, ProductBounds
  <1>4. j * FrameBytes \in Nat
    BY Places
  <1> DEFINE a == j * FrameBytes
             b == k * FrameBytes
  <1>5. a \in Nat /\ a = b /\ (j < k => a + FrameBytes <= b) /\ (k < j => b + FrameBytes <= a)
    BY <1>2, <1>3, <1>4
  <1> HIDE DEF a, b
  <1>6. QED
    BY <1>1, <1>5, Constants

LEMMA FirstPlace == 0 \in ImageFrames /\ 0 * FrameBytes = 0 /\ 0 \in Boundaries
  <1>1. 0 * FrameBytes = 0
    BY Constants
  <1>2. 0 \in ImageFrames
    BY <1>1, Constants DEF ImageFrames
  <1>3. QED
    BY <1>1, <1>2 DEF Boundaries

LEMMA BoundaryFacts ==
  ASSUME NEW b \in Boundaries
  PROVE  /\ b \in Nat /\ b <= Size
         /\ b < Size => \E k \in ImageFrames : b = k * FrameBytes
         /\ b \in Int
  BY Places, Constants DEF Boundaries

\* The place after a frame is one more, or the end.
LEMMA NextPlace ==
  ASSUME NEW k \in ImageFrames
  PROVE  Smaller(k * FrameBytes + FrameBytes, Size) \in Boundaries
  <1> DEFINE b == k * FrameBytes + FrameBytes
  <1>1. b \in Nat /\ Size \in Nat /\ b = (k + 1) * FrameBytes
    BY Places, Constants
  <1>2. b < Size => k + 1 \in ImageFrames
    BY Places
  <1>3. b < Size => b \in Boundaries
    BY <1>1, <1>2 DEF Boundaries
  <1>4. Size \in Boundaries
    BY DEF Boundaries
  <1> HIDE DEF b
  <1>5. b > Size \/ b = Size \/ b < Size
    BY <1>1
  <1>6. Smaller(b, Size) \in Boundaries
    BY <1>1, <1>3, <1>4, <1>5 DEF Smaller
  <1>7. QED
    BY <1>6 DEF b

LEMMA NextRemainder ==
  ASSUME NEW u \in Nat \ {0}, NEW k \in Nat
  PROVE  ((k % u) + 1) % u = (k + 1) % u
  <1> DEFINE q == k \div u
             r == k % u
  <1>1. q \in Int /\ r \in Nat /\ r < u /\ k = u * q + r
    BY SMT
  <1> HIDE DEF q, r
  <1>2. CASE r + 1 < u
    <2>1. (r + 1) % u = r + 1
      BY <1>1, <1>2, SMT
    <2>2. (u * q + (r + 1)) % u = r + 1
      BY <1>1, <1>2, SMT
    <2>3. k + 1 = u * q + (r + 1)
      BY <1>1
    <2>4. QED
      BY <2>1, <2>2, <2>3 DEF r
  <1>3. CASE r + 1 = u
    <2>1. (r + 1) % u = 0
      BY <1>1, <1>3, SMT
    <2>2. (u * (q + 1)) % u = 0
      BY <1>1, SMT
    <2>3. k + 1 = u * (q + 1)
      BY <1>1, <1>3, SMT
    <2>4. QED
      BY <2>1, <2>2, <2>3 DEF r
  <1>4. QED
    BY <1>1, <1>2, <1>3

LEMMA SequenceOfPlace ==
  ASSUME NEW k \in ImageFrames
  PROVE  SequenceAt(k * FrameBytes) = k % SequenceModulus
  <1>1. ASSUME NEW u \in Nat \ {0}, NEW a \in Nat PROVE (a * u) \div u = a
    BY SMT
  <1>2. (k * FrameBytes) \div FrameBytes = k
    BY <1>1, Places, Constants
  <1>3. QED
    BY <1>2 DEF SequenceAt

LEMMA ChunkFacts ==
  ASSUME NEW k \in ImageFrames
  PROVE  /\ Chunk(k * FrameBytes) \in Seq(Bytes)
         /\ Len(Chunk(k * FrameBytes)) = FrameBytes
         /\ DOMAIN Chunk(k * FrameBytes) = 1 .. FrameBytes
  <1> DEFINE a == k * FrameBytes
             c == Chunk(a)
  <1>1. a \in Nat /\ FrameBytes \in Nat /\ Size = Len(Image) /\ Image \in Seq(Bytes)
    BY Places, Constants DEF Size
  <1> HIDE DEF a
  <1>2. \A i \in 1 .. FrameBytes : c[i] \in Bytes
    <2> TAKE i \in 1 .. FrameBytes
    <2>1. a + i <= Size => a + i \in 1 .. Len(Image)
      BY <1>1
    <2>2. a + i <= Size => Image[a + i] \in Bytes
      BY <1>1, <2>1
    <2>3. c[i] = IF a + i <= Size THEN Image[a + i] ELSE Erased
      BY DEF Chunk
    <2>4. QED
      BY <2>2, <2>3, BytesAssumption
  <1>3. c \in [1 .. FrameBytes -> Bytes]
    BY <1>2 DEF Chunk
  <1> HIDE DEF c
  <1>4. c \in Seq(Bytes) /\ Len(c) = FrameBytes /\ DOMAIN c = 1 .. FrameBytes
    BY <1>1, <1>3
  <1>5. QED
    BY <1>4 DEF c, a

-----------------------------------------------------------------------------
(* The locals of flash_image.  r is what the target has received.          *)

\* In the DATA loop, or in a wait it has called.
DataLocals(h, r) ==
  /\ h \in HostRecord
  /\ InStep(h.offset, h.sequence)
  /\ h.stage = "DATA"
  /\ h.confirmed <= r

\* Where that may lead, all that was noted before being kept.
NextLocals(g, h, r) ==
  /\ HostOK(g)
  /\ g.stage \in {"DATA", "FINISH", "GIVE_UP"}
  /\ g.confirmed <= r
  /\ g.waits_for = "probe" => g.best <= r
  /\ g.tx_failed = h.tx_failed

LEMMA StageTypes ==
  /\ ControlStages \subseteq Stages /\ "DATA" \in Stages /\ Ended \subseteq Stages
  /\ "DATA" \notin ControlStages /\ "DATA" \notin Ended
  /\ {"BEGIN", "FINISH", "COMMIT", "GIVE_UP"} \subseteq ControlStages
  /\ Setup \subseteq ControlStages
  /\ ControlStages \cap Ended = {}
  BY DEF Stages, ControlStages, Ended, Setup

LEMMA GoToStageOK ==
  ASSUME NEW h \in HostRecord, InStep(h.offset, h.sequence),
         NEW stage \in Stages, stage # "DATA" \/ h.offset < Size
  PROVE  /\ HostOK(GoToStage(h, stage))
         /\ GoToStage(h, stage).stage = stage
         /\ GoToStage(h, stage).waits_for = "nothing"
         /\ GoToStage(h, stage).confirmed = h.confirmed
         /\ GoToStage(h, stage).offset = h.offset
         /\ GoToStage(h, stage).sequence = h.sequence
         /\ GoToStage(h, stage).tx_failed = h.tx_failed
         /\ GoToStage(h, stage).attempt = 0
         /\ GoToStage(h, stage).best = h.best
  BY DEF GoToStage, HostOK, HostRecord, Waits

LEMMA FailNext ==
  ASSUME NEW r, NEW h, DataLocals(h, r)
  PROVE  NextLocals(Fail(h), h, r)
  BY GoToStageOK, StageTypes DEF Fail, DataLocals, NextLocals

LEMMA LoopNext ==
  ASSUME NEW r, NEW h, DataLocals(h, r)
  PROVE  NextLocals(Loop(h), h, r)
  <1>1. CASE h.offset < Size
    <2> DEFINE g == [h EXCEPT !.waits_for = "nothing", !.frames_since_sync = 0,
                              !.error = "NONE"]
    <2>1. g \in HostRecord
      BY DEF DataLocals, HostRecord, Waits
    <2>2. /\ g.offset = h.offset /\ g.sequence = h.sequence /\ g.stage = "DATA"
          /\ g.confirmed = h.confirmed /\ g.waits_for = "nothing"
          /\ g.tx_failed = h.tx_failed
      BY DEF DataLocals, HostRecord
    <2>3. Loop(h) = g
      BY <1>1 DEF Loop
    <2> HIDE DEF g
    <2>4. QED
      BY <1>1, <2>1, <2>2, <2>3, StageTypes DEF DataLocals, NextLocals, HostOK
  <1>2. CASE ~(h.offset < Size)
    BY <1>2, GoToStageOK, StageTypes DEF Loop, DataLocals, NextLocals
  <1>3. QED
    BY <1>1, <1>2

\* Reports never lower the confirmed count.
LEMMA ConfirmKeeps ==
  ASSUME NEW r, NEW h, DataLocals(h, r), NEW v \in Boundaries \cup {None}, v <= r
  PROVE  /\ DataLocals(Confirm(h, v), r)
         /\ \A field \in {"waits_for", "tx_failed", "latest", "best", "offset", "error"} :
              Confirm(h, v)[field] = h[field]
  <1>1. Larger(h.confirmed, v) \in Boundaries /\ Larger(h.confirmed, v) <= r
    <2>1. h.confirmed \in Boundaries /\ h.confirmed \in Nat
      BY BoundaryFacts DEF DataLocals, HostRecord
    <2>2. CASE v = None
      BY <2>1, <2>2 DEF Larger, None, DataLocals
    <2>3. CASE v \in Boundaries
      BY <2>1, <2>3 DEF Larger, DataLocals
    <2>4. QED
      BY <2>2, <2>3
  <1> DEFINE g == [h EXCEPT !.confirmed = Larger(h.confirmed, v)]
  <1>2. g \in HostRecord
    BY <1>1 DEF DataLocals, HostRecord
  <1>3. /\ g.offset = h.offset /\ g.sequence = h.sequence /\ g.stage = h.stage
        /\ g.confirmed = Larger(h.confirmed, v) /\ g.waits_for = h.waits_for
        /\ g.tx_failed = h.tx_failed /\ g.latest = h.latest /\ g.best = h.best
        /\ g.error = h.error
    BY DEF DataLocals, HostRecord
  <1>4. Confirm(h, v) = g
    BY DEF Confirm
  <1> HIDE DEF g
  <1>5. QED
    BY <1>1, <1>2, <1>3, <1>4 DEF DataLocals

\* Going to a place makes the sequence number the one of that place.
LEMMA GoToKeeps ==
  ASSUME NEW r, NEW h, DataLocals(h, r), NEW b \in Boundaries
  PROVE  /\ DataLocals(GoTo(h, b), r)
         /\ \A field \in {"waits_for", "tx_failed", "latest", "best"} :
              GoTo(h, b)[field] = h[field]
  <1> DEFINE n == SequenceAt(b)
             g == [h EXCEPT !.offset = b, !.sequence = n]
  <1>1. n \in Nat
    <2>1. ASSUME NEW u \in Nat \ {0}, NEW a \in Nat PROVE a \div u \in Int /\ a % u \in Nat
      BY SMT
    <2>2. b \div FrameBytes \in Nat
      <3>1. ASSUME NEW u \in Nat \ {0}, NEW a \in Nat PROVE a \div u \in Nat
        BY SMT
      <3>2. QED
        BY <3>1, BoundaryFacts, Constants
    <2>3. QED
      BY <2>1, <2>2, Constants DEF SequenceAt
  <1>2. InStep(b, n)
    BY SequenceOfPlace DEF InStep
  <1> HIDE DEF n
  <1>3. g \in HostRecord
    BY <1>1 DEF DataLocals, HostRecord
  <1>4. /\ g.offset = b /\ g.sequence = n /\ g.stage = h.stage
        /\ g.confirmed = h.confirmed /\ g.waits_for = h.waits_for
        /\ g.tx_failed = h.tx_failed /\ g.latest = h.latest /\ g.best = h.best
    BY DEF DataLocals, HostRecord
  <1>5. GoTo(h, b) = g
    BY DEF GoTo, n
  <1> HIDE DEF g
  <1>6. QED
    BY <1>2, <1>3, <1>4, <1>5 DEF DataLocals

LEMMA ResyncNext ==
  ASSUME NEW r, NEW h, DataLocals(h, r)
  PROVE  NextLocals(Resync(h), h, r)
  <1>1. h.confirmed \in Boundaries /\ Size \in Boundaries
    BY DEF DataLocals, HostRecord, Boundaries
  <1>2. Smaller(h.confirmed, Size) \in Boundaries
    BY <1>1 DEF Smaller
  <1> DEFINE g == GoTo(h, Smaller(h.confirmed, Size))
  <1>3. DataLocals(g, r) /\ g.tx_failed = h.tx_failed
    BY <1>2, GoToKeeps
  <1>4. Resync(h) = Loop(g)
    BY DEF Resync
  <1> HIDE DEF g
  <1>5. QED
    BY <1>3, <1>4, LoopNext DEF NextLocals

LEMMA RejectedNext ==
  ASSUME NEW r, NEW h, DataLocals(h, r)
  PROVE  NextLocals(Rejected(h), h, r)
  BY ResyncNext, LoopNext, FailNext DEF Rejected

LEMMA ProbeEndsNext ==
  ASSUME NEW r, NEW h, DataLocals(h, r), NEW v \in Boundaries \cup {None}, v <= r
  PROVE  NextLocals(ProbeEnds(h, v), h, r)
  <1>1. CASE h.error # "NONE"
    BY <1>1, ConfirmKeeps, RejectedNext DEF ProbeEnds, NextLocals
  <1>2. CASE h.error = "NONE" /\ v # None
    <2> DEFINE g == [h EXCEPT !.timeouts = 0]
    <2>1. DataLocals(g, r) /\ g.tx_failed = h.tx_failed
      BY DEF DataLocals, HostRecord
    <2>2. ProbeEnds(h, v) = Resync(Confirm(g, v))
      BY <1>2 DEF ProbeEnds
    <2> HIDE DEF g
    <2>3. QED
      BY <2>1, <2>2, ConfirmKeeps, ResyncNext DEF NextLocals
  <1>3. CASE h.error = "NONE" /\ v = None /\ h.timeouts + 1 >= MaxTimeouts
    BY <1>3, FailNext DEF ProbeEnds
  <1>4. CASE h.error = "NONE" /\ v = None /\ ~(h.timeouts + 1 >= MaxTimeouts)
    <2> DEFINE g == [h EXCEPT !.timeouts = h.timeouts + 1]
    <2>1. DataLocals(g, r) /\ g.tx_failed = h.tx_failed
      BY DEF DataLocals, HostRecord
    <2>2. ProbeEnds(h, v) = Loop(g)
      BY <1>4 DEF ProbeEnds
    <2> HIDE DEF g
    <2>3. QED
      BY <2>1, <2>2, LoopNext DEF NextLocals
  <1>5. QED
    BY <1>1, <1>2, <1>3, <1>4

LEMMA ProgressAnsweredNext ==
  ASSUME NEW r, NEW h, DataLocals(h, r), h.latest <= r, NEW p
  PROVE  NextLocals(ProgressAnswered(h, p), h, r)
  <1> DEFINE e == [h EXCEPT !.timeouts = 0]
             g == Confirm(e, h.latest)
  <1>1. DataLocals(e, r) /\ e.tx_failed = h.tx_failed
    BY DEF DataLocals, HostRecord
  <1>2. h.latest \in Boundaries \cup {None}
    BY DEF DataLocals, HostRecord
  <1>3. ProgressAnswered(h, p) =
          IF p.status = "PROGRESS"
            THEN Loop(IF g.confirmed > g.offset THEN GoTo(g, g.confirmed) ELSE g)
          ELSE IF p.status \in {"BAD_SEQUENCE", "IMAGE_INCOMPLETE"}
            THEN [g EXCEPT !.waits_for = "resolve", !.error = p.status]
          ELSE Fail(g)
    BY DEF ProgressAnswered
  <1> HIDE DEF e
  <1>4. DataLocals(g, r) /\ g.tx_failed = h.tx_failed
    BY <1>1, <1>2, ConfirmKeeps
  <1> HIDE DEF g
  <1>5. g.confirmed \in Boundaries
    BY <1>4 DEF DataLocals, HostRecord
  <1>6. NextLocals(Loop(IF g.confirmed > g.offset THEN GoTo(g, g.confirmed) ELSE g), h, r)
    BY <1>4, <1>5, GoToKeeps, LoopNext DEF NextLocals
  <1>7. NextLocals(Fail(g), h, r)
    BY <1>4, FailNext DEF NextLocals
  <1>8. ASSUME p.status \in {"BAD_SEQUENCE", "IMAGE_INCOMPLETE"}
        PROVE  NextLocals([g EXCEPT !.waits_for = "resolve", !.error = p.status], h, r)
    <2> DEFINE f == [g EXCEPT !.waits_for = "resolve", !.error = p.status]
    <2>1. f \in HostRecord
      BY <1>4, <1>8 DEF DataLocals, HostRecord, Waits
    <2>2. /\ f.offset = g.offset /\ f.sequence = g.sequence /\ f.stage = "DATA"
          /\ f.confirmed = g.confirmed /\ f.waits_for = "resolve"
          /\ f.tx_failed = h.tx_failed
      BY <1>4 DEF DataLocals, HostRecord
    <2> HIDE DEF f
    <2>3. NextLocals(f, h, r)
      BY <1>4, <2>1, <2>2, StageTypes DEF DataLocals, NextLocals, HostOK
    <2>4. QED
      BY <2>3 DEF f
  <1>9. QED
    BY <1>3, <1>6, <1>7, <1>8

LEMMA ProbeAnsweredNext ==
  ASSUME NEW r \in Nat, NEW h, DataLocals(h, r), h.waits_for = "probe",
         h.latest <= r, h.best <= r, NEW p
  PROVE  NextLocals(ProbeAnswered(h, p), h, r)
  <1> DEFINE b == Larger(h.best, h.latest)
             g == [h EXCEPT !.best = b]
             f == [g EXCEPT !.saw_incomplete = TRUE]
  <1>1. b \in Boundaries \cup {None} /\ b <= r /\ None \in Boundaries \cup {None} /\ None <= r
    BY DEF DataLocals, HostRecord, Larger, None
  <1>2. ProbeAnswered(h, p) =
          IF p.status = "PROGRESS"
            THEN IF h.saw_incomplete THEN ProbeEnds(g, g.best) ELSE g
          ELSE IF p.status = "IMAGE_INCOMPLETE"
            THEN IF g.best # None THEN ProbeEnds(g, g.best) ELSE f
          ELSE ProbeEnds(g, None)
    BY DEF ProbeAnswered
  <1> HIDE DEF b
  <1>3. /\ DataLocals(g, r) /\ g.waits_for = "probe" /\ g.tx_failed = h.tx_failed
        /\ g.best = b
    BY <1>1 DEF DataLocals, HostRecord
  <1> HIDE DEF g
  <1>4. /\ DataLocals(f, r) /\ f.waits_for = "probe" /\ f.tx_failed = h.tx_failed
        /\ f.best = b
    BY <1>3 DEF DataLocals, HostRecord
  <1> HIDE DEF f
  <1>5. NextLocals(g, h, r) /\ NextLocals(f, h, r)
    BY <1>1, <1>3, <1>4, StageTypes DEF DataLocals, NextLocals, HostOK
  <1>6. NextLocals(ProbeEnds(g, g.best), h, r) /\ NextLocals(ProbeEnds(g, None), h, r)
    BY <1>1, <1>3, ProbeEndsNext DEF NextLocals
  <1>7. QED
    BY <1>2, <1>5, <1>6

\* Whatever answer ends a wait of the DATA loop.
LEMMA AnsweredNext ==
  ASSUME NEW r \in Nat, NEW h, DataLocals(h, r), h.latest <= r,
         h.waits_for \in {"progress", "probe", "resolve"},
         h.waits_for = "probe" => h.best <= r,
         NEW p, h.waits_for = "resolve" => p.argument \in Boundaries /\ p.argument <= r
  PROVE  NextLocals(Answered(h, p), h, r)
  <1>1. CASE h.waits_for = "progress"
    BY <1>1, ProgressAnsweredNext DEF Answered
  <1>2. CASE h.waits_for = "probe"
    BY <1>2, ProbeAnsweredNext DEF Answered
  <1>3. CASE h.waits_for = "resolve"
    <2>1. Answered(h, p) = Rejected(Confirm(h, p.argument))
      BY <1>3 DEF Answered
    <2>2. QED
      BY <1>3, <2>1, ConfirmKeeps, RejectedNext DEF NextLocals
  <1>4. QED
    BY <1>1, <1>2, <1>3

-----------------------------------------------------------------------------
(* Least and greatest numbers: CHOOSE finds what it is asked for.          *)

LEMMA LeastNatural ==
  ASSUME NEW T, T \subseteq Nat, T # {}
  PROVE  \E x \in T : \A y \in T : x <= y
  <1> DEFINE R == OpToRel(<, Nat)
  <1>1. IsWellFoundedOn(R, Nat)
    BY NatLessThanWellFounded
  <1>2. \A x, y \in Nat : y < x => <<y, x>> \in R
    BY DEF OpToRel
  <1> HIDE DEF R
  <1>3. PICK x \in T : \A y \in T : ~(<<y, x>> \in R)
    BY <1>1, WFMin
  <1>4. ASSUME NEW y \in T PROVE x <= y
    <2>1. x \in Nat /\ y \in Nat
      OBVIOUS
    <2>2. ~(y < x)
      BY <1>2, <1>3, <2>1
    <2>3. QED
      BY <2>1, <2>2
  <1>5. QED
    BY <1>4

LEMMA GreatestBounded ==
  ASSUME NEW T, T \subseteq Nat \cup {None}, T # {}, NEW n \in Nat, \A v \in T : v <= n
  PROVE  \E m \in T : \A v \in T : v <= m
  <1> DEFINE U == {n - v : v \in T}
  <1>0. ASSUME NEW v \in T PROVE n - v \in Nat
    <2>1. (v \in Nat \/ v = 0 - 1) /\ v <= n
      BY DEF None
    <2>2. QED
      BY <2>1
  <1>1. U \subseteq Nat /\ U # {}
    BY <1>0
  <1>2. PICK d \in U : \A y \in U : d <= y
    BY <1>1, LeastNatural
  <1>3. PICK m \in T : d = n - m
    BY <1>2
  <1>4. ASSUME NEW v \in T PROVE v <= m
    <2>1. n - v \in U
      OBVIOUS
    <2>2. d <= n - v /\ v \in Int /\ m \in Int
      BY <1>2, <2>1 DEF None
    <2>3. QED
      BY <1>3, <2>2
  <1>5. QED
    BY <1>4

-----------------------------------------------------------------------------
(* What is in a sequence *)

LEMMA AppendItems ==
  ASSUME NEW S, NEW s \in Seq(S), NEW e \in S
  PROVE  /\ Append(s, e) \in Seq(S) /\ Append(s, e) # <<>>
         /\ Items(Append(s, e)) = Items(s) \cup {e}
         /\ Len(Append(s, e)) = Len(s) + 1 /\ DOMAIN Append(s, e) = 1 .. Len(s) + 1
         /\ \A i \in DOMAIN s : Append(s, e)[i] = s[i]
         /\ Append(s, e)[Len(s) + 1] = e
  <1> DEFINE t == Append(s, e)
  <1>1. /\ t \in Seq(S) /\ Len(t) = Len(s) + 1 /\ Len(s) \in Nat
        /\ DOMAIN s = 1 .. Len(s) /\ DOMAIN t = 1 .. Len(s) + 1
        /\ \A i \in 1 .. Len(s) : t[i] = s[i]
        /\ t[Len(s) + 1] = e
    OBVIOUS
  <1> HIDE DEF t
  <1>2. Items(t) = Items(s) \cup {e}
    <2>1. ASSUME NEW i \in 1 .. Len(s) + 1 PROVE t[i] \in Items(s) \cup {e}
      BY <1>1 DEF Items
    <2>2. ASSUME NEW i \in 1 .. Len(s) PROVE s[i] \in Items(t)
      BY <1>1 DEF Items
    <2>3. e \in Items(t)
      BY <1>1 DEF Items
    <2>4. QED
      BY <1>1, <2>1, <2>2, <2>3 DEF Items
  <1>3. QED
    BY <1>1, <1>2 DEF t

LEMMA TailItems ==
  ASSUME NEW S, NEW s \in Seq(S), s # <<>>
  PROVE  /\ Head(s) \in Items(s) /\ Head(s) \in S /\ Head(s) = s[1] /\ 1 \in DOMAIN s
         /\ Tail(s) \in Seq(S) /\ Items(Tail(s)) \subseteq Items(s)
         /\ \A i \in DOMAIN Tail(s) : i + 1 \in DOMAIN s /\ Tail(s)[i] = s[i + 1]
         /\ Len(Tail(s)) = Len(s) - 1
         /\ DOMAIN s = 1 .. Len(s) /\ DOMAIN Tail(s) = 1 .. Len(s) - 1
  BY DEF Items

LEMMA ConcatItems ==
  ASSUME NEW S, NEW s \in Seq(S), NEW t \in Seq(S)
  PROVE  s \o t \in Seq(S) /\ Items(s \o t) \subseteq Items(s) \cup Items(t)
  <1>1. /\ s \o t \in Seq(S) /\ DOMAIN (s \o t) = 1 .. Len(s) + Len(t)
        /\ DOMAIN s = 1 .. Len(s) /\ DOMAIN t = 1 .. Len(t)
        /\ Len(s) \in Nat /\ Len(t) \in Nat
    OBVIOUS
  <1>2. ASSUME NEW i \in 1 .. Len(s) + Len(t)
        PROVE  (s \o t)[i] \in Items(s) \cup Items(t)
    <2>1. CASE i <= Len(s)
      <3>1. (s \o t)[i] = s[i] /\ i \in 1 .. Len(s)
        BY <2>1
      <3>2. QED
        BY <1>1, <3>1 DEF Items
    <2>2. CASE i > Len(s)
      <3>1. (s \o t)[i] = t[i - Len(s)] /\ i - Len(s) \in 1 .. Len(t)
        BY <2>2
      <3>2. QED
        BY <1>1, <3>1 DEF Items
    <2>3. QED
      BY <2>1, <2>2
  <1>3. QED
    BY <1>1, <1>2 DEF Items

LEMMA SubSeqItems ==
  ASSUME NEW S, NEW s \in Seq(S), NEW a \in Nat \ {0}, NEW b \in Nat, b <= Len(s)
  PROVE  SubSeq(s, a, b) \in Seq(S) /\ Items(SubSeq(s, a, b)) \subseteq Items(s)
  <1> DEFINE t == SubSeq(s, a, b)
  <1>1. /\ t \in Seq(S) /\ DOMAIN t = 1 .. Len(t) /\ DOMAIN s = 1 .. Len(s)
        /\ \A i \in 1 .. Len(t) : t[i] = s[a + i - 1] /\ a + i - 1 \in 1 .. Len(s)
    OBVIOUS
  <1> HIDE DEF t
  <1>2. Items(t) \subseteq Items(s)
    BY <1>1 DEF Items
  <1>3. QED
    BY <1>1, <1>2 DEF t

-----------------------------------------------------------------------------
(* wait_for_flash_status *)

\* PROGRESS of the session, among what may be heard.
Reported == {p \in Heard : p.status = "PROGRESS" /\ p.session_id = SessionId}

\* What wait_for_flash_status notes on its way to an answer.
Notes(l, b) == [host EXCEPT !.latest = l, !.tx_failed = b]

NotesOK(l, b) ==
  /\ l \in {host.latest} \cup {p.argument : p \in Reported}
  /\ b \in BOOLEAN
  /\ b => host.tx_failed \/ TxFailed \in Heard

LEMMA NotedFacts ==
  ASSUME HostOK(host), ReportsWhole,
         NEW packets \in Seq(Statuses), Items(packets) \subseteq Heard
  PROVE  \E l, b : NotesOK(l, b) /\ Noted(packets) = Notes(l, b)
  <1> DEFINE D == {i \in DOMAIN packets : /\ packets[i].status = "PROGRESS"
                                          /\ packets[i].session_id = SessionId
                                          /\ packets[i].argument >= host.confirmed}
             progress == {packets[k].argument : k \in D}
             T == progress \cup {host.latest}
             l == CHOOSE m \in T : \A v \in T : v <= m
             b == host.tx_failed \/ \E k \in DOMAIN packets : packets[k] = TxFailed
  <1>1. Noted(packets) = Notes(l, b)
    BY DEF Noted, Notes
  <1>2. progress \subseteq {p.argument : p \in Reported}
    BY DEF Reported, Items
  <1>3. T \subseteq Boundaries \cup {None}
    <2>1. host.latest \in Boundaries \cup {None}
      BY DEF HostOK, HostRecord
    <2>2. \A p \in Reported : p.argument \in Boundaries
      BY DEF ReportsWhole, Reported
    <2>3. QED
      BY <1>2, <2>1, <2>2
  <1> HIDE DEF progress
  <1>4. T \subseteq Nat \cup {None} /\ T # {} /\ \A v \in T : v <= Size
    <2>1. \A v \in Boundaries : v \in Nat /\ v <= Size
      BY BoundaryFacts
    <2>2. None <= Size
      BY Constants DEF None
    <2>3. QED
      BY <1>3, <2>1, <2>2
  <1>5. \E m \in T : \A v \in T : v <= m
    BY <1>4, Constants, GreatestBounded
  <1>6. l \in T
    BY <1>5
  <1>7. l \in {host.latest} \cup {p.argument : p \in Reported}
    BY <1>2, <1>6
  <1> HIDE DEF T, l
  <1>8. b \in BOOLEAN /\ (b => host.tx_failed \/ TxFailed \in Heard)
    <2>1. host.tx_failed \in BOOLEAN
      BY DEF HostOK, HostRecord
    <2>2. (\E k \in DOMAIN packets : packets[k] = TxFailed) => TxFailed \in Heard
      BY DEF Items
    <2>3. QED
      BY <2>1, <2>2
  <1>9. QED
    BY <1>1, <1>7, <1>8 DEF NotesOK

LEMMA HearFacts ==
  ASSUME LinkTypes, HostOK(host), ReportsWhole, Hear
  PROVE  /\ LinkTypes' /\ Sent' = Sent /\ Heard' \subseteq Heard
         /\ UNCHANGED <<patient, to_target, losses, target>>
         /\ host.waits_for # "nothing"
         /\ \E l, b :
              /\ NotesOK(l, b)
              /\ \/ host' = Notes(l, b)
                 \/ \E p \in Heard :
                      /\ Awaited(p)
                      /\ host' = [Answered(Notes(l, b), p) EXCEPT !.latest = None]
  <1>1. PICK n \in 1 .. Len(to_host) :
          LET buffer == sync \o SubSeq(to_host, 1, n)
              hits == {k \in DOMAIN buffer : Awaited(buffer[k])}
              hit == CHOOSE k \in hits : \A j \in hits : k <= j
          IN /\ to_host' = SubSeq(to_host, n + 1, Len(to_host))
             /\ IF hits = {}
                  THEN host' = Noted(buffer) /\ sync' = <<>>
                  ELSE LET next == Answered(Noted(SubSeq(buffer, 1, hit)), buffer[hit]) IN
                         /\ host' = [next EXCEPT !.latest = None]
                         /\ sync' = Kept(next, SubSeq(buffer, hit + 1, Len(buffer)))
    BY DEF Hear
  <1> DEFINE buffer == sync \o SubSeq(to_host, 1, n)
             hits == {k \in DOMAIN buffer : Awaited(buffer[k])}
             hit == CHOOSE k \in hits : \A j \in hits : k <= j
             next == Answered(Noted(SubSeq(buffer, 1, hit)), buffer[hit])
             rest == SubSeq(buffer, hit + 1, Len(buffer))
  <1>2. /\ to_host' = SubSeq(to_host, n + 1, Len(to_host))
        /\ hits = {} => host' = Noted(buffer) /\ sync' = <<>>
        /\ hits # {} => /\ host' = [next EXCEPT !.latest = None]
                        /\ sync' = Kept(next, rest)
    BY <1>1
  <1>3. /\ UNCHANGED <<patient, to_target, losses, target>>
        /\ host.waits_for # "nothing"
    BY DEF Hear
  <1>4. to_host \in Seq(Statuses) /\ sync \in Seq(Statuses) /\ n \in Nat /\ n <= Len(to_host)
        /\ Len(to_host) \in Nat
    BY DEF LinkTypes
  <1>5. /\ SubSeq(to_host, 1, n) \in Seq(Statuses)
        /\ Items(SubSeq(to_host, 1, n)) \subseteq Items(to_host)
    BY <1>4, SubSeqItems
  <1>6. buffer \in Seq(Statuses) /\ Items(buffer) \subseteq Heard
    <2> DEFINE taken == SubSeq(to_host, 1, n)
    <2>1. taken \in Seq(Statuses) /\ Items(taken) \subseteq Items(to_host)
      BY <1>5
    <2> HIDE DEF taken
    <2>2. /\ sync \o taken \in Seq(Statuses)
          /\ Items(sync \o taken) \subseteq Items(sync) \cup Items(taken)
      BY <1>4, <2>1, ConcatItems
    <2>3. QED
      BY <2>1, <2>2 DEF Heard, taken
  <1>7. to_host' \in Seq(Statuses) /\ Items(to_host') \subseteq Items(to_host)
    <2>1. n + 1 \in Nat \ {0} /\ Len(to_host) <= Len(to_host)
      BY <1>4
    <2>2. QED
      BY <1>2, <1>4, <2>1, SubSeqItems
  <1> HIDE DEF buffer
  <1>8. CASE hits = {}
    <2>1. host' = Noted(buffer) /\ sync' = <<>>
      BY <1>2, <1>8
    <2>2. \E l, b : NotesOK(l, b) /\ host' = Notes(l, b)
      BY <1>6, <2>1, NotedFacts
    <2>3. Heard' \subseteq Heard
      <3>1. Items(sync') = {}
        BY <2>1 DEF Items
      <3>2. QED
        BY <1>7, <3>1 DEF Heard
    <2>4. LinkTypes' /\ Sent' = Sent
      BY <1>3, <1>7, <2>1 DEF LinkTypes, Sent
    <2>5. QED
      BY <1>3, <2>2, <2>3, <2>4
  <1>9. CASE hits # {}
    <2>1. hits \subseteq Nat
      BY <1>6
    <2>2. \E x \in hits : \A y \in hits : x <= y
      BY <1>9, <2>1, LeastNatural
    <2>3. hit \in hits
      BY <2>2
    <2> HIDE DEF hit
    <2>4. /\ hit \in Nat \ {0} /\ hit <= Len(buffer) /\ hit \in DOMAIN buffer
          /\ Awaited(buffer[hit]) /\ Len(buffer) \in Nat
      BY <1>6, <2>3
    <2>5. buffer[hit] \in Heard
      BY <1>6, <2>4 DEF Items
    <2>6. /\ SubSeq(buffer, 1, hit) \in Seq(Statuses)
          /\ Items(SubSeq(buffer, 1, hit)) \subseteq Heard
          /\ rest \in Seq(Statuses) /\ Items(rest) \subseteq Heard
      BY <1>6, <2>4, SubSeqItems
    <2>7. PICK l, b : NotesOK(l, b) /\ Noted(SubSeq(buffer, 1, hit)) = Notes(l, b)
      BY <2>6, NotedFacts
    <2>8. host' = [Answered(Notes(l, b), buffer[hit]) EXCEPT !.latest = None]
      BY <1>2, <1>9, <2>7
    <2> HIDE DEF rest, next
    <2>9. sync' = rest \/ sync' = <<>>
      BY <1>2, <1>9 DEF Kept
    <2>10. sync' \in Seq(Statuses) /\ Items(sync') \subseteq Heard
      <3>1. <<>> \in Seq(Statuses) /\ Items(<<>>) = {}
        BY DEF Items
      <3>2. QED
        BY <2>6, <2>9, <3>1
    <2>11. Heard' \subseteq Heard
      BY <1>7, <2>10 DEF Heard
    <2>12. LinkTypes' /\ Sent' = Sent
      BY <1>3, <1>7, <2>10 DEF LinkTypes, Sent
    <2>13. QED
      BY <1>3, <2>4, <2>5, <2>7, <2>8, <2>11, <2>12
  <1>10. QED
    BY <1>8, <1>9

-----------------------------------------------------------------------------
(* Where a step of the host leads, as far as the invariant asks            *)

\* The edges between the stages of control commands.
Leads(from, to, accepted) ==
  /\ to \in Stages
  /\ to \in Setup \cup {"BEGIN"} => from \in Setup
  /\ to \in Setup => from \in Setup
  /\ to = "DATA" => from = "BEGIN" /\ accepted
  /\ to # "FINISH"
  /\ to = "COMMIT" => from = "FINISH"
  /\ to = "done" => from = "COMMIT" /\ accepted

LEMMA ControlAnsweredLeads ==
  ASSUME NEW h, h.stage \in ControlStages, NEW p
  PROVE  \E to : /\ Leads(h.stage, to, p.status \notin Errors)
                 /\ ControlAnswered(h, p) = GoToStage(h, to)
  <1> USE DEF ControlAnswered, Leads, Stages, ControlStages, Setup, Ended
  <1>1. CASE h.stage = "ABORT"
    BY <1>1
  <1>2. CASE h.stage = "REBOOT"
    BY <1>2
  <1>3. CASE h.stage = "ABORT_AGAIN"
    BY <1>3
  <1>4. CASE h.stage = "GIVE_UP"
    BY <1>4
  <1>5. CASE h.stage = "BEGIN"
    BY <1>5 DEF Fail
  <1>6. CASE h.stage = "FINISH"
    BY <1>6 DEF Fail
  <1>7. CASE h.stage = "COMMIT"
    BY <1>7 DEF Fail
  <1>8. QED
    BY <1>1, <1>2, <1>3, <1>4, <1>5, <1>6, <1>7

LEMMA ControlTimedOutLeads ==
  ASSUME NEW h, h.stage \in ControlStages
  PROVE  \E to : Leads(h.stage, to, FALSE) /\ ControlTimedOut(h) = GoToStage(h, to)
  <1> USE DEF ControlTimedOut, Leads, Stages, ControlStages, Setup, Ended
  <1>1. CASE h.stage = "ABORT"
    BY <1>1
  <1>2. CASE h.stage \in {"REBOOT", "ABORT_AGAIN"}
    BY <1>2
  <1>3. CASE h.stage = "GIVE_UP"
    BY <1>3
  <1>4. CASE h.stage \in {"BEGIN", "FINISH", "COMMIT"}
    BY <1>4 DEF Fail
  <1>5. QED
    BY <1>1, <1>2, <1>3, <1>4

\* A step of the host that sends nothing.
HostMove ==
  /\ HostOK(host')
  /\ LinkTypes' /\ to_target' = to_target /\ Heard' \subseteq Heard
  /\ UNCHANGED <<patient, losses, target>>
  /\ host'.tx_failed => host.tx_failed \/ TxFailed \in Heard
  /\ Early' => /\ Early
               /\ UNCHANGED <<host.offset, host.sequence, host.confirmed>>
               /\ host'.stage \in Setup => host.stage \in Setup
               /\ host'.waits_for = "nothing" =>
                    \/ host.stage \in Setup
                    \/ to_target = <<>> /\ Heard' = {}
  /\ host'.stage = "DATA" =>
       \/ /\ host.stage = "DATA"
          /\ host'.confirmed <= session.received /\ host'.latest <= session.received
          /\ host'.waits_for = "probe" => host'.best <= session.received
       \/ /\ host.stage = "BEGIN" /\ host'.waits_for = "nothing"
          /\ host'.confirmed = host.confirmed /\ host'.latest = None
          /\ \E p \in Heard : p.status = "ACK" /\ p.session_id = SessionId
  /\ host'.stage = "FINISH" => host.stage \in {"DATA", "FINISH"}
  /\ host'.stage = "COMMIT" => host.stage \in {"FINISH", "COMMIT"}
  /\ host'.stage = "done" =>
       \/ host.stage = "done"
       \/ host.stage = "COMMIT" /\ \E p \in Heard : p.status = "COMMITTING"

LEMMA ReceivedNat ==
  ASSUME Inv
  PROVE  session.received \in Nat /\ session \in Sessions
  BY DEF Inv, TypeOK, Sessions

LEMMA NotesKeep ==
  ASSUME HostOK(host), ReportsWhole, NEW l, NEW b, NotesOK(l, b), NEW h, h = Notes(l, b)
  PROVE  /\ HostOK(h) /\ h \in HostRecord
         /\ h.latest = l /\ h.tx_failed = b
         /\ h.stage = host.stage /\ h.waits_for = host.waits_for
         /\ h.offset = host.offset /\ h.sequence = host.sequence
         /\ h.confirmed = host.confirmed /\ h.best = host.best
  <1>1. l \in Boundaries \cup {None} /\ b \in BOOLEAN
    BY DEF NotesOK, HostOK, HostRecord, ReportsWhole, Reported
  <1>2. h \in HostRecord
    BY <1>1 DEF Notes, HostOK, HostRecord
  <1>3. /\ h.latest = l /\ h.tx_failed = b
        /\ h.stage = host.stage /\ h.waits_for = host.waits_for
        /\ h.offset = host.offset /\ h.sequence = host.sequence
        /\ h.confirmed = host.confirmed /\ h.best = host.best
    BY DEF Notes, HostOK, HostRecord
  <1>4. QED
    BY <1>2, <1>3 DEF HostOK

LEMMA LatestCleared ==
  ASSUME NEW h, HostOK(h), NEW g, g = [h EXCEPT !.latest = None]
  PROVE  /\ HostOK(g) /\ g.latest = None /\ g.tx_failed = h.tx_failed
         /\ g.stage = h.stage /\ g.waits_for = h.waits_for
         /\ g.offset = h.offset /\ g.sequence = h.sequence
         /\ g.confirmed = h.confirmed /\ g.best = h.best
  <1>1. g \in HostRecord
    BY DEF HostOK, HostRecord
  <1>2. /\ g.latest = None /\ g.tx_failed = h.tx_failed
        /\ g.stage = h.stage /\ g.waits_for = h.waits_for
        /\ g.offset = h.offset /\ g.sequence = h.sequence
        /\ g.confirmed = h.confirmed /\ g.best = h.best
    BY DEF HostOK, HostRecord
  <1>3. QED
    BY <1>1, <1>2 DEF HostOK

\* A control command that ends.
LEMMA ControlMove ==
  ASSUME TransferInv, LinkTypes', to_target' = to_target, Heard' \subseteq Heard,
         UNCHANGED <<patient, losses, target>>,
         host.stage \in ControlStages,
         NEW l, NEW b, NotesOK(l, b), NEW to, NEW accepted, Leads(host.stage, to, accepted),
         accepted /\ to \in {"DATA", "done"} =>
           \E p \in Heard : /\ p.session_id = SessionId
                            /\ p.status = IF to = "DATA" THEN "ACK" ELSE "COMMITTING",
         host' = [GoToStage(Notes(l, b), to) EXCEPT !.latest = None]
  PROVE  HostMove
  <1> DEFINE h == Notes(l, b)
             g == GoToStage(h, to)
  <1>1. /\ HostOK(h) /\ h \in HostRecord /\ h.tx_failed = b
        /\ h.stage = host.stage /\ h.waits_for = host.waits_for
        /\ h.offset = host.offset /\ h.sequence = host.sequence
        /\ h.confirmed = host.confirmed
    BY NotesKeep DEF TransferInv
  <1> HIDE DEF h
  <1>2. to # "DATA" \/ h.offset < Size
    BY <1>1, Constants DEF Leads, TransferInv, EarlyInv, Early
  <1>3. /\ HostOK(g) /\ g.stage = to /\ g.waits_for = "nothing"
        /\ g.confirmed = h.confirmed /\ g.offset = h.offset /\ g.sequence = h.sequence
        /\ g.tx_failed = h.tx_failed
    BY <1>1, <1>2, GoToStageOK DEF HostOK, Leads
  <1>4. host' = [g EXCEPT !.latest = None]
    BY DEF h
  <1> HIDE DEF g
  <1>5. /\ HostOK(host') /\ host'.latest = None /\ host'.tx_failed = b
        /\ host'.stage = to /\ host'.waits_for = "nothing"
        /\ host'.offset = host.offset /\ host'.sequence = host.sequence
        /\ host'.confirmed = host.confirmed
    <2>1. /\ HostOK(host') /\ host'.latest = None /\ host'.tx_failed = g.tx_failed
          /\ host'.stage = g.stage /\ host'.waits_for = g.waits_for
          /\ host'.offset = g.offset /\ host'.sequence = g.sequence
          /\ host'.confirmed = g.confirmed
      BY ONLY <1>3, <1>4, LatestCleared
    <2>2. QED
      BY <1>1, <1>3, <2>1
  <1>6. b => host.tx_failed \/ TxFailed \in Heard
    BY DEF NotesOK
  <1>7. Early' => Early /\ host.stage \in Setup
    BY <1>5 DEF Early, Leads
  <1>8. host'.stage = "DATA" =>
          host.stage = "BEGIN" /\ \E p \in Heard : p.status = "ACK" /\ p.session_id = SessionId
    BY <1>5 DEF Leads
  <1>9. host'.stage = "done" =>
          host.stage = "COMMIT" /\ \E p \in Heard : p.status = "COMMITTING"
    BY <1>5 DEF Leads
  <1>10. host'.stage # "FINISH" /\ (host'.stage = "COMMIT" => host.stage = "FINISH")
    BY <1>5 DEF Leads
  <1>11. QED
    BY <1>5, <1>6, <1>7, <1>8, <1>9, <1>10 DEF HostMove

\* A wait of the DATA loop that ends.
LEMMA DataMove ==
  ASSUME TransferInv, LinkTypes', to_target' = to_target, Heard' \subseteq Heard,
         UNCHANGED <<patient, losses, target>>,
         host.stage = "DATA",
         NEW l, NEW b, NotesOK(l, b),
         NEW g, NextLocals(g, Notes(l, b), session.received),
         host' = [g EXCEPT !.latest = None]
  PROVE  HostMove
  <1> DEFINE h == Notes(l, b)
  <1>1. h.tx_failed = b
    BY NotesKeep DEF TransferInv
  <1> HIDE DEF h
  <1>2. /\ HostOK(g) /\ g.stage \in {"DATA", "FINISH", "GIVE_UP"}
        /\ g.confirmed <= session.received
        /\ g.waits_for = "probe" => g.best <= session.received
        /\ g.tx_failed = b
    BY <1>1 DEF NextLocals, h
  <1>3. /\ HostOK(host') /\ host'.latest = None /\ host'.tx_failed = g.tx_failed
        /\ host'.stage = g.stage /\ host'.waits_for = g.waits_for
        /\ host'.confirmed = g.confirmed /\ host'.best = g.best
    BY <1>2, LatestCleared
  <1>4. b => host.tx_failed \/ TxFailed \in Heard
    BY DEF NotesOK
  <1>5. None <= session.received
    BY ReceivedNat DEF TransferInv, None
  <1>6. host'.stage \in {"DATA", "FINISH", "GIVE_UP"} /\ ~Early'
    BY <1>2, <1>3 DEF Early, Setup
  <1>7. QED
    BY <1>2, <1>3, <1>4, <1>5, <1>6 DEF HostMove

LEMMA HearMove ==
  ASSUME TransferInv, Hear
  PROVE  HostMove
  <1>1. /\ LinkTypes' /\ Heard' \subseteq Heard
        /\ UNCHANGED <<patient, to_target, losses, target>>
        /\ host.waits_for # "nothing"
    BY HearFacts DEF TransferInv
  <1>2. PICK l, b :
          /\ NotesOK(l, b)
          /\ \/ host' = Notes(l, b)
             \/ \E p \in Heard :
                  /\ Awaited(p)
                  /\ host' = [Answered(Notes(l, b), p) EXCEPT !.latest = None]
    BY HearFacts DEF TransferInv
  <1> DEFINE h == Notes(l, b)
  <1>3. /\ HostOK(h) /\ h \in HostRecord /\ h.latest = l /\ h.tx_failed = b
        /\ h.stage = host.stage /\ h.waits_for = host.waits_for
        /\ h.offset = host.offset /\ h.sequence = host.sequence
        /\ h.confirmed = host.confirmed /\ h.best = host.best
    BY <1>2, NotesKeep DEF TransferInv
  <1>4. b => host.tx_failed \/ TxFailed \in Heard
    BY <1>2 DEF NotesOK
  <1>5. host.stage = "DATA" =>
          /\ h.confirmed <= session.received /\ l <= session.received
          /\ h.waits_for = "probe" => h.best <= session.received
    <2>1. SUFFICES ASSUME host.stage = "DATA"
                   PROVE  /\ h.confirmed <= session.received /\ l <= session.received
                          /\ h.waits_for = "probe" => h.best <= session.received
      OBVIOUS
    <2>2. DataInv
      BY DEF TransferInv
    <2>3. l <= session.received
      BY <1>2, <2>1, <2>2 DEF NotesOK, DataInv, Reported
    <2> HIDE DEF h
    <2>4. QED
      BY <1>3, <2>1, <2>2, <2>3 DEF DataInv
  <1> HIDE DEF h
  <1>6. CASE host' = Notes(l, b)
    <2>1. host' = h
      BY <1>6 DEF h
    <2>2. Early' => Early /\ (host'.stage \in Setup => host.stage \in Setup)
      BY <1>3, <2>1 DEF Early
    <2>3. QED
      BY <1>1, <1>3, <1>4, <1>5, <2>1, <2>2 DEF HostMove
  <1>7. ASSUME NEW p \in Heard, Awaited(p),
               host' = [Answered(h, p) EXCEPT !.latest = None]
        PROVE  HostMove
    <2>1. p.session_id = SetupOr(host.stage, SessionId)
      BY <1>7 DEF Awaited
    <2>2. CASE host.waits_for = "control"
      <3>1. host.stage \in ControlStages
        BY <2>2 DEF TransferInv, HostOK, HostRecord, Stages
      <3>2. p.status \in Expected(host.stage)
        BY <1>7, <2>2 DEF Awaited
      <3>3. Answered(h, p) = ControlAnswered(h, p)
        BY <1>3, <2>2 DEF Answered
      <3>4. PICK to : /\ Leads(host.stage, to, p.status \notin Errors)
                      /\ ControlAnswered(h, p) = GoToStage(h, to)
        BY <1>3, <3>1, ControlAnsweredLeads
      <3>5. ASSUME p.status \notin Errors, to \in {"DATA", "done"}
            PROVE  /\ p.session_id = SessionId
                   /\ p.status = IF to = "DATA" THEN "ACK" ELSE "COMMITTING"
        <4>1. to = "DATA" => host.stage = "BEGIN"
          BY <3>4 DEF Leads
        <4>2. to = "done" => host.stage = "COMMIT"
          BY <3>4 DEF Leads
        <4>3. p.session_id = SessionId
          BY <2>1, <3>5, <4>1, <4>2 DEF SetupOr, Setup
        <4>4. QED
          BY <3>2, <3>5, <4>1, <4>2, <4>3 DEF Expected
      <3>6. host' = [GoToStage(Notes(l, b), to) EXCEPT !.latest = None]
        BY <1>7, <3>3, <3>4 DEF h
      <3>7. QED
        BY <1>1, <1>2, <3>1, <3>4, <3>5, <3>6, ControlMove
    <2>3. CASE host.waits_for # "control"
      <3>1. host.waits_for \in {"progress", "probe", "resolve"}
        BY <1>1, <2>3 DEF TransferInv, HostOK, HostRecord, Waits
      <3>2. host.stage = "DATA"
        BY <3>1 DEF TransferInv, HostOK, HostRecord, Stages
      <3>3. p.session_id = SessionId
        BY <2>1, <3>2 DEF SetupOr, Setup
      <3>4. host.waits_for = "resolve" =>
              p.argument \in Boundaries /\ p.argument <= session.received
        <4>1. host.waits_for = "resolve" => p.status = "PROGRESS"
          BY <1>7 DEF Awaited
        <4>2. QED
          BY <3>2, <3>3, <4>1 DEF TransferInv, ReportsWhole, DataInv
      <3>5. DataLocals(h, session.received)
        BY <1>3, <1>5, <3>2 DEF DataLocals, HostOK
      <3>6. NextLocals(Answered(h, p), h, session.received)
        BY <1>3, <1>5, <3>1, <3>2, <3>4, <3>5, ReceivedNat, AnsweredNext DEF TransferInv
      <3>7. NextLocals(Answered(h, p), Notes(l, b), session.received)
        BY <3>6 DEF h
      <3>8. QED
        BY <1>1, <1>2, <1>7, <3>2, <3>7, DataMove
    <2>4. QED
      BY <2>2, <2>3
  <1>8. QED
    BY <1>2, <1>6, <1>7 DEF h

\* A wait that ended without an answer notes nothing.
LEMMA NothingNoted ==
  ASSUME HostOK(host)
  PROVE  /\ NotesOK(host.latest, host.tx_failed)
         /\ Notes(host.latest, host.tx_failed) = host
  BY DEF NotesOK, Notes, HostOK, HostRecord

\* What a timeout leaves to be heard.
LEMMA KeptFacts ==
  ASSUME LinkTypes, NEW next, sync' \in {<<>>, Kept(next, sync)}, to_host' = to_host,
         UNCHANGED <<patient, to_target, losses>>
  PROVE  /\ LinkTypes' /\ Heard' \subseteq Heard
         /\ sync' = <<>> => Heard' = Items(to_host)
  <1>1. Items(<<>>) = {} /\ <<>> \in Seq(Statuses)
    BY DEF Items
  <1>2. sync' = <<>> \/ sync' = sync
    BY DEF Kept
  <1>3. QED
    BY <1>1, <1>2 DEF LinkTypes, Heard

LEMMA ControlTimeoutMove ==
  ASSUME TransferInv, ControlTimeout
  PROVE  HostMove
  <1>0. HostOK(host) /\ LinkTypes
    BY DEF TransferInv
  <1>1. UNCHANGED <<patient, to_target, to_host, losses, target>> /\ host.waits_for = "control"
    BY DEF ControlTimeout
  <1>2. host.stage \in ControlStages
    BY <1>0, <1>1 DEF HostOK, HostRecord, Stages
  <1>3. CASE host.tx_failed /\ host.attempt < Attempts(host.stage)
    <2>1. /\ host' = [host EXCEPT !.waits_for = "nothing", !.latest = None]
          /\ sync' = <<>>
      BY <1>3 DEF ControlTimeout
    <2>2. patient
      BY <1>3 DEF TransferInv, ImpatientLossless
    <2>3. to_target = <<>> /\ to_host = <<>>
      BY <2>2 DEF ControlTimeout, Late, Quiet
    <2>4. LinkTypes' /\ Heard' \subseteq Heard /\ Heard' = {}
      <3>1. LinkTypes' /\ Heard' \subseteq Heard /\ Heard' = Items(to_host)
        BY <1>0, <1>1, <2>1, KeptFacts
      <3>2. QED
        BY <2>3, <3>1 DEF Items
    <2>5. host' \in HostRecord
      BY <1>0, <2>1 DEF HostOK, HostRecord, Waits
    <2>6. /\ host'.stage = host.stage /\ host'.waits_for = "nothing"
          /\ host'.offset = host.offset /\ host'.sequence = host.sequence
          /\ host'.confirmed = host.confirmed /\ host'.tx_failed = host.tx_failed
      BY <1>0, <2>1 DEF HostOK, HostRecord
    <2>7. HostOK(host')
      BY <1>0, <1>2, <2>5, <2>6, StageTypes DEF HostOK
    <2>8. host.stage # "DATA" /\ host.stage # "done"
      BY <1>2 DEF ControlStages, Setup
    <2>9. Early' => Early /\ (host'.stage \in Setup => host.stage \in Setup)
      BY <2>6 DEF Early
    <2>10. QED
      BY <1>1, <2>3, <2>4, <2>6, <2>7, <2>8, <2>9 DEF HostMove
  <1>4. CASE ~(host.tx_failed /\ host.attempt < Attempts(host.stage))
    <2>1. /\ host' = [ControlTimedOut(host) EXCEPT !.latest = None]
          /\ sync' = Kept(ControlTimedOut(host), sync)
      BY <1>4 DEF ControlTimeout
    <2>2. LinkTypes' /\ Heard' \subseteq Heard
      BY <1>0, <1>1, <2>1, KeptFacts
    <2>3. PICK to : Leads(host.stage, to, FALSE) /\ ControlTimedOut(host) = GoToStage(host, to)
      BY <1>2, ControlTimedOutLeads
    <2>4. host' = [GoToStage(Notes(host.latest, host.tx_failed), to) EXCEPT !.latest = None]
      BY <1>0, <2>1, <2>3, NothingNoted
    <2>5. QED
      BY <1>0, <1>1, <1>2, <2>2, <2>3, <2>4, NothingNoted, ControlMove
  <1>5. QED
    BY <1>3, <1>4

LEMMA EndWaitMove ==
  ASSUME TransferInv, EndWait
  PROVE  HostMove
  <1>0. HostOK(host) /\ LinkTypes
    BY DEF TransferInv
  <1> DEFINE next == IF host.waits_for = "probe" THEN ProbeEnds(host, host.best)
                                                 ELSE Rejected(host)
  <1>1. /\ UNCHANGED <<patient, to_target, to_host, losses, target>>
        /\ host.waits_for \in {"probe", "resolve"}
        /\ host' = [next EXCEPT !.latest = None]
        /\ sync' = Kept(next, sync)
    BY DEF EndWait
  <1>2. host.stage = "DATA"
    BY <1>0, <1>1 DEF HostOK, HostRecord, Stages
  <1>3. LinkTypes' /\ Heard' \subseteq Heard
    BY <1>0, <1>1, KeptFacts
  <1>4. DataLocals(host, session.received)
    BY <1>0, <1>2 DEF DataLocals, HostOK, TransferInv, DataInv
  <1>5. NextLocals(next, host, session.received)
    <2>1. CASE host.waits_for = "probe"
      <3>1. host.best \in Boundaries \cup {None} /\ host.best <= session.received
        BY <1>0, <1>2, <2>1 DEF HostOK, HostRecord, TransferInv, DataInv
      <3>2. QED
        BY <1>4, <2>1, <3>1, ProbeEndsNext
    <2>2. CASE host.waits_for # "probe"
      BY <1>4, <2>2, RejectedNext
    <2>3. QED
      BY <2>1, <2>2
  <1> HIDE DEF next
  <1>6. QED
    BY <1>0, <1>1, <1>2, <1>3, <1>5, NothingNoted, DataMove

-----------------------------------------------------------------------------
(* Steps of the host keep the invariant *)

\* What the target has does not depend on the host.
LEMMA TargetUntouched ==
  ASSUME TransferInv, UNCHANGED target
  PROVE  /\ Inv' /\ TargetInv' /\ BetweenFrames' /\ StagedFrames'
         /\ UNCHANGED <<mode, session, image_ready, verified, boot_image>>
         /\ Installing' = Installing
  <1>1. /\ UNCHANGED <<mode, session, image_ready, ready_session_id, rx_data, apply_offset>>
        /\ UNCHANGED <<flash, replies, verified, boot_image>>
    BY DEF target, vars
  <1>2. Inv'
    BY <1>1, NothingChanged DEF TransferInv, ram, history
  <1>3. TargetInv'
    BY <1>1 DEF TransferInv, TargetInv
  <1>4. BetweenFrames'
    BY <1>1 DEF TransferInv, BetweenFrames, FrameTaken, StagedFrom
  <1>5. StagedFrames'
    BY <1>1 DEF TransferInv, StagedFrames, StagedFrom, OwnSession
  <1>6. QED
    BY <1>1, <1>2, <1>3, <1>4, <1>5 DEF Installing

LEMMA NothingSent == to_target = <<>> => Sent = {}
  BY DEF Sent, Items

LEMMA HostMoveKeeps ==
  ASSUME TransferInv, HostMove
  PROVE  TransferInv'
  <1>1. /\ HostOK(host') /\ LinkTypes' /\ to_target' = to_target /\ Heard' \subseteq Heard
        /\ UNCHANGED <<patient, losses, target>>
        /\ host'.tx_failed => host.tx_failed \/ TxFailed \in Heard
    BY DEF HostMove
  <1>2. /\ Inv' /\ TargetInv' /\ BetweenFrames' /\ StagedFrames'
        /\ UNCHANGED <<mode, session, image_ready, verified, boot_image>>
        /\ Installing' = Installing
    BY <1>1, TargetUntouched
  <1>3. Sent' = Sent
    BY <1>1 DEF Sent
  <1>4. ReportsWhole'
    BY <1>1 DEF TransferInv, ReportsWhole
  <1>5. ImpatientLossless'
    BY <1>1 DEF TransferInv, ImpatientLossless, TxFailed
  <1>6. EarlyInv'
    <2> SUFFICES ASSUME Early' PROVE EarlyInv'
      BY DEF EarlyInv
    <2>1. /\ Early
          /\ UNCHANGED <<host.offset, host.sequence, host.confirmed>>
          /\ host'.stage \in Setup => host.stage \in Setup
          /\ host'.waits_for = "nothing" =>
               \/ host.stage \in Setup
               \/ to_target = <<>> /\ Heard' = {}
      BY DEF HostMove
    <2>2. EarlyInv
      BY DEF TransferInv
    <2>3. host'.stage \in Setup \/ host'.waits_for = "nothing" =>
            /\ \A f \in Sent' : f.command # "BEGIN"
            /\ \A p \in Heard' : ~Ours(p)
      BY <1>1, <1>3, <2>1, <2>2, NothingSent DEF EarlyInv
    <2>4. /\ mode' = "running"
          /\ host'.offset = 0 /\ host'.sequence = 0 /\ host'.confirmed = 0
          /\ \A f \in Sent' : \/ f.command = "BEGIN"
                              \/ /\ f.command \in {"ABORT", "REBOOT"}
                                 /\ f.session_id = SetupSessionId
                                 /\ ~session'.active
      BY <1>2, <1>3, <2>1, <2>2 DEF EarlyInv
    <2>5. \A i \in DOMAIN to_target' : to_target'[i].command = "BEGIN" => i = Len(to_target')
      BY <1>1, <2>1, <2>2 DEF EarlyInv
    <2>6. /\ \A p \in Heard' : p.session_id = SessionId => p.status # "PROGRESS"
          /\ to_target' # <<>> => \A p \in Heard' : ~Ours(p)
          /\ \A p \in Heard' : p.session_id = SessionId /\ p.status = "ACK" =>
                                 session'.id = SessionId
      BY <1>1, <1>2, <2>1, <2>2 DEF EarlyInv
    <2>7. host'.stage \in Setup => ~session'.active
      BY <1>2, <2>1, <2>2 DEF EarlyInv
    <2>8. QED
      BY <2>3, <2>4, <2>5, <2>6, <2>7 DEF EarlyInv
  <1>7. ASSUME host.stage = "BEGIN", NEW p \in Heard, p.status = "ACK", p.session_id = SessionId
        PROVE  /\ Sent = {} /\ mode = "running" /\ session.id = SessionId /\ host.confirmed = 0
               /\ \A q \in Heard : q.session_id = SessionId => q.status # "PROGRESS"
               /\ \A q \in Heard : q.status # "COMMITTING"
    <2>1. Early
      BY <1>7 DEF Early
    <2>2. EarlyInv /\ NotCommitting
      BY DEF TransferInv
    <2>3. QED
      BY <1>7, <2>1, <2>2, NothingSent DEF Ours, EarlyInv, NotCommitting
  <1>8. host'.stage = "DATA" =>
          \/ /\ host.stage = "DATA"
             /\ host'.confirmed <= session.received /\ host'.latest <= session.received
             /\ host'.waits_for = "probe" => host'.best <= session.received
          \/ /\ host.stage = "BEGIN" /\ host'.waits_for = "nothing"
             /\ host'.confirmed = host.confirmed /\ host'.latest = None
             /\ \E p \in Heard : p.status = "ACK" /\ p.session_id = SessionId
    BY DEF HostMove
  <1>9. host'.stage = "FINISH" => host.stage \in {"DATA", "FINISH"}
    BY DEF HostMove
  <1>10. DataInv'
    <2> SUFFICES ASSUME host'.stage = "DATA" PROVE DataInv'
      BY DEF DataInv
    <2>1. CASE host.stage = "DATA"
      BY <1>1, <1>2, <1>8, <2>1 DEF DataInv, TransferInv
    <2>2. CASE host.stage = "BEGIN"
      <3>1. PICK p \in Heard : p.status = "ACK" /\ p.session_id = SessionId
        BY <1>8, <2>2
      <3>2. /\ session.id = SessionId /\ host.confirmed = 0
            /\ \A q \in Heard : q.session_id = SessionId => q.status # "PROGRESS"
        BY <1>7, <2>2, <3>1
      <3>3. session.received \in Nat
        BY ReceivedNat DEF TransferInv
      <3>4. host'.confirmed = 0 /\ host'.latest = None /\ host'.waits_for = "nothing"
        BY <1>8, <2>2, <3>2
      <3>5. 0 <= session.received /\ None <= session.received
        BY <3>3 DEF None
      <3>6. QED
        BY <1>1, <1>2, <3>2, <3>4, <3>5 DEF DataInv
    <2>3. QED
      BY <1>8, <2>1, <2>2
  <1>11. UncommittedInv'
    <2>1. CASE host.stage \in {"DATA", "FINISH"}
      BY <1>2, <1>3, <2>1 DEF UncommittedInv, TransferInv
    <2>2. CASE host.stage = "BEGIN" /\ host'.stage = "DATA"
      BY <1>2, <1>3, <1>7, <1>8, <2>2 DEF UncommittedInv
    <2>3. QED
      BY <1>8, <1>9, <2>1, <2>2 DEF UncommittedInv
  <1>12. NotCommitting'
    <2>1. Early' => Early
      BY DEF HostMove
    <2>2. host.stage = "BEGIN" => Early
      BY DEF Early
    <2>3. QED
      BY <1>1, <1>8, <1>9, <2>1, <2>2 DEF NotCommitting, TransferInv
  <1>13. CommitInv'
    <2>1. host'.stage = "COMMIT" => host.stage \in {"FINISH", "COMMIT"}
      BY DEF HostMove
    <2>2. host'.stage = "done" =>
            \/ host.stage = "done"
            \/ host.stage = "COMMIT" /\ \E p \in Heard : p.status = "COMMITTING"
      BY DEF HostMove
    <2>3. CASE host'.stage \in {"COMMIT", "done"} /\ host.stage = "FINISH"
      <3>1. host'.stage = "COMMIT"
        BY <2>2, <2>3
      <3>2. /\ \A f \in Sent : f.command \in {"DATA", "FINISH"}
            /\ \A p \in Heard : p.status # "COMMITTING"
        BY <2>3 DEF TransferInv, UncommittedInv, NotCommitting
      <3>3. \A i \in DOMAIN to_target : to_target[i].command # "COMMIT"
        BY <3>2 DEF Sent, Items
      <3>4. QED
        BY <1>1, <1>3, <3>1, <3>2, <3>3 DEF CommitInv
    <2>4. CASE host'.stage \in {"COMMIT", "done"} /\ host.stage \in {"COMMIT", "done"}
      <3>1. /\ \A f \in Sent : f.command \in {"DATA", "FINISH", "COMMIT"}
            /\ \A i, j \in DOMAIN to_target :
                 i < j /\ to_target[i].command = "COMMIT" => to_target[j].command = "COMMIT"
            /\ host.stage = "done" \/ (\E p \in Heard : p.status = "COMMITTING") =>
                 Installing /\ \A f \in Sent : f.command = "COMMIT"
        BY <2>4 DEF TransferInv, CommitInv
      <3>2. host'.stage = "done" \/ (\E p \in Heard' : p.status = "COMMITTING") =>
              host.stage = "done" \/ (\E p \in Heard : p.status = "COMMITTING")
        BY <1>1, <2>2
      <3>3. QED
        BY <1>1, <1>2, <1>3, <3>1, <3>2 DEF CommitInv
    <2>5. QED
      BY <2>1, <2>2, <2>3, <2>4 DEF CommitInv
  <1>14. QED
    BY <1>1, <1>2, <1>4, <1>5, <1>6, <1>10, <1>11, <1>12, <1>13 DEF TransferInv

\* A frame put on the link.
LEMMA Sending ==
  ASSUME LinkTypes, NEW f \in ControlFrames \cup DataFrames,
         to_target' = Append(to_target, f), UNCHANGED <<patient, to_host, sync, losses>>
  PROVE  /\ LinkTypes' /\ Heard' = Heard /\ Sent' = Sent \cup {f}
         /\ to_target' # <<>> /\ Len(to_target) \in Nat
         /\ DOMAIN to_target = 1 .. Len(to_target)
         /\ Len(to_target') = Len(to_target) + 1
         /\ DOMAIN to_target' = 1 .. Len(to_target) + 1
         /\ \A i \in DOMAIN to_target : to_target'[i] = to_target[i]
         /\ to_target'[Len(to_target) + 1] = f
  <1>1. to_target \in Seq(ControlFrames \cup DataFrames)
    BY DEF LinkTypes
  <1>2. /\ to_target' \in Seq(ControlFrames \cup DataFrames) /\ to_target' # <<>>
        /\ Items(to_target') = Items(to_target) \cup {f}
        /\ Len(to_target') = Len(to_target) + 1
        /\ DOMAIN to_target' = 1 .. Len(to_target) + 1
        /\ \A i \in DOMAIN to_target : to_target'[i] = to_target[i]
        /\ to_target'[Len(to_target) + 1] = f
    BY <1>1, AppendItems
  <1>3. Len(to_target) \in Nat /\ DOMAIN to_target = 1 .. Len(to_target)
    BY <1>1
  <1>4. QED
    BY <1>2, <1>3 DEF LinkTypes, Heard, Sent

LEMMA ControlFrameFacts ==
  /\ \A stage \in Setup : /\ ControlFrame(stage).command \in {"ABORT", "REBOOT"}
                          /\ ControlFrame(stage).session_id = SetupSessionId
  /\ \A stage \in {"BEGIN", "FINISH", "COMMIT"} :
       ControlFrame(stage).command = stage /\ ControlFrame(stage).session_id = SessionId
  /\ ControlFrame("GIVE_UP").command = "ABORT" /\ ControlFrame("GIVE_UP").session_id = SessionId
  BY DEF ControlFrame, SetupOr, Setup

LEMMA SendControlKeeps ==
  ASSUME TransferInv, SendControl
  PROVE  TransferInv'
  <1> DEFINE f == ControlFrame(host.stage)
             n == Len(to_target)
  <1>1. /\ host.stage \in ControlStages /\ host.waits_for = "nothing"
        /\ to_target' = Append(to_target, f)
        /\ host' = [host EXCEPT !.waits_for = "control", !.attempt = host.attempt + 1,
                                !.tx_failed = FALSE]
        /\ UNCHANGED <<patient, to_host, sync, losses, target>>
    BY DEF SendControl
  <1>2. f \in ControlFrames
    BY <1>1 DEF ControlFrames
  <1>3. /\ LinkTypes' /\ Heard' = Heard /\ Sent' = Sent \cup {f} /\ to_target' # <<>>
        /\ n \in Nat /\ DOMAIN to_target = 1 .. n
        /\ Len(to_target') = n + 1 /\ DOMAIN to_target' = 1 .. n + 1
        /\ \A i \in DOMAIN to_target : to_target'[i] = to_target[i]
        /\ to_target'[n + 1] = f
    BY <1>1, <1>2, Sending DEF TransferInv
  <1>4. /\ Inv' /\ TargetInv' /\ BetweenFrames' /\ StagedFrames'
        /\ UNCHANGED <<mode, session, image_ready, verified, boot_image>>
        /\ Installing' = Installing
    BY <1>1, TargetUntouched
  <1>5. /\ host' \in HostRecord /\ host'.stage = host.stage /\ host'.waits_for = "control"
        /\ host'.offset = host.offset /\ host'.sequence = host.sequence
        /\ host'.confirmed = host.confirmed /\ host'.tx_failed = FALSE
    <2>1. host \in HostRecord
      BY DEF TransferInv, HostOK
    <2>2. host.attempt + 1 \in Nat
      BY <2>1 DEF HostRecord
    <2>3. host' \in HostRecord
      BY <1>1, <2>1, <2>2 DEF HostRecord, Waits
    <2>4. host'.tx_failed = FALSE
      BY <1>1, <2>1 DEF HostRecord
    <2>5. /\ host'.stage = host.stage /\ host'.waits_for = "control"
          /\ host'.offset = host.offset /\ host'.sequence = host.sequence
          /\ host'.confirmed = host.confirmed
      BY <1>1, <2>1 DEF HostRecord
    <2>6. QED
      BY <2>3, <2>4, <2>5
  <1>6. HostOK(host')
    BY <1>1, <1>5, StageTypes DEF TransferInv, HostOK
  <1>7. ReportsWhole' /\ ImpatientLossless'
    BY <1>1, <1>3, <1>5 DEF TransferInv, ReportsWhole, ImpatientLossless, TxFailed
  <1> HIDE DEF f, n
  <1>8. EarlyInv'
    <2> SUFFICES ASSUME Early' PROVE EarlyInv'
      BY DEF EarlyInv
    <2>1. Early /\ (host'.stage \in Setup <=> host.stage \in Setup)
          /\ (host.stage \in Setup \/ host.stage = "BEGIN")
      BY <1>5 DEF Early
    <2>2. EarlyInv
      BY DEF TransferInv
    <2>3. /\ mode = "running"
          /\ host.offset = 0 /\ host.sequence = 0 /\ host.confirmed = 0
          /\ \A g \in Sent : \/ g.command = "BEGIN"
                             \/ /\ g.command \in {"ABORT", "REBOOT"}
                                /\ g.session_id = SetupSessionId
                                /\ ~session.active
          /\ \A g \in Sent : g.command # "BEGIN"
          /\ \A p \in Heard : ~Ours(p)
          /\ host.stage \in Setup => ~session.active
      BY <1>1, <2>1, <2>2 DEF EarlyInv
    <2>4. /\ host.stage \in Setup => f.command \in {"ABORT", "REBOOT"}
                                     /\ f.session_id = SetupSessionId
          /\ host.stage = "BEGIN" => f.command = "BEGIN"
      BY ControlFrameFacts DEF f
    <2>5. \A i \in DOMAIN to_target : to_target[i].command # "BEGIN"
      BY <2>3 DEF Sent, Items
    <2>6. \A i \in DOMAIN to_target' : to_target'[i].command = "BEGIN" => i = Len(to_target')
      BY <1>3, <2>5
    <2>7. \A g \in Sent' : \/ g.command = "BEGIN"
                           \/ /\ g.command \in {"ABORT", "REBOOT"}
                              /\ g.session_id = SetupSessionId
                              /\ ~session'.active
      BY <1>3, <1>4, <2>1, <2>3, <2>4
    <2>8. host'.stage \in Setup => \A g \in Sent' : g.command # "BEGIN"
      BY <1>3, <2>1, <2>3, <2>4
    <2>9. QED
      BY <1>3, <1>4, <1>5, <2>1, <2>3, <2>6, <2>7, <2>8 DEF Ours, EarlyInv
  <1>9. host.stage # "DATA" /\ host.stage # "done"
    BY <1>1 DEF ControlStages, Setup
  <1>10. DataInv'
    BY <1>5, <1>9 DEF DataInv
  <1>11. UncommittedInv'
    <2>1. host.stage = "FINISH" => f.command = "FINISH"
      BY ControlFrameFacts DEF f
    <2>2. QED
      BY <1>3, <1>4, <1>5, <1>9, <2>1 DEF TransferInv, UncommittedInv
  <1>12. NotCommitting'
    BY <1>3, <1>5 DEF TransferInv, NotCommitting, Early
  <1>13. CommitInv'
    <2> SUFFICES ASSUME host.stage = "COMMIT" PROVE CommitInv'
      BY <1>5, <1>9 DEF CommitInv
    <2>1. f.command = "COMMIT"
      BY ControlFrameFacts DEF f
    <2>2. /\ \A g \in Sent : g.command \in {"DATA", "FINISH", "COMMIT"}
          /\ \A i, j \in DOMAIN to_target :
               i < j /\ to_target[i].command = "COMMIT" => to_target[j].command = "COMMIT"
          /\ (\E p \in Heard : p.status = "COMMITTING") =>
               Installing /\ \A g \in Sent : g.command = "COMMIT"
      BY DEF TransferInv, CommitInv
    <2>3. \A i, j \in DOMAIN to_target' :
            i < j /\ to_target'[i].command = "COMMIT" => to_target'[j].command = "COMMIT"
      BY <1>3, <2>1, <2>2
    <2>4. QED
      BY <1>3, <1>4, <1>5, <1>9, <2>1, <2>2, <2>3 DEF CommitInv
  <1>14. QED
    BY <1>3, <1>4, <1>6, <1>7, <1>8, <1>10, <1>11, <1>12, <1>13 DEF TransferInv

\* A frame sent from the DATA loop, the host staying in it.
LEMMA DataSent ==
  ASSUME TransferInv, NEW f \in ControlFrames \cup DataFrames,
         f.command \in {"DATA", "FINISH"},
         to_target' = Append(to_target, f),
         UNCHANGED <<patient, to_host, sync, losses, target>>,
         host.stage = "DATA", host'.stage = "DATA", HostOK(host'),
         host'.confirmed = host.confirmed, host'.tx_failed = host.tx_failed,
         host'.latest \in {host.latest, None}, host'.waits_for = "probe" => host'.best = None
  PROVE  TransferInv'
  <1>1. LinkTypes' /\ Heard' = Heard /\ Sent' = Sent \cup {f}
    BY Sending DEF TransferInv
  <1>2. /\ Inv' /\ TargetInv' /\ BetweenFrames' /\ StagedFrames'
        /\ UNCHANGED <<mode, session, image_ready, verified, boot_image>>
    BY TargetUntouched
  <1>3. ReportsWhole' /\ ImpatientLossless'
    BY <1>1 DEF TransferInv, ReportsWhole, ImpatientLossless, TxFailed
  <1>4. ~Early'
    BY DEF Early, Setup
  <1>5. None <= session.received
    BY ReceivedNat DEF TransferInv, None
  <1>6. DataInv'
    BY <1>1, <1>2, <1>5 DEF TransferInv, DataInv
  <1>7. UncommittedInv' /\ NotCommitting' /\ CommitInv' /\ EarlyInv'
    BY <1>1, <1>2, <1>4 DEF TransferInv, UncommittedInv, NotCommitting, CommitInv, EarlyInv
  <1>8. QED
    BY <1>1, <1>2, <1>3, <1>6, <1>7 DEF TransferInv

LEMMA SendDataKeeps ==
  ASSUME TransferInv, SendData
  PROVE  TransferInv'
  <1> DEFINE offset == Smaller(host.offset + FrameBytes, Size)
             frames == host.frames_since_sync + 1
             sequence == (host.sequence + 1) % SequenceModulus
             waits == IF frames >= ProgressInterval \/ offset >= Size THEN "progress"
                                                                     ELSE "nothing"
             f == [command |-> "DATA", session_id |-> SessionId,
                   sequence |-> host.sequence, data |-> Chunk(host.offset)]
  <1>1. /\ host.stage = "DATA" /\ host.waits_for = "nothing"
        /\ to_target' = Append(to_target, f)
        /\ host' = [host EXCEPT !.offset = offset, !.sequence = sequence,
                                !.frames_since_sync = frames, !.waits_for = waits]
        /\ UNCHANGED <<patient, to_host, sync, losses, target>>
    BY DEF SendData
  <1>2. HostOK(host) /\ host \in HostRecord /\ host.offset < Size /\ host.offset \in Boundaries
    BY <1>1 DEF TransferInv, HostOK, HostRecord
  <1>3. PICK k \in ImageFrames : host.offset = k * FrameBytes
    BY <1>2, BoundaryFacts
  <1>4. host.sequence = k % SequenceModulus
    BY <1>2, <1>3 DEF HostOK, InStep
  <1>5. f = ImageFrame(k) /\ f.command = "DATA"
    BY <1>3, <1>4 DEF ImageFrame
  <1>6. f \in DataFrames
    BY <1>5 DEF DataFrames
  <1> HIDE DEF f
  <1>7. sequence = (k + 1) % SequenceModulus /\ sequence \in Nat
    <2>1. k \in Nat
      BY Places
    <2>2. sequence = (k + 1) % SequenceModulus
      BY <1>4, <2>1, Constants, NextRemainder
    <2>3. (k + 1) % SequenceModulus \in Nat
      <3>1. ASSUME NEW u \in Nat \ {0}, NEW a \in Nat PROVE a % u \in Nat
        BY SMT
      <3>2. QED
        BY <2>1, <3>1, Constants
    <2>4. QED
      BY <2>2, <2>3
  <1>8. offset \in Boundaries
    BY <1>3, NextPlace
  <1>9. InStep(offset, sequence)
    <2> SUFFICES ASSUME NEW j \in ImageFrames, offset = j * FrameBytes
                 PROVE  sequence = j % SequenceModulus
      BY DEF InStep
    <2>1. /\ k \in Nat /\ k * FrameBytes \in Nat
          /\ (k + 1) * FrameBytes = k * FrameBytes + FrameBytes
          /\ j * FrameBytes \in Nat /\ j * FrameBytes < Size
      BY Places
    <2>2. offset = k * FrameBytes + FrameBytes
      BY <1>3, <2>1, Constants DEF Smaller
    <2>3. j * FrameBytes = (k + 1) * FrameBytes /\ k + 1 \in Nat
      BY <2>1, <2>2
    <2>4. j = k + 1
      BY <2>3, OnePlace
    <2>5. QED
      BY <1>7, <2>4
  <1>10. waits = "nothing" => offset < Size
    BY <1>8, BoundaryFacts, Constants
  <1> HIDE DEF offset, sequence
  <1>11. frames \in Nat /\ waits \in {"progress", "nothing"}
    BY <1>2 DEF HostRecord
  <1> HIDE DEF frames, waits
  <1>12. /\ host' \in HostRecord /\ host'.stage = "DATA" /\ host'.waits_for = waits
         /\ host'.offset = offset /\ host'.sequence = sequence
         /\ host'.confirmed = host.confirmed /\ host'.tx_failed = host.tx_failed
         /\ host'.latest = host.latest
    BY <1>1, <1>2, <1>7, <1>8, <1>11 DEF HostRecord, Waits
  <1>13. HostOK(host')
    BY <1>9, <1>10, <1>11, <1>12, StageTypes DEF HostOK
  <1>14. QED
    BY <1>1, <1>5, <1>6, <1>11, <1>12, <1>13, DataSent

LEMMA StartProbeKeeps ==
  ASSUME TransferInv, StartProbe
  PROVE  TransferInv'
  <1> DEFINE f == ControlFrame("FINISH")
  <1>1. /\ host.waits_for \in {"progress", "resolve"}
        /\ to_target' = Append(to_target, f)
        /\ host' = [host EXCEPT !.waits_for = "probe", !.latest = None, !.best = None,
                                !.saw_incomplete = FALSE]
        /\ UNCHANGED <<patient, to_host, sync, losses, target>>
    BY DEF StartProbe
  <1>2. HostOK(host) /\ host \in HostRecord /\ host.stage = "DATA"
    BY <1>1 DEF TransferInv, HostOK, HostRecord, Stages
  <1>3. f \in ControlFrames /\ f.command = "FINISH"
    BY ControlFrameFacts DEF ControlFrames, ControlStages
  <1> HIDE DEF f
  <1>4. /\ host' \in HostRecord /\ host'.stage = "DATA" /\ host'.waits_for = "probe"
        /\ host'.offset = host.offset /\ host'.sequence = host.sequence
        /\ host'.confirmed = host.confirmed /\ host'.tx_failed = host.tx_failed
        /\ host'.latest = None /\ host'.best = None
    BY <1>1, <1>2 DEF HostRecord, Waits
  <1>5. HostOK(host')
    BY <1>2, <1>4, StageTypes DEF HostOK
  <1>6. QED
    BY <1>1, <1>2, <1>3, <1>4, <1>5, DataSent

-----------------------------------------------------------------------------
(* Losses *)

LEMMA QueuedFacts ==
  ASSUME LinkTypes, NEW packets \in Seq(Statuses)
  PROVE  /\ Queued(packets) \in Seq(Statuses)
         /\ Items(Queued(packets)) \subseteq Items(to_host) \cup Items(packets)
  <1> DEFINE all == to_host \o packets
             n == Smaller(Len(all), LinkCapacity)
  <1>1. all \in Seq(Statuses) /\ Items(all) \subseteq Items(to_host) \cup Items(packets)
    BY ConcatItems DEF LinkTypes
  <1>2. Queued(packets) = SubSeq(all, 1, n)
    BY DEF Queued
  <1> HIDE DEF all
  <1>3. Len(all) \in Nat /\ LinkCapacity \in Nat
    BY <1>1, TransferAssumption
  <1>4. n \in Nat /\ n <= Len(all)
    BY <1>3 DEF Smaller
  <1> HIDE DEF n
  <1>5. /\ SubSeq(all, 1, n) \in Seq(Statuses)
        /\ Items(SubSeq(all, 1, n)) \subseteq Items(all)
    BY <1>1, <1>4, SubSeqItems
  <1>6. QED
    BY <1>1, <1>2, <1>5

\* The frames left when the first is taken off keep their order.
LEMMA Taking ==
  ASSUME LinkTypes, to_target # <<>>, to_target' = Tail(to_target)
  PROVE  /\ to_target' \in Seq(ControlFrames \cup DataFrames)
         /\ Sent' \subseteq Sent
         /\ Head(to_target) \in Sent
         /\ Head(to_target) \in ControlFrames \cup DataFrames
         /\ Head(to_target) = to_target[1] /\ 1 \in DOMAIN to_target
         /\ \A i \in DOMAIN to_target' : i + 1 \in DOMAIN to_target /\ i \in Nat \ {0}
                                         /\ to_target'[i] = to_target[i + 1]
         /\ Len(to_target) \in Nat /\ Len(to_target') = Len(to_target) - 1
         /\ DOMAIN to_target = 1 .. Len(to_target)
         /\ \A g \in Sent' : \E i \in DOMAIN to_target : i > 1 /\ g = to_target[i]
  <1> DEFINE S == ControlFrames \cup DataFrames
  <1>1. to_target \in Seq(S)
    BY DEF LinkTypes
  <1> HIDE DEF S
  <1>2. /\ Head(to_target) \in Items(to_target) /\ Head(to_target) \in S
        /\ Head(to_target) = to_target[1] /\ 1 \in DOMAIN to_target
        /\ to_target' \in Seq(S) /\ Items(to_target') \subseteq Items(to_target)
        /\ \A i \in DOMAIN to_target' : i + 1 \in DOMAIN to_target
                                        /\ to_target'[i] = to_target[i + 1]
        /\ Len(to_target') = Len(to_target) - 1
        /\ DOMAIN to_target = 1 .. Len(to_target)
        /\ DOMAIN to_target' = 1 .. Len(to_target) - 1
    BY <1>1, TailItems
  <1>3. Len(to_target) \in Nat
    BY <1>1
  <1>4. \A i \in DOMAIN to_target' : i \in Nat \ {0} /\ i + 1 > 1
    BY <1>2, <1>3
  <1>5. \A g \in Items(to_target') : \E i \in DOMAIN to_target : i > 1 /\ g = to_target[i]
    BY <1>2, <1>4 DEF Items
  <1>6. QED
    BY <1>2, <1>3, <1>4, <1>5 DEF Sent, S

LEMMA LossKeeps ==
  ASSUME TransferInv, LinkTypes', UNCHANGED <<patient, host, target>>, patient,
         to_target' = to_target \/ (to_target # <<>> /\ to_target' = Tail(to_target)),
         Heard' \subseteq Heard \cup {TxFailed}
  PROVE  TransferInv'
  <1>1. /\ Inv' /\ TargetInv' /\ BetweenFrames' /\ StagedFrames'
        /\ UNCHANGED <<mode, session, image_ready, verified, boot_image>>
        /\ Installing' = Installing
    BY TargetUntouched
  <1>2. Early' = Early
    BY DEF Early
  <1>3. /\ Sent' \subseteq Sent
        /\ to_target' # <<>> => to_target # <<>>
    BY Taking DEF Sent, TransferInv
  <1>4. /\ TxFailed.status = "TX_FAILED" /\ ~Ours(TxFailed)
    BY DEF TxFailed, Ours
  <1>5. ReportsWhole' /\ ImpatientLossless' /\ HostOK(host')
    BY <1>4 DEF TransferInv, ReportsWhole, ImpatientLossless
  <1>6. EarlyInv'
    <2> SUFFICES ASSUME Early PROVE EarlyInv'
      BY <1>2 DEF EarlyInv
    <2>1. EarlyInv
      BY DEF TransferInv
    <2>2. \A i \in DOMAIN to_target' : to_target'[i].command = "BEGIN" => i = Len(to_target')
      <3>1. \A i \in DOMAIN to_target : to_target[i].command = "BEGIN" => i = Len(to_target)
        BY <2>1 DEF EarlyInv
      <3>2. CASE to_target' = to_target
        BY <3>1, <3>2
      <3>3. CASE to_target # <<>> /\ to_target' = Tail(to_target)
        <4> SUFFICES ASSUME NEW i \in DOMAIN to_target', to_target'[i].command = "BEGIN"
                     PROVE  i = Len(to_target')
          OBVIOUS
        <4>1. /\ i + 1 \in DOMAIN to_target /\ to_target'[i] = to_target[i + 1] /\ i \in Nat
              /\ Len(to_target) \in Nat /\ Len(to_target') = Len(to_target) - 1
          BY <3>3, Taking DEF TransferInv
        <4>2. i + 1 = Len(to_target)
          BY <3>1, <4>1
        <4>3. QED
          BY <4>1, <4>2
      <3>4. QED
        BY <3>2, <3>3
    <2>3. QED
      BY <1>1, <1>2, <1>3, <1>4, <2>1, <2>2 DEF EarlyInv
  <1>7. DataInv'
    BY <1>1, <1>4 DEF TransferInv, DataInv
  <1>8. UncommittedInv' /\ NotCommitting'
    BY <1>1, <1>2, <1>3, <1>4 DEF TransferInv, UncommittedInv, NotCommitting
  <1>9. CommitInv'
    <2> SUFFICES ASSUME host.stage \in {"COMMIT", "done"} PROVE CommitInv'
      BY DEF CommitInv
    <2>1. \A i, j \in DOMAIN to_target :
            i < j /\ to_target[i].command = "COMMIT" => to_target[j].command = "COMMIT"
      BY DEF TransferInv, CommitInv
    <2>2. \A i, j \in DOMAIN to_target' :
            i < j /\ to_target'[i].command = "COMMIT" => to_target'[j].command = "COMMIT"
      <3>1. CASE to_target' = to_target
        BY <2>1, <3>1
      <3>2. CASE to_target # <<>> /\ to_target' = Tail(to_target)
        <4>1. \A i \in DOMAIN to_target' : i + 1 \in DOMAIN to_target /\ i \in Nat
                                           /\ to_target'[i] = to_target[i + 1]
          BY <3>2, Taking DEF TransferInv
        <4> SUFFICES ASSUME NEW i \in DOMAIN to_target', NEW j \in DOMAIN to_target',
                            i < j, to_target'[i].command = "COMMIT"
                     PROVE  to_target'[j].command = "COMMIT"
          OBVIOUS
        <4>2. i + 1 < j + 1
          BY <4>1
        <4>3. QED
          BY <2>1, <4>1, <4>2
      <3>3. QED
        BY <3>1, <3>2
    <2>3. (\E p \in Heard' : p.status = "COMMITTING") => \E p \in Heard : p.status = "COMMITTING"
      BY <1>4
    <2>4. QED
      BY <1>1, <1>3, <2>2, <2>3 DEF TransferInv, CommitInv
  <1>10. QED
    BY <1>1, <1>5, <1>6, <1>7, <1>8, <1>9 DEF TransferInv

LEMMA LossIsPatient ==
  ASSUME TransferInv, losses < LossLimit
  PROVE  patient /\ losses + 1 \in Nat
  <1>1. losses \in Nat
    BY DEF TransferInv, LinkTypes
  <1>2. ~patient => LossLimit = 0
    BY DEF LossLimit
  <1>3. QED
    BY <1>1, <1>2

LEMMA LoseFrameKeeps ==
  ASSUME TransferInv, LoseFrame
  PROVE  TransferInv'
  <1>1. /\ losses < LossLimit /\ to_target # <<>> /\ losses' = losses + 1
        /\ to_target' = Tail(to_target)
        /\ to_host' \in {to_host, Queued(<<TxFailed>>)}
        /\ UNCHANGED <<patient, host, sync, target>>
    BY DEF LoseFrame
  <1>2. patient /\ losses' \in Nat
    BY <1>1, LossIsPatient
  <1>3. LinkTypes
    BY DEF TransferInv
  <1>4. TxFailed \in Statuses
    BY DEF TxFailed, Statuses, Verdicts
  <1>5. <<TxFailed>> \in Seq(Statuses) /\ Items(<<TxFailed>>) = {TxFailed}
    BY <1>4 DEF Items
  <1>6. to_host' \in Seq(Statuses) /\ Items(to_host') \subseteq Items(to_host) \cup {TxFailed}
    <2>1. to_host \in Seq(Statuses)
      BY <1>3 DEF LinkTypes
    <2>2. /\ Queued(<<TxFailed>>) \in Seq(Statuses)
          /\ Items(Queued(<<TxFailed>>)) \subseteq Items(to_host) \cup {TxFailed}
      BY <1>3, <1>5, QueuedFacts
    <2>3. QED
      BY <1>1, <2>1, <2>2
  <1>7. to_target' \in Seq(ControlFrames \cup DataFrames)
    BY <1>1, <1>3, Taking
  <1>8. LinkTypes'
    BY <1>1, <1>2, <1>3, <1>6, <1>7 DEF LinkTypes
  <1>9. Heard' \subseteq Heard \cup {TxFailed}
    BY <1>1, <1>6 DEF Heard
  <1>10. QED
    BY <1>1, <1>2, <1>8, <1>9, LossKeeps

LEMMA LoseStatusKeeps ==
  ASSUME TransferInv, LoseStatus
  PROVE  TransferInv'
  <1>1. PICK k \in DOMAIN to_host :
          to_host' = SubSeq(to_host, 1, k - 1) \o SubSeq(to_host, k + 1, Len(to_host))
    BY DEF LoseStatus
  <1>2. /\ losses < LossLimit /\ losses' = losses + 1
        /\ UNCHANGED <<patient, host, to_target, sync, target>>
    BY DEF LoseStatus
  <1>3. patient /\ losses' \in Nat
    BY <1>2, LossIsPatient
  <1>4. to_host \in Seq(Statuses) /\ LinkTypes
    BY DEF TransferInv, LinkTypes
  <1> DEFINE before == SubSeq(to_host, 1, k - 1)
             after == SubSeq(to_host, k + 1, Len(to_host))
  <1>5. /\ k - 1 \in Nat /\ k - 1 <= Len(to_host) /\ k + 1 \in Nat \ {0}
        /\ Len(to_host) \in Nat /\ Len(to_host) <= Len(to_host) /\ 1 \in Nat \ {0}
    BY <1>4
  <1>6. before \in Seq(Statuses) /\ Items(before) \subseteq Items(to_host)
    BY <1>4, <1>5, SubSeqItems
  <1>7. after \in Seq(Statuses) /\ Items(after) \subseteq Items(to_host)
    BY <1>4, <1>5, SubSeqItems
  <1>8. to_host' = before \o after
    BY <1>1
  <1> HIDE DEF before, after
  <1>9. to_host' \in Seq(Statuses) /\ Items(to_host') \subseteq Items(to_host)
    BY <1>6, <1>7, <1>8, ConcatItems
  <1>10. LinkTypes'
    BY <1>2, <1>3, <1>4, <1>9 DEF LinkTypes
  <1>11. Heard' \subseteq Heard \cup {TxFailed}
    BY <1>2, <1>9 DEF Heard
  <1>12. QED
    BY <1>2, <1>3, <1>10, <1>11, LossKeeps

-----------------------------------------------------------------------------
(* The target takes a frame *)

\* What a frame on the link asks, and for which session.
LEMMA FrameFacts ==
  ASSUME NEW f \in ControlFrames \cup DataFrames
  PROVE  /\ f.command \in {"ABORT", "REBOOT", "BEGIN", "FINISH", "COMMIT", "DATA"}
         /\ f.session_id \in SessionIds /\ f.session_id \in Nat
         /\ f.command \in {"BEGIN", "FINISH", "COMMIT", "DATA"} => f.session_id = SessionId
         /\ f.command = "DATA" => f \in DataFrames
  <1>1. CASE f \in DataFrames
    BY <1>1, Constants DEF DataFrames, ImageFrame
  <1>2. ASSUME NEW stage \in ControlStages, f = ControlFrame(stage)
        PROVE  /\ f.command \in {"ABORT", "REBOOT", "BEGIN", "FINISH", "COMMIT"}
               /\ f.session_id \in {SessionId, SetupSessionId}
               /\ f.command \in {"BEGIN", "FINISH", "COMMIT"} => f.session_id = SessionId
    BY <1>2 DEF ControlStages, Setup, ControlFrame, SetupOr
  <1>3. CASE f \in ControlFrames
    BY <1>2, <1>3, Constants DEF ControlFrames
  <1>4. QED
    BY <1>1, <1>3

\* What a step of the target does to the link.
Answering ==
  /\ UNCHANGED <<patient, host, sync, losses>>
  /\ to_target # <<>> /\ to_target' = Tail(to_target)
  /\ to_host' = Queued(replies')

\* Answers the host may be sent at any time.
Proper(packets) ==
  /\ packets \in Seq(Statuses)
  /\ \A p \in Items(packets) :
       /\ p.status # "TX_FAILED"
       /\ p.status = "PROGRESS" /\ p.session_id = SessionId => p.argument \in Boundaries

LEMMA ProperAnswers ==
  ASSUME TransferInv, UNCHANGED <<patient, host, sync, losses>>, Proper(replies'),
         to_host' = Queued(replies'),
         to_target' \in Seq(ControlFrames \cup DataFrames)
  PROVE  /\ LinkTypes' /\ HostOK(host') /\ ReportsWhole' /\ ImpatientLossless'
         /\ Heard' \subseteq Heard \cup Items(replies')
         /\ Early' = Early
  <1>1. LinkTypes
    BY DEF TransferInv
  <1>2. /\ to_host' \in Seq(Statuses)
        /\ Items(to_host') \subseteq Items(to_host) \cup Items(replies')
    BY <1>1, QueuedFacts DEF Proper
  <1>3. LinkTypes'
    BY <1>1, <1>2 DEF LinkTypes
  <1>4. Heard' \subseteq Heard \cup Items(replies')
    BY <1>2 DEF Heard
  <1>5. \A p \in Items(replies') :
          /\ p # TxFailed
          /\ p.status = "PROGRESS" /\ p.session_id = SessionId => p.argument \in Boundaries
    BY DEF Proper, TxFailed
  <1>6. ReportsWhole'
    BY <1>4, <1>5 DEF TransferInv, ReportsWhole
  <1>7. ImpatientLossless'
    BY <1>4, <1>5 DEF TransferInv, ImpatientLossless
  <1>8. HostOK(host')
    BY DEF TransferInv
  <1>9. QED
    BY <1>3, <1>4, <1>6, <1>7, <1>8 DEF Early

LEMMA OrderKept ==
  ASSUME TransferInv, to_target # <<>>, to_target' = Tail(to_target)
  PROVE  /\ Early => \A i \in DOMAIN to_target' :
                       to_target'[i].command = "BEGIN" => i = Len(to_target')
         /\ Early /\ Head(to_target).command = "BEGIN" => to_target' = <<>> /\ Sent' = {}
         /\ host.stage \in {"COMMIT", "done"} =>
              /\ \A i, j \in DOMAIN to_target' :
                   i < j /\ to_target'[i].command = "COMMIT" => to_target'[j].command = "COMMIT"
              /\ Head(to_target).command = "COMMIT" => \A g \in Sent' : g.command = "COMMIT"
  <1>1. /\ \A i \in DOMAIN to_target' : i + 1 \in DOMAIN to_target /\ i \in Nat \ {0}
                                        /\ to_target'[i] = to_target[i + 1]
        /\ to_target' \in Seq(ControlFrames \cup DataFrames)
        /\ Head(to_target) = to_target[1] /\ 1 \in DOMAIN to_target
        /\ Len(to_target) \in Nat /\ Len(to_target') = Len(to_target) - 1
        /\ \A g \in Sent' : \E i \in DOMAIN to_target : i > 1 /\ g = to_target[i]
    BY Taking DEF TransferInv
  <1>2. ASSUME Early
        PROVE  \A i \in DOMAIN to_target : to_target[i].command = "BEGIN" => i = Len(to_target)
    BY <1>2 DEF TransferInv, EarlyInv
  <1>3. ASSUME Early, NEW i \in DOMAIN to_target', to_target'[i].command = "BEGIN"
        PROVE  i = Len(to_target')
    <2>1. i + 1 = Len(to_target)
      BY <1>1, <1>2, <1>3
    <2>2. QED
      BY <1>1, <2>1
  <1>4. ASSUME Early, Head(to_target).command = "BEGIN"
        PROVE  to_target' = <<>> /\ Sent' = {}
    <2>1. Len(to_target) = 1
      BY <1>1, <1>2, <1>4
    <2>2. Len(to_target') = 0
      BY <1>1, <2>1
    <2>3. to_target' = <<>>
      BY <1>1, <2>2
    <2>4. QED
      BY <2>3 DEF Sent, Items
  <1>5. ASSUME host.stage \in {"COMMIT", "done"}
        PROVE  \A i, j \in DOMAIN to_target :
                 i < j /\ to_target[i].command = "COMMIT" => to_target[j].command = "COMMIT"
    BY <1>5 DEF TransferInv, CommitInv
  <1>6. ASSUME host.stage \in {"COMMIT", "done"},
               NEW i \in DOMAIN to_target', NEW j \in DOMAIN to_target', i < j,
               to_target'[i].command = "COMMIT"
        PROVE  to_target'[j].command = "COMMIT"
    <2>1. i + 1 < j + 1
      BY <1>1, <1>6
    <2>2. QED
      BY <1>1, <1>5, <1>6, <2>1
  <1>7. ASSUME host.stage \in {"COMMIT", "done"}, Head(to_target).command = "COMMIT",
               NEW g \in Sent'
        PROVE  g.command = "COMMIT"
    <2>1. PICK i \in DOMAIN to_target : i > 1 /\ g = to_target[i]
      BY <1>1
    <2>2. 1 < i
      BY <1>1, <2>1
    <2>3. QED
      BY <1>1, <1>5, <1>7, <2>1, <2>2
  <1>8. QED
    BY <1>3, <1>4, <1>6, <1>7

\* What the host's stage says of the frame the target takes.
LEMMA TakenFacts ==
  ASSUME TransferInv, to_target # <<>>, NEW f, f = Head(to_target)
  PROVE  /\ f \in Sent /\ f \in ControlFrames \cup DataFrames
         /\ Early => \/ f.command = "BEGIN"
                     \/ /\ f.command \in {"ABORT", "REBOOT"}
                        /\ f.session_id = SetupSessionId /\ ~session.active
         /\ Early /\ f.command = "BEGIN" => host.stage = "BEGIN" /\ host.waits_for # "nothing"
         /\ host.stage \in {"DATA", "FINISH"} => f.command \in {"DATA", "FINISH"}
         /\ host.stage \in {"COMMIT", "done"} => f.command \in {"DATA", "FINISH", "COMMIT"}
         /\ host.stage = "done" => f.command = "COMMIT"
  <1>1. f \in Sent /\ f \in ControlFrames \cup DataFrames
    <2>1. to_target \in Seq(ControlFrames \cup DataFrames)
      BY DEF TransferInv, LinkTypes
    <2>2. QED
      BY <2>1, TailItems DEF Sent
  <1>2. QED
    BY <1>1 DEF TransferInv, EarlyInv, Early, UncommittedInv, CommitInv

LEMMA OnePacket ==
  ASSUME NEW p \in Statuses
  PROVE  <<p>> \in Seq(Statuses) /\ Items(<<p>>) = {p}
  BY DEF Items

LEMMA TwoPackets ==
  ASSUME NEW p \in Statuses, NEW q \in Statuses
  PROVE  <<p, q>> \in Seq(Statuses) /\ Items(<<p, q>>) = {p, q}
  <1>1. /\ <<p, q>> \in Seq(Statuses) /\ DOMAIN <<p, q>> = 1 .. 2
        /\ <<p, q>>[1] = p /\ <<p, q>>[2] = q
    OBVIOUS
  <1>2. 1 \in DOMAIN <<p, q>> /\ 2 \in DOMAIN <<p, q>>
    BY <1>1
  <1>3. \A i \in DOMAIN <<p, q>> : i = 1 \/ i = 2
    BY <1>1
  <1>4. QED
    BY <1>1, <1>2, <1>3 DEF Items

LEMMA NoPackets == <<>> \in Seq(Statuses) /\ Items(<<>>) = {} /\ Proper(<<>>)
  BY DEF Items, Proper

\* The report of a session between two frames.
LEMMA ProgressFacts ==
  ASSUME Inv
  PROVE  /\ Progress \in Statuses /\ Progress.status = "PROGRESS"
         /\ Progress.argument = session.received
  BY ReceivedNat DEF Progress, Reply, Statuses, Verdicts, Sessions

LEMMA RefusalFacts ==
  ASSUME NEW error \in Errors, NEW id \in Nat
  PROVE  /\ Refusal(error, id) \in Statuses /\ Refusal(error, id).status = error
         /\ Refusal(error, id).session_id = id
  BY DEF Refusal, Reply, Statuses, Verdicts

\* How a frame is refused: with an error, and the progress of an open session.
Refused(f) ==
  \E error \in Errors :
    \/ Refuse(<<Refusal(error, f.session_id)>>)
    \/ /\ session.active /\ f.command # "BEGIN"
       /\ Refuse(<<Refusal(error, f.session_id), Progress>>)

LEMMA RefusedKeeps ==
  ASSUME TransferInv, Answering, mode = "running", Refused(Head(to_target))
  PROVE  TransferInv'
  <1> DEFINE f == Head(to_target)
  <1>0. /\ to_target # <<>> /\ to_target' = Tail(to_target) /\ to_host' = Queued(replies')
        /\ UNCHANGED <<patient, host, sync, losses>>
    BY DEF Answering
  <1>1. f \in Sent /\ f \in ControlFrames \cup DataFrames /\ f.session_id \in Nat
    BY <1>0, TakenFacts, FrameFacts
  <1>2. PICK error \in Errors :
          \/ Refuse(<<Refusal(error, f.session_id)>>)
          \/ /\ session.active /\ f.command # "BEGIN"
             /\ Refuse(<<Refusal(error, f.session_id), Progress>>)
    BY DEF Refused
  <1> DEFINE refusal == Refusal(error, f.session_id)
  <1>3. /\ refusal \in Statuses /\ refusal.status = error /\ refusal.session_id = f.session_id
        /\ Progress \in Statuses /\ Progress.status = "PROGRESS"
        /\ Progress.argument = session.received
        /\ refusal.status \notin {"PROGRESS", "TX_FAILED", "COMMITTING", "ACK"}
    BY <1>1, RefusalFacts, ProgressFacts DEF TransferInv, Errors
  <1> HIDE DEF refusal
  <1>4. UNCHANGED <<mode, session, image_ready, ready_session_id, rx_data, apply_offset, flash,
                    verified, boot_image>>
    BY <1>2 DEF Refuse, ram, history
  <1>5. /\ replies' \in Seq(Statuses)
        /\ \A p \in Items(replies') :
             \/ p = refusal
             \/ p = Progress /\ session.active /\ f.command # "BEGIN"
    BY <1>2, <1>3, OnePacket, TwoPackets DEF Refuse, refusal
  <1>6. session.active => session.received \in Boundaries
    BY DEF TransferInv, BetweenFrames
  <1>7. Proper(replies')
    BY <1>3, <1>5, <1>6 DEF Proper
  <1>8. to_target' \in Seq(ControlFrames \cup DataFrames) /\ Sent' \subseteq Sent
    BY <1>0, Taking DEF TransferInv
  <1>9. /\ LinkTypes' /\ HostOK(host') /\ ReportsWhole' /\ ImpatientLossless'
        /\ Heard' \subseteq Heard \cup Items(replies')
        /\ Early' = Early
    BY <1>0, <1>7, <1>8, ProperAnswers
  <1>10. Inv'
    BY <1>4, NothingChanged DEF TransferInv, ram, history
  <1>11. TargetInv' /\ BetweenFrames' /\ StagedFrames' /\ Installing' = Installing
    BY <1>4 DEF TransferInv, TargetInv, BetweenFrames, FrameTaken, StagedFrom,
       StagedFrames, OwnSession, Installing
  <1>12. EarlyInv'
    <2> SUFFICES ASSUME Early PROVE EarlyInv'
      BY <1>9 DEF EarlyInv
    <2>1. EarlyInv
      BY DEF TransferInv
    <2>2. f.command = "BEGIN" \/ ~session.active
      BY <1>0, TakenFacts
    <2>3. CASE f.command = "BEGIN"
      <3>1. to_target' = <<>> /\ Sent' = {} /\ host.stage = "BEGIN"
            /\ host.waits_for # "nothing"
        BY <1>0, <2>3, OrderKept, TakenFacts
      <3>2. \A p \in Items(replies') : p = refusal
        BY <1>5, <2>3
      <3>3. \A i \in DOMAIN to_target' : FALSE
        BY <3>1
      <3>4. "BEGIN" \notin Setup
        BY DEF Setup
      <3>5. QED
        BY <1>0, <1>3, <1>4, <1>9, <2>1, <3>1, <3>2, <3>3, <3>4 DEF EarlyInv
    <2>4. CASE f.command # "BEGIN" /\ ~session.active
      <3>1. f.session_id # SessionId
        BY <1>0, <2>4, TakenFacts, Constants
      <3>2. \A p \in Items(replies') : p = refusal
        BY <1>5, <2>4
      <3>3. \A p \in Items(replies') : p.session_id # SessionId
        BY <1>3, <3>1, <3>2
      <3>4. \A i \in DOMAIN to_target' : to_target'[i].command = "BEGIN" => i = Len(to_target')
        BY <1>0, OrderKept
      <3>5. QED
        BY <1>0, <1>4, <1>8, <1>9, <2>1, <2>4, <3>3, <3>4 DEF EarlyInv, Ours
    <2>5. QED
      BY <2>2, <2>3, <2>4
  <1>13. DataInv'
    <2>1. session.received \in Nat
      BY ReceivedNat DEF TransferInv
    <2>2. QED
      BY <1>0, <1>3, <1>4, <1>5, <1>9, <2>1 DEF TransferInv, DataInv
  <1>14. UncommittedInv' /\ NotCommitting'
    BY <1>0, <1>3, <1>4, <1>5, <1>8, <1>9 DEF TransferInv, UncommittedInv, NotCommitting
  <1>15. CommitInv'
    BY <1>0, <1>3, <1>5, <1>8, <1>9, <1>11, OrderKept DEF TransferInv, CommitInv
  <1>16. QED
    BY <1>9, <1>10, <1>11, <1>12, <1>13, <1>14, <1>15 DEF TransferInv

\* How a frame is taken.
Begun(f) ==
  /\ f.command = "BEGIN"
  /\ session' = [NoSession EXCEPT !.active = TRUE, !.id = SessionId, !.size = Size]
  /\ image_ready' = FALSE
  /\ replies' = <<Reply("ACK", SessionId, Size)>>
  /\ UNCHANGED mode

Vouched(f) ==
  /\ f.command = "FINISH"
  /\ session.active /\ session' = [session EXCEPT !.active = FALSE]
  /\ image_ready' = TRUE /\ verified' = Image
  /\ replies' = <<Reply("READY", SessionId, session.size)>>
  /\ UNCHANGED <<mode, boot_image>>

Committed(f) ==
  /\ f.command = "COMMIT"
  /\ image_ready
  /\ mode' = "applying"
  /\ replies' = <<Reply("COMMITTING", SessionId, session.size)>>
  /\ UNCHANGED <<session, image_ready, verified, boot_image>>

Dropped(f) ==
  /\ f.command \in {"ABORT", "REBOOT"}
  /\ ~session.active /\ session' = NoSession
  /\ image_ready' = FALSE
  /\ replies' = <<Reply("ACK", f.session_id, 0)>>
  /\ UNCHANGED mode

Accepted(f) ==
  /\ f.command = "DATA" /\ f \in DataFrames
  /\ session.active /\ f.sequence = session.sequence
  /\ mode' = "staging" /\ rx_data' = f.data
  /\ replies' = <<>>
  /\ UNCHANGED <<session, image_ready, verified, boot_image>>

LEMMA HandleCases ==
  ASSUME TransferInv, NEW f \in ControlFrames \cup DataFrames, Handle(f)
  PROVE  /\ mode = "running" /\ Inv'
         /\ Refused(f) \/ Begun(f) \/ Vouched(f) \/ Committed(f) \/ Dropped(f) \/ Accepted(f)
  <1>1. /\ f.command \in {"ABORT", "REBOOT", "BEGIN", "FINISH", "COMMIT", "DATA"}
        /\ f.session_id \in SessionIds /\ f.session_id \in Nat
        /\ f.command \in {"BEGIN", "FINISH", "COMMIT", "DATA"} => f.session_id = SessionId
        /\ f.command = "DATA" => f \in DataFrames
    BY FrameFacts
  <1>2. Inv
    BY DEF TransferInv
  <1>3. CASE f.command = "BEGIN"
    <2>1. Begin(SessionId, Size)
      BY <1>1, <1>3 DEF Handle
    <2>2. mode = "running" /\ Inv'
      BY <1>2, <2>1, BeginStep, Constants DEF Begin
    <2>3. CASE BeginError(Size) = "NONE"
      BY <1>3, <2>1, <2>2, <2>3 DEF Begin, BeginAccepted, Begun
    <2>4. CASE BeginError(Size) # "NONE"
      <3>1. BeginError(Size) \in Errors
        BY <2>4 DEF BeginError, Errors
      <3>2. Refuse(<<Refusal(BeginError(Size), SessionId)>>)
        BY <2>1, <2>4 DEF Begin
      <3>3. QED
        BY <1>1, <1>3, <2>2, <3>1, <3>2 DEF Refused
    <2>5. QED
      BY <2>2, <2>3, <2>4
  <1>4. CASE f.command = "FINISH"
    <2> DEFINE error == FinishError(SessionId, Image)
    <2>1. Finish(SessionId, Image)
      BY <1>1, <1>4 DEF Handle
    <2>2. mode = "running" /\ Inv'
      BY <1>2, <2>1, FinishStep, Constants DEF Finish
    <2>3. CASE error = "NONE"
      <3>1. FinishAccepted(SessionId, Image)
        BY <2>1, <2>3 DEF Finish
      <3>2. session.active
        BY <2>3 DEF FinishError
      <3>3. QED
        BY <1>4, <2>2, <3>1, <3>2 DEF FinishAccepted, Vouched
    <2>4. CASE error # "NONE"
      <3>1. error \in Errors /\ (error = "IMAGE_INCOMPLETE" => session.active)
        BY <2>4 DEF FinishError, Errors
      <3>2. \/ error = "IMAGE_INCOMPLETE" /\ Refuse(<<Refusal(error, SessionId), Progress>>)
            \/ Refuse(<<Refusal(error, SessionId)>>)
        BY <2>1, <2>4 DEF Finish
      <3> HIDE DEF error
      <3>3. QED
        BY <1>1, <1>4, <2>2, <3>1, <3>2 DEF Refused
    <2>5. QED
      BY <2>3, <2>4
  <1>5. CASE f.command = "COMMIT"
    <2>1. Commit(SessionId)
      BY <1>1, <1>5 DEF Handle
    <2>2. mode = "running" /\ Inv'
      BY <1>2, <2>1, CommitStep, Constants DEF Commit
    <2>3. "INVALID_STATE" \in Errors
      BY DEF Errors
    <2>4. CASE image_ready /\ SessionId = ready_session_id
      BY <1>5, <2>1, <2>2, <2>4 DEF Commit, Committed, ram, history
    <2>5. CASE ~(image_ready /\ SessionId = ready_session_id)
      <3>1. Refuse(<<Refusal("INVALID_STATE", SessionId)>>)
        BY <2>1, <2>5 DEF Commit
      <3>2. QED
        BY <1>1, <1>5, <2>2, <2>3, <3>1 DEF Refused
    <2>6. QED
      BY <2>4, <2>5
  <1>6. CASE f.command \in {"ABORT", "REBOOT"}
    <2>1. Abort(f.session_id) \/ RebootToBootloader(f.session_id)
      BY <1>6 DEF Handle
    <2>2. mode = "running" /\ Inv'
      BY <1>1, <1>2, <2>1, AbortStep, RebootStep DEF Abort, RebootToBootloader
    <2>3. "INVALID_STATE" \in Errors
      BY DEF Errors
    <2>4. CASE RefuseActive(f.session_id)
      BY <1>6, <2>2, <2>3, <2>4 DEF RefuseActive, Refused
    <2>5. CASE ~RefuseActive(f.session_id)
      BY <1>6, <2>1, <2>2, <2>5 DEF Abort, RebootToBootloader, RestartInto, Dropped
    <2>6. QED
      BY <2>4, <2>5
  <1>7. CASE f.command = "DATA"
    <2> DEFINE error == DataError(SessionId, f.sequence)
    <2>1. Data(SessionId, f.sequence, f.data)
      BY <1>1, <1>7 DEF Handle
    <2>2. f.data \in Seq(Bytes)
      BY <1>1, <1>7, ChunkFacts DEF DataFrames, ImageFrame
    <2>3. mode = "running" /\ Inv'
      BY <1>2, <2>1, <2>2, DataStep, Constants DEF Data
    <2>4. CASE error = "NONE"
      <3>1. session.active /\ f.sequence = session.sequence
        BY <2>4 DEF DataError
      <3>2. /\ mode' = "staging" /\ rx_data' = f.data /\ replies' = <<>>
            /\ UNCHANGED <<session, image_ready, verified, boot_image>>
        BY <2>1, <2>4 DEF Data, history
      <3>3. QED
        BY <1>1, <1>7, <2>3, <3>1, <3>2 DEF Accepted
    <2>5. CASE error # "NONE"
      <3>1. error \in Errors /\ (error = "BAD_SEQUENCE" => session.active)
        BY <2>5 DEF DataError, Errors
      <3>2. \/ error = "BAD_SEQUENCE" /\ Refuse(<<Refusal(error, SessionId), Progress>>)
            \/ Refuse(<<Refusal(error, SessionId)>>)
        BY <2>1, <2>5 DEF Data
      <3> HIDE DEF error
      <3>3. QED
        BY <1>1, <1>7, <2>3, <3>1, <3>2 DEF Refused
    <2>6. QED
      BY <2>4, <2>5
  <1>8. QED
    BY <1>1, <1>3, <1>4, <1>5, <1>6, <1>7

LEMMA FirstSequence == InStep(0, 0)
  <1>1. \A k \in ImageFrames : 0 = k * FrameBytes => k = 0
    BY FirstPlace, OnePlace, Places
  <1>2. ASSUME NEW u \in Nat \ {0} PROVE 0 % u = 0
    BY SMT
  <1>3. QED
    BY <1>1, <1>2, Constants DEF InStep

\* A new session: the frame before it, if any, is forgotten.
LEMMA BegunKeeps ==
  ASSUME TransferInv, Answering, mode = "running", Inv', Begun(Head(to_target))
  PROVE  TransferInv'
  <1> DEFINE f == Head(to_target)
             answer == Reply("ACK", SessionId, Size)
  <1>0. /\ to_target # <<>> /\ to_target' = Tail(to_target) /\ to_host' = Queued(replies')
        /\ UNCHANGED <<patient, host, sync, losses>>
    BY DEF Answering
  <1>1. /\ f.command = "BEGIN" /\ mode' = "running" /\ image_ready' = FALSE
        /\ replies' = <<answer>>
        /\ session' = [NoSession EXCEPT !.active = TRUE, !.id = SessionId, !.size = Size]
    BY DEF Begun
  <1>2. /\ session'.active /\ session'.id = SessionId /\ session'.size = Size
        /\ session'.received = 0 /\ session'.sequence = 0
    BY <1>1 DEF NoSession
  <1>3. /\ answer \in Statuses /\ answer.status = "ACK" /\ answer.session_id = SessionId
    BY Constants DEF Reply, Statuses, Verdicts
  <1> HIDE DEF answer
  <1>4. replies' \in Seq(Statuses) /\ Items(replies') = {answer}
    BY <1>1, <1>3, OnePacket
  <1>5. Proper(replies')
    BY <1>3, <1>4 DEF Proper
  <1>6. to_target' \in Seq(ControlFrames \cup DataFrames)
    BY <1>0, Taking DEF TransferInv
  <1>7. /\ LinkTypes' /\ HostOK(host') /\ ReportsWhole' /\ ImpatientLossless'
        /\ Heard' \subseteq Heard \cup Items(replies')
        /\ Early' = Early
    BY <1>0, <1>5, <1>6, ProperAnswers
  <1>8. TargetInv'
    BY <1>1, <1>2 DEF TargetInv
  <1>9. BetweenFrames'
    BY <1>1, <1>2, FirstSequence, FirstPlace DEF BetweenFrames
  <1>10. StagedFrames'
    <2>1. ASSUME NEW j \in ImageFrames PROVE StagedFrom(j, j)'
      <3> SUFFICES ASSUME NEW m \in 1 .. FrameBytes
                   PROVE  ~(j * FrameBytes + m <= session'.received)
        BY DEF StagedFrom
      <3> DEFINE a == j * FrameBytes
      <3>1. a \in Nat /\ FrameBytes \in Nat
        BY Places, Constants
      <3> HIDE DEF a
      <3>2. ~(a + m <= 0)
        BY <3>1
      <3>3. QED
        BY <1>2, <3>2 DEF a
    <2>2. QED
      BY <2>1 DEF StagedFrames
  <1>11. host.stage \notin {"DATA", "FINISH", "COMMIT", "done"}
    BY <1>0, <1>1, TakenFacts
  <1>12. EarlyInv'
    <2> SUFFICES ASSUME Early PROVE EarlyInv'
      BY <1>7 DEF EarlyInv
    <2>1. EarlyInv
      BY DEF TransferInv
    <2>2. to_target' = <<>> /\ Sent' = {} /\ host.stage = "BEGIN" /\ host.waits_for # "nothing"
      BY <1>0, <1>1, OrderKept, TakenFacts
    <2>3. \A i \in DOMAIN to_target' : FALSE
      BY <2>2
    <2>4. "BEGIN" \notin Setup
      BY DEF Setup
    <2>5. \A p \in Heard : p.session_id = SessionId => p.status # "PROGRESS"
      BY <2>1 DEF EarlyInv
    <2>6. \A p \in Heard' : p.session_id = SessionId => p.status # "PROGRESS"
      BY <1>3, <1>4, <1>7, <2>5
    <2>7. host.offset = 0 /\ host.sequence = 0 /\ host.confirmed = 0
      BY <2>1 DEF EarlyInv
    <2>8. QED
      BY <1>0, <1>1, <1>2, <1>7, <2>2, <2>3, <2>4, <2>6, <2>7 DEF EarlyInv
  <1>13. DataInv' /\ UncommittedInv' /\ CommitInv'
    BY <1>0, <1>11 DEF DataInv, UncommittedInv, CommitInv
  <1>14. NotCommitting'
    BY <1>0, <1>3, <1>4, <1>7 DEF TransferInv, NotCommitting
  <1>15. QED
    BY <1>7, <1>8, <1>9, <1>10, <1>12, <1>13, <1>14 DEF TransferInv

\* A session that ends: FINISH found the image complete.
LEMMA VouchedKeeps ==
  ASSUME TransferInv, Answering, mode = "running", Inv', Vouched(Head(to_target))
  PROVE  TransferInv'
  <1> DEFINE f == Head(to_target)
             answer == Reply("READY", SessionId, session.size)
  <1>0. /\ to_target # <<>> /\ to_target' = Tail(to_target) /\ to_host' = Queued(replies')
        /\ UNCHANGED <<patient, host, sync, losses>>
    BY DEF Answering
  <1>1. /\ f.command = "FINISH" /\ session.active /\ image_ready' = TRUE /\ verified' = Image
        /\ session' = [session EXCEPT !.active = FALSE] /\ replies' = <<answer>>
        /\ UNCHANGED <<mode, boot_image>>
    BY DEF Vouched
  <1>2. /\ session'.active = FALSE /\ session'.id = session.id
        /\ session'.received = session.received
        /\ session.size \in Nat
    BY <1>1, ReceivedNat DEF TransferInv, Sessions
  <1>3. /\ answer \in Statuses /\ answer.status = "READY"
    BY <1>2, Constants DEF Reply, Statuses, Verdicts
  <1> HIDE DEF answer
  <1>4. replies' \in Seq(Statuses) /\ Items(replies') = {answer}
    BY <1>1, <1>3, OnePacket
  <1>5. Proper(replies')
    BY <1>3, <1>4 DEF Proper
  <1>6. to_target' \in Seq(ControlFrames \cup DataFrames) /\ Sent' \subseteq Sent
    BY <1>0, Taking DEF TransferInv
  <1>7. /\ LinkTypes' /\ HostOK(host') /\ ReportsWhole' /\ ImpatientLossless'
        /\ Heard' \subseteq Heard \cup Items(replies')
        /\ Early' = Early
    BY <1>0, <1>5, <1>6, ProperAnswers
  <1>8. TargetInv' /\ BetweenFrames' /\ StagedFrames'
    BY <1>1, <1>2 DEF TargetInv, BetweenFrames, StagedFrames, OwnSession
  <1>9. ~Early
    BY <1>0, <1>1, TakenFacts
  <1>10. EarlyInv'
    BY <1>7, <1>9 DEF EarlyInv
  <1>11. DataInv'
    BY <1>0, <1>2, <1>3, <1>4, <1>7 DEF TransferInv, DataInv
  <1>12. UncommittedInv' /\ NotCommitting'
    BY <1>0, <1>1, <1>3, <1>4, <1>6, <1>7 DEF TransferInv, UncommittedInv, NotCommitting
  <1>13. CommitInv'
    <2> SUFFICES ASSUME host.stage \in {"COMMIT", "done"} PROVE CommitInv'
      BY <1>0 DEF CommitInv
    <2>1. f \in Sent
      BY <1>0, TakenFacts
    <2>2. host.stage # "done" /\ ~\E p \in Heard : p.status = "COMMITTING"
      BY <1>1, <2>1 DEF TransferInv, CommitInv
    <2>3. ~\E p \in Heard' : p.status = "COMMITTING"
      BY <1>3, <1>4, <1>7, <2>2
    <2>4. \A g \in Sent' : g.command \in {"DATA", "FINISH", "COMMIT"}
      BY <1>6 DEF TransferInv, CommitInv
    <2>5. QED
      BY <1>0, <2>2, <2>3, <2>4, OrderKept DEF CommitInv
  <1>14. QED
    BY <1>7, <1>8, <1>10, <1>11, <1>12, <1>13 DEF TransferInv

\* The image starts on its way to the application.
LEMMA CommittedKeeps ==
  ASSUME TransferInv, Answering, mode = "running", Inv', Committed(Head(to_target))
  PROVE  TransferInv'
  <1> DEFINE f == Head(to_target)
             answer == Reply("COMMITTING", SessionId, session.size)
  <1>0. /\ to_target # <<>> /\ to_target' = Tail(to_target) /\ to_host' = Queued(replies')
        /\ UNCHANGED <<patient, host, sync, losses>>
    BY DEF Answering
  <1>1. /\ f.command = "COMMIT" /\ image_ready /\ mode' = "applying" /\ replies' = <<answer>>
        /\ UNCHANGED <<session, image_ready, verified, boot_image>>
    BY DEF Committed
  <1>2. ~session.active /\ verified = Image /\ session.size \in Nat
    BY <1>1, ReceivedNat DEF TransferInv, Inv, ReadyImageStaged, TargetInv, Sessions
  <1>3. /\ answer \in Statuses /\ answer.status = "COMMITTING"
    BY <1>2, Constants DEF Reply, Statuses, Verdicts
  <1> HIDE DEF answer
  <1>4. replies' \in Seq(Statuses) /\ Items(replies') = {answer}
    BY <1>1, <1>3, OnePacket
  <1>5. Proper(replies')
    BY <1>3, <1>4 DEF Proper
  <1>6. to_target' \in Seq(ControlFrames \cup DataFrames) /\ Sent' \subseteq Sent
    BY <1>0, Taking DEF TransferInv
  <1>7. /\ LinkTypes' /\ HostOK(host') /\ ReportsWhole' /\ ImpatientLossless'
        /\ Heard' \subseteq Heard \cup Items(replies')
        /\ Early' = Early
    BY <1>0, <1>5, <1>6, ProperAnswers
  <1>8. TargetInv' /\ BetweenFrames' /\ StagedFrames'
    BY <1>1, <1>2 DEF TargetInv, BetweenFrames, StagedFrames, OwnSession
  <1>9. ~Early /\ host.stage \notin {"DATA", "FINISH"}
    BY <1>0, <1>1, TakenFacts
  <1>10. EarlyInv' /\ DataInv' /\ UncommittedInv' /\ NotCommitting'
    BY <1>0, <1>7, <1>9 DEF EarlyInv, DataInv, UncommittedInv, NotCommitting
  <1>11. CommitInv'
    <2> SUFFICES ASSUME host.stage \in {"COMMIT", "done"} PROVE CommitInv'
      BY <1>0 DEF CommitInv
    <2>1. \A g \in Sent' : g.command = "COMMIT"
      BY <1>0, <1>1, OrderKept
    <2>2. Installing'
      BY <1>1, <1>2 DEF Installing
    <2>3. \A i, j \in DOMAIN to_target' :
            i < j /\ to_target'[i].command = "COMMIT" => to_target'[j].command = "COMMIT"
      BY <1>0, OrderKept
    <2>4. QED
      BY <2>1, <2>2, <2>3 DEF CommitInv
  <1>12. QED
    BY <1>7, <1>8, <1>10, <1>11 DEF TransferInv

\* An ABORT or a reboot request where no session is open.
LEMMA DroppedKeeps ==
  ASSUME TransferInv, Answering, mode = "running", Inv', Dropped(Head(to_target))
  PROVE  TransferInv'
  <1> DEFINE f == Head(to_target)
             answer == Reply("ACK", f.session_id, 0)
  <1>0. /\ to_target # <<>> /\ to_target' = Tail(to_target) /\ to_host' = Queued(replies')
        /\ UNCHANGED <<patient, host, sync, losses>>
    BY DEF Answering
  <1>1. /\ f.command \in {"ABORT", "REBOOT"} /\ mode' = "running" /\ image_ready' = FALSE
        /\ ~session.active /\ session' = NoSession /\ replies' = <<answer>>
    BY DEF Dropped
  <1>2. ~session'.active
    BY <1>1 DEF NoSession
  <1>3. /\ answer \in Statuses /\ answer.status = "ACK" /\ answer.session_id = f.session_id
    BY <1>0, TakenFacts, FrameFacts DEF Reply, Statuses, Verdicts
  <1> HIDE DEF answer
  <1>4. replies' \in Seq(Statuses) /\ Items(replies') = {answer}
    BY <1>1, <1>3, OnePacket
  <1>5. Proper(replies')
    BY <1>3, <1>4 DEF Proper
  <1>6. to_target' \in Seq(ControlFrames \cup DataFrames) /\ Sent' \subseteq Sent
    BY <1>0, Taking DEF TransferInv
  <1>7. /\ LinkTypes' /\ HostOK(host') /\ ReportsWhole' /\ ImpatientLossless'
        /\ Heard' \subseteq Heard \cup Items(replies')
        /\ Early' = Early
    BY <1>0, <1>5, <1>6, ProperAnswers
  <1>8. TargetInv' /\ BetweenFrames' /\ StagedFrames'
    BY <1>1, <1>2 DEF TargetInv, BetweenFrames, StagedFrames, OwnSession
  <1>9. host.stage \notin {"DATA", "FINISH", "COMMIT", "done"}
    BY <1>0, <1>1, TakenFacts
  <1>10. DataInv' /\ UncommittedInv' /\ CommitInv'
    BY <1>0, <1>9 DEF DataInv, UncommittedInv, CommitInv
  <1>11. NotCommitting'
    BY <1>0, <1>3, <1>4, <1>7 DEF TransferInv, NotCommitting
  <1>12. EarlyInv'
    <2> SUFFICES ASSUME Early PROVE EarlyInv'
      BY <1>7 DEF EarlyInv
    <2>1. EarlyInv
      BY DEF TransferInv
    <2>2. f.session_id # SessionId
      BY <1>0, <1>1, TakenFacts, Constants
    <2>3. \A p \in Heard : ~Ours(p)
      BY <1>0, <2>1 DEF EarlyInv
    <2>4. answer.session_id # SessionId
      BY <1>3, <2>2
    <2>5. \A p \in Heard' : p.status # "TX_FAILED" => p.session_id # SessionId
      BY <1>4, <1>7, <2>3, <2>4 DEF Ours
    <2>6. \A i \in DOMAIN to_target' : to_target'[i].command = "BEGIN" => i = Len(to_target')
      BY <1>0, OrderKept
    <2>7. \A g \in Sent' : \/ g.command = "BEGIN"
                           \/ g.command \in {"ABORT", "REBOOT"} /\ g.session_id = SetupSessionId
      BY <1>6, <2>1 DEF EarlyInv
    <2>8. host.stage \in Setup \/ host.waits_for = "nothing" => \A g \in Sent' : g.command # "BEGIN"
      BY <1>6, <2>1 DEF EarlyInv
    <2>9. host.offset = 0 /\ host.sequence = 0 /\ host.confirmed = 0
      BY <2>1 DEF EarlyInv
    <2>10. QED
      BY <1>0, <1>1, <1>2, <2>5, <2>6, <2>7, <2>8, <2>9 DEF EarlyInv, Ours
  <1>13. QED
    BY <1>7, <1>8, <1>10, <1>11, <1>12 DEF TransferInv

\* A frame of the image with the sequence number that is due.
LEMMA TakenKeeps ==
  ASSUME TransferInv, Answering, mode = "running", Inv', Accepted(Head(to_target))
  PROVE  TransferInv'
  <1> DEFINE f == Head(to_target)
  <1>0. /\ to_target # <<>> /\ to_target' = Tail(to_target) /\ to_host' = Queued(replies')
        /\ UNCHANGED <<patient, host, sync, losses>>
    BY DEF Answering
  <1>1. /\ f.command = "DATA" /\ f \in DataFrames
        /\ session.active /\ f.sequence = session.sequence
        /\ mode' = "staging" /\ rx_data' = f.data /\ replies' = <<>>
        /\ UNCHANGED <<session, image_ready, verified, boot_image>>
    BY DEF Accepted
  <1>2. Proper(replies') /\ Items(replies') = {}
    BY <1>1, NoPackets
  <1>3. to_target' \in Seq(ControlFrames \cup DataFrames) /\ Sent' \subseteq Sent
    BY <1>0, Taking DEF TransferInv
  <1>4. /\ LinkTypes' /\ HostOK(host') /\ ReportsWhole' /\ ImpatientLossless'
        /\ Heard' \subseteq Heard
        /\ Early' = Early
    BY <1>0, <1>2, <1>3, ProperAnswers
  <1>5. TargetInv' /\ StagedFrames'
    BY <1>1 DEF TransferInv, TargetInv, StagedFrames, OwnSession, StagedFrom
  <1>6. BetweenFrames'
    <2> SUFFICES ASSUME session.received < Size
                 PROVE  \E q \in ImageFrames, k \in ImageFrames, t \in 0 .. FrameBytes :
                          FrameTaken(q, k, t)'
      BY <1>1 DEF BetweenFrames
    <2>1. session.received \in Boundaries /\ InStep(session.received, session.sequence)
      BY <1>1 DEF TransferInv, BetweenFrames
    <2>2. PICK q \in ImageFrames : session.received = q * FrameBytes
      BY <2>1, BoundaryFacts
    <2>3. PICK k \in ImageFrames : f = ImageFrame(k)
      BY <1>1 DEF DataFrames
    <2>4. /\ f.sequence = k % SequenceModulus /\ f.data = Chunk(k * FrameBytes)
          /\ session.sequence = q % SequenceModulus
      BY <2>1, <2>2, <2>3 DEF ImageFrame, InStep
    <2> DEFINE a == q * FrameBytes
               chunk == Chunk(k * FrameBytes)
    <2>5. a \in Nat /\ FrameBytes \in Nat /\ Len(chunk) = FrameBytes
      BY Places, Constants, ChunkFacts
    <2> HIDE DEF a, chunk
    <2>6. /\ a = a + 0 /\ FrameBytes - 0 = FrameBytes
          /\ \A m \in 1 .. FrameBytes : 0 + m = m /\ ~(a + m <= a)
      BY <2>5
    <2>7. StagedFrom(q, k)'
      BY <1>1, <2>2, <2>6 DEF StagedFrom, a
    <2>8. /\ rx_data' = chunk /\ session'.sequence = q % SequenceModulus
          /\ k % SequenceModulus = q % SequenceModulus
          /\ session'.received = a
      BY <1>1, <2>2, <2>4 DEF a, chunk
    <2>9. FrameTaken(q, k, 0)'
      BY <2>5, <2>6, <2>7, <2>8 DEF FrameTaken, a, chunk
    <2>10. 0 \in 0 .. FrameBytes
      BY <2>5
    <2>11. QED
      BY <2>9, <2>10
  <1>7. ~Early
    BY <1>0, <1>1, TakenFacts
  <1>8. EarlyInv'
    BY <1>4, <1>7 DEF EarlyInv
  <1>9. DataInv' /\ UncommittedInv' /\ NotCommitting'
    BY <1>0, <1>1, <1>3, <1>4 DEF TransferInv, DataInv, UncommittedInv, NotCommitting
  <1>10. CommitInv'
    <2> SUFFICES ASSUME host.stage \in {"COMMIT", "done"} PROVE CommitInv'
      BY <1>0 DEF CommitInv
    <2>1. f \in Sent
      BY <1>0, TakenFacts
    <2>2. host.stage # "done" /\ ~\E p \in Heard : p.status = "COMMITTING"
      BY <1>1, <2>1 DEF TransferInv, CommitInv
    <2>3. ~\E p \in Heard' : p.status = "COMMITTING"
      BY <1>4, <2>2
    <2>4. \A g \in Sent' : g.command \in {"DATA", "FINISH", "COMMIT"}
      BY <1>3 DEF TransferInv, CommitInv
    <2>5. QED
      BY <1>0, <2>2, <2>3, <2>4, OrderKept DEF CommitInv
  <1>11. QED
    BY <1>4, <1>5, <1>6, <1>8, <1>9, <1>10 DEF TransferInv

LEMMA DeliverKeeps ==
  ASSUME TransferInv, Deliver
  PROVE  TransferInv'
  <1>1. Answering /\ Handle(Head(to_target))
    BY DEF Deliver, Answering
  <1>2. Head(to_target) \in ControlFrames \cup DataFrames
    BY <1>1, TakenFacts DEF Answering
  <1>3. QED
    BY <1>1, <1>2, HandleCases, RefusedKeeps, BegunKeeps, VouchedKeeps, CommittedKeeps,
       DroppedKeeps, TakenKeeps

-----------------------------------------------------------------------------
(* The target on its own *)

\* The byte staged next is the next one of the frame.
LEMMA ByteTaken ==
  ASSUME TransferInv, Staging,
         session'.sequence = session.sequence,
         session'.received = session.received + 1,
         session'.crc = Append(session.crc, Head(rx_data)),
         rx_data' = Tail(rx_data),
         NEW q \in ImageFrames, NEW k \in ImageFrames, NEW t \in 0 .. FrameBytes,
         FrameTaken(q, k, t)
  PROVE  /\ t + 1 \in 0 .. FrameBytes
         /\ FrameTaken(q, k, t + 1)'
         /\ \A j \in ImageFrames : j # q => \A i \in ImageFrames :
              StagedFrom(j, i) => StagedFrom(j, i)'
  <1> DEFINE a == q * FrameBytes
             chunk == Chunk(k * FrameBytes)
             u == FrameBytes
             r == session.received
  <1>1. /\ k % SequenceModulus = q % SequenceModulus
        /\ session.sequence = q % SequenceModulus
        /\ r = a + t /\ Len(rx_data) = u - t
        /\ \A m \in 1 .. u - t : rx_data[m] = chunk[t + m]
        /\ \A m \in 1 .. u : a + m <= r => session.crc[a + m] = chunk[m]
    BY DEF FrameTaken, StagedFrom
  <1>2. a \in Nat /\ u \in Nat \ {0} /\ r \in Nat /\ t \in Nat
    BY Places, Constants, StagingFacts DEF TransferInv
  <1>3. /\ rx_data \in Seq(Bytes) /\ rx_data # <<>> /\ Head(rx_data) \in Bytes
        /\ session.crc \in Seq(Bytes) /\ Len(session.crc) = r
    BY StagingFacts DEF TransferInv, Inv, TypeOK
  <1>4. /\ Head(rx_data) = rx_data[1] /\ Len(rx_data) \in Nat \ {0}
        /\ Len(Tail(rx_data)) = Len(rx_data) - 1
        /\ \A m \in 1 .. Len(rx_data) - 1 : Tail(rx_data)[m] = rx_data[m + 1]
    BY <1>3
  <1> DEFINE c == Append(session.crc, Head(rx_data))
  <1>5. (\A i \in 1 .. r : c[i] = session.crc[i]) /\ c[r + 1] = rx_data[1]
    BY <1>3, <1>4, AppendFacts
  <1>6. /\ session'.crc = c /\ session'.received = r + 1 /\ rx_data' = Tail(rx_data)
        /\ session'.sequence = session.sequence
    OBVIOUS
  <1> HIDE DEF a, chunk, u, r, c
  <1>7. t + 1 \in 0 .. u /\ t + 1 \in Nat /\ r + 1 = a + (t + 1) /\ 1 \in 1 .. u - t
    BY <1>1, <1>2, <1>4
  <1>8. Len(rx_data') = u - (t + 1)
    BY <1>1, <1>2, <1>4, <1>6
  <1>9. ASSUME NEW m \in 1 .. u - (t + 1) PROVE rx_data'[m] = chunk[(t + 1) + m]
    <2>1. Len(rx_data) = u - t
      BY <1>1
    <2>2. m \in Int /\ 1 <= m /\ m <= u - (t + 1)
      BY <1>2
    <2>3. m \in 1 .. (u - t) - 1 /\ m + 1 \in 1 .. u - t /\ t + (m + 1) = (t + 1) + m
      BY <1>2, <2>2
    <2>4. Tail(rx_data)[m] = rx_data[m + 1]
      BY <1>4, <2>1, <2>3
    <2>5. rx_data[m + 1] = chunk[t + (m + 1)]
      BY <1>1, <2>3
    <2>6. QED
      BY <1>6, <2>3, <2>4, <2>5
  <1>10. ASSUME NEW m \in 1 .. u, a + m <= r + 1 PROVE c[a + m] = chunk[m]
    <2>1. CASE a + m <= r
      <3>1. a + m \in 1 .. r
        BY <1>2, <2>1
      <3>2. QED
        BY <1>1, <1>5, <2>1, <3>1
    <2>2. CASE a + m > r
      <3>1. a + m = r + 1 /\ m = t + 1
        BY <1>1, <1>2, <1>10, <2>2
      <3>2. rx_data[1] = chunk[t + 1]
        BY <1>1, <1>7
      <3>3. QED
        BY <1>5, <3>1, <3>2
    <2>3. QED
      BY <1>2, <2>1, <2>2
  <1>11. StagedFrom(q, k)'
    BY <1>6, <1>10 DEF StagedFrom, a, chunk, u
  <1>12. FrameTaken(q, k, t + 1)'
    BY <1>1, <1>6, <1>7, <1>8, <1>9, <1>11 DEF FrameTaken, a, chunk, u
  <1>13. ASSUME NEW j \in ImageFrames, j # q, NEW i \in ImageFrames, StagedFrom(j, i)
         PROVE  StagedFrom(j, i)'
    <2> DEFINE b == j * FrameBytes
               other == Chunk(i * FrameBytes)
    <2>1. b \in Nat /\ q \in Nat /\ j \in Nat
      BY Places
    <2>2. (j < q => b + u <= a) /\ (q < j => a + u <= b)
      BY <2>1, Constants, ProductBounds DEF a, u
    <2>3. \A m \in 1 .. u : b + m <= r => session.crc[b + m] = other[m]
      BY <1>13 DEF StagedFrom, u, r
    <2> HIDE DEF b, other
    <2>4. ASSUME NEW m \in 1 .. u, b + m <= r + 1 PROVE c[b + m] = other[m]
      <3>1. b + m # r + 1
        <4>1. CASE j < q
          BY <1>2, <1>7, <2>1, <2>2, <4>1
        <4>2. CASE q < j
          BY <1>2, <1>7, <2>1, <2>2, <4>2
        <4>3. QED
          BY <1>13, <2>1, <4>1, <4>2
      <3>2. b + m \in 1 .. r /\ b + m <= r
        BY <1>2, <2>1, <2>4, <3>1
      <3>3. QED
        BY <1>5, <2>3, <3>2
    <2>5. QED
      BY <1>6, <2>4 DEF StagedFrom, b, other, u
  <1>14. QED
    BY <1>7, <1>12, <1>13 DEF u

\* What a byte staged does to the session, whether or not it ends a page.
LEMMA ByteStaged ==
  ASSUME Inv, StageByte
  PROVE  /\ Staging /\ mode = "staging" /\ mode' = "staging"
         /\ session.active /\ session'.active /\ session'.id = session.id
         /\ session'.size = session.size /\ session'.sequence = session.sequence
         /\ session'.frames = session.frames
         /\ session'.received = session.received + 1
         /\ session'.crc = Append(session.crc, Head(rx_data))
         /\ rx_data' = Tail(rx_data)
         /\ ~image_ready /\ UNCHANGED <<image_ready, replies, verified, boot_image>>
  <1> DEFINE s == Buffered(Head(rx_data))
  <1>1. Staging /\ PageFits(s)
    BY PageFitsAlways DEF StageByte
  <1>2. /\ session' = s \/ session' = PageProgrammed(s)
        /\ rx_data' = Tail(rx_data)
        /\ UNCHANGED <<mode, image_ready, replies, verified, boot_image>>
    BY <1>1 DEF StageByte, history
  <1>3. mode = "staging" /\ session.active /\ ~image_ready /\ session \in Sessions
    BY <1>1, StagingFacts
  <1>4. /\ s.active = session.active /\ s.id = session.id /\ s.sequence = session.sequence
        /\ s.size = session.size /\ s.received = session.received + 1
        /\ s.crc = Append(session.crc, Head(rx_data))
    BY <1>1, BufferedFacts
  <1>5. /\ PageProgrammed(s).active = s.active /\ PageProgrammed(s).id = s.id
        /\ PageProgrammed(s).sequence = s.sequence /\ PageProgrammed(s).size = s.size
        /\ PageProgrammed(s).received = s.received /\ PageProgrammed(s).crc = s.crc
    BY <1>3 DEF PageProgrammed, Buffered, Sessions
  <1>6. s.frames = session.frames /\ PageProgrammed(s).frames = session.frames
    BY <1>3 DEF PageProgrammed, Buffered, Sessions
  <1> HIDE DEF s
  <1>7. QED
    BY <1>1, <1>2, <1>3, <1>4, <1>5, <1>6

LEMMA StageByteKeeps ==
  ASSUME TransferInv, StageByte, to_host' = Queued(replies'),
         UNCHANGED <<patient, host, to_target, sync, losses>>
  PROVE  TransferInv'
  <1>1. /\ Staging /\ mode = "staging" /\ mode' = "staging"
        /\ session.active /\ session'.active /\ session'.id = session.id
        /\ session'.size = session.size /\ session'.sequence = session.sequence
        /\ session'.received = session.received + 1
        /\ session'.crc = Append(session.crc, Head(rx_data))
        /\ rx_data' = Tail(rx_data)
        /\ ~image_ready /\ UNCHANGED <<image_ready, replies, verified, boot_image>>
    BY ByteStaged DEF TransferInv
  <1>2. Proper(replies') /\ Items(replies') = {}
    BY <1>1, NoPackets DEF TransferInv, TargetInv
  <1>3. /\ to_target' \in Seq(ControlFrames \cup DataFrames) /\ Sent' = Sent
    BY DEF TransferInv, LinkTypes, Sent
  <1>4. /\ LinkTypes' /\ HostOK(host') /\ ReportsWhole' /\ ImpatientLossless'
        /\ Heard' \subseteq Heard
        /\ Early' = Early
    BY <1>2, <1>3, ProperAnswers
  <1>5. Inv'
    BY StageByteStep DEF TransferInv
  <1>6. TargetInv'
    BY <1>1 DEF TransferInv, TargetInv
  <1>7. session.size = Size /\ session.id = SessionId
    BY <1>1 DEF TransferInv, TargetInv
  <1>8. session.received \in Nat /\ session.received < Size
    BY <1>1, <1>7, StagingFacts DEF TransferInv
  <1>9. PICK q \in ImageFrames, k \in ImageFrames, t \in 0 .. FrameBytes : FrameTaken(q, k, t)
    BY <1>1, <1>8 DEF TransferInv, BetweenFrames
  <1>10. /\ t + 1 \in 0 .. FrameBytes
         /\ FrameTaken(q, k, t + 1)'
         /\ \A j \in ImageFrames : j # q => \A i \in ImageFrames :
              StagedFrom(j, i) => StagedFrom(j, i)'
    BY <1>1, <1>9, ByteTaken
  <1>11. BetweenFrames'
    BY <1>1, <1>10 DEF BetweenFrames
  <1>12. StagedFrames'
    <2> SUFFICES ASSUME NEW j \in ImageFrames
                 PROVE  \E i \in ImageFrames : /\ i % SequenceModulus = j % SequenceModulus
                                               /\ StagedFrom(j, i)'
      BY DEF StagedFrames
    <2>1. CASE j = q
      BY <1>10, <2>1 DEF FrameTaken
    <2>2. CASE j # q
      <3>1. PICK i \in ImageFrames : /\ i % SequenceModulus = j % SequenceModulus
                                     /\ StagedFrom(j, i)
        BY <1>1, <1>7 DEF TransferInv, StagedFrames, OwnSession
      <3>2. QED
        BY <1>10, <2>2, <3>1
    <2>3. QED
      BY <2>1, <2>2
  <1>13. ~Early
    BY <1>1 DEF TransferInv, EarlyInv
  <1>14. EarlyInv'
    BY <1>4, <1>13 DEF EarlyInv
  <1>15. DataInv'
    <2> SUFFICES ASSUME host.stage = "DATA" PROVE DataInv'
      BY DEF DataInv
    <2>1. DataInv
      BY DEF TransferInv
    <2>2. ASSUME NEW v \in Int, v <= session.received PROVE v <= session'.received
      BY <1>1, <1>8, <2>2
    <2>3. host.confirmed \in Int /\ host.latest \in Int /\ host.best \in Int
      BY BoundaryFacts DEF TransferInv, HostOK, HostRecord, None
    <2>4. \A p \in Heard : p.argument \in Int
      <3>1. sync \in Seq(Statuses) /\ to_host \in Seq(Statuses)
        BY DEF TransferInv, LinkTypes
      <3>2. Items(sync) \subseteq Statuses /\ Items(to_host) \subseteq Statuses
        BY <3>1 DEF Items
      <3>3. QED
        BY <3>2 DEF Heard, Statuses
    <2>5. QED
      BY <1>1, <1>4, <2>1, <2>2, <2>3, <2>4 DEF DataInv
  <1>16. UncommittedInv' /\ NotCommitting'
    BY <1>1, <1>3, <1>4 DEF TransferInv, UncommittedInv, NotCommitting
  <1>17. CommitInv'
    <2>1. ~Installing
      BY <1>1 DEF Installing
    <2>2. QED
      BY <1>3, <1>4, <2>1 DEF TransferInv, CommitInv
  <1>18. QED
    BY <1>4, <1>5, <1>6, <1>11, <1>12, <1>14, <1>15, <1>16, <1>17 DEF TransferInv

\* A frame staged whole, or as much of it as the image has.
LEMMA StageDoneKeeps ==
  ASSUME TransferInv, StageDone, to_host' = Queued(replies'),
         UNCHANGED <<patient, host, to_target, sync, losses>>
  PROVE  TransferInv'
  <1> DEFINE sequence == (session.sequence + 1) % SequenceModulus
  <1>1. /\ mode = "staging" /\ mode' = "running" /\ ~Staging
        /\ replies' \in {<<Progress>>, <<>>}
        /\ UNCHANGED <<image_ready, verified, boot_image>>
    BY DEF StageDone, history
  <1>2. \E frames : session' = [session EXCEPT !.sequence = sequence, !.frames = frames]
    BY DEF StageDone
  <1>3. /\ session'.active = session.active /\ session'.id = session.id
        /\ session'.size = session.size /\ session'.received = session.received
        /\ session'.crc = session.crc /\ session'.sequence = sequence
    BY <1>2, ReceivedNat DEF TransferInv, Sessions
  <1>4. /\ session.active /\ ~image_ready /\ session.id = SessionId /\ session.size = Size
        /\ session.received \in Nat /\ session.received <= Size
        /\ rx_data \in Seq(Bytes)
    BY <1>1, ReceivedNat
    DEF TransferInv, TargetInv, Inv, TypeOK, StagingConsistent, ReadyImageStaged, Counters
  <1> HIDE DEF sequence
  <1>5. session.received \in Boundaries /\ InStep(session.received, sequence)
    <2>1. CASE session.received = Size
      <3>1. \A k \in ImageFrames : k * FrameBytes < Size /\ k * FrameBytes \in Nat
        BY Places
      <3>2. QED
        BY <2>1, <3>1, Constants DEF Boundaries, InStep
    <2>2. CASE session.received < Size
      <3>1. PICK q \in ImageFrames, k \in ImageFrames, t \in 0 .. FrameBytes : FrameTaken(q, k, t)
        BY <1>1, <1>4, <2>2 DEF TransferInv, BetweenFrames
      <3>2. Len(rx_data) = 0
        BY <1>1, <1>4, <2>2 DEF Staging
      <3> DEFINE a == q * FrameBytes
      <3>3. /\ a \in Nat /\ q \in Nat /\ FrameBytes \in Nat \ {0}
            /\ (q + 1) * FrameBytes = a + FrameBytes
            /\ a + FrameBytes < Size => q + 1 \in ImageFrames
        BY Places, Constants
      <3>4. session.received = a + t /\ Len(rx_data) = FrameBytes - t
            /\ session.sequence = q % SequenceModulus
        BY <3>1 DEF FrameTaken
      <3> HIDE DEF a
      <3>5. session.received = a + FrameBytes
        BY <3>2, <3>3, <3>4
      <3>6. q + 1 \in ImageFrames /\ session.received = (q + 1) * FrameBytes
        BY <2>2, <3>3, <3>5
      <3>7. sequence = (q + 1) % SequenceModulus
        BY <3>3, <3>4, Constants, NextRemainder DEF sequence
      <3>8. \A j \in ImageFrames : session.received = j * FrameBytes => j = q + 1
        BY <3>3, <3>6, OnePlace
      <3>9. QED
        BY <3>6, <3>7, <3>8 DEF Boundaries, InStep
    <2>3. QED
      BY <1>4, <2>1, <2>2, Constants
  <1>6. /\ Progress \in Statuses /\ Progress.status = "PROGRESS"
        /\ Progress.argument = session.received
    BY ProgressFacts DEF TransferInv
  <1>7. replies' \in Seq(Statuses) /\ \A p \in Items(replies') : p = Progress
    BY <1>1, <1>6, OnePacket, NoPackets
  <1>8. Proper(replies')
    BY <1>5, <1>6, <1>7 DEF Proper
  <1>9. to_target' \in Seq(ControlFrames \cup DataFrames) /\ Sent' = Sent
    BY DEF TransferInv, LinkTypes, Sent
  <1>10. /\ LinkTypes' /\ HostOK(host') /\ ReportsWhole' /\ ImpatientLossless'
         /\ Heard' \subseteq Heard \cup Items(replies')
         /\ Early' = Early
    BY <1>8, <1>9, ProperAnswers
  <1>11. Inv'
    BY StageDoneStep DEF TransferInv
  <1>12. TargetInv' /\ StagedFrames'
    BY <1>1, <1>3, <1>4 DEF TransferInv, TargetInv, StagedFrames, OwnSession, StagedFrom
  <1>13. BetweenFrames'
    BY <1>1, <1>3, <1>5 DEF BetweenFrames
  <1>14. ~Early
    BY <1>1 DEF TransferInv, EarlyInv
  <1>15. EarlyInv'
    BY <1>10, <1>14 DEF EarlyInv
  <1>16. DataInv'
    BY <1>3, <1>4, <1>6, <1>7, <1>10 DEF TransferInv, DataInv
  <1>17. UncommittedInv' /\ NotCommitting'
    BY <1>1, <1>6, <1>7, <1>9, <1>10 DEF TransferInv, UncommittedInv, NotCommitting
  <1>18. CommitInv'
    <2>1. ~Installing
      BY <1>1 DEF Installing
    <2>2. QED
      BY <1>6, <1>7, <1>9, <1>10, <2>1 DEF TransferInv, CommitInv
  <1>19. QED
    BY <1>10, <1>11, <1>12, <1>13, <1>15, <1>16, <1>17, <1>18 DEF TransferInv

\* Where the copy is over, what runs is what FINISH vouched for.
LEMMA CopiedImage ==
  ASSUME Inv, ApplyReboot
  PROVE  boot_image = verified
  <1>1. /\ mode = "applying" /\ apply_offset >= CopyBytes
        /\ apply_offset \in Nat /\ CopyBytes \in Nat
        /\ session.size \in Nat \ {0} /\ session.size <= CopyBytes
    BY ApplyFacts DEF ApplyReboot
  <1> HIDE DEF CopyBytes
  <1>2. apply_offset > 0
    BY <1>1
  <1>3. QED
    BY <1>1, <1>2 DEF Inv, ApplyConsistent

LEMMA ApplyKeeps ==
  ASSUME TransferInv, TargetApplies
  PROVE  TransferInv'
  <1>1. Apply /\ UNCHANGED <<patient, host, to_target, to_host, sync, losses>>
    BY DEF TargetApplies, link
  <1>2. mode \in {"applying", "programming"} /\ Inv
    BY <1>1 DEF Apply, ApplyErase, ApplyProgram, ApplyReboot, TransferInv
  <1>3. image_ready /\ ~session.active /\ verified = Image
    BY <1>2, ApplyFacts DEF TransferInv, TargetInv
  <1>4. Inv'
    BY <1>1, <1>2, ApplyEraseStep, ApplyProgramStep, ApplyRebootStep DEF Apply
  <1>5. /\ ~session'.active /\ Installing' /\ mode' # "staging"
        /\ image_ready' => verified' = Image
    <2>1. CASE ApplyErase
      BY <1>3, <2>1 DEF ApplyErase, ram, Installing
    <2>2. CASE ApplyProgram
      BY <1>3, <2>2 DEF ApplyProgram, ram, history, Installing
    <2>3. CASE ApplyReboot
      <3>1. boot_image = Image
        BY <1>2, <1>3, <2>3, CopiedImage
      <3>2. /\ mode' = "running" /\ session' = NoSession /\ image_ready' = FALSE
            /\ boot_image' = boot_image
        BY <2>3 DEF ApplyReboot, RestartInto
      <3>3. ~session'.active
        BY <3>2 DEF NoSession
      <3>4. QED
        BY <3>1, <3>2, <3>3 DEF Installing
    <2>4. QED
      BY <1>1, <2>1, <2>2, <2>3 DEF Apply
  <1>6. TargetInv' /\ BetweenFrames' /\ StagedFrames'
    BY <1>5 DEF TargetInv, BetweenFrames, StagedFrames, OwnSession
  <1>7. Heard' = Heard /\ Sent' = Sent /\ Early' = Early
    BY <1>1 DEF Heard, Sent, Early
  <1>8. LinkTypes' /\ HostOK(host') /\ ReportsWhole' /\ ImpatientLossless'
    BY <1>1, <1>7 DEF TransferInv, LinkTypes, ReportsWhole, ImpatientLossless
  <1>9. ~Early /\ host.stage \notin {"DATA", "FINISH"}
    BY <1>2 DEF TransferInv, EarlyInv, UncommittedInv
  <1>10. EarlyInv' /\ DataInv' /\ UncommittedInv' /\ NotCommitting'
    BY <1>1, <1>7, <1>9 DEF EarlyInv, DataInv, UncommittedInv, NotCommitting
  <1>11. CommitInv'
    BY <1>1, <1>5, <1>7 DEF TransferInv, CommitInv
  <1>12. QED
    BY <1>4, <1>6, <1>8, <1>10, <1>11 DEF TransferInv

-----------------------------------------------------------------------------
(* The invariant holds *)

LEMMA TransferInitInv == TransferInit => TransferInv
  <1> SUFFICES ASSUME TransferInit PROVE TransferInv
    OBVIOUS
  <1>1. /\ Init /\ patient \in BOOLEAN /\ to_target = <<>> /\ to_host = <<>> /\ sync = <<>>
        /\ losses = 0
        /\ host = [stage |-> "ABORT", waits_for |-> "nothing", attempt |-> 0,
                   tx_failed |-> FALSE, offset |-> 0, sequence |-> 0,
                   frames_since_sync |-> 0, confirmed |-> 0, timeouts |-> 0,
                   latest |-> None, error |-> "NONE", best |-> None,
                   saw_incomplete |-> FALSE]
    BY DEF TransferInit
  <1>2. Inv
    BY <1>1, InitInv
  <1>3. mode = "running" /\ ~session.active /\ image_ready = FALSE
    BY <1>1 DEF Init, NoSession
  <1>4. Heard = {} /\ Sent = {}
    BY <1>1 DEF Heard, Sent, Items
  <1>5. LinkTypes
    BY <1>1 DEF LinkTypes
  <1>6. HostOK(host)
    <2>1. host \in HostRecord
      BY <1>1, FirstPlace DEF HostRecord, Stages, ControlStages, Setup, Waits
    <2>2. host.offset = 0 /\ host.sequence = 0 /\ host.stage = "ABORT" /\ host.waits_for = "nothing"
      BY <1>1
    <2>3. QED
      BY <2>1, <2>2, FirstSequence DEF HostOK
  <1>7. ReportsWhole /\ ImpatientLossless
    BY <1>1, <1>4 DEF ReportsWhole, ImpatientLossless
  <1>8. TargetInv /\ BetweenFrames /\ StagedFrames
    BY <1>3 DEF TargetInv, BetweenFrames, StagedFrames, OwnSession
  <1>9. EarlyInv /\ DataInv /\ UncommittedInv /\ NotCommitting /\ CommitInv
    BY <1>1, <1>3, <1>4 DEF EarlyInv, DataInv, UncommittedInv, NotCommitting, CommitInv
  <1>10. QED
    BY <1>2, <1>5, <1>6, <1>7, <1>8, <1>9 DEF TransferInv

LEMMA NothingMoves ==
  ASSUME TransferInv, UNCHANGED transfer_vars
  PROVE  TransferInv'
  <1>1. UNCHANGED <<patient, host, to_target, to_host, sync, losses, target>>
    BY DEF transfer_vars, link
  <1>2. /\ Inv' /\ TargetInv' /\ BetweenFrames' /\ StagedFrames'
        /\ UNCHANGED <<mode, session, image_ready, verified, boot_image>>
        /\ Installing' = Installing
    BY <1>1, TargetUntouched
  <1>3. Heard' = Heard /\ Sent' = Sent /\ Early' = Early
    BY <1>1 DEF Heard, Sent, Early
  <1>4. LinkTypes' /\ HostOK(host') /\ ReportsWhole' /\ ImpatientLossless'
    BY <1>1, <1>3 DEF TransferInv, LinkTypes, ReportsWhole, ImpatientLossless
  <1>5. EarlyInv' /\ DataInv' /\ UncommittedInv' /\ NotCommitting' /\ CommitInv'
    BY <1>1, <1>2, <1>3
    DEF TransferInv, EarlyInv, DataInv, UncommittedInv, NotCommitting, CommitInv
  <1>6. QED
    BY <1>2, <1>4, <1>5 DEF TransferInv

LEMMA TransferNextInv == TransferInv /\ [TransferNext]_transfer_vars => TransferInv'
  <1> SUFFICES ASSUME TransferInv, [TransferNext]_transfer_vars PROVE TransferInv'
    OBVIOUS
  <1>1. CASE SendControl
    BY <1>1, SendControlKeeps
  <1>2. CASE SendData
    BY <1>2, SendDataKeeps
  <1>3. CASE Hear
    BY <1>3, HearMove, HostMoveKeeps
  <1>4. CASE ControlTimeout
    BY <1>4, ControlTimeoutMove, HostMoveKeeps
  <1>5. CASE StartProbe
    BY <1>5, StartProbeKeeps
  <1>6. CASE EndWait
    BY <1>6, EndWaitMove, HostMoveKeeps
  <1>7. CASE Deliver
    BY <1>7, DeliverKeeps
  <1>8. CASE TargetStages
    BY <1>8, StageByteKeeps, StageDoneKeeps DEF TargetStages, Stage
  <1>9. CASE TargetApplies
    BY <1>9, ApplyKeeps
  <1>10. CASE LoseFrame
    BY <1>10, LoseFrameKeeps
  <1>11. CASE LoseStatus
    BY <1>11, LoseStatusKeeps
  <1>12. CASE Finished \/ UNCHANGED transfer_vars
    BY <1>12, NothingMoves DEF Finished
  <1>13. QED
    BY <1>1, <1>2, <1>3, <1>4, <1>5, <1>6, <1>7, <1>8, <1>9, <1>10, <1>11, <1>12
    DEF TransferNext, HostStep, TargetStep

LEMMA TransferInvariance == TransferSpec => []TransferInv
  BY TransferInitInv, TransferNextInv, PTL DEF TransferSpec

\* What the host believes confirmed, the target has received in this session
\* (the PROGRESS treatment of flash_image), whatever is lost, stale or late.
THEOREM ConfirmedCorrect == TransferSpec => []ConfirmedReceived
  <1>1. TransferInv => ConfirmedReceived
    BY DEF TransferInv, DataInv, ConfirmedReceived
  <1>2. QED
    BY <1>1, TransferInvariance, PTL

\* Each frame staged is one frame of the image, whole, with the sequence number
\* of its place: no retransmission, loss or late answer mixes two frames or
\* shifts one (flash_image against
\* scp_flash_can_target_handle_can_frame and flash_stage_data).
THEOREM StagedCorrect == TransferSpec => []StagedFrames
  <1>1. TransferInv => StagedFrames
    BY DEF TransferInv
  <1>2. QED
    BY <1>1, TransferInvariance, PTL

\* An update flash_image reports as done is being copied over the application
\* or runs: COMMITTING cannot be an answer to something else, and nothing late
\* on the link undoes it.
THEOREM InstallCorrect == TransferSpec => []DoneInstalls
  <1>1. TransferInv => DoneInstalls
    BY DEF TransferInv, CommitInv, Installing, DoneInstalls
  <1>2. QED
    BY <1>1, TransferInvariance, PTL

\* During a transfer the target's own invariant holds too: its frames come from
\* this host, but it relies on nothing of it (module FlashTarget).
THEOREM TargetIntact == TransferSpec => [](TypeOK /\ StagingConsistent /\ BootImageIntact)
  <1>1. TransferInv => TypeOK /\ StagingConsistent /\ BootImageIntact
    BY DEF TransferInv, Inv
  <1>2. QED
    BY <1>1, TransferInvariance, PTL

-----------------------------------------------------------------------------
(* The refinement *)

\* A host that sends what the target's model lets a host send.
Known ==
  /\ Size \in ImageSizes
  /\ \A k \in ImageFrames : Chunk(k * FrameBytes) \in Payloads

\* FINISH with a CRC that is not that of the session is FINISH with another one.
LEMMA FinishKnown ==
  ASSUME TransferInv, Finish(SessionId, Image)
  PROVE  \E crc \in {session.crc, <<>>} : Finish(SessionId, crc)
  <1>1. CASE Image = session.crc
    BY <1>1
  <1>2. CASE Image # session.crc
    <2>1. FinishError(SessionId, Image) # "NONE"
      BY <1>2 DEF FinishError
    <2>2. FinishError(SessionId, <<>>) = FinishError(SessionId, Image)
      <3>1. ASSUME session.active, session.received = session.size PROVE session.crc # <<>>
        <4>1. session.size \in Nat \ {0} /\ Len(session.crc) = session.size
          BY <3>1 DEF TransferInv, Inv, StagingConsistent, Counters
        <4>2. QED
          BY <4>1
      <3>2. QED
        BY <1>2, <3>1 DEF FinishError
    <2>3. Finish(SessionId, <<>>)
      BY <2>1, <2>2 DEF Finish
    <2>4. QED
      BY <2>3
  <1>3. QED
    BY <1>1, <1>2

LEMMA HandleIsNext ==
  ASSUME Known, TransferInv, NEW f \in ControlFrames \cup DataFrames, Handle(f)
  PROVE  Next
  <1>1. /\ f.command \in {"ABORT", "REBOOT", "BEGIN", "FINISH", "COMMIT", "DATA"}
        /\ f.session_id \in SessionIds
        /\ f.command \in {"BEGIN", "FINISH", "COMMIT", "DATA"} => f.session_id = SessionId
        /\ f.command = "DATA" => f \in DataFrames
    BY FrameFacts
  <1>2. CASE f.command = "BEGIN"
    <2>1. Begin(f.session_id, Size)
      BY <1>2 DEF Handle
    <2>2. QED
      BY <1>1, <2>1 DEF Known, Next, Control
  <1>3. CASE f.command = "FINISH"
    <2>1. Finish(SessionId, Image)
      BY <1>1, <1>3 DEF Handle
    <2>2. QED
      BY <2>1, FinishKnown, Constants DEF Next, Control
  <1>4. CASE f.command \in {"COMMIT", "ABORT", "REBOOT"}
    BY <1>1, <1>4 DEF Handle, Next, Control
  <1>5. CASE f.command = "DATA"
    <2>1. Data(f.session_id, f.sequence, f.data)
      BY <1>5 DEF Handle
    <2>2. PICK k \in ImageFrames : f = ImageFrame(k)
      BY <1>1, <1>5 DEF DataFrames
    <2>3. f.sequence = k % SequenceModulus /\ f.data = Chunk(k * FrameBytes) /\ k \in Nat
      BY <2>2, Places DEF ImageFrame
    <2>4. ASSUME NEW u \in Nat \ {0}, NEW a \in Nat PROVE a % u \in 0 .. u - 1
      BY SMT
    <2>5. f.sequence \in 0 .. SequenceModulus - 1 /\ f.data \in Payloads
      BY <2>3, <2>4, Constants DEF Known
    <2>6. QED
      BY <1>1, <2>1, <2>5 DEF Next, DataFrame
  <1>6. QED
    BY <1>1, <1>2, <1>3, <1>4, <1>5

\* During a transfer the target does what module FlashTarget says, and nothing
\* else: what is proved of it there, for any host, holds of it here.
THEOREM TransferRefinesTarget == Known => (TransferSpec => Spec)
  <1> SUFFICES ASSUME Known PROVE TransferSpec => Spec
    OBVIOUS
  <1>1. TransferInit => Init
    BY DEF TransferInit
  <1>2. TransferInv /\ [TransferNext]_transfer_vars => [Next]_vars
    <2> SUFFICES ASSUME TransferInv, [TransferNext]_transfer_vars PROVE [Next]_vars
      OBVIOUS
    <2>1. CASE HostStep \/ LoseFrame \/ LoseStatus \/ Finished \/ UNCHANGED transfer_vars
      BY <2>1 DEF HostStep, SendControl, SendData, Hear, ControlTimeout, StartProbe, EndWait,
         LoseFrame, LoseStatus, Finished, transfer_vars, target
    <2>2. CASE Deliver
      <3>1. Head(to_target) \in ControlFrames \cup DataFrames
        BY <2>2, TakenFacts DEF Deliver
      <3>2. QED
        BY <2>2, <3>1, HandleIsNext DEF Deliver
    <2>3. CASE TargetStages
      BY <2>3 DEF TargetStages, Next
    <2>4. CASE TargetApplies
      BY <2>4 DEF TargetApplies, Next
    <2>5. QED
      BY <2>1, <2>2, <2>3, <2>4 DEF TransferNext, TargetStep
  <1>3. QED
    BY <1>1, <1>2, TransferInvariance, PTL DEF TransferSpec, Spec

-----------------------------------------------------------------------------
(* Without a loss *)

LEMMA OneItem ==
  ASSUME NEW S, NEW p \in S
  PROVE  SubSeq(<<p>>, 1, 1) = <<p>> /\ SubSeq(<<p>>, 2, 1) = <<>>
  <1>1. <<p>> \in Seq(S) /\ Len(<<p>>) = 1
    OBVIOUS
  <1>2. SubSeq(<<p>>, 1, Len(<<p>>)) = <<p>>
    BY <1>1, SubSeqFull
  <1>3. SubSeq(<<p>>, 2, 1) = <<>>
    BY SubSeqEmpty
  <1>4. QED
    BY <1>1, <1>2, <1>3

LEMMA QueuedOne ==
  ASSUME to_host = <<>>
  PROVE  /\ Queued(<<>>) = <<>>
         /\ \A p \in Statuses : Queued(<<p>>) = <<p>>
  <1>1. LinkCapacity \in Nat \ {0}
    BY TransferAssumption
  <1>2. Queued(<<>>) = <<>>
    <2> DEFINE all == <<>> \o <<>>
    <2>1. all = <<>> /\ Len(all) = 0
      OBVIOUS
    <2>2. Smaller(0, LinkCapacity) = 0
      BY <1>1 DEF Smaller
    <2>3. Queued(<<>>) = SubSeq(all, 1, Smaller(Len(all), LinkCapacity))
      BY DEF Queued
    <2> HIDE DEF all
    <2>4. Queued(<<>>) = SubSeq(<<>>, 1, 0)
      BY <2>1, <2>2, <2>3
    <2>5. QED
      BY <2>4
  <1>3. ASSUME NEW p \in Statuses PROVE Queued(<<p>>) = <<p>>
    <2> DEFINE all == <<>> \o <<p>>
    <2>1. all = <<p>> /\ Len(all) = 1
      OBVIOUS
    <2>2. Smaller(1, LinkCapacity) = 1
      BY <1>1 DEF Smaller
    <2>3. Queued(<<p>>) = SubSeq(all, 1, Smaller(Len(all), LinkCapacity))
      BY DEF Queued
    <2> HIDE DEF all
    <2>4. Queued(<<p>>) = SubSeq(<<p>>, 1, 1)
      BY <2>1, <2>2, <2>3
    <2>5. SubSeq(<<p>>, 1, 1) = <<p>>
      BY OneItem
    <2>6. QED
      BY <2>4, <2>5
  <1>4. QED
    BY <1>2, <1>3

\* The only answer under way is heard alone.
LEMMA HearOne ==
  ASSUME TransferInv, Hear, sync = <<>>, NEW p \in Statuses, to_host = <<p>>, Awaited(p)
  PROVE  /\ UNCHANGED <<patient, to_target, losses, target>>
         /\ to_host' = <<>> /\ sync' = <<>>
         /\ \E l, b : /\ NotesOK(l, b)
                      /\ host' = [Answered(Notes(l, b), p) EXCEPT !.latest = None]
  <1>1. PICK n \in 1 .. Len(to_host) :
          LET buffer == sync \o SubSeq(to_host, 1, n)
              hits == {k \in DOMAIN buffer : Awaited(buffer[k])}
              hit == CHOOSE k \in hits : \A j \in hits : k <= j
          IN /\ to_host' = SubSeq(to_host, n + 1, Len(to_host))
             /\ IF hits = {}
                  THEN host' = Noted(buffer) /\ sync' = <<>>
                  ELSE LET next == Answered(Noted(SubSeq(buffer, 1, hit)), buffer[hit]) IN
                         /\ host' = [next EXCEPT !.latest = None]
                         /\ sync' = Kept(next, SubSeq(buffer, hit + 1, Len(buffer)))
    BY DEF Hear
  <1> DEFINE buffer == sync \o SubSeq(to_host, 1, n)
             hits == {k \in DOMAIN buffer : Awaited(buffer[k])}
             hit == CHOOSE k \in hits : \A j \in hits : k <= j
             next == Answered(Noted(SubSeq(buffer, 1, hit)), buffer[hit])
             rest == SubSeq(buffer, hit + 1, Len(buffer))
  <1>2. /\ to_host' = SubSeq(to_host, n + 1, Len(to_host))
        /\ hits # {} => /\ host' = [next EXCEPT !.latest = None]
                        /\ sync' = Kept(next, rest)
    BY <1>1
  <1>3. n = 1 /\ Len(to_host) = 1
    OBVIOUS
  <1>0. SubSeq(<<p>>, 1, 1) = <<p>> /\ SubSeq(<<p>>, 2, 1) = <<>>
    BY OneItem
  <1>4. SubSeq(to_host, 1, n) = <<p>> /\ to_host' = <<>>
    BY <1>2, <1>3, <1>0
  <1>5. buffer = <<p>>
    <2> DEFINE taken == SubSeq(to_host, 1, n)
    <2>1. taken = <<p>>
      BY <1>4
    <2> HIDE DEF taken
    <2>2. sync \o taken = <<p>>
      BY <2>1
    <2>3. QED
      BY <2>2 DEF taken
  <1> HIDE DEF buffer
  <1>6. DOMAIN buffer = {1} /\ buffer[1] = p /\ Len(buffer) = 1
    BY <1>5
  <1>7. hits = {1}
    BY <1>6
  <1>8. hit = 1
    BY <1>7
  <1> HIDE DEF hits, hit
  <1>9. SubSeq(buffer, 1, hit) = <<p>> /\ rest = <<>>
    BY <1>5, <1>6, <1>8, <1>0
  <1>10. Items(<<p>>) \subseteq Heard /\ <<p>> \in Seq(Statuses)
    BY OnePacket DEF Heard
  <1>11. PICK l, b : NotesOK(l, b) /\ Noted(<<p>>) = Notes(l, b)
    BY <1>10, NotedFacts DEF TransferInv
  <1>12. host' = [Answered(Notes(l, b), p) EXCEPT !.latest = None]
    BY <1>2, <1>6, <1>7, <1>8, <1>9, <1>11
  <1>13. sync' = <<>>
    BY <1>2, <1>7, <1>9 DEF Kept
  <1>14. UNCHANGED <<patient, to_target, losses, target>>
    BY DEF Hear
  <1>15. QED
    BY <1>4, <1>11, <1>12, <1>13, <1>14

\* Something is always on its way to a patient host, so no wait times out.
LEMMA SmoothNeverLate ==
  ASSUME TransferInv, SmoothInv, Smooth
  PROVE  ~Late
  <1> SUFFICES ASSUME host.waits_for # "nothing", to_target = <<>>, to_host = <<>>,
                      mode = "running"
               PROVE  FALSE
    BY DEF Late, Quiet, Smooth
  <1>1. HostOK(host) /\ SmoothControl /\ SmoothData
    BY DEF TransferInv, SmoothInv
  <1>2. host.waits_for \in {"control", "progress"}
    BY DEF SmoothInv
  <1>3. CASE host.stage \in ControlStages
    BY <1>1, <1>2, <1>3 DEF SmoothControl, HostOK
  <1>4. CASE host.stage = "DATA"
    <2>1. host.waits_for = "progress"
      BY <1>1, <1>2, <1>4 DEF HostOK
    <2>2. Counting /\ \E q \in Nat : Sequel(q)
      BY <1>1, <1>4 DEF SmoothData, Reporting
    <2>3. PICK q \in Nat : Sequel(q)
      BY <2>2
    <2>4. /\ session.frames = host.frames_since_sync /\ session.received < Size
          /\ host.frames_since_sync = ProgressInterval \/ host.offset = Size
      <3>1. InHand = 0 /\ Len(to_target) = 0
        BY DEF InHand
      <3>2. session.frames + 0 + 0 = host.frames_since_sync
        BY <2>2, <3>1 DEF Counting
      <3>3. session.frames \in Nat
        BY LayoutFacts DEF TransferInv, Inv, TypeOK, Sessions
      <3>4. QED
        BY <2>1, <2>2, <3>2, <3>3 DEF Counting
    <2>5. session.received = Smaller(q * FrameBytes, Size) /\ host.offset = session.received
      <3>1. InHand = 0 /\ Len(to_target) = 0 /\ q + 0 + 0 = q
        BY DEF InHand
      <3>2. session.received = Smaller(q * FrameBytes, Size)
        BY <2>3 DEF Sequel
      <3>3. host.offset = Smaller((q + InHand + Len(to_target)) * FrameBytes, Size)
        BY <2>3 DEF Sequel
      <3>4. QED
        BY <3>1, <3>2, <3>3
    <2>6. /\ session.frames \in 0 .. ProgressInterval - 1 /\ session.received \in Nat
          /\ Size \in Nat /\ ProgressInterval \in Nat
      BY ReceivedNat, Constants, LayoutFacts DEF TransferInv, Inv, TypeOK, Sessions
    <2>7. QED
      BY <2>4, <2>5, <2>6
  <1>5. QED
    BY <1>1, <1>3, <1>4 DEF HostOK, HostRecord, Stages

-----------------------------------------------------------------------------
(* The host, without a loss *)

Following(stage) ==
  CASE stage = "ABORT" -> "REBOOT"
    [] stage = "REBOOT" -> "ABORT_AGAIN"
    [] stage = "ABORT_AGAIN" -> "BEGIN"
    [] stage = "BEGIN" -> "DATA"
    [] stage = "FINISH" -> "COMMIT"
    [] stage = "COMMIT" -> "done"

\* The answer of the target is the one awaited, and leads to the next stage.
LEMMA AnswerFacts ==
  ASSUME HostOK(host), host.stage \in ControlStages, host.stage # "GIVE_UP",
         host.waits_for = "control"
  PROVE  /\ Answer(host.stage) \in Statuses /\ Awaited(Answer(host.stage))
         /\ \A h : h.stage = host.stage /\ h.waits_for = "control" =>
              Answered(h, Answer(host.stage)) = GoToStage(h, Following(host.stage))
  <1> DEFINE p == Answer(host.stage)
  <1>1. CASE host.stage \in Setup
    <2>1. p = [status |-> "ACK", session_id |-> SetupSessionId, argument |-> 0]
      BY <1>1 DEF Answer, Reply, Setup
    <2>2. p \in Statuses
      BY <2>1, Constants DEF Statuses, Verdicts
    <2>3. Awaited(p)
      BY <1>1, <2>1 DEF Awaited, Expected, SetupOr, Setup
    <2>4. \A h : h.stage = host.stage /\ h.waits_for = "control" =>
            Answered(h, p) = GoToStage(h, Following(host.stage))
      BY <1>1, <2>1 DEF Answered, ControlAnswered, Following, Setup
    <2>5. QED
      BY <2>2, <2>3, <2>4
  <1>2. CASE host.stage = "BEGIN"
    <2>1. p = [status |-> "ACK", session_id |-> SessionId, argument |-> Size]
      BY <1>2 DEF Answer, Reply, Setup
    <2>2. p \in Statuses
      BY <2>1, Constants DEF Statuses, Verdicts
    <2>3. Awaited(p)
      BY <1>2, <2>1 DEF Awaited, Expected, SetupOr, Setup
    <2>4. \A h : h.stage = host.stage /\ h.waits_for = "control" =>
            Answered(h, p) = GoToStage(h, Following(host.stage))
      BY <1>2, <2>1 DEF Answered, ControlAnswered, Following, Errors
    <2>5. QED
      BY <2>2, <2>3, <2>4
  <1>3. CASE host.stage = "FINISH"
    <2>1. p = [status |-> "READY", session_id |-> SessionId, argument |-> Size]
      BY <1>3 DEF Answer, Reply, Setup
    <2>2. p \in Statuses
      BY <2>1, Constants DEF Statuses, Verdicts
    <2>3. Awaited(p)
      BY <1>3, <2>1 DEF Awaited, Expected, SetupOr, Setup
    <2>4. \A h : h.stage = host.stage /\ h.waits_for = "control" =>
            Answered(h, p) = GoToStage(h, Following(host.stage))
      BY <1>3, <2>1 DEF Answered, ControlAnswered, Following, Errors
    <2>5. QED
      BY <2>2, <2>3, <2>4
  <1>4. CASE host.stage = "COMMIT"
    <2>1. p = [status |-> "COMMITTING", session_id |-> SessionId, argument |-> Size]
      BY <1>4 DEF Answer, Reply, Setup
    <2>2. p \in Statuses
      BY <2>1, Constants DEF Statuses, Verdicts
    <2>3. Awaited(p)
      BY <1>4, <2>1 DEF Awaited, Expected, SetupOr, Setup
    <2>4. \A h : h.stage = host.stage /\ h.waits_for = "control" =>
            Answered(h, p) = GoToStage(h, Following(host.stage))
      BY <1>4, <2>1 DEF Answered, ControlAnswered, Following, Errors
    <2>5. QED
      BY <2>2, <2>3, <2>4
  <1>5. QED
    BY <1>1, <1>2, <1>3, <1>4 DEF ControlStages

LEMMA SmoothHearControl ==
  ASSUME TransferInv, SmoothInv, Smooth, Hear, host.stage \in ControlStages
  PROVE  SmoothInv'
  <1>1. HostOK(host) /\ host \in HostRecord /\ LinkTypes /\ sync = <<>> /\ SmoothControl
        /\ host.stage # "GIVE_UP"
    BY DEF TransferInv, HostOK, SmoothInv
  <1>2. host.waits_for = "control"
    BY <1>1 DEF Hear, HostOK
  <1>3. to_host # <<>>
    <2>1. \E n \in 1 .. Len(to_host) : TRUE
      BY DEF Hear
    <2>2. QED
      BY <2>1
  <1> DEFINE p == Answer(host.stage)
             next == Following(host.stage)
  <1>4. to_target = <<>> /\ to_host = <<p>> /\ Reached(host.stage)
    BY <1>1, <1>2, <1>3 DEF SmoothControl
  <1>5. /\ p \in Statuses /\ Awaited(p)
        /\ \A h : h.stage = host.stage /\ h.waits_for = "control" =>
             Answered(h, p) = GoToStage(h, next)
    BY <1>1, <1>2, AnswerFacts
  <1> HIDE DEF p
  <1>6. /\ UNCHANGED <<patient, to_target, losses, target>>
        /\ to_host' = <<>> /\ sync' = <<>>
        /\ \E l, b : /\ NotesOK(l, b)
                     /\ host' = [Answered(Notes(l, b), p) EXCEPT !.latest = None]
    BY <1>1, <1>4, <1>5, HearOne
  <1>7. PICK l, b : /\ NotesOK(l, b)
                    /\ host' = [Answered(Notes(l, b), p) EXCEPT !.latest = None]
    BY <1>6
  <1>8. Notes(l, b).stage = host.stage /\ Notes(l, b).waits_for = "control"
    BY <1>1, <1>2 DEF Notes, HostRecord
  <1>9. host' = [GoToStage(Notes(l, b), next) EXCEPT !.latest = None]
    BY <1>5, <1>7, <1>8
  <1>10. /\ host'.stage = next /\ host'.waits_for = "nothing" /\ host'.offset = host.offset
         /\ host'.frames_since_sync = host.frames_since_sync
    BY <1>1, <1>9 DEF GoToStage, Notes, HostRecord
  <1>11. UNCHANGED <<mode, session, image_ready, ready_session_id>> /\ to_target' = <<>>
    BY <1>4, <1>6 DEF target, vars
  <1>12. CASE host.stage \in Setup
    <2>1. next \in Setup \cup {"BEGIN"}
      BY <1>12 DEF Following, Setup
    <2>2. mode = "running" /\ ~session.active
      BY <1>4, <1>12 DEF Reached
    <2>3. Ready(host.stage)'
      BY <1>10, <1>11, <2>1, <2>2 DEF Ready, Setup
    <2>4. host.frames_since_sync = 0
      BY <1>1, <1>12 DEF SmoothControl, Early
    <2>5. SmoothControl'
      BY <1>6, <1>10, <1>11, <2>3, <2>4 DEF SmoothControl
    <2>6. host'.stage \in Setup \cup {"BEGIN"}
      BY <1>10, <2>1
    <2>7. QED
      BY <1>6, <1>10, <2>5, <2>6 DEF SmoothInv, SmoothData, Setup
  <1>13. CASE host.stage = "BEGIN"
    <2>1. next = "DATA"
      BY <1>13 DEF Following
    <2>2. /\ mode = "running" /\ session.active
          /\ session.received = 0 /\ session.sequence = 0 /\ session.frames = 0
      BY <1>4, <1>13 DEF Reached
    <2>3. host.frames_since_sync = 0 /\ host.offset = 0
      BY <1>1, <1>13 DEF SmoothControl, Early, TransferInv, EarlyInv
    <2>4. /\ ProgressInterval \in Nat \ {0} /\ Size \in Nat \ {0} /\ FrameBytes \in Nat \ {0}
          /\ SequenceModulus \in Nat \ {0}
      BY LayoutFacts, Constants
    <2>5. Len(to_target') = 0 /\ DOMAIN to_target' = {} /\ InHand' = 0
      BY <1>11, <2>2 DEF InHand
    <2>6. 0 * FrameBytes = 0 /\ Smaller(0, Size) = 0 /\ 0 % SequenceModulus = 0
      <3>1. ASSUME NEW u \in Nat \ {0} PROVE 0 * u = 0 /\ 0 % u = 0
        BY SMT
      <3>2. QED
        BY <2>4, <3>1 DEF Smaller
    <2>7. Sequel(0)'
      <3>1. (0 + InHand' + Len(to_target')) * FrameBytes = 0
        BY <2>5, <2>6
      <3>2. host'.offset = 0
        BY <1>10, <2>3
      <3>3. mode' = "running"
        BY <1>11, <2>2
      <3>4. session'.sequence = 0 % SequenceModulus /\ session'.received = Smaller(0 * FrameBytes, Size)
        BY <1>11, <2>2, <2>6
      <3>5. host'.offset = Smaller((0 + InHand' + Len(to_target')) * FrameBytes, Size)
        BY <2>6, <3>1, <3>2
      <3>6. QED
        BY <2>5, <3>3, <3>4, <3>5 DEF Sequel
    <2>8. Counting'
      <3>1. session'.frames + InHand' + Len(to_target') = host'.frames_since_sync
        BY <1>10, <1>11, <2>2, <2>3, <2>5
      <3>2. QED
        BY <1>6, <1>10, <1>11, <2>2, <2>3, <2>4, <3>1 DEF Counting
    <2>9. SmoothData'
      <3>1. \A i \in 1 .. session'.received : session'.crc[i] = Image[i]
        BY <1>11, <2>2
      <3>2. session'.active /\ mode' = "running" /\ host'.frames_since_sync <= ProgressInterval
        BY <1>10, <1>11, <2>2, <2>3, <2>4
      <3>3. QED
        BY <2>7, <2>8, <3>1, <3>2 DEF SmoothData
    <2>10. host'.stage = "DATA"
      BY <1>10, <2>1
    <2>11. QED
      BY <1>6, <1>10, <2>9, <2>10 DEF SmoothInv, SmoothControl, ControlStages, Setup
  <1>14. CASE host.stage = "FINISH"
    <2>1. next = "COMMIT"
      BY <1>14 DEF Following
    <2>2. Ready("COMMIT")
      BY <1>4, <1>14 DEF Reached
    <2>3. Ready(host.stage)'
      BY <1>10, <1>11, <2>1, <2>2 DEF Ready, Setup
    <2>4. SmoothControl'
      BY <1>6, <1>10, <1>11, <2>1, <2>3 DEF SmoothControl, Early, Setup
    <2>5. host'.stage = "COMMIT"
      BY <1>10, <2>1
    <2>6. QED
      BY <1>6, <1>10, <2>4, <2>5 DEF SmoothInv, SmoothData
  <1>15. CASE host.stage = "COMMIT"
    <2>1. host'.stage = "done"
      BY <1>10, <1>15 DEF Following
    <2>2. QED
      BY <1>6, <1>10, <2>1 DEF SmoothInv, SmoothData, SmoothControl, ControlStages, Setup
  <1>16. QED
    BY <1>1, <1>12, <1>13, <1>14, <1>15 DEF ControlStages

LEMMA SmoothSendControl ==
  ASSUME TransferInv, SmoothInv, Smooth, SendControl
  PROVE  SmoothInv'
  <1>1. HostOK(host) /\ host \in HostRecord /\ LinkTypes /\ sync = <<>> /\ SmoothControl
        /\ host.stage # "GIVE_UP" /\ host.stage \in ControlStages /\ host.waits_for = "nothing"
    BY DEF TransferInv, HostOK, SmoothInv, SendControl
  <1>2. to_target = <<>> /\ to_host = <<>> /\ Ready(host.stage)
    BY <1>1 DEF SmoothControl
  <1>3. /\ to_target' = Append(to_target, ControlFrame(host.stage))
        /\ host' = [host EXCEPT !.waits_for = "control", !.attempt = @ + 1, !.tx_failed = FALSE]
        /\ UNCHANGED <<patient, to_host, sync, losses, target>>
    BY DEF SendControl
  <1>4. to_target' = <<ControlFrame(host.stage)>>
    BY <1>2, <1>3
  <1>5. /\ host'.stage = host.stage /\ host'.waits_for = "control"
        /\ host'.frames_since_sync = host.frames_since_sync
    BY <1>1, <1>3 DEF HostRecord
  <1>6. UNCHANGED <<mode, session, image_ready, ready_session_id>>
    BY <1>3 DEF target, vars
  <1>7. Ready(host.stage)'
    BY <1>2, <1>5, <1>6 DEF Ready
  <1>8. SmoothControl'
    BY <1>1, <1>2, <1>3, <1>4, <1>5, <1>7 DEF SmoothControl, Early
  <1>9. host'.stage # "DATA" /\ host'.stage # "failed"
    BY <1>1, <1>5 DEF ControlStages, Setup
  <1>10. QED
    BY <1>1, <1>3, <1>5, <1>8, <1>9 DEF SmoothInv, SmoothData

\* The report of the end of a window opens the next one, or ends the image.
LEMMA SmoothHearData ==
  ASSUME TransferInv, SmoothInv, Smooth, Hear, host.stage = "DATA"
  PROVE  SmoothInv'
  <1>1. HostOK(host) /\ host \in HostRecord /\ LinkTypes /\ sync = <<>> /\ SmoothData
        /\ Inv /\ TargetInv /\ ReportsWhole
    BY DEF TransferInv, HostOK, SmoothInv
  <1>2. to_host # <<>>
    <2>1. \E n \in 1 .. Len(to_host) : TRUE
      BY DEF Hear
    <2>2. QED
      BY <2>1
  <1>3. Reporting /\ session.active /\ \A i \in 1 .. session.received : session.crc[i] = Image[i]
    BY <1>1, <1>2 DEF SmoothData, Counting
  <1> DEFINE p == Reply("PROGRESS", SessionId, host.offset)
  <1>4. /\ to_host = <<p>> /\ to_target = <<>> /\ mode = "running" /\ session.frames = 0
        /\ session.received = host.offset /\ host.waits_for = "progress"
    BY <1>3 DEF Reporting
  <1>5. host.confirmed <= host.offset /\ host.latest <= host.offset /\ DataInv
    BY <1>4 DEF TransferInv, DataInv
  <1>6. host.offset \in Boundaries /\ host.offset \in Nat /\ host.confirmed \in Nat
        /\ host.latest \in Int
    BY <1>1, BoundaryFacts DEF HostRecord, None
  <1>7. p \in Statuses
    BY <1>6, Constants DEF Reply, Statuses, Verdicts
  <1>8. Awaited(p)
    BY <1>4, <1>5, <1>6 DEF Awaited, Reply, SetupOr, Setup
  <1>9. p.status = "PROGRESS"
    BY DEF Reply
  <1> HIDE DEF p
  <1>10. /\ UNCHANGED <<patient, to_target, losses, target>>
         /\ to_host' = <<>> /\ sync' = <<>>
         /\ \E l, b : /\ NotesOK(l, b)
                      /\ host' = [Answered(Notes(l, b), p) EXCEPT !.latest = None]
    BY <1>1, <1>4, <1>7, <1>8, HearOne
  <1>11. PICK l, b : /\ NotesOK(l, b)
                     /\ host' = [Answered(Notes(l, b), p) EXCEPT !.latest = None]
    BY <1>10
  <1> DEFINE h == Notes(l, b)
             g == Confirm([h EXCEPT !.timeouts = 0], h.latest)
  <1>12. l \in Int /\ l <= host.offset
    <2>1. \A q \in Reported : q.argument \in Boundaries /\ q.argument <= session.received
      BY <1>1, <1>5 DEF Reported, ReportsWhole, DataInv
    <2>2. l = host.latest \/ \E q \in Reported : l = q.argument
      BY <1>11 DEF NotesOK
    <2>3. QED
      BY <1>4, <1>5, <1>6, <2>1, <2>2, BoundaryFacts
  <1>13. /\ h \in HostRecord /\ h.latest = l /\ h.stage = "DATA" /\ h.waits_for = "progress"
         /\ h.offset = host.offset /\ h.confirmed = host.confirmed
    BY <1>1, <1>4, <1>11, NotesKeep
  <1> HIDE DEF h
  <1>14. /\ g.offset = host.offset /\ g.stage = "DATA" /\ g.confirmed <= host.offset
         /\ g.confirmed \in Int /\ g \in HostRecord
    <2> DEFINE e == [h EXCEPT !.timeouts = 0]
    <2>1. /\ e \in HostRecord /\ e.offset = host.offset /\ e.stage = "DATA"
          /\ e.confirmed = host.confirmed /\ h.latest = l
      BY <1>13 DEF HostRecord
    <2> HIDE DEF e
    <2>2. Larger(host.confirmed, l) \in {host.confirmed, l} /\ Larger(host.confirmed, l) <= host.offset
          /\ Larger(host.confirmed, l) \in Nat
      BY <1>5, <1>6, <1>12 DEF Larger
    <2>3. Larger(host.confirmed, l) \in Boundaries
      BY <1>1, <1>13, <2>2 DEF HostRecord, None
    <2>4. g = [e EXCEPT !.confirmed = Larger(@, l)]
      BY <1>13 DEF Confirm, e
    <2> HIDE DEF g
    <2>5. g.confirmed = Larger(host.confirmed, l) /\ g.offset = host.offset /\ g.stage = "DATA"
      BY <2>1, <2>4 DEF HostRecord
    <2>6. g \in HostRecord
      BY <2>1, <2>3, <2>4 DEF HostRecord
    <2>7. QED
      BY <2>2, <2>5, <2>6
  <1>15. Answered(h, p) = Loop(g)
    <2>1. Answered(h, p) = ProgressAnswered(h, p)
      BY <1>13 DEF Answered
    <2>2. ProgressAnswered(h, p) = Loop(IF g.confirmed > g.offset THEN GoTo(g, g.confirmed) ELSE g)
      BY <1>9 DEF ProgressAnswered
    <2>3. ~(g.confirmed > g.offset)
      BY <1>6, <1>14
    <2>4. QED
      BY <2>1, <2>2, <2>3
  <1> HIDE DEF g
  <1>16. host' = [Loop(g) EXCEPT !.latest = None]
    BY <1>11, <1>15 DEF h
  <1>17. UNCHANGED <<mode, session, image_ready, ready_session_id>> /\ to_target' = <<>>
    BY <1>4, <1>10 DEF target, vars
  <1>18. CASE host.offset < Size
    <2>1. /\ host'.stage = "DATA" /\ host'.waits_for = "nothing" /\ host'.offset = host.offset
          /\ host'.frames_since_sync = 0
      BY <1>13, <1>14, <1>16, <1>18 DEF Loop, HostRecord
    <2>2. PICK q \in Nat : Sequel(q)
      BY <1>1 DEF SmoothData
    <2>3. InHand = 0 /\ InHand' = 0 /\ mode' = "running"
      BY <1>4, <1>17 DEF InHand
    <2>4. Sequel(q)'
      BY <1>4, <1>17, <2>1, <2>2, <2>3 DEF Sequel
    <2>5. ProgressInterval \in Nat \ {0}
      BY LayoutFacts
    <2>6. Counting'
      <3>1. session'.frames + InHand' + Len(to_target') = host'.frames_since_sync
        BY <1>4, <1>17, <2>1, <2>3
      <3>2. QED
        BY <1>4, <1>10, <1>17, <1>18, <2>1, <2>5, <3>1 DEF Counting
    <2>7. SmoothData'
      BY <1>3, <1>17, <2>1, <2>3, <2>4, <2>5, <2>6 DEF SmoothData
    <2>8. QED
      BY <1>10, <2>1, <2>7 DEF SmoothInv, SmoothControl, ControlStages, Setup
  <1>19. CASE ~(host.offset < Size)
    <2>1. host'.stage = "FINISH" /\ host'.waits_for = "nothing"
      BY <1>13, <1>14, <1>16, <1>19 DEF Loop, GoToStage, HostRecord
    <2>2. session.received = Size
      BY <1>4, <1>6, <1>19, BoundaryFacts, Constants
    <2>3. session.crc = Image
      <3>1. session.crc \in Seq(Bytes) /\ Len(session.crc) = session.received
        BY <1>1, <1>3 DEF Inv, TypeOK, Sessions, StagingConsistent, Counters
      <3>2. Image \in Seq(Bytes) /\ Len(Image) = Size
        BY Constants DEF Size
      <3>3. QED
        BY <1>3, <2>2, <3>1, <3>2
    <2>4. Ready(host.stage)'
      BY <1>3, <1>4, <1>17, <2>1, <2>3 DEF Ready, Setup
    <2>5. SmoothControl'
      BY <1>10, <1>17, <2>1, <2>4 DEF SmoothControl, Early, Setup
    <2>6. QED
      BY <1>10, <2>1, <2>5 DEF SmoothInv, SmoothData
  <1>20. QED
    BY <1>18, <1>19

LEMMA SmoothHear ==
  ASSUME TransferInv, SmoothInv, Smooth, Hear
  PROVE  SmoothInv'
  <1>1. HostOK(host)
    BY DEF TransferInv
  <1>2. host.stage \notin Ended
    BY <1>1 DEF HostOK, Hear
  <1>3. host.stage \in ControlStages \cup {"DATA"}
    BY <1>1, <1>2 DEF HostOK, HostRecord, Stages
  <1>4. QED
    BY <1>3, SmoothHearControl, SmoothHearData

\* Each frame sent is the one after those on the link.
LEMMA SmoothSendData ==
  ASSUME TransferInv, SmoothInv, Smooth, SendData
  PROVE  SmoothInv'
  <1>1. HostOK(host) /\ host \in HostRecord /\ LinkTypes /\ sync = <<>> /\ SmoothData /\ Inv
        /\ host.stage = "DATA" /\ host.waits_for = "nothing" /\ host.offset < Size
    BY DEF TransferInv, HostOK, SmoothInv, SendData
  <1>2. Counting /\ session.active
    BY <1>1 DEF SmoothData, Reporting
  <1>3. PICK q \in Nat : Sequel(q)
    BY <1>1 DEF SmoothData
  <1> DEFINE n == Len(to_target)
             k == q + InHand + n
             a == k * FrameBytes
             frames == host.frames_since_sync + 1
             offset == Smaller(host.offset + FrameBytes, Size)
             waits == IF frames >= ProgressInterval \/ offset >= Size THEN "progress"
                                                                     ELSE "nothing"
             f == [command |-> "DATA", session_id |-> SessionId,
                   sequence |-> host.sequence, data |-> Chunk(host.offset)]
  <1>4. /\ to_target' = Append(to_target, f)
        /\ host' = [host EXCEPT !.offset = offset,
                                !.sequence = (host.sequence + 1) % SequenceModulus,
                                !.frames_since_sync = frames, !.waits_for = waits]
        /\ UNCHANGED <<patient, to_host, sync, losses, target>>
    BY DEF SendData
  <1>5. n \in Nat /\ InHand \in {0, 1} /\ k \in Nat
    BY <1>1 DEF LinkTypes, InHand
  <1>6. Size \in Nat \ {0} /\ FrameBytes \in Nat \ {0} /\ ProgressInterval \in Nat \ {0}
    BY Constants, LayoutFacts
  <1>7. a \in Nat /\ k <= a /\ (k + 1) * FrameBytes = a + FrameBytes
    BY <1>5, <1>6, ProductBounds
  <1>8. host.offset = Smaller(a, Size)
    BY <1>3 DEF Sequel
  <1> HIDE DEF k, n
  <1>9. host.offset = a /\ a < Size /\ k \in ImageFrames
    <2>1. host.offset = a /\ a < Size
      <3> HIDE DEF a
      <3>1. QED
        BY <1>1, <1>6, <1>7, <1>8 DEF Smaller
    <2>2. k \in 0 .. Size - 1 /\ k * FrameBytes < Size
      <3>1. k * FrameBytes < Size
        BY <2>1
      <3> HIDE DEF a
      <3>2. k <= Size - 1
        BY <1>5, <1>6, <1>7, <2>1
      <3>3. QED
        BY <1>5, <1>6, <3>1, <3>2
    <2>3. QED
      BY <2>1, <2>2 DEF ImageFrames
  <1>10. f = ImageFrame(k)
    <2>1. host.sequence = k % SequenceModulus
      BY <1>1, <1>9 DEF HostOK, InStep
    <2>2. QED
      BY <1>9, <2>1 DEF ImageFrame
  <1> HIDE DEF f
  <1>11. offset = Smaller((k + 1) * FrameBytes, Size)
    BY <1>7, <1>9
  <1>12. f \in ControlFrames \cup DataFrames
    BY <1>9, <1>10 DEF DataFrames
  <1>13. /\ Len(to_target') = n + 1 /\ DOMAIN to_target = 1 .. n
         /\ DOMAIN to_target' = 1 .. n + 1
         /\ \A i \in DOMAIN to_target : to_target'[i] = to_target[i]
         /\ to_target'[n + 1] = f
    BY <1>1, <1>4, <1>12, Sending DEF n
  <1> HIDE DEF a, offset, frames, waits
  <1>14. /\ host'.stage = "DATA" /\ host'.waits_for = waits /\ host'.offset = offset
         /\ host'.frames_since_sync = frames
    BY <1>1, <1>4 DEF HostRecord
  <1>15. UNCHANGED <<mode, session, rx_data, image_ready, ready_session_id>> /\ InHand' = InHand
    BY <1>4 DEF target, vars, InHand
  <1>16. Sequel(q)'
    <2>1. ASSUME NEW i \in 1 .. n + 1
          PROVE  \E j \in ImageFrames : j = q + InHand + i - 1 /\ to_target'[i] = ImageFrame(j)
      <3>1. CASE i \in 1 .. n
        BY <1>3, <1>13, <3>1 DEF Sequel
      <3>2. CASE i = n + 1
        <4>1. k = q + InHand + i - 1
          BY <1>5, <3>2 DEF k
        <4>2. QED
          BY <1>9, <1>10, <1>13, <3>2, <4>1
      <3>3. QED
        BY <1>5, <3>1, <3>2
    <2>2. \A i \in DOMAIN to_target' : \E j \in ImageFrames :
            j = q + InHand' + i - 1 /\ to_target'[i] = ImageFrame(j)
      BY <1>13, <1>15, <2>1
    <2>3. q + InHand' + Len(to_target') = k + 1
      BY <1>5, <1>13, <1>15 DEF k
    <2>4. host'.offset = Smaller((q + InHand' + Len(to_target')) * FrameBytes, Size)
      BY <1>11, <1>14, <2>3
    <2>5. QED
      BY <1>3, <1>15, <2>2, <2>4 DEF Sequel
  <1>17. frames <= ProgressInterval /\ Counting'
    <2>1. /\ session.frames + InHand + n = host.frames_since_sync
          /\ host.frames_since_sync < ProgressInterval /\ to_host = <<>>
          /\ mode = "running" => session.received < Size
      BY <1>1, <1>2 DEF Counting, n
    <2>2. session.frames \in Nat /\ host.frames_since_sync \in Nat
      BY <1>1, LayoutFacts DEF Inv, TypeOK, Sessions, HostRecord
    <2>3. session'.frames + InHand' + Len(to_target') = frames
      <3>1. session'.frames + InHand' + Len(to_target') = session.frames + InHand + (n + 1)
        BY <1>13, <1>15
      <3> DEFINE s == session.frames
                 i == InHand
      <3>2. s \in Nat /\ i \in Nat /\ n \in Nat /\ s + i + n = host.frames_since_sync
        BY <1>5, <2>1, <2>2
      <3> HIDE DEF s, i
      <3>3. s + i + (n + 1) = frames
        BY <2>2, <3>2 DEF frames
      <3>4. QED
        BY <3>1, <3>3 DEF s, i
    <2>4. frames <= ProgressInterval /\ frames \in Nat
      BY <1>6, <2>1, <2>2 DEF frames
    <2>5. offset <= Size /\ offset \in Nat
      BY <1>1, <1>6, <1>7, <1>9 DEF offset, Smaller
    <2>6. waits = "nothing" => frames < ProgressInterval
      BY <1>6, <2>4 DEF waits
    <2>7. waits = "progress" => frames = ProgressInterval \/ offset = Size
      BY <1>6, <2>4, <2>5 DEF waits
    <2>8. QED
      BY <1>4, <1>14, <1>15, <2>1, <2>3, <2>4, <2>6, <2>7 DEF Counting
  <1>18. SmoothData'
    BY <1>1, <1>14, <1>15, <1>16, <1>17 DEF SmoothData
  <1>19. waits \in {"nothing", "progress"}
    BY DEF waits
  <1>20. QED
    BY <1>1, <1>4, <1>14, <1>18, <1>19 DEF SmoothInv, SmoothControl, ControlStages, Setup

-----------------------------------------------------------------------------
(* The target, without a loss *)

\* The target is ready for the command, takes it and answers.
LEMMA ControlHandled ==
  ASSUME TransferInv, Fits, NEW stage \in ControlStages, stage # "GIVE_UP",
         Ready(stage), Handle(ControlFrame(stage))
  PROVE  replies' = <<Answer(stage)>> /\ Reached(stage)'
  <1> DEFINE f == ControlFrame(stage)
  <1>1. Inv /\ TargetInv /\ mode = "running"
    BY DEF TransferInv, Ready
  <1>2. CASE stage \in Setup
    <2>1. /\ f.command \in {"ABORT", "REBOOT"} /\ f.session_id = SetupSessionId
          /\ ~session.active
      BY <1>2, ControlFrameFacts DEF Ready
    <2>2. Abort(SetupSessionId) \/ RebootToBootloader(SetupSessionId)
      BY <2>1 DEF Handle
    <2>3. /\ session' = NoSession /\ mode' = "running"
          /\ replies' = <<Reply("ACK", SetupSessionId, 0)>>
      BY <1>1, <2>1, <2>2 DEF Abort, RebootToBootloader, RefuseActive, RestartInto
    <2>4. ~NoSession.active
      BY DEF NoSession
    <2>5. QED
      BY <1>2, <2>3, <2>4 DEF Answer, Reached, Setup
  <1>3. CASE stage = "BEGIN"
    <2>1. f.command = "BEGIN" /\ f.session_id = SessionId
      BY <1>3, ControlFrameFacts
    <2>2. Begin(SessionId, Size)
      BY <2>1 DEF Handle
    <2>3. BeginError(Size) = "NONE"
      <3>1. Size \in Nat \ {0} /\ StagingSize \in Nat /\ StagingOffset \in Nat
        BY Constants, LayoutFacts
      <3>2. QED
        BY <3>1 DEF Fits, BeginError
    <2>4. /\ session' = [NoSession EXCEPT !.active = TRUE, !.id = SessionId, !.size = Size]
          /\ replies' = <<Reply("ACK", SessionId, Size)>> /\ mode' = "running"
      BY <1>1, <2>2, <2>3 DEF Begin, BeginAccepted
    <2>5. session'.active
      BY <2>4 DEF NoSession
    <2>6. session'.received = 0 /\ session'.sequence = 0 /\ session'.frames = 0
      BY <2>4 DEF NoSession
    <2>7. QED
      BY <1>3, <2>4, <2>5, <2>6 DEF Answer, Reached, Setup
  <1>4. CASE stage = "FINISH"
    <2>1. f.command = "FINISH" /\ f.session_id = SessionId
      BY <1>4, ControlFrameFacts
    <2>2. Finish(SessionId, Image)
      BY <2>1 DEF Handle
    <2>3. session.active /\ session.crc = Image
      BY <1>4 DEF Ready
    <2>4. session.id = SessionId /\ session.size = Size
      BY <1>1, <2>3 DEF TargetInv
    <2>5. session.received = session.size /\ session.programmed = session.size
      BY <1>1, <2>3, <2>4 DEF Inv, StagingConsistent, Counters, InFlash, Complete, Size
    <2>6. FinishError(SessionId, Image) = "NONE"
      BY <2>3, <2>4, <2>5 DEF FinishError
    <2>7. FinishAccepted(SessionId, Image)
      BY <2>2, <2>6 DEF Finish
    <2>8. QED
      BY <1>1, <1>4, <2>4, <2>7 DEF FinishAccepted, Answer, Reached, Ready, Setup
  <1>5. CASE stage = "COMMIT"
    <2>1. f.command = "COMMIT" /\ f.session_id = SessionId
      BY <1>5, ControlFrameFacts
    <2>2. Commit(SessionId)
      BY <2>1 DEF Handle
    <2>3. image_ready /\ ready_session_id = SessionId
      BY <1>5 DEF Ready
    <2>4. session.size = Size
      BY <1>1, <2>3 DEF Inv, ReadyImageStaged, TargetInv, Size
    <2>5. replies' = <<Reply("COMMITTING", SessionId, session.size)>>
      BY <2>2, <2>3 DEF Commit
    <2>6. QED
      BY <1>5, <2>4, <2>5 DEF Answer, Reached, Setup
  <1>6. QED
    BY <1>2, <1>3, <1>4, <1>5 DEF ControlStages

LEMMA SmoothDeliverControl ==
  ASSUME TransferInv, Fits, SmoothInv, Smooth, Deliver, host.stage \in ControlStages
  PROVE  SmoothInv'
  <1>1. HostOK(host) /\ LinkTypes /\ sync = <<>> /\ SmoothControl /\ host.stage # "GIVE_UP"
    BY DEF TransferInv, SmoothInv
  <1>2. /\ to_target # <<>> /\ Handle(Head(to_target)) /\ to_target' = Tail(to_target)
        /\ to_host' = Queued(replies') /\ UNCHANGED <<patient, host, sync, losses>>
    BY DEF Deliver
  <1>3. /\ host.waits_for = "control" /\ to_target = <<ControlFrame(host.stage)>>
        /\ to_host = <<>> /\ Ready(host.stage)
    BY <1>1, <1>2 DEF SmoothControl, HostOK
  <1>4. Head(to_target) = ControlFrame(host.stage) /\ to_target' = <<>>
    BY <1>2, <1>3
  <1>5. replies' = <<Answer(host.stage)>> /\ Reached(host.stage)'
    <2>1. PICK s : s = host.stage
      OBVIOUS
    <2>2. s \in ControlStages /\ s # "GIVE_UP" /\ Ready(s) /\ Handle(ControlFrame(s))
      BY <1>1, <1>2, <1>3, <1>4, <2>1
    <2>3. replies' = <<Answer(s)>> /\ Reached(s)'
      BY <2>2, ControlHandled
    <2>4. host'.stage = s
      BY <1>2, <2>1
    <2>5. QED
      BY <2>1, <2>3, <2>4
  <1>6. Answer(host.stage) \in Statuses
    BY <1>1, <1>3, AnswerFacts
  <1>7. to_host' = <<Answer(host.stage)>>
    BY <1>2, <1>3, <1>5, <1>6, QueuedOne
  <1>8. SmoothControl'
    BY <1>1, <1>2, <1>3, <1>4, <1>5, <1>7 DEF SmoothControl, Early
  <1>9. host'.stage # "DATA"
    BY <1>2 DEF ControlStages, Setup
  <1>10. QED
    BY <1>1, <1>2, <1>8, <1>9 DEF SmoothInv, SmoothData

\* The frame that arrives is the one that is due.
LEMMA SmoothDeliverData ==
  ASSUME TransferInv, SmoothInv, Smooth, Deliver, host.stage = "DATA"
  PROVE  SmoothInv'
  <1>1. HostOK(host) /\ LinkTypes /\ sync = <<>> /\ SmoothData /\ Inv /\ TargetInv
    BY DEF TransferInv, SmoothInv
  <1>2. /\ to_target # <<>> /\ Handle(Head(to_target)) /\ to_target' = Tail(to_target)
        /\ to_host' = Queued(replies') /\ UNCHANGED <<patient, host, sync, losses>>
    BY DEF Deliver
  <1>3. Counting /\ session.active /\ session.id = SessionId
    BY <1>1, <1>2 DEF SmoothData, Reporting, TargetInv
  <1>4. PICK q \in Nat : Sequel(q)
    BY <1>1 DEF SmoothData
  <1>5. /\ Head(to_target) \in ControlFrames \cup DataFrames
        /\ Head(to_target) = to_target[1] /\ 1 \in DOMAIN to_target
        /\ \A i \in DOMAIN to_target' : /\ i + 1 \in DOMAIN to_target /\ i \in Nat \ {0}
                                        /\ to_target'[i] = to_target[i + 1]
        /\ Len(to_target) \in Nat /\ Len(to_target') = Len(to_target) - 1
    BY <1>1, <1>2, Taking
  <1>6. mode = "running" /\ InHand = 0
    BY <1>1, <1>2, <1>5, HandleCases DEF InHand
  <1>7. q \in ImageFrames /\ Head(to_target) = ImageFrame(q)
    <2>1. \E k \in ImageFrames : k = q + 0 + 1 - 1 /\ to_target[1] = ImageFrame(k)
      BY <1>4, <1>5, <1>6 DEF Sequel
    <2>2. q + 0 + 1 - 1 = q
      OBVIOUS
    <2>3. QED
      BY <1>5, <2>1, <2>2
  <1>8. Data(SessionId, q % SequenceModulus, Chunk(q * FrameBytes))
    <2> DEFINE f == Head(to_target)
    <2>1. /\ f.command = "DATA" /\ f.session_id = SessionId
          /\ f.sequence = q % SequenceModulus /\ f.data = Chunk(q * FrameBytes)
      BY <1>7 DEF ImageFrame
    <2>2. Handle(f)
      BY <1>2
    <2> HIDE DEF f
    <2>3. QED
      BY <2>1, <2>2 DEF Handle
  <1>9. session.sequence = q % SequenceModulus
    BY <1>4 DEF Sequel
  <1>10. DataError(SessionId, q % SequenceModulus) = "NONE"
    BY <1>3, <1>9 DEF DataError
  <1>11. /\ mode' = "staging" /\ rx_data' = Chunk(q * FrameBytes) /\ replies' = <<>>
         /\ session' = session
    BY <1>8, <1>10 DEF Data
  <1>12. to_host' = <<>>
    <2>1. Queued(<<>>) = <<>>
      BY <1>3, QueuedOne DEF Counting
    <2>2. QED
      BY <1>2, <1>11, <2>1
  <1>13. InHand' = 1
    BY <1>11 DEF InHand
  <1>14. Sequel(q)'
    <2> DEFINE a == q * FrameBytes
    <2>1. a \in Nat /\ a < Size /\ FrameBytes \in Nat \ {0}
      BY <1>7, Places, Constants
    <2>2. Len(rx_data') = FrameBytes
      BY <1>7, <1>11, ChunkFacts
    <2>3. session.received = a
      <3>1. session.received = Smaller(a, Size)
        BY <1>4, <1>6 DEF Sequel
      <3> HIDE DEF a
      <3>2. QED
        BY <2>1, <3>1, Constants DEF Smaller
    <2>4. session'.sequence = q % SequenceModulus /\ mode' # "running"
      BY <1>9, <1>11
    <2>5. \E t \in 0 .. FrameBytes :
            /\ session'.received = q * FrameBytes + t
            /\ Len(rx_data') = FrameBytes - t
            /\ \A m \in 1 .. FrameBytes - t : rx_data'[m] = Chunk(q * FrameBytes)[t + m]
      <3>1. 0 \in 0 .. FrameBytes /\ a + 0 = a /\ FrameBytes - 0 = FrameBytes
        BY <2>1
      <3>2. session'.received = a + 0
        BY <1>11, <2>3, <3>1
      <3> HIDE DEF a
      <3>3. \A m \in 1 .. FrameBytes - 0 : 0 + m = m
        BY <2>1
      <3>4. \A m \in 1 .. FrameBytes - 0 : rx_data'[m] = Chunk(q * FrameBytes)[0 + m]
        BY <1>11, <3>3
      <3>5. QED
        BY <2>2, <3>1, <3>2, <3>4 DEF a
    <2> HIDE DEF a
    <2>6. \A i \in DOMAIN to_target' : \E k \in ImageFrames :
            k = q + InHand' + i - 1 /\ to_target'[i] = ImageFrame(k)
      <3> TAKE i \in DOMAIN to_target'
      <3>1. i + 1 \in DOMAIN to_target /\ i \in Nat \ {0} /\ to_target'[i] = to_target[i + 1]
        BY <1>5
      <3>2. PICK k \in ImageFrames : k = q + 0 + (i + 1) - 1 /\ to_target[i + 1] = ImageFrame(k)
        BY <1>4, <1>6, <3>1 DEF Sequel
      <3>3. k = q + 1 + i - 1
        BY <3>1, <3>2
      <3>4. QED
        BY <1>13, <3>1, <3>2, <3>3
    <2>7. q + InHand' + Len(to_target') = q + InHand + Len(to_target)
      BY <1>5, <1>6, <1>13
    <2>8. host'.offset = Smaller((q + InHand' + Len(to_target')) * FrameBytes, Size)
      BY <1>2, <1>4, <2>7 DEF Sequel
    <2>9. QED
      BY <1>11, <2>4, <2>5, <2>6, <2>8 DEF Sequel
  <1>15. Counting'
    <2>1. session.frames \in Nat
      BY <1>1, LayoutFacts DEF Inv, TypeOK, Sessions
    <2>2. session.frames + InHand + Len(to_target) = host.frames_since_sync
      BY <1>3 DEF Counting
    <2>3. session'.frames + InHand' + Len(to_target') = host'.frames_since_sync
      BY <1>2, <1>5, <1>6, <1>11, <1>13, <2>1, <2>2
    <2>4. mode' # "running"
      BY <1>11
    <2>5. QED
      BY <1>2, <1>3, <1>12, <2>3, <2>4 DEF Counting
  <1>16. SmoothData'
    BY <1>1, <1>2, <1>3, <1>11, <1>14, <1>15 DEF SmoothData
  <1>17. host'.stage \notin ControlStages
    BY <1>2 DEF ControlStages, Setup
  <1>18. host'.stage = "DATA" /\ host'.waits_for = host.waits_for /\ sync' = <<>>
    BY <1>1, <1>2
  <1>19. QED
    BY <1>16, <1>17, <1>18 DEF SmoothInv, SmoothControl

\* Only frames of the image are staged.
LEMMA StagingIsData ==
  ASSUME TransferInv, SmoothInv, Smooth, mode = "staging"
  PROVE  /\ host.stage = "DATA" /\ HostOK(host) /\ LinkTypes /\ sync = <<>> /\ SmoothData
         /\ Inv /\ TargetInv /\ Counting
         /\ session.active /\ session.id = SessionId /\ session.size = Size
  <1>1. HostOK(host) /\ LinkTypes /\ sync = <<>> /\ SmoothControl /\ SmoothData /\ Inv /\ TargetInv
        /\ host.stage \notin {"GIVE_UP", "failed"}
    BY DEF TransferInv, SmoothInv
  <1>2. session.active /\ session.id = SessionId /\ session.size = Size
    BY <1>1 DEF Inv, StagingConsistent, TargetInv
  <1>3. ~Installing
    BY <1>2 DEF Installing
  <1>4. host.stage # "done"
    BY <1>3 DEF TransferInv, CommitInv
  <1>5. host.stage \notin ControlStages
    <2> SUFFICES ASSUME host.stage \in ControlStages PROVE FALSE
      OBVIOUS
    <2>1. /\ to_host = <<Answer(host.stage)>> /\ Reached(host.stage)
          /\ host.waits_for = "control"
      BY <1>1 DEF SmoothControl, Ready, HostOK
    <2>2. host.stage = "COMMIT"
      BY <1>1, <2>1 DEF Reached, Ready, ControlStages
    <2>3. Answer("COMMIT") = Reply("COMMITTING", SessionId, Size)
      BY DEF Answer, Setup
    <2>4. Answer("COMMIT").status = "COMMITTING"
      BY <2>3 DEF Reply
    <2>5. 1 \in DOMAIN to_host /\ to_host[1] = Answer("COMMIT")
      BY <2>1, <2>2
    <2>6. \E p \in Heard : p.status = "COMMITTING"
      BY <2>4, <2>5 DEF Heard, Items
    <2>7. QED
      BY <1>3, <2>2, <2>6 DEF TransferInv, CommitInv
  <1>6. host.stage = "DATA"
    BY <1>1, <1>4, <1>5 DEF HostOK, HostRecord, Stages, Ended
  <1>7. Counting
    BY <1>1, <1>6 DEF SmoothData, Reporting
  <1>8. QED
    BY <1>1, <1>2, <1>6, <1>7

LEMMA SmoothStageByte ==
  ASSUME TransferInv, SmoothInv, Smooth, StageByte, to_host' = Queued(replies'),
         UNCHANGED <<patient, host, to_target, sync, losses>>
  PROVE  SmoothInv'
  <1>1. /\ Staging /\ mode = "staging" /\ mode' = "staging"
        /\ session'.active /\ session'.sequence = session.sequence
        /\ session'.frames = session.frames
        /\ session'.received = session.received + 1
        /\ session'.crc = Append(session.crc, Head(rx_data))
        /\ rx_data' = Tail(rx_data) /\ replies' = replies
    BY ByteStaged DEF TransferInv
  <1>2. /\ host.stage = "DATA" /\ HostOK(host) /\ LinkTypes /\ sync = <<>> /\ SmoothData
        /\ Inv /\ TargetInv /\ Counting /\ session.size = Size
    BY <1>1, StagingIsData
  <1>3. to_host' = <<>>
    <2>1. replies = <<>>
      BY <1>1, <1>2 DEF TargetInv
    <2>2. Queued(<<>>) = <<>>
      BY <1>2, QueuedOne DEF Counting
    <2>3. QED
      BY <1>1, <2>1, <2>2
  <1>4. PICK q \in Nat : Sequel(q)
    BY <1>2 DEF SmoothData
  <1>5. PICK t \in 0 .. FrameBytes :
          /\ session.received = q * FrameBytes + t
          /\ Len(rx_data) = FrameBytes - t
          /\ \A m \in 1 .. FrameBytes - t : rx_data[m] = Chunk(q * FrameBytes)[t + m]
    BY <1>1, <1>4 DEF Sequel
  <1> DEFINE a == q * FrameBytes
             r == session.received
  <1>6. /\ FrameBytes \in Nat \ {0} /\ Size \in Nat \ {0} /\ a \in Nat
        /\ Image \in Seq(Bytes) /\ Size = Len(Image)
    <2>1. FrameBytes \in Nat \ {0} /\ Size \in Nat \ {0} /\ Image \in Seq(Bytes) /\ Size = Len(Image)
      BY Constants DEF Size
    <2>2. QED
      BY <2>1, ProductBounds
  <1>7. /\ r \in Nat /\ r < Size /\ Len(session.crc) = r /\ session.crc \in Seq(Bytes)
        /\ rx_data # <<>> /\ Head(rx_data) \in Bytes
    BY <1>1, <1>2, StagingFacts
  <1>8. rx_data \in Seq(Bytes)
    BY <1>2 DEF Inv, TypeOK
  <1> HIDE DEF a, r
  <1>9. r = a + t /\ t \in 0 .. FrameBytes /\ Len(rx_data) = FrameBytes - t
    BY <1>5 DEF a, r
  <1>10. /\ Head(rx_data) = rx_data[1] /\ Len(rx_data) \in Nat \ {0}
         /\ Len(Tail(rx_data)) = Len(rx_data) - 1
         /\ \A m \in 1 .. Len(rx_data) - 1 : Tail(rx_data)[m] = rx_data[m + 1]
    BY <1>7, <1>8
  <1>11. t < FrameBytes /\ t + 1 \in 0 .. FrameBytes /\ a + t + 1 <= Size
    BY <1>6, <1>7, <1>9, <1>10
  <1>12. Head(rx_data) = Image[r + 1]
    <2>1. 1 \in 1 .. FrameBytes - t /\ t + 1 \in 1 .. FrameBytes
      BY <1>6, <1>9, <1>11
    <2>2. Head(rx_data) = Chunk(a)[t + 1]
      BY <1>5, <1>10, <2>1 DEF a
    <2>3. Chunk(a)[t + 1] = IF a + (t + 1) <= Size THEN Image[a + (t + 1)] ELSE Erased
      BY <2>1 DEF Chunk
    <2>4. a + (t + 1) <= Size /\ a + (t + 1) = r + 1
      BY <1>6, <1>9, <1>11
    <2>5. QED
      BY <2>2, <2>3, <2>4
  <1>13. \A i \in 1 .. session'.received : session'.crc[i] = Image[i]
    <2> SUFFICES ASSUME NEW i \in 1 .. r + 1
                 PROVE  Append(session.crc, Head(rx_data))[i] = Image[i]
      BY <1>1 DEF r
    <2>1. /\ \A k \in 1 .. r : Append(session.crc, Head(rx_data))[k] = session.crc[k]
          /\ Append(session.crc, Head(rx_data))[r + 1] = Head(rx_data)
      BY <1>7, AppendFacts
    <2>2. \A k \in 1 .. r : session.crc[k] = Image[k]
      BY <1>2 DEF SmoothData, r
    <2>3. i \in 1 .. r \/ i = r + 1
      BY <1>7
    <2>4. QED
      BY <1>12, <2>1, <2>2, <2>3
  <1>14. InHand = 1 /\ InHand' = 1
    BY <1>1 DEF InHand
  <1>15. Sequel(q)'
    <2>1. session'.received = q * FrameBytes + (t + 1)
      <3>1. session'.received = r + 1
        BY <1>1 DEF r
      <3>2. r + 1 = a + (t + 1)
        BY <1>6, <1>9
      <3>3. QED
        BY <3>1, <3>2 DEF a
    <2>2. Len(rx_data') = FrameBytes - (t + 1)
      BY <1>1, <1>6, <1>9, <1>10
    <2>3. \A m \in 1 .. FrameBytes - (t + 1) : rx_data'[m] = Chunk(q * FrameBytes)[(t + 1) + m]
      <3> TAKE m \in 1 .. FrameBytes - (t + 1)
      <3>1. /\ m \in 1 .. Len(rx_data) - 1 /\ m + 1 \in 1 .. FrameBytes - t
            /\ t + (m + 1) = (t + 1) + m
        BY <1>6, <1>9
      <3>2. rx_data'[m] = rx_data[m + 1]
        BY <1>1, <1>10, <3>1
      <3>3. rx_data[m + 1] = Chunk(q * FrameBytes)[t + (m + 1)]
        BY <1>5, <3>1
      <3>4. QED
        BY <3>1, <3>2, <3>3
    <2>4. \E u \in 0 .. FrameBytes :
            /\ session'.received = q * FrameBytes + u
            /\ Len(rx_data') = FrameBytes - u
            /\ \A m \in 1 .. FrameBytes - u : rx_data'[m] = Chunk(q * FrameBytes)[u + m]
      BY <1>11, <2>1, <2>2, <2>3
    <2>5. QED
      BY <1>1, <1>4, <1>14, <2>4 DEF Sequel
  <1>16. Counting'
    BY <1>1, <1>2, <1>3, <1>14 DEF Counting
  <1>17. SmoothData'
    BY <1>1, <1>2, <1>13, <1>15, <1>16 DEF SmoothData
  <1>18. host'.stage \notin ControlStages
    BY <1>2 DEF ControlStages, Setup
  <1>19. QED
    BY <1>2, <1>17, <1>18 DEF SmoothInv, SmoothControl

\* The report of the end of a window finds the host waiting for it.
LEMMA SmoothStageDone ==
  ASSUME TransferInv, SmoothInv, Smooth, StageDone, to_host' = Queued(replies'),
         UNCHANGED <<patient, host, to_target, sync, losses>>
  PROVE  SmoothInv'
  <1> DEFINE report == \/ session.frames + 1 >= ProgressInterval
                       \/ session.received = session.size
             sequence == (session.sequence + 1) % SequenceModulus
             frames == IF report THEN 0 ELSE session.frames + 1
  <1>1. /\ mode = "staging" /\ mode' = "running" /\ ~Staging
        /\ session' = [session EXCEPT !.sequence = sequence, !.frames = frames]
        /\ replies' = IF report THEN <<Progress>> ELSE <<>>
    BY DEF StageDone
  <1>2. /\ host.stage = "DATA" /\ HostOK(host) /\ LinkTypes /\ sync = <<>> /\ SmoothData
        /\ Inv /\ Counting /\ session.active /\ session.id = SessionId /\ session.size = Size
    BY <1>1, StagingIsData
  <1>3. session \in Sessions /\ session.received \in Nat /\ session.received <= Size
        /\ session.frames \in Nat
    BY <1>2, ReceivedNat, LayoutFacts DEF Inv, StagingConsistent, Counters, Sessions
  <1>4. /\ session'.active /\ session'.received = session.received
        /\ session'.crc = session.crc /\ session'.sequence = sequence
        /\ session'.frames = frames
    BY <1>1, <1>2, <1>3 DEF Sessions
  <1>5. PICK q \in Nat : Sequel(q)
    BY <1>2 DEF SmoothData
  <1>6. PICK t \in 0 .. FrameBytes :
          session.received = q * FrameBytes + t /\ Len(rx_data) = FrameBytes - t
    BY <1>1, <1>5 DEF Sequel
  <1> DEFINE a == q * FrameBytes
             b == (q + 1) * FrameBytes
             n == Len(to_target)
  <1>7. /\ FrameBytes \in Nat \ {0} /\ Size \in Nat \ {0} /\ ProgressInterval \in Nat \ {0}
        /\ a \in Nat /\ b = a + FrameBytes /\ b \in Nat /\ n \in Nat
    <2>1. FrameBytes \in Nat \ {0} /\ Size \in Nat \ {0} /\ ProgressInterval \in Nat \ {0}
      BY Constants, LayoutFacts
    <2>2. a \in Nat /\ b = a + FrameBytes
      BY <2>1, ProductBounds
    <2>3. n \in Nat
      BY <1>2 DEF LinkTypes
    <2> HIDE DEF a, b, n
    <2>4. QED
      BY <2>1, <2>2, <2>3
  <1>8. session.received = a + t
    BY <1>6
  <1>9. rx_data = <<>> \/ session.received = Size
    BY <1>1, <1>2, <1>3, <1>7 DEF Staging
  <1> HIDE DEF a, b
  <1>10. session.received = Smaller(b, Size)
    <2>1. rx_data \in Seq(Bytes)
      BY <1>2 DEF Inv, TypeOK
    <2>2. CASE rx_data = <<>>
      <3>1. t = FrameBytes
        BY <1>6, <1>7, <2>2
      <3>2. QED
        BY <1>3, <1>7, <1>8, <3>1 DEF Smaller
    <2>3. CASE session.received = Size
      BY <1>6, <1>7, <1>8, <2>3 DEF Smaller
    <2>4. QED
      BY <1>9, <2>2, <2>3
  <1>11. InHand = 1 /\ InHand' = 0
    BY <1>1 DEF InHand
  <1> HIDE DEF frames, sequence, report
  <1>12. Sequel(q + 1)'
    <2>1. sequence = (q + 1) % SequenceModulus
      <3>1. session.sequence = q % SequenceModulus
        BY <1>5 DEF Sequel
      <3>2. QED
        BY <3>1, Constants, NextRemainder DEF sequence
    <2>2. mode' # "staging" /\ session'.received = Smaller((q + 1) * FrameBytes, Size)
      BY <1>1, <1>4, <1>10 DEF b
    <2>3. \A i \in DOMAIN to_target' : \E k \in ImageFrames :
            k = (q + 1) + InHand' + i - 1 /\ to_target'[i] = ImageFrame(k)
      <3> TAKE i \in DOMAIN to_target'
      <3>1. i \in DOMAIN to_target /\ to_target'[i] = to_target[i] /\ i \in Nat
        BY <1>2 DEF LinkTypes
      <3>2. PICK k \in ImageFrames : k = q + 1 + i - 1 /\ to_target[i] = ImageFrame(k)
        BY <1>5, <1>11, <3>1 DEF Sequel
      <3>3. k = (q + 1) + 0 + i - 1
        BY <3>1, <3>2
      <3>4. QED
        BY <1>11, <3>1, <3>2, <3>3
    <2>4. (q + 1) + InHand' + Len(to_target') = q + InHand + Len(to_target)
      BY <1>7, <1>11
    <2>5. host'.offset = Smaller(((q + 1) + InHand' + Len(to_target')) * FrameBytes, Size)
      BY <1>5, <2>4 DEF Sequel
    <2>6. QED
      BY <1>4, <2>1, <2>2, <2>3, <2>5 DEF Sequel
  <1>13. /\ session.frames + 1 + n = host.frames_since_sync /\ to_host = <<>>
         /\ host.frames_since_sync <= ProgressInterval
    <2>1. session.frames + InHand + n = host.frames_since_sync /\ to_host = <<>>
      BY <1>2 DEF Counting
    <2>2. host.frames_since_sync <= ProgressInterval
      BY <1>2 DEF SmoothData
    <2>3. QED
      BY <1>11, <2>1, <2>2
  <1>14. CASE report
    <2>1. n = 0 /\ (host.offset = Size \/ host.frames_since_sync = ProgressInterval)
      <3>1. host.offset = Smaller((q + 1 + n) * FrameBytes, Size)
        BY <1>5, <1>11 DEF Sequel
      <3>2. CASE session.received = Size
        <4>1. n = 0
          <5> SUFFICES ASSUME n # 0 PROVE FALSE
            OBVIOUS
          <5>1. 1 \in DOMAIN to_target
            BY <1>2, <1>7 DEF LinkTypes
          <5>2. PICK k \in ImageFrames : k = q + 1 + 1 - 1
            BY <1>5, <1>11, <5>1 DEF Sequel
          <5>3. k = q + 1
            BY <5>2
          <5>4. b < Size
            BY <5>3, Places DEF b
          <5>5. QED
            BY <1>7, <1>10, <3>2, <5>4 DEF Smaller
        <4>2. host.offset = Smaller(b, Size)
          BY <3>1, <4>1 DEF b
        <4>3. QED
          BY <1>10, <3>2, <4>1, <4>2
      <3>3. CASE session.frames + 1 >= ProgressInterval
        BY <1>3, <1>7, <1>13, <3>3
      <3>4. QED
        BY <1>2, <1>14, <3>2, <3>3 DEF report
    <2>2. host.offset = session.received
      <3>1. q + 1 + n = q + 1
        BY <2>1
      <3>2. host.offset = Smaller((q + 1 + n) * FrameBytes, Size)
        BY <1>5, <1>11 DEF Sequel
      <3>3. QED
        BY <1>10, <3>1, <3>2 DEF b
    <2>3. host.waits_for = "progress"
      <3>1. host.waits_for = "nothing" => host.offset < Size
        BY <1>2 DEF HostOK
      <3>2. host.waits_for = "nothing" => host.frames_since_sync < ProgressInterval
        BY <1>2 DEF Counting
      <3>3. host.waits_for \in {"nothing", "control", "progress"} /\ host.waits_for # "control"
        BY <1>2 DEF SmoothInv, HostOK
      <3>4. ~(host.offset < Size) \/ ~(host.frames_since_sync < ProgressInterval)
        BY <1>7, <2>1
      <3>5. QED
        BY <3>1, <3>2, <3>3, <3>4
    <2>4. to_host' = <<Progress>>
      <3>1. Progress \in Statuses
        BY <1>2, ProgressFacts
      <3>2. Queued(<<Progress>>) = <<Progress>>
        BY <1>13, <3>1, QueuedOne
      <3>3. QED
        BY <1>1, <1>14, <3>2
    <2>5. Progress = Reply("PROGRESS", SessionId, host.offset)
      BY <1>2, <2>2 DEF Progress
    <2>6. to_target = <<>>
      BY <1>2, <2>1 DEF LinkTypes
    <2>7. frames = 0
      BY <1>14 DEF frames
    <2>8. Reporting'
      BY <1>1, <1>4, <2>2, <2>3, <2>4, <2>5, <2>6, <2>7 DEF Reporting
    <2>9. QED
      <3>1. SmoothData'
        BY <1>1, <1>2, <1>4, <1>12, <2>8 DEF SmoothData
      <3>2. host'.stage \notin ControlStages
        BY <1>2 DEF ControlStages, Setup
      <3>3. QED
        BY <1>2, <3>1, <3>2 DEF SmoothInv, SmoothControl
  <1>15. CASE ~report
    <2>1. to_host' = <<>>
      BY <1>1, <1>13, <1>15, QueuedOne
    <2>2. session.received < Size /\ frames = session.frames + 1
      BY <1>2, <1>3, <1>7, <1>15 DEF report, frames
    <2>3. session'.frames + InHand' + Len(to_target') = host'.frames_since_sync
      <3>1. session'.frames + InHand' + Len(to_target') = (session.frames + 1) + 0 + n
        BY <1>4, <1>11, <2>2
      <3>2. QED
        BY <1>3, <1>7, <1>13, <3>1
    <2>4. Counting'
      BY <1>2, <1>4, <2>1, <2>2, <2>3 DEF Counting
    <2>5. SmoothData'
      BY <1>1, <1>2, <1>4, <1>12, <2>4 DEF SmoothData
    <2>6. host'.stage \notin ControlStages
      BY <1>2 DEF ControlStages, Setup
    <2>7. QED
      BY <1>2, <2>5, <2>6 DEF SmoothInv, SmoothControl
  <1>16. QED
    BY <1>14, <1>15

\* The copy runs once COMMITTING is on its way, or heard.
LEMMA SmoothApply ==
  ASSUME TransferInv, SmoothInv, Smooth, TargetApplies
  PROVE  SmoothInv'
  <1>1. /\ mode \in {"applying", "programming"}
        /\ UNCHANGED <<patient, host, to_target, to_host, sync, losses>>
    BY DEF TargetApplies, Apply, ApplyErase, ApplyProgram, ApplyReboot, link
  <1>2. HostOK(host) /\ sync = <<>> /\ SmoothControl /\ SmoothData
        /\ host.stage \notin {"GIVE_UP", "failed"}
        /\ host.waits_for \in {"nothing", "control", "progress"}
    BY DEF TransferInv, SmoothInv
  <1>3. host.stage # "DATA" /\ ~Early /\ host.stage # "FINISH"
    BY <1>1 DEF TransferInv, EarlyInv, UncommittedInv
  <1>4. CASE host.stage = "COMMIT"
    <2>1. /\ host.waits_for = "control" /\ to_target = <<>>
          /\ to_host = <<Answer(host.stage)>>
      BY <1>1, <1>2, <1>4 DEF SmoothControl, Ready, HostOK, ControlStages
    <2>2. Reached(host.stage)'
      BY <1>1, <1>4 DEF Reached, Setup
    <2>3. Answer(host.stage)' = Answer(host.stage)
      BY <1>1
    <2>4. SmoothControl'
      BY <1>1, <1>3, <2>1, <2>2, <2>3 DEF SmoothControl, Early
    <2>5. QED
      BY <1>1, <1>2, <1>3, <2>4 DEF SmoothInv, SmoothData
  <1>5. CASE host.stage = "done"
    BY <1>1, <1>2, <1>5 DEF SmoothInv, SmoothControl, SmoothData, ControlStages, Setup
  <1>6. QED
    BY <1>2, <1>3, <1>4, <1>5 DEF HostOK, HostRecord, Stages, ControlStages, Early, Ended

-----------------------------------------------------------------------------
(* Nothing lost, nothing late: the transfer succeeds *)

LEMMA SmoothInit == TransferInit => SmoothInv
  <1> SUFFICES ASSUME TransferInit PROVE SmoothInv
    OBVIOUS
  <1>1. /\ host.stage = "ABORT" /\ host.waits_for = "nothing" /\ host.frames_since_sync = 0
        /\ to_target = <<>> /\ to_host = <<>> /\ sync = <<>>
    BY DEF TransferInit
  <1>2. mode = "running" /\ ~session.active
    BY DEF TransferInit, Init, NoSession
  <1>3. Ready("ABORT")
    BY <1>2 DEF Ready, Setup
  <1>4. QED
    BY <1>1, <1>3 DEF SmoothInv, SmoothControl, SmoothData, Setup

LEMMA SmoothNext ==
  ASSUME Fits, TransferInv, SmoothInv, [TransferNext]_transfer_vars
  PROVE  SmoothInv'
  <1> SUFFICES ASSUME Smooth' PROVE SmoothInv'
    BY DEF SmoothInv
  <1>1. losses \in Nat
    BY DEF TransferInv, LinkTypes
  <1>2. ~LoseFrame /\ ~LoseStatus
    <2>1. losses' = 0
      BY DEF Smooth
    <2>2. losses' # losses + 1
      BY <1>1, <2>1
    <2>3. QED
      BY <2>2 DEF LoseFrame, LoseStatus
  <1>3. UNCHANGED <<patient, losses>>
    BY <1>2
    DEF TransferNext, HostStep, TargetStep, SendControl, SendData, Hear, ControlTimeout,
        StartProbe, EndWait, Deliver, TargetStages, TargetApplies, Finished,
        transfer_vars, link
  <1>4. Smooth
    BY <1>3 DEF Smooth
  <1>5. CASE SendControl
    BY <1>4, <1>5, SmoothSendControl
  <1>6. CASE SendData
    BY <1>4, <1>6, SmoothSendData
  <1>7. CASE Hear
    BY <1>4, <1>7, SmoothHear
  <1>8. CASE ControlTimeout \/ StartProbe \/ EndWait
    BY <1>4, <1>8, SmoothNeverLate DEF ControlTimeout, StartProbe, EndWait
  <1>9. CASE Deliver
    <2>1. host.stage \in ControlStages \cup {"DATA"} \/ host.stage = "done"
      BY <1>4 DEF TransferInv, SmoothInv, HostOK, HostRecord, Stages, Ended
    <2>2. CASE host.stage = "done"
      BY <1>4, <1>9, <2>2
      DEF Deliver, SmoothInv, SmoothControl, SmoothData, ControlStages, Setup
    <2>3. QED
      BY <1>4, <1>9, <2>1, <2>2, SmoothDeliverControl, SmoothDeliverData
  <1>10. CASE TargetStages
    BY <1>4, <1>10, SmoothStageByte, SmoothStageDone DEF TargetStages, Stage
  <1>11. CASE TargetApplies
    BY <1>4, <1>11, SmoothApply
  <1>12. CASE Finished \/ UNCHANGED transfer_vars
    <2>1. UNCHANGED <<patient, host, to_target, to_host, sync, losses, mode, session,
                      image_ready, ready_session_id, rx_data>>
      BY <1>12 DEF Finished, transfer_vars, link, target, vars
    <2>2. QED
      BY <1>4, <2>1
      DEF SmoothInv, Smooth, SmoothControl, SmoothData, Ready, Reached, Early, Sequel,
          Counting, Reporting, InHand
  <1>13. QED
    BY <1>2, <1>5, <1>6, <1>7, <1>8, <1>9, <1>10, <1>11, <1>12
    DEF TransferNext, HostStep, TargetStep

\* A patient host whose frames and answers all arrive reports the update as
\* done or goes on with it: flash_image gives up only where something was lost.
\* The image has to fit the staging area, or BEGIN is refused.
THEOREM LosslessCorrect == Fits => (TransferSpec => []LosslessSucceeds)
  <1> SUFFICES ASSUME Fits PROVE TransferSpec => []LosslessSucceeds
    OBVIOUS
  <1>1. TransferInit => SmoothInv
    BY SmoothInit
  <1>2. TransferInv /\ SmoothInv /\ [TransferNext]_transfer_vars => SmoothInv'
    BY SmoothNext
  <1>3. SmoothInv => LosslessSucceeds
    BY DEF SmoothInv, Smooth, LosslessSucceeds
  <1>4. QED
    BY <1>1, <1>2, <1>3, TransferInvariance, PTL DEF TransferSpec
-----------------------------------------------------------------------------
(* The bootloader *)

\* What is quiet and what is left of the deadline add up to no more than the
\* timeout, as soon as nothing suspends the deadline.
BootInv ==
  /\ idle_left \in 0 .. IdleTicks /\ quiet \in Nat
  /\ requested \in BOOLEAN /\ (requested => at = "reset")
  /\ mode \in {"bootsel", "dead"} => at = "reset"
  /\ at = "loader" /\ ~FlashActive => quiet + idle_left <= IdleTicks
-----------------------------------------------------------------------------
(* The module is a flash target *)

\* Leaving the loader is, to the handler, a power failure while it is idle.
LEMMA LeaveIsPowerFailure == Leave => PowerFails
  BY DEF Leave, Idle, PowerFails, HalfApplied

LEMMA TakenIsHandled ==
  ASSUME NEW id \in SessionIds, Taken(id)
  PROVE  Control(id) \/ DataFrame(id)
  BY DEF Taken, Frame, Control

LEMMA LoaderStepIsStep == LoaderNext => Next \/ UNCHANGED vars
  <1> SUFFICES ASSUME LoaderNext PROVE Next \/ UNCHANGED vars
    OBVIOUS
  <1>1. CASE Enter \/ NotRequested \/ Tick
    BY <1>1 DEF Enter, NotRequested, Tick
  <1>2. CASE Leave
    BY <1>2, LeaveIsPowerFailure DEF Next
  <1>3. ASSUME NEW id \in SessionIds, Taken(id) PROVE Next
    BY <1>3, TakenIsHandled DEF Next
  <1>4. CASE Stage /\ Handled
    BY <1>4 DEF Next
  <1>5. CASE ApplyErase \/ ApplyProgram \/ ApplyReboot
    BY <1>5 DEF Next, Apply
  <1>6. CASE UsbFlash \/ PowerFails
    BY <1>6 DEF Next
  <1>7. QED
    BY <1>1, <1>2, <1>3, <1>4, <1>5, <1>6 DEF LoaderNext

\* Whatever FlashTarget promises, a module keeps through resets, requests to
\* enter the bootloader and its return to the application.
THEOREM LoaderImplementsTarget == LoaderSpec => Spec
  <1>1. LoaderInit => Init
    BY DEF LoaderInit
  <1>2. [LoaderNext]_loader_vars => [Next]_vars
    BY LoaderStepIsStep DEF loader_vars
  <1>3. QED
    BY <1>1, <1>2, PTL DEF LoaderSpec, Spec

\* A module that runs from its flash, in the bootloader or the application,
\* has the image last committed or flashed over USB, whole.
THEOREM ModuleBootImage == LoaderSpec => []BootImageIntact
  BY LoaderImplementsTarget, BootImageCorrect, PTL
-----------------------------------------------------------------------------
(* The loader leaves *)

\* The handler is running whenever nothing suspends the deadline.
LEMMA QuietModeRuns ==
  ASSUME Inv, BootInv, at = "loader", ~FlashActive
  PROVE  mode = "running"
  BY DEF Inv, BootInv, TypeOK, StagingConsistent, ApplyConsistent, FlashActive

LEMMA LoaderInitInv == LoaderInit => BootInv
  <1> SUFFICES ASSUME LoaderInit PROVE BootInv
    OBVIOUS
  <1>1. requested \in BOOLEAN /\ ~requested
    BY Zenon DEF LoaderInit
  <1>2. at = "reset" /\ mode = "running" /\ idle_left \in 0 .. IdleTicks /\ quiet \in Nat
    BY IdleAssumption DEF LoaderInit, Init
  <1>3. QED
    BY <1>1, <1>2 DEF BootInv

\* A frame moves the deadline, and BOOTSEL is entered through a reset.
LEMMA HandledStep ==
  ASSUME BootInv, Handled, mode' \in {"bootsel", "dead"} => mode' = mode
  PROVE  BootInv'
  BY IdleAssumption DEF BootInv, Handled

LEMMA ResetStep ==
  ASSUME NEW request \in BOOLEAN, ResetWith(request)
  PROVE  BootInv'
  BY IdleAssumption DEF BootInv, ResetWith

LEMMA FrameKeepsMode ==
  ASSUME NEW id \in SessionIds,
         Frame(id) \/ Stage \/ (session.active /\ (EnterBootsel(id) \/ RebootToBootloader(id)))
  PROVE  mode' \in {"bootsel", "dead"} => mode' = mode
  <1>1. CASE Frame(id)
    BY <1>1 DEF Frame, Begin, BeginAccepted, Finish, FinishAccepted, Commit, Abort,
       RefuseActive, UnknownCommand, DataFrame, Data, Refuse
  <1>2. CASE Stage
    BY <1>2 DEF Stage, StageByte, StageDone
  <1>3. CASE session.active /\ (EnterBootsel(id) \/ RebootToBootloader(id))
    BY <1>3 DEF EnterBootsel, RebootToBootloader, RefuseActive, Refuse
  <1>4. QED
    BY <1>1, <1>2, <1>3

LEMMA LoaderNextInv == Inv /\ BootInv /\ [LoaderNext]_loader_vars => BootInv'
  <1> SUFFICES ASSUME Inv, BootInv, [LoaderNext]_loader_vars PROVE BootInv'
    OBVIOUS
  <1>1. CASE Enter
    <2>1. mode' = mode /\ mode = "running"
      BY <1>1 DEF Enter, vars
    <2>2. requested' \in BOOLEAN /\ ~requested'
      BY <1>1, Zenon DEF Enter
    <2>3. idle_left' \in 0 .. IdleTicks /\ quiet' \in Nat /\ quiet' + idle_left' <= IdleTicks
      BY <1>1, IdleAssumption DEF Enter
    <2>4. QED
      BY <2>1, <2>2, <2>3 DEF BootInv
  <1>2. CASE NotRequested
    BY <1>2 DEF NotRequested, BootInv, vars
  <1>3. CASE Leave
    <2>1. mode' = "running"
      BY <1>3 DEF Leave, RestartInto
    <2>2. QED
      BY <1>3, <2>1, IdleAssumption DEF Leave, Idle, BootInv
  <1>4. CASE Tick
    <2>1. /\ at' = "loader" /\ requested' = requested /\ mode' = mode
          /\ FlashActive' = FlashActive
      BY <1>4 DEF Tick, vars, FlashActive
    <2>2. idle_left' \in 0 .. IdleTicks /\ quiet' \in Nat
      BY <1>4, IdleAssumption DEF Tick, BootInv
    <2>3. ASSUME ~FlashActive PROVE quiet' + idle_left' <= IdleTicks
      <3>1. idle_left > 0
        BY <1>4, <2>3, QuietModeRuns DEF Tick, Idle, BootInv
      <3>2. QED
        BY <1>4, <2>3, <3>1, IdleAssumption DEF Tick, BootInv
    <2>4. QED
      BY <1>4, <2>1, <2>2, <2>3 DEF BootInv, Tick
  <1>5. ASSUME NEW id \in SessionIds, Taken(id) PROVE BootInv'
    <2>1. CASE Frame(id) /\ Handled
      BY <2>1, HandledStep, FrameKeepsMode
    <2>2. CASE session.active
      BY <1>5, <2>2, HandledStep, FrameKeepsMode DEF Taken
    <2>3. CASE EnterBootsel(id) /\ ResetWith(requested)
      BY <2>3, ResetStep DEF BootInv
    <2>4. CASE RebootToBootloader(id) /\ ResetWith(TRUE)
      BY <2>4, ResetStep
    <2>5. QED
      BY <1>5, <2>1, <2>2, <2>3, <2>4 DEF Taken
  <1>6. CASE Stage /\ Handled
    <2>1. mode' \in {"bootsel", "dead"} => mode' = mode
      BY <1>6 DEF Stage, StageByte, StageDone
    <2>2. QED
      BY <1>6, <2>1, HandledStep
  <1>7. CASE (ApplyErase \/ ApplyProgram) /\ UNCHANGED boot
    BY <1>7 DEF ApplyErase, ApplyProgram, ram, boot, BootInv, FlashActive
  <1>8. CASE (ApplyReboot \/ UsbFlash) /\ ResetWith(requested)
    BY <1>8, ResetStep DEF BootInv
  <1>9. CASE PowerFails /\ ResetWith(FALSE)
    BY <1>9, ResetStep
  <1>10. CASE UNCHANGED loader_vars
    BY <1>10 DEF loader_vars, boot, vars, BootInv, FlashActive
  <1>11. QED
    BY <1>1, <1>2, <1>3, <1>4, <1>5, <1>6, <1>7, <1>8, <1>9, <1>10 DEF LoaderNext

\* The request is cleared when it is honoured, and a loader that hears nothing
\* leaves within its idle timeout, unless a session or an image suspends it.
THEOREM LoaderLeavesInTime == LoaderSpec => []LoaderLeaves
  <1>1. LoaderInit => BootInv
    BY LoaderInitInv
  <1>2. LoaderSpec => []Inv
    BY LoaderImplementsTarget, Invariance, PTL
  <1>3. BootInv => LoaderLeaves
    BY IdleAssumption DEF BootInv, LoaderLeaves
  <1>4. QED
    BY <1>1, <1>2, <1>3, LoaderNextInv, PTL DEF LoaderSpec
=============================================================================
