-------------------------- MODULE FlashTargetProofs --------------------------
(***************************************************************************)
(* Proofs about FlashTarget, for every flash layout, frame size, sequence  *)
(* width and image.                                                        *)
(***************************************************************************)
EXTENDS FlashTarget, TLAPS

-----------------------------------------------------------------------------
(* Multiples of a sector and of a page *)

\* Two different multiples lie at least one unit apart.
LEMMA MultiplesApart ==
  ASSUME NEW u \in Nat \ {0}, NEW a \in Nat, NEW b \in Nat,
         a % u = 0, b % u = 0, a < b
  PROVE  a + u <= b
  <1> DEFINE p == a \div u
             q == b \div u
  <1>1. p \in Int /\ q \in Int /\ a = u * p /\ b = u * q
    BY SMT
  <1> HIDE DEF p, q
  <1>2. p < q
    <2>1. SUFFICES ASSUME q <= p PROVE FALSE
      BY <1>1
    <2>2. u * q <= u * p
      BY <1>1, <2>1, SMT
    <2>3. QED
      BY <1>1, <2>2
  <1>3. u * (p + 1) <= u * q
    BY <1>1, <1>2, SMT
  <1>4. u * (p + 1) = u * p + u
    BY <1>1, SMT
  <1>5. QED
    BY <1>1, <1>3, <1>4

\* The next multiple.
LEMMA NextMultiple ==
  ASSUME NEW u \in Nat \ {0}, NEW a \in Nat, a % u = 0
  PROVE  (a + u) % u = 0
  <1> DEFINE q == a \div u
  <1>1. q \in Int /\ a = u * q
    BY SMT
  <1> HIDE DEF q
  <1> DEFINE r == q + 1
             b == a + u
  <1>2. r \in Int /\ b \in Nat /\ b = u * r
    BY <1>1, SMT
  <1> HIDE DEF r, b
  <1>3. b % u = 0
    BY <1>2, SMT
  <1>4. QED
    BY <1>3 DEF b

\* A multiple of a multiple.
LEMMA MultipleOfMultiple ==
  ASSUME NEW u \in Nat \ {0}, NEW v \in Nat \ {0}, NEW a \in Nat,
         v % u = 0, a % v = 0
  PROVE  a % u = 0
  <1> DEFINE p == v \div u
             q == a \div v
  <1>1. p \in Int /\ q \in Int /\ v = u * p /\ a = v * q
    BY SMT
  <1> HIDE DEF p, q
  <1>2. a = u * (p * q)
    BY <1>1, SMT
  <1> DEFINE r == p * q
  <1>3. r \in Int /\ a = u * r
    BY <1>1, <1>2
  <1> HIDE DEF r
  <1>4. QED
    BY <1>3, SMT

\* align_up_u32 rounds up to the next multiple.
LEMMA AlignUpRounds ==
  ASSUME NEW u \in Nat \ {0}, NEW x \in Nat
  PROVE  /\ AlignUp(x, u) \in Nat
         /\ AlignUp(x, u) % u = 0
         /\ x <= AlignUp(x, u) /\ AlignUp(x, u) < x + u
  <1> DEFINE q == (x + u - 1) \div u
  <1>1. q \in Nat /\ q * u <= x + u - 1 /\ x + u - 1 < q * u + u
    BY SMT
  <1>2. AlignUp(x, u) = q * u
    BY DEF AlignUp
  <1> HIDE DEF q
  <1>3. (q * u) % u = 0 /\ q * u \in Nat
    BY <1>1, SMT
  <1>4. QED
    BY <1>1, <1>2, <1>3

\* So does the computation scp_flash_apply_staged_image makes instead.
LEMMA RoundingRounds ==
  ASSUME NEW u \in Nat \ {0}, NEW x \in Nat,
         NEW r, r = IF x % u = 0 THEN x ELSE x + u - (x % u)
  PROVE  r \in Nat /\ r % u = 0 /\ x <= r /\ r < x + u
  <1> DEFINE q == x \div u
             m == x % u
  <1>1. q \in Nat /\ m \in Nat /\ m < u /\ x = u * q + m
    BY SMT
  <1>2. r = IF m = 0 THEN x ELSE x + u - m
    OBVIOUS
  <1> HIDE DEF q, m
  <1>3. (u * q) % u = 0 /\ (u * (q + 1)) % u = 0 /\ u * (q + 1) = u * q + u
    BY <1>1, SMT
  <1>4. QED
    BY <1>1, <1>2, <1>3
-----------------------------------------------------------------------------
(* The flash layout *)

Rounded(x) == IF x % SectorSize = 0 THEN x ELSE x + SectorSize - (x % SectorSize)

LEMMA LayoutFacts ==
  /\ FrameBytes \in Nat \ {0} /\ PageSize \in Nat \ {0} /\ SectorSize \in Nat \ {0}
  /\ SequenceModulus \in Nat \ {0} /\ ProgressInterval \in Nat \ {0}
  /\ StagingOffset \in Nat /\ StagingOffset % SectorSize = 0
  /\ StagingSize \in Nat \ {0} /\ StagingSize % SectorSize = 0
  /\ SectorSize % PageSize = 0
  BY LayoutAssumption

\* An image that BEGIN accepts, rounded up to sectors, fits both the staging
\* area and the space below it, in whole sectors and whole pages; BEGIN erases
\* exactly what COMMIT will copy.
LEMMA RoundedLayout ==
  ASSUME NEW x \in 1 .. StagingSize, x <= StagingOffset
  PROVE  /\ Rounded(x) \in Nat /\ x <= Rounded(x)
         /\ Rounded(x) % SectorSize = 0 /\ Rounded(x) % PageSize = 0
         /\ Rounded(x) <= StagingSize /\ Rounded(x) <= StagingOffset
         /\ AlignUp(x, SectorSize) = Rounded(x)
  <1> DEFINE r == Rounded(x)
             a == AlignUp(x, SectorSize)
  <1>0. x \in Nat /\ x <= StagingSize
    BY LayoutFacts
  <1>1. r \in Nat /\ r % SectorSize = 0 /\ x <= r /\ r < x + SectorSize
    BY <1>0, LayoutFacts, RoundingRounds DEF Rounded
  <1>2. a \in Nat /\ a % SectorSize = 0 /\ x <= a /\ a < x + SectorSize
    BY <1>0, LayoutFacts, AlignUpRounds
  <1> HIDE DEF r, a
  <1>3. r <= StagingSize
    <2>1. SUFFICES ASSUME StagingSize < r PROVE FALSE
      BY <1>1, LayoutFacts
    <2>2. StagingSize + SectorSize <= r
      BY <1>1, <2>1, LayoutFacts, MultiplesApart
    <2>3. QED
      BY <1>0, <1>1, <2>2, LayoutFacts
  <1>4. r <= StagingOffset
    <2>1. SUFFICES ASSUME StagingOffset < r PROVE FALSE
      BY <1>1, LayoutFacts
    <2>2. StagingOffset + SectorSize <= r
      BY <1>1, <2>1, LayoutFacts, MultiplesApart
    <2>3. QED
      BY <1>0, <1>1, <2>2, LayoutFacts
  <1>5. a = r
    <2>1. a < r => a + SectorSize <= r
      BY <1>1, <1>2, LayoutFacts, MultiplesApart
    <2>2. r < a => r + SectorSize <= a
      BY <1>1, <1>2, LayoutFacts, MultiplesApart
    <2>3. QED
      BY <1>0, <1>1, <1>2, <2>1, <2>2, LayoutFacts
  <1>6. r % PageSize = 0
    BY <1>1, LayoutFacts, MultipleOfMultiple
  <1>7. QED
    BY <1>1, <1>3, <1>4, <1>5, <1>6 DEF r, a

\* The page that starts below a limit of whole pages ends at or below it.
LEMMA PageBelow ==
  ASSUME NEW a \in Nat, NEW b \in Nat, a % PageSize = 0, b % PageSize = 0, a < b
  PROVE  a + PageSize <= b /\ (a + PageSize) % PageSize = 0
  BY LayoutFacts, MultiplesApart, NextMultiple

LEMMA SectorBelow ==
  ASSUME NEW a \in Nat, NEW b \in Nat, a % SectorSize = 0, b % SectorSize = 0, a < b
  PROVE  a + SectorSize <= b /\ (a + SectorSize) % SectorSize = 0
  BY LayoutFacts, MultiplesApart, NextMultiple

-----------------------------------------------------------------------------
(* The invariant *)

Inv ==
  /\ TypeOK
  /\ StagingConsistent
  /\ ReadyImageStaged
  /\ ApplyConsistent
  /\ BootImageIntact

\* What is known of an image under way.
LEMMA ImageFacts ==
  ASSUME TypeOK, StagingConsistent, session.active \/ image_ready
  PROVE  /\ session.size \in 1 .. StagingSize /\ session.size <= StagingOffset
         /\ CopyBytes = Rounded(session.size)
         /\ CopyBytes \in Nat /\ session.size <= CopyBytes
         /\ CopyBytes % SectorSize = 0 /\ CopyBytes % PageSize = 0
         /\ CopyBytes <= StagingSize /\ CopyBytes <= StagingOffset
         /\ \A i \in 0 .. CopyBytes - 1 :
              i \in FlashOffsets /\ StagingOffset + i \in FlashOffsets
  <1>1. session.size \in 1 .. StagingSize /\ session.size <= StagingOffset
    BY DEF StagingConsistent, Counters
  <1>2. CopyBytes = Rounded(session.size)
    BY DEF CopyBytes, Rounded
  <1>3. /\ CopyBytes \in Nat /\ session.size <= CopyBytes
        /\ CopyBytes % SectorSize = 0 /\ CopyBytes % PageSize = 0
        /\ CopyBytes <= StagingSize /\ CopyBytes <= StagingOffset
    BY <1>1, <1>2, RoundedLayout
  <1> HIDE DEF CopyBytes
  <1>4. \A i \in 0 .. CopyBytes - 1 :
          i \in FlashOffsets /\ StagingOffset + i \in FlashOffsets
    BY <1>3, LayoutFacts DEF FlashOffsets
  <1>5. QED
    BY <1>1, <1>2, <1>3, <1>4

LEMMA BlankPageType == BlankPage \in [PageIndex -> Bytes]
  BY BytesAssumption DEF BlankPage

LEMMA NoSessionType == NoSession \in Sessions
  BY BlankPageType, LayoutFacts DEF NoSession, Sessions

LEMMA NoBytes == <<>> \in Seq(Bytes)
  OBVIOUS

LEMMA EraseType ==
  ASSUME NEW f \in [FlashOffsets -> Cells], NEW from, NEW length
  PROVE  Erase(f, from, length) \in [FlashOffsets -> Cells]
  BY BytesAssumption DEF Erase, Cells

LEMMA ProgramType ==
  ASSUME NEW f \in [FlashOffsets -> Cells], NEW from \in Nat, NEW length \in Nat,
         NEW data, \A i \in 0 .. length - 1 : data[i] \in Cells
  PROVE  Program(f, from, length, data) \in [FlashOffsets -> Cells]
  <1>1. ASSUME NEW i \in FlashOffsets, i \in from .. from + length - 1
        PROVE  ProgramCell(f[i], data[i - from]) \in Cells
    <2>1. data[i - from] \in Cells /\ f[i] \in Cells
      BY <1>1 DEF FlashOffsets
    <2>2. QED
      BY <2>1 DEF ProgramCell, Cells
  <1>2. QED
    BY <1>1 DEF Program

\* Steps that leave the image under way and the staging area alone.
LEMMA ImageKept ==
  ASSUME TypeOK, StagingConsistent, ReadyImageStaged,
         UNCHANGED <<session, image_ready, verified>>,
         mode' = "staging" => session.active,
         \A i \in 0 .. StagingSize - 1 :
           flash'[StagingOffset + i] = flash[StagingOffset + i]
  PROVE  StagingConsistent' /\ ReadyImageStaged'
  <1>0. Complete' = Complete /\ InFlash' = InFlash /\ CopyBytes' = CopyBytes
    BY DEF Complete, InFlash, CopyBytes
  <1>1. CASE ~(session.active \/ image_ready)
    BY <1>1 DEF StagingConsistent, ReadyImageStaged
  <1>2. CASE session.active \/ image_ready
    <2>0. CopyBytes \in Nat /\ CopyBytes <= StagingSize /\ session.size <= CopyBytes
          /\ session.size \in Nat
      BY <1>2, ImageFacts, LayoutFacts
    <2>1. Counters' /\ BufferHolds'
      BY <1>2, <1>0 DEF StagingConsistent, Counters, BufferHolds
    <2>2. StagedCells'
      <3> SUFFICES ASSUME NEW i \in 0 .. CopyBytes - 1
                   PROVE  flash'[StagingOffset + i]
                            = IF i < InFlash THEN session.crc[i + 1] ELSE Erased
        BY <1>0 DEF StagedCells
      <3> HIDE DEF CopyBytes, InFlash
      <3>1. i \in 0 .. StagingSize - 1
        BY <2>0, LayoutFacts
      <3>2. QED
        BY <3>1, <1>2 DEF StagingConsistent, StagedCells
    <2>3. ReadyImageStaged'
      <3> SUFFICES ASSUME image_ready
                   PROVE  /\ ~session.active
                          /\ Holds(flash', StagingOffset, verified)
                          /\ Len(verified) = session.size
                          /\ \A i \in session.size .. CopyBytes - 1 :
                               flash'[StagingOffset + i] = Erased
        BY <1>0 DEF ReadyImageStaged
      <3>1. Len(verified) = session.size /\ ~session.active
        BY DEF ReadyImageStaged
      <3>2. ASSUME NEW i \in 1 .. Len(verified)
            PROVE  flash'[StagingOffset + i - 1] = verified[i]
        <4>1. i - 1 \in 0 .. StagingSize - 1
          BY <3>1, <2>0, LayoutFacts
        <4>2. StagingOffset + (i - 1) = StagingOffset + i - 1
          BY <4>1, LayoutFacts
        <4>3. flash[StagingOffset + i - 1] = verified[i]
          BY DEF ReadyImageStaged, Holds
        <4>4. QED
          BY <4>1, <4>2, <4>3
      <3>3. ASSUME NEW i \in session.size .. CopyBytes - 1
            PROVE  flash'[StagingOffset + i] = Erased
        <4> HIDE DEF CopyBytes
        <4>1. i \in 0 .. StagingSize - 1
          BY <2>0, LayoutFacts
        <4>2. QED
          BY <4>1 DEF ReadyImageStaged
      <3>4. QED
        BY <3>1, <3>2, <3>3 DEF Holds
    <2>4. QED
      BY <2>1, <2>2, <2>3 DEF StagingConsistent
  <1>3. QED
    BY <1>1, <1>2

\* Steps that leave no image under way.
LEMMA ImageDropped ==
  ASSUME session' = NoSession, image_ready' = FALSE,
         mode' \notin {"staging", "applying", "programming"}
  PROVE  StagingConsistent' /\ ReadyImageStaged' /\ ApplyConsistent'
  BY DEF StagingConsistent, ReadyImageStaged, ApplyConsistent, NoSession

\* Steps that leave the application alone.
LEMMA BootImageKept ==
  ASSUME TypeOK, BootImageIntact, UNCHANGED boot_image,
         mode \in {"applying", "programming", "dead"}
           => mode' \in {"applying", "programming", "dead"},
         \A i \in 0 .. StagingOffset - 1 : flash'[i] = flash[i]
  PROVE  BootImageIntact'
  <1>1. ASSUME Holds(flash, 0, boot_image)
        PROVE  Holds(flash', 0, boot_image)
    <2> SUFFICES ASSUME NEW i \in 1 .. Len(boot_image)
                 PROVE  flash'[0 + i - 1] = boot_image[i]
      BY DEF Holds
    <2>1. Len(boot_image) \in Nat /\ Len(boot_image) <= StagingOffset
      BY DEF TypeOK, BootImageIntact
    <2>2. i - 1 \in 0 .. StagingOffset - 1 /\ 0 + i - 1 = i - 1
      BY <2>1, LayoutFacts
    <2>3. flash[0 + i - 1] = boot_image[i]
      BY <1>1 DEF Holds
    <2>4. QED
      BY <2>2, <2>3
  <1>2. QED
    BY <1>1 DEF BootImageIntact
-----------------------------------------------------------------------------
(* Control frames *)

\* A refused frame, and a step that does nothing.
LEMMA NothingChanged ==
  ASSUME Inv, UNCHANGED <<mode, ram, apply_offset, flash, history>>
  PROVE  Inv'
  BY DEF Inv, TypeOK, StagingConsistent, ReadyImageStaged, ApplyConsistent,
     BootImageIntact, Counters, BufferHolds, StagedCells, Complete, InFlash,
     CopyBytes, Holds, ram, history

LEMMA RefuseStep ==
  ASSUME Inv, NEW answer, Refuse(answer)
  PROVE  Inv'
  BY NothingChanged DEF Refuse

LEMMA BeginStep ==
  ASSUME Inv, NEW id \in SessionIds, NEW size \in Nat, Begin(id, size)
  PROVE  Inv'
  <1>1. CASE BeginError(size) # "NONE"
    BY <1>1, RefuseStep DEF Begin
  <1>2. CASE BeginError(size) = "NONE"
    <2>0. mode = "running" /\ BeginAccepted(id, size)
      BY <1>2 DEF Begin
    <2>1. size \in 1 .. StagingSize /\ size <= StagingOffset
      BY <1>2, LayoutFacts DEF BeginError
    <2>2. /\ session' = [NoSession EXCEPT !.active = TRUE, !.id = id, !.size = size]
          /\ mode' = "running" /\ image_ready' = FALSE /\ verified' = <<>>
          /\ flash' = Erase(flash, StagingOffset, AlignUp(size, SectorSize))
          /\ UNCHANGED <<ready_session_id, rx_data, apply_offset, boot_image>>
      BY <2>0 DEF BeginAccepted
    <2>3. TypeOK'
      <3>1. id \in Nat /\ size \in Nat
        BY HostAssumption
      <3>2. flash' \in [FlashOffsets -> Cells]
        BY <2>2, EraseType DEF Inv, TypeOK
      <3>3. session' \in Sessions
        BY <2>2, <3>1, NoSessionType DEF Sessions
      <3>4. QED
        BY <2>2, <3>2, <3>3, NoBytes DEF Inv, TypeOK
    <2>4. /\ session'.active = TRUE /\ session'.size = size /\ session'.received = 0
          /\ session'.programmed = 0 /\ session'.page_offset = 0
          /\ session'.page_fill = 0 /\ session'.crc = <<>>
      BY <2>2 DEF NoSession
    <2>5. CopyBytes' = Rounded(size)
      BY <2>4 DEF CopyBytes, Rounded
    <2>6. ~Complete' /\ InFlash' = 0
      BY <2>1, <2>4, LayoutFacts DEF Complete, InFlash
    <2>7. Counters' /\ BufferHolds'
      BY <2>1, <2>4, <2>6, LayoutFacts DEF Counters, BufferHolds
    <2>8. StagedCells'
      <3> SUFFICES ASSUME NEW i \in 0 .. Rounded(size) - 1
                   PROVE  flash'[StagingOffset + i] = Erased
        BY <2>5, <2>6 DEF StagedCells
      <3> DEFINE length == AlignUp(size, SectorSize)
      <3>1. /\ length = Rounded(size) /\ Rounded(size) \in Nat
            /\ Rounded(size) <= StagingSize
        BY <2>1, RoundedLayout
      <3> HIDE DEF length
      <3>2. /\ StagingOffset + i \in FlashOffsets
            /\ StagingOffset + i \in StagingOffset .. StagingOffset + length - 1
        BY <3>1, LayoutFacts DEF FlashOffsets
      <3>3. QED
        BY <2>2, <3>2 DEF Erase, length
    <2>9. BootImageIntact'
      <3>1. ASSUME NEW i \in 0 .. StagingOffset - 1
            PROVE  flash'[i] = flash[i]
        <4>1. i \in FlashOffsets /\ i < StagingOffset
          BY LayoutFacts DEF FlashOffsets
        <4>2. i \notin StagingOffset .. StagingOffset + AlignUp(size, SectorSize) - 1
          BY <4>1, LayoutFacts
        <4>3. QED
          BY <2>2, <4>1, <4>2 DEF Erase
      <3>2. QED
        BY <2>0, <2>2, <3>1, BootImageKept DEF Inv
    <2>10. QED
      BY <2>2, <2>3, <2>7, <2>8, <2>9
      DEF Inv, StagingConsistent, ReadyImageStaged, ApplyConsistent
  <1>3. QED
    BY <1>1, <1>2

LEMMA FinishStep ==
  ASSUME Inv, NEW id \in SessionIds, NEW crc, Finish(id, crc)
  PROVE  Inv'
  <1>1. CASE FinishError(id, crc) # "NONE"
    BY <1>1, RefuseStep DEF Finish
  <1>2. CASE FinishError(id, crc) = "NONE"
    <2>1. mode = "running" /\ FinishAccepted(id, crc)
      BY <1>2 DEF Finish
    <2>2. session.active /\ id = session.id /\ Complete /\ crc = session.crc
      BY <1>2 DEF FinishError, Complete
    <2>3. /\ session' = [session EXCEPT !.active = FALSE]
          /\ image_ready' = TRUE /\ verified' = session.crc
          /\ UNCHANGED <<mode, rx_data, apply_offset, flash, boot_image>>
          /\ ready_session_id' = id
      BY <2>1, <2>2 DEF FinishAccepted
    <2>4. TypeOK'
      <3>1. session' \in Sessions /\ session.crc \in Seq(Bytes)
        BY <2>3 DEF Inv, TypeOK, Sessions
      <3>2. QED
        BY <2>3, <3>1, HostAssumption DEF Inv, TypeOK
    <2>5. /\ session'.active = FALSE /\ session'.size = session.size
          /\ session'.received = session.received
          /\ session'.programmed = session.programmed
          /\ session'.page_offset = session.page_offset
          /\ session'.page_fill = session.page_fill /\ session'.crc = session.crc
          /\ session'.page_buffer = session.page_buffer
      BY <2>3 DEF Inv, TypeOK, Sessions
    <2>6. Complete' = Complete /\ InFlash' = InFlash /\ CopyBytes' = CopyBytes
      BY <2>5 DEF Complete, InFlash, CopyBytes
    <2>7. Counters /\ BufferHolds /\ StagedCells
      BY <2>2 DEF Inv, StagingConsistent
    <2>8. Counters' /\ BufferHolds' /\ StagedCells'
      BY <2>3, <2>5, <2>6, <2>7 DEF Counters, BufferHolds, StagedCells
    <2>9. ReadyImageStaged'
      <3>0. /\ Len(session.crc) = session.size /\ InFlash = session.size
            /\ session.size \in Nat /\ CopyBytes \in Nat /\ session.size <= CopyBytes
        BY <2>2, <2>7, ImageFacts, LayoutFacts DEF Inv, Counters, Complete, InFlash
      <3> HIDE DEF CopyBytes, InFlash
      <3>1. ASSUME NEW i \in 1 .. Len(session.crc)
            PROVE  flash[StagingOffset + i - 1] = session.crc[i]
        <4>1. i - 1 \in 0 .. CopyBytes - 1 /\ i - 1 < InFlash
              /\ (i - 1) + 1 = i /\ StagingOffset + (i - 1) = StagingOffset + i - 1
          BY <3>0, LayoutFacts
        <4>2. flash[StagingOffset + (i - 1)] = session.crc[(i - 1) + 1]
          BY <2>7, <4>1 DEF StagedCells
        <4>3. QED
          BY <4>1, <4>2
      <3>2. ASSUME NEW i \in session.size .. CopyBytes - 1
            PROVE  flash[StagingOffset + i] = Erased
        BY <2>7, <3>0 DEF StagedCells
      <3>3. QED
        BY <2>3, <2>5, <2>6, <3>0, <3>1, <3>2 DEF ReadyImageStaged, Holds
    <2>10. BootImageIntact' /\ ApplyConsistent'
      BY <2>1, <2>3 DEF Inv, BootImageIntact, Holds, ApplyConsistent
    <2>11. QED
      BY <2>1, <2>3, <2>4, <2>8, <2>9, <2>10 DEF Inv, StagingConsistent
  <1>3. QED
    BY <1>1, <1>2

LEMMA CommitStep ==
  ASSUME Inv, NEW id \in SessionIds, Commit(id)
  PROVE  Inv'
  <1>1. CASE ~(image_ready /\ id = ready_session_id)
    BY <1>1, RefuseStep DEF Commit
  <1>2. CASE image_ready /\ id = ready_session_id
    <2>1. /\ mode = "running" /\ mode' = "applying" /\ apply_offset' = 0
          /\ UNCHANGED <<session, image_ready, ready_session_id, rx_data, flash,
                         verified, boot_image>>
      BY <1>2 DEF Commit, ram, history
    <2>2. TypeOK'
      BY <2>1 DEF Inv, TypeOK
    <2>3. StagingConsistent' /\ ReadyImageStaged'
      BY <2>1, ImageKept DEF Inv
    <2>4. BootImageIntact'
      BY <2>1 DEF Inv, BootImageIntact
    <2>5. CopyBytes' = CopyBytes /\ CopyBytes \in Nat
      BY <1>2, <2>1, ImageFacts DEF Inv, CopyBytes
    <2>6. ApplyConsistent'
      <3> HIDE DEF CopyBytes
      <3>1. 0 % SectorSize = 0
        BY LayoutFacts
      <3>2. Holds(flash', 0, boot_image')
        BY <2>1 DEF Inv, BootImageIntact, Holds
      <3>3. QED
        BY <1>2, <2>1, <2>5, <3>1, <3>2 DEF ApplyConsistent
    <2>7. QED
      BY <2>2, <2>3, <2>4, <2>6 DEF Inv
  <1>3. QED
    BY <1>1, <1>2

\* Whatever ends in flash_session_reset with no image ready and the flash as it was.
LEMMA SessionDropped ==
  ASSUME Inv, session' = NoSession, image_ready' = FALSE, verified' = <<>>,
         mode \notin {"applying", "programming", "dead"},
         mode' \in {"running", "bootsel"},
         ready_session_id' \in Nat, rx_data' \in Seq(Bytes), apply_offset' \in Nat,
         UNCHANGED <<flash, boot_image>>
  PROVE  Inv'
  <1>1. TypeOK'
    BY NoSessionType, NoBytes DEF Inv, TypeOK
  <1>2. StagingConsistent' /\ ReadyImageStaged' /\ ApplyConsistent'
    BY ImageDropped
  <1>3. BootImageIntact'
    BY BootImageKept DEF Inv
  <1>4. QED
    BY <1>1, <1>2, <1>3 DEF Inv

LEMMA AbortStep ==
  ASSUME Inv, NEW id \in SessionIds, Abort(id)
  PROVE  Inv'
  <1>1. CASE RefuseActive(id)
    BY <1>1, RefuseStep DEF RefuseActive
  <1>2. CASE ~RefuseActive(id)
    BY <1>2, SessionDropped DEF Abort, Inv, TypeOK
  <1>3. QED
    BY <1>1, <1>2

LEMMA EnterBootselStep ==
  ASSUME Inv, NEW id \in SessionIds, EnterBootsel(id)
  PROVE  Inv'
  <1>1. CASE RefuseActive(id)
    BY <1>1, RefuseStep DEF RefuseActive
  <1>2. CASE ~RefuseActive(id)
    <2>1. /\ mode = "running" /\ mode' = "bootsel" /\ ~session.active
          /\ UNCHANGED <<session, image_ready, ready_session_id, rx_data, apply_offset,
                         flash, verified, boot_image>>
      BY <1>2 DEF EnterBootsel, ram, history
    <2>2. StagingConsistent' /\ ReadyImageStaged'
      BY <2>1, ImageKept DEF Inv
    <2>3. TypeOK' /\ ApplyConsistent'
      BY <2>1 DEF Inv, TypeOK, ApplyConsistent
    <2>4. BootImageIntact'
      BY <2>1, BootImageKept DEF Inv
    <2>5. QED
      BY <2>2, <2>3, <2>4 DEF Inv
  <1>3. QED
    BY <1>1, <1>2

LEMMA RebootStep ==
  ASSUME Inv, NEW id \in SessionIds, RebootToBootloader(id)
  PROVE  Inv'
  <1>1. CASE RefuseActive(id)
    BY <1>1, RefuseStep DEF RefuseActive
  <1>2. CASE ~RefuseActive(id)
    <2>1. /\ mode = "running" /\ mode' = "running" /\ session' = NoSession
          /\ image_ready' = FALSE /\ ready_session_id' = 0 /\ rx_data' = <<>>
          /\ apply_offset' = 0 /\ verified' = <<>> /\ UNCHANGED <<flash, boot_image>>
      BY <1>2 DEF RebootToBootloader, RestartInto
    <2>2. QED
      BY <2>1, NoBytes, SessionDropped
  <1>3. QED
    BY <1>1, <1>2
-----------------------------------------------------------------------------
(* DATA frames *)

LEMMA DataStep ==
  ASSUME Inv, NEW id \in SessionIds, NEW sequence, NEW data \in Seq(Bytes),
         Data(id, sequence, data)
  PROVE  Inv'
  <1>1. CASE DataError(id, sequence) # "NONE"
    BY <1>1, RefuseStep DEF Data
  <1>2. CASE DataError(id, sequence) = "NONE"
    <2>1. /\ mode = "running" /\ mode' = "staging" /\ session.active /\ rx_data' = data
          /\ UNCHANGED <<session, image_ready, ready_session_id, apply_offset, flash,
                         verified, boot_image>>
      BY <1>2 DEF Data, DataError, history
    <2>2. TypeOK'
      BY <2>1 DEF Inv, TypeOK
    <2>3. StagingConsistent' /\ ReadyImageStaged'
      BY <2>1, ImageKept DEF Inv
    <2>4. ApplyConsistent' /\ BootImageIntact'
      BY <2>1, BootImageKept DEF Inv, ApplyConsistent
    <2>5. QED
      BY <2>2, <2>3, <2>4 DEF Inv
  <1>3. QED
    BY <1>1, <1>2

\* What is known when a byte is about to be staged.
LEMMA StagingFacts ==
  ASSUME Inv, Staging
  PROVE  /\ mode = "staging" /\ session.active /\ ~image_ready /\ ~Complete
         /\ rx_data # <<>> /\ Head(rx_data) \in Bytes /\ Tail(rx_data) \in Seq(Bytes)
         /\ session \in Sessions /\ session.crc \in Seq(Bytes)
         /\ session.page_buffer \in [PageIndex -> Bytes]
         /\ session.received \in Nat /\ session.received < session.size
         /\ session.size \in Nat /\ session.page_offset \in Nat
         /\ session.page_fill \in PageIndex
         /\ session.programmed = session.page_offset
         /\ session.page_offset + session.page_fill = session.received
         /\ Len(session.crc) = session.received
         /\ session.page_offset % PageSize = 0
         /\ session.page_offset + PageSize <= CopyBytes
         /\ (session.page_offset + PageSize) % PageSize = 0
         /\ CopyBytes \in Nat /\ CopyBytes <= StagingSize /\ session.size <= CopyBytes
  <1>1. mode = "staging" /\ session.active /\ ~image_ready
    BY DEF Inv, Staging, StagingConsistent, ReadyImageStaged
  <1>2. /\ rx_data # <<>> /\ Head(rx_data) \in Bytes /\ Tail(rx_data) \in Seq(Bytes)
    BY DEF Inv, TypeOK, Staging
  <1>3. /\ session \in Sessions /\ session.crc \in Seq(Bytes)
        /\ session.page_buffer \in [PageIndex -> Bytes]
        /\ session.received \in Nat /\ session.size \in Nat
        /\ session.page_offset \in Nat /\ session.page_fill \in PageIndex
    BY DEF Inv, TypeOK, Sessions, PageIndex
  <1>4. session.received < session.size /\ ~Complete
    BY <1>3 DEF Staging, Complete
  <1>5. /\ session.programmed = session.page_offset
        /\ session.page_offset + session.page_fill = session.received
        /\ Len(session.crc) = session.received
        /\ session.page_offset % PageSize = 0
    BY <1>1, <1>4 DEF Inv, StagingConsistent, Counters, InFlash
  <1>6. /\ CopyBytes \in Nat /\ CopyBytes <= StagingSize /\ session.size <= CopyBytes
        /\ CopyBytes % PageSize = 0
    BY <1>1, ImageFacts DEF Inv
  <1> HIDE DEF CopyBytes
  <1>7. session.page_offset < CopyBytes
    BY <1>3, <1>4, <1>5, <1>6 DEF PageIndex
  <1>8. /\ session.page_offset + PageSize <= CopyBytes
        /\ (session.page_offset + PageSize) % PageSize = 0
    BY <1>3, <1>5, <1>6, <1>7, PageBelow
  <1>9. QED
    BY <1>1, <1>2, <1>3, <1>4, <1>5, <1>6, <1>8

LEMMA AppendFacts ==
  ASSUME NEW q \in Seq(Bytes), NEW e \in Bytes
  PROVE  /\ Append(q, e) \in Seq(Bytes) /\ Len(Append(q, e)) = Len(q) + 1
         /\ \A k \in 1 .. Len(q) : Append(q, e)[k] = q[k]
         /\ Append(q, e)[Len(q) + 1] = e
  OBVIOUS

\* The bytes of s since the page started are in its page buffer, and the rest
\* of the page is blank.
PageHolds(s) ==
  /\ \A j \in 0 .. session.page_fill :
       s.page_buffer[j] = s.crc[session.page_offset + j + 1]
  /\ \A j \in session.page_fill + 1 .. PageSize - 1 : s.page_buffer[j] = Erased

\* The page buffer after a byte.
LEMMA BufferedFacts ==
  ASSUME Inv, Staging, NEW s, s = Buffered(Head(rx_data))
  PROVE  /\ s.active = session.active /\ s.id = session.id
         /\ s.sequence = session.sequence /\ s.frames = session.frames
         /\ s.size = session.size /\ s.programmed = session.programmed
         /\ s.page_offset = session.page_offset
         /\ s.received = session.received + 1
         /\ s.page_fill = session.page_fill + 1
         /\ s.crc = Append(session.crc, Head(rx_data))
         /\ s.page_buffer \in [PageIndex -> Bytes]
         /\ s = [s EXCEPT !.page_fill = session.page_fill + 1]
         /\ [s EXCEPT !.page_fill = 0] \in Sessions
         /\ (s.page_fill # PageSize => s \in Sessions)
         /\ PageHolds(s)
  <1> DEFINE byte == Head(rx_data)
             fill == session.page_fill
             page == IF fill = 0 THEN BlankPage ELSE session.page_buffer
  <1>1. /\ session \in Sessions /\ byte \in Bytes /\ fill \in PageIndex
        /\ session.crc \in Seq(Bytes) /\ session.received \in Nat
        /\ session.page_offset \in Nat
        /\ session.page_offset + fill = session.received
        /\ Len(session.crc) = session.received
        /\ session.page_buffer \in [PageIndex -> Bytes]
    BY StagingFacts
  <1>0. fill \in 0 .. PageSize - 1 /\ fill \in Nat /\ session.received \in Nat
        /\ session.page_offset \in Nat
    BY <1>1, LayoutFacts DEF PageIndex
  <1>2. page \in [PageIndex -> Bytes]
    BY <1>1, BlankPageType
  <1>3. BufferHolds
    BY StagingFacts DEF Inv, StagingConsistent
  <1>4. s = [session EXCEPT !.page_buffer = [page EXCEPT ![fill] = byte],
                            !.page_fill = fill + 1,
                            !.crc = Append(session.crc, byte),
                            !.received = session.received + 1]
    BY DEF Buffered
  <1> HIDE DEF page
  <1>5. /\ s.active = session.active /\ s.id = session.id
        /\ s.sequence = session.sequence /\ s.frames = session.frames
        /\ s.size = session.size /\ s.programmed = session.programmed
        /\ s.page_offset = session.page_offset
        /\ s.received = session.received + 1
        /\ s.page_fill = fill + 1
        /\ s.crc = Append(session.crc, byte)
        /\ s.page_buffer = [page EXCEPT ![fill] = byte]
    BY <1>1, <1>4 DEF Sessions
  <1>6. /\ s.page_buffer \in [PageIndex -> Bytes] /\ s.crc \in Seq(Bytes)
        /\ \A k \in 1 .. session.received : s.crc[k] = session.crc[k]
        /\ s.crc[session.received + 1] = byte
    <2>1. s.page_buffer \in [PageIndex -> Bytes]
      BY <1>1, <1>2, <1>5
    <2>2. s.crc = Append(session.crc, byte) /\ session.crc \in Seq(Bytes)
          /\ byte \in Bytes /\ Len(session.crc) = session.received
      BY <1>1, <1>5
    <2> HIDE DEF byte
    <2> DEFINE c == Append(session.crc, byte)
    <2>3. /\ c \in Seq(Bytes)
          /\ \A k \in 1 .. Len(session.crc) : c[k] = session.crc[k]
          /\ c[Len(session.crc) + 1] = byte
      BY <2>2, AppendFacts
    <2> HIDE DEF c
    <2>4. s.crc = c
      BY <2>2 DEF c
    <2>5. QED
      BY <2>1, <2>2, <2>3, <2>4
  <1>7. s = [s EXCEPT !.page_fill = fill + 1]
    BY <1>1, <1>4 DEF Sessions
  <1>8. ASSUME NEW n \in 0 .. PageSize - 1, NEW y, y = [s EXCEPT !.page_fill = n]
        PROVE  y \in Sessions
    <2> DEFINE b == s.page_buffer
               c == s.crc
               r == session.received + 1
    <2>1. y = [session EXCEPT !.page_buffer = b, !.page_fill = n, !.crc = c,
                              !.received = r]
      BY <1>1, <1>4, <1>5, <1>8 DEF Sessions
    <2>2. b \in [PageIndex -> Bytes] /\ c \in Seq(Bytes) /\ r \in Nat
      BY <1>0, <1>6
    <2> HIDE DEF b, c, r
    <2>3. QED
      BY <1>1, <2>1, <2>2 DEF Sessions
  <1>9. [s EXCEPT !.page_fill = 0] \in Sessions /\ (s.page_fill # PageSize => s \in Sessions)
    <2>1. 0 \in 0 .. PageSize - 1
      BY LayoutFacts
    <2>2. s.page_fill # PageSize => fill + 1 \in 0 .. PageSize - 1
      BY <1>0, <1>5, LayoutFacts
    <2>3. QED
      BY <1>7, <1>8, <2>1, <2>2
  <1>10. ASSUME NEW j \in 0 .. fill
         PROVE  s.page_buffer[j] = s.crc[session.page_offset + j + 1]
    <2>1. CASE j = fill
      BY <1>1, <1>2, <1>5, <1>6, <2>1 DEF PageIndex
    <2>2. CASE j # fill
      <3>1. j \in 0 .. fill - 1 /\ fill # 0 /\ j \in PageIndex
        BY <1>1, <2>2, LayoutFacts DEF PageIndex
      <3>2. s.page_buffer[j] = session.page_buffer[j]
        BY <1>2, <1>5, <2>2, <3>1 DEF page
      <3>3. session.page_buffer[j] = session.crc[session.page_offset + j + 1]
        BY <1>3, <3>1 DEF BufferHolds
      <3>4. session.page_offset + j + 1 \in 1 .. session.received
        BY <1>1, <3>1, LayoutFacts DEF PageIndex
      <3>5. QED
        BY <1>6, <3>2, <3>3, <3>4
    <2>3. QED
      BY <2>1, <2>2
  <1>11. ASSUME NEW j \in fill + 1 .. PageSize - 1
         PROVE  s.page_buffer[j] = Erased
    <2>1. j \in PageIndex /\ j # fill /\ j \in fill .. PageSize - 1
      BY <1>1, LayoutFacts DEF PageIndex
    <2>2. s.page_buffer[j] = page[j]
      BY <1>2, <1>5, <2>1
    <2>3. page[j] = Erased
      <3>1. CASE fill = 0
        BY <2>1, <3>1 DEF page, BlankPage
      <3>2. CASE fill # 0
        BY <1>1, <1>3, <2>1, <3>2 DEF page, BufferHolds, PageIndex
      <3>3. QED
        BY <3>1, <3>2
    <2>4. QED
      BY <2>2, <2>3
  <1>12. QED
    BY <1>5, <1>6, <1>7, <1>9, <1>10, <1>11 DEF PageHolds

\* The range checks pass whenever a page is complete.
LEMMA PageFitsAlways ==
  ASSUME Inv, Staging
  PROVE  PageFits(Buffered(Head(rx_data)))
  <1> DEFINE s == Buffered(Head(rx_data))
  <1>1. s.page_offset = session.page_offset
    BY BufferedFacts
  <1>2. session.page_offset + PageSize <= StagingSize
    <2> HIDE DEF CopyBytes
    <2>1. QED
      BY StagingFacts, LayoutFacts
  <1>3. QED
    BY <1>1, <1>2 DEF PageFits

\* A byte that neither fills the page nor ends the image.
LEMMA StageByteBuffers ==
  ASSUME Inv, Staging, NEW s, s = Buffered(Head(rx_data)),
         s.page_fill # PageSize, s.received # s.size,
         session' = s, rx_data' = Tail(rx_data),
         UNCHANGED <<mode, image_ready, ready_session_id, apply_offset, flash,
                     verified, boot_image>>
  PROVE  Inv'
  <1>0. /\ session.page_fill \in 0 .. PageSize - 1 /\ session.page_offset \in Nat
        /\ session.received \in Nat /\ session.size \in Nat
        /\ session.crc \in Seq(Bytes) /\ Head(rx_data) \in Bytes
        /\ Len(session.crc) = session.received
    BY StagingFacts DEF PageIndex
  <1>a. PageHolds(s)
    BY BufferedFacts
  <1>1. TypeOK'
    BY StagingFacts, BufferedFacts DEF Inv, TypeOK
  <1>2. CopyBytes' = CopyBytes
    BY BufferedFacts DEF CopyBytes
  <1>3. ~Complete' /\ InFlash' = session.page_offset /\ InFlash = session.page_offset
    BY StagingFacts, BufferedFacts DEF Complete, InFlash
  <1>4. /\ session'.active /\ session'.size = session.size
        /\ session'.received = session.received + 1
        /\ session'.programmed = session.programmed
        /\ session'.page_offset = session.page_offset
        /\ session'.page_fill = session.page_fill + 1
        /\ session'.page_fill \in PageIndex
        /\ session'.crc = Append(session.crc, Head(rx_data))
    <2>0. s.page_fill = session.page_fill + 1
      BY BufferedFacts
    <2>1. s.page_fill \in PageIndex
      BY <1>0, <2>0, LayoutFacts DEF PageIndex
    <2>2. QED
      BY <2>1, StagingFacts, BufferedFacts
  <1>5. Counters'
    <2>1. Len(session'.crc) = session.received + 1
      BY <1>0, <1>4, AppendFacts
    <2>2. session.size \in 1 .. StagingSize /\ session.size <= StagingOffset
      BY StagingFacts DEF Inv, StagingConsistent, Counters
    <2>3. session.received + 1 <= session.size
      BY StagingFacts
    <2>4. session.page_offset + (session.page_fill + 1) = session.received + 1
      BY StagingFacts DEF PageIndex
    <2> HIDE DEF CopyBytes
    <2>5. QED
      BY <1>3, <1>4, <2>1, <2>2, <2>3, <2>4, StagingFacts DEF Counters
  <1>6. BufferHolds'
    <2>1. ASSUME NEW j \in 0 .. session'.page_fill - 1
          PROVE  session'.page_buffer[j] = session'.crc[session'.page_offset + j + 1]
      <3>1. j \in 0 .. session.page_fill
        BY <1>0, <1>4, LayoutFacts
      <3>2. QED
        BY <1>4, <1>a, <3>1 DEF PageHolds
    <2>2. ASSUME NEW j \in session'.page_fill .. PageSize - 1
          PROVE  session'.page_buffer[j] = Erased
      <3>1. j \in session.page_fill + 1 .. PageSize - 1
        BY <1>4
      <3>2. QED
        BY <1>a, <3>1 DEF PageHolds
    <2>3. QED
      BY <2>1, <2>2 DEF BufferHolds
  <1>7. StagedCells'
    <2> SUFFICES ASSUME NEW i \in 0 .. CopyBytes - 1
                 PROVE  flash[StagingOffset + i]
                          = IF i < session.page_offset THEN session'.crc[i + 1] ELSE Erased
      BY <1>2, <1>3 DEF StagedCells
    <2> HIDE DEF CopyBytes
    <2>1. flash[StagingOffset + i]
            = IF i < session.page_offset THEN session.crc[i + 1] ELSE Erased
      BY <1>3, StagingFacts DEF Inv, StagingConsistent, StagedCells
    <2>2. i < session.page_offset => session'.crc[i + 1] = session.crc[i + 1]
      <3>1. i < session.page_offset => i + 1 \in 1 .. session.received
        BY <1>0, StagingFacts, LayoutFacts
      <3>2. QED
        <4> DEFINE c == Append(session.crc, Head(rx_data))
        <4>1. \A k \in 1 .. Len(session.crc) : c[k] = session.crc[k]
          BY <1>0, AppendFacts
        <4> HIDE DEF c
        <4>2. session'.crc = c
          BY <1>4 DEF c
        <4>3. QED
          BY <1>0, <3>1, <4>1, <4>2
    <2>3. QED
      BY <2>1, <2>2
  <1>8. BootImageIntact'
    BY BootImageKept DEF Inv
  <1>9. image_ready' = FALSE /\ mode' = "staging" /\ session'.active
    BY <1>4, StagingFacts DEF Inv, TypeOK
  <1>10. QED
    BY <1>1, <1>5, <1>6, <1>7, <1>8, <1>9
    DEF Inv, StagingConsistent, ReadyImageStaged, ApplyConsistent
\* A byte that fills the page or ends the image.
LEMMA StageByteProgramsPage ==
  ASSUME Inv, Staging, NEW s, s = Buffered(Head(rx_data)),
         s.page_fill = PageSize \/ s.received = s.size,
         session' = PageProgrammed(s), rx_data' = Tail(rx_data),
         flash' = Program(flash, StagingOffset + s.page_offset, PageSize, s.page_buffer),
         UNCHANGED <<mode, image_ready, ready_session_id, apply_offset, verified,
                     boot_image>>
  PROVE  Inv'
  <1> DEFINE fill == session.page_fill
             start == session.page_offset
             staged == session.received + 1
             size == session.size
             copy == CopyBytes
  <1>1. /\ fill \in 0 .. PageSize - 1 /\ fill \in Nat /\ start \in Nat /\ staged \in Nat
        /\ size \in Nat /\ copy \in Nat /\ staged <= size
        /\ start + fill + 1 = staged
        /\ start % PageSize = 0 /\ (start + PageSize) % PageSize = 0
        /\ start + PageSize <= copy /\ size <= copy /\ copy <= StagingSize
        /\ session.received \in Nat /\ staged = session.received + 1
    <2>1. fill \in PageIndex /\ start \in Nat /\ session.received \in Nat
      BY StagingFacts
    <2>2. fill \in 0 .. PageSize - 1 /\ fill \in Nat /\ staged \in Nat
      BY <2>1, LayoutFacts DEF PageIndex
    <2>3. size \in Nat /\ session.received < size /\ start + fill = session.received
      BY StagingFacts
    <2>4. /\ start % PageSize = 0 /\ (start + PageSize) % PageSize = 0
          /\ start + PageSize <= copy /\ size <= copy /\ copy <= StagingSize
          /\ copy \in Nat
      BY StagingFacts
    <2> HIDE DEF copy
    <2>5. QED
      BY <2>1, <2>2, <2>3, <2>4
  <1> HIDE DEF fill, start, staged, size, copy
  <1>2. /\ s.page_fill = fill + 1 /\ s.page_offset = start /\ s.received = staged
        /\ s.size = size /\ s.programmed = start /\ s.active
        /\ s.crc = Append(session.crc, Head(rx_data))
        /\ s.page_buffer \in [PageIndex -> Bytes] /\ PageHolds(s)
        /\ [s EXCEPT !.page_fill = 0] \in Sessions
    BY BufferedFacts, StagingFacts DEF fill, start, staged, size
  <1>a. /\ s.page_fill = fill + 1 /\ s.page_offset = start /\ s.received = staged
        /\ s.size = size /\ s.programmed = start
    BY <1>2
  <1>b. fill + 1 = PageSize \/ staged = size
    BY <1>a
  <1>3. \A k \in 1 .. session.received : s.crc[k] = session.crc[k]
    <2> DEFINE c == Append(session.crc, Head(rx_data))
    <2>1. \A k \in 1 .. Len(session.crc) : c[k] = session.crc[k]
      BY StagingFacts, AppendFacts
    <2> HIDE DEF c
    <2>2. s.crc = c /\ Len(session.crc) = session.received
      BY <1>2, StagingFacts DEF c
    <2>3. QED
      BY <2>1, <2>2
  <1>4. Len(s.crc) = staged
    <2>1. Len(Append(session.crc, Head(rx_data))) = Len(session.crc) + 1
      BY StagingFacts, AppendFacts
    <2>2. QED
      BY <1>2, <2>1, StagingFacts DEF staged
  <1>5. /\ session' \in Sessions /\ session'.active /\ session'.size = size
        /\ session'.received = staged /\ session'.programmed = staged
        /\ session'.page_offset = start + PageSize /\ session'.page_fill = 0
        /\ session'.crc = s.crc
    <2> DEFINE x == [s EXCEPT !.page_fill = 0]
               next == start + PageSize
    <2>1. x \in Sessions
      BY <1>2
    <2>2. /\ x.active = s.active /\ x.size = s.size /\ x.received = s.received
          /\ x.programmed = s.programmed /\ x.page_offset = s.page_offset
          /\ x.page_fill = 0 /\ x.crc = s.crc
      BY <2>1 DEF Sessions
    <2>3. (IF s.programmed + s.page_fill > s.size THEN s.size
           ELSE s.programmed + s.page_fill) = staged
      BY <1>1, <1>a
    <2>4. session' = [x EXCEPT !.programmed = staged, !.page_offset = next]
      BY <1>2, <2>3, <2>1 DEF PageProgrammed, Sessions
    <2>5. next \in Nat
      BY <1>1, LayoutFacts DEF next
    <2> HIDE DEF x, next
    <2>6. QED
      BY <1>1, <1>2, <2>1, <2>2, <2>4, <2>5 DEF Sessions, next
  <1>6. flash' \in [FlashOffsets -> Cells]
    <2>1. \A i \in 0 .. PageSize - 1 : s.page_buffer[i] \in Cells
      BY <1>2 DEF PageIndex, Cells
    <2>2. StagingOffset + s.page_offset \in Nat /\ PageSize \in Nat
      BY <1>1, <1>a, LayoutFacts
    <2>3. QED
      BY <2>1, <2>2, ProgramType DEF Inv, TypeOK
  <1>7. TypeOK'
    BY <1>5, <1>6, StagingFacts DEF Inv, TypeOK
  <1>8. ASSUME NEW i \in 0 .. StagingOffset - 1
        PROVE  flash'[i] = flash[i]
    <2>1. i \in FlashOffsets
      BY LayoutFacts DEF FlashOffsets
    <2> DEFINE from == StagingOffset + s.page_offset
    <2>2. i \notin from .. from + PageSize - 1
      BY <1>1, <1>a, LayoutFacts
    <2> HIDE DEF from
    <2>3. flash' = Program(flash, from, PageSize, s.page_buffer)
      BY DEF from
    <2>4. QED
      BY <2>1, <2>2, <2>3 DEF Program
  <1>9. BootImageIntact'
    BY <1>8, BootImageKept DEF Inv
  <1>10. CopyBytes' = copy
    BY <1>5 DEF CopyBytes, copy, size
  <1>11. InFlash' = staged
    BY <1>1, <1>2, <1>5 DEF InFlash, Complete
  <1>12. Counters'
    <2>1. session'.size \in 1 .. StagingSize /\ session'.size <= StagingOffset
      BY <1>5, StagingFacts DEF Inv, StagingConsistent, Counters, size
    <2>2. Complete' => start + PageSize >= size
      BY <1>1, <1>5, LayoutFacts DEF Complete
    <2>3. ~Complete' => start + PageSize + 0 = staged
      <3>1. ~Complete' => staged # size
        BY <1>5 DEF Complete
      <3>2. QED
        BY <1>1, <1>b, <3>1, LayoutFacts
    <2>4. QED
      BY <1>1, <1>4, <1>5, <1>11, <2>1, <2>2, <2>3 DEF Counters
  <1>13. BufferHolds'
    BY <1>5 DEF BufferHolds
  <1>14. StagedCells'
    <2> SUFFICES ASSUME NEW i \in 0 .. copy - 1
                 PROVE  flash'[StagingOffset + i]
                          = IF i < staged THEN s.crc[i + 1] ELSE Erased
      BY <1>5, <1>10, <1>11 DEF StagedCells
    <2> DEFINE old == flash[StagingOffset + i]
               from == StagingOffset + start
               cell == StagingOffset + i
    <2>1. old = IF i < start THEN session.crc[i + 1] ELSE Erased
      BY StagingFacts DEF Inv, StagingConsistent, StagedCells, InFlash, start, copy
    <2>2. cell \in FlashOffsets
      BY <1>1, LayoutFacts DEF FlashOffsets
    <2>3. flash' = Program(flash, from, PageSize, s.page_buffer)
      BY <1>2
    <2> HIDE DEF from, cell, old
    <2>4. CASE i < start
      <3>1. cell \notin from .. from + PageSize - 1 /\ i < staged
        BY <1>1, <2>4, LayoutFacts DEF from, cell
      <3>2. flash'[cell] = old
        BY <2>2, <2>3, <3>1 DEF Program, old, cell
      <3>3. i + 1 \in 1 .. session.received
        BY <1>1, <2>4
      <3>4. QED
        BY <1>3, <2>1, <2>4, <3>1, <3>2, <3>3 DEF cell
    <2>5. CASE start <= i /\ i < start + PageSize
      <3> DEFINE j == i - start
      <3>1. /\ cell \in from .. from + PageSize - 1 /\ cell - from = j
            /\ j \in 0 .. PageSize - 1 /\ start + j + 1 = i + 1
            /\ (i < staged => j \in 0 .. fill)
            /\ (~(i < staged) => j \in fill + 1 .. PageSize - 1)
        BY <1>1, <2>5, LayoutFacts DEF from, cell
      <3>2. old = Erased
        BY <1>1, <2>1, <2>5
      <3>3. flash'[cell] = s.page_buffer[j]
        BY <2>2, <2>3, <3>1, <3>2 DEF Program, ProgramCell, old, cell
      <3>4. s.page_buffer[j] = IF i < staged THEN s.crc[i + 1] ELSE Erased
        <4>1. /\ \A l \in 0 .. fill : s.page_buffer[l] = s.crc[start + l + 1]
              /\ \A l \in fill + 1 .. PageSize - 1 : s.page_buffer[l] = Erased
          BY <1>2 DEF PageHolds, fill, start
        <4> HIDE DEF j
        <4>2. QED
          BY <3>1, <4>1
      <3>5. QED
        BY <3>3, <3>4 DEF cell
    <2>6. CASE start + PageSize <= i
      <3>1. cell \notin from .. from + PageSize - 1 /\ ~(i < staged) /\ ~(i < start)
        BY <1>1, <2>6, LayoutFacts DEF from, cell
      <3>2. flash'[cell] = old
        BY <2>2, <2>3, <3>1 DEF Program, old, cell
      <3>3. QED
        BY <2>1, <3>1, <3>2 DEF cell
    <2>7. QED
      BY <1>1, <2>4, <2>5, <2>6, LayoutFacts
  <1>15. image_ready' = FALSE /\ mode' = "staging"
    BY StagingFacts DEF Inv, TypeOK
  <1>16. QED
    BY <1>5, <1>7, <1>9, <1>12, <1>13, <1>14, <1>15
    DEF Inv, StagingConsistent, ReadyImageStaged, ApplyConsistent

LEMMA StageByteStep ==
  ASSUME Inv, StageByte
  PROVE  Inv'
  <1> DEFINE s == Buffered(Head(rx_data))
  <1>1. Staging /\ PageFits(s)
    BY PageFitsAlways DEF StageByte
  <1>2. CASE s.page_fill # PageSize /\ s.received # s.size
    BY <1>1, <1>2, StageByteBuffers DEF StageByte, history
  <1>3. CASE ~(s.page_fill # PageSize /\ s.received # s.size)
    BY <1>1, <1>3, StageByteProgramsPage DEF StageByte, history
  <1>4. QED
    BY <1>2, <1>3

LEMMA StageDoneStep ==
  ASSUME Inv, StageDone
  PROVE  Inv'
  <1> DEFINE report == session.frames + 1 >= ProgressInterval \/ Complete
             sequence == (session.sequence + 1) % SequenceModulus
             frames == IF report THEN 0 ELSE session.frames + 1
  <1>1. /\ mode = "staging" /\ mode' = "running" /\ rx_data' = <<>>
        /\ session' = [session EXCEPT !.sequence = sequence, !.frames = frames]
        /\ UNCHANGED <<image_ready, ready_session_id, apply_offset, flash, verified,
                       boot_image>>
    BY DEF StageDone, history, Complete
  <1>2. session.active /\ ~image_ready
    BY <1>1 DEF Inv, StagingConsistent, ReadyImageStaged
  <1>3. sequence \in 0 .. SequenceModulus - 1 /\ frames \in 0 .. ProgressInterval - 1
    <2>1. /\ session.sequence \in 0 .. SequenceModulus - 1
          /\ session.frames \in 0 .. ProgressInterval - 1
      BY DEF Inv, TypeOK, Sessions
    <2>2. sequence \in 0 .. SequenceModulus - 1
      BY <2>1, LayoutFacts, SMT
    <2>3. frames \in 0 .. ProgressInterval - 1
      BY <2>1, LayoutFacts
    <2>4. QED
      BY <2>2, <2>3
  <1> HIDE DEF sequence, frames
  <1>4. /\ session' \in Sessions /\ session'.active = session.active
        /\ session'.size = session.size /\ session'.received = session.received
        /\ session'.programmed = session.programmed
        /\ session'.page_offset = session.page_offset
        /\ session'.page_fill = session.page_fill /\ session'.crc = session.crc
        /\ session'.page_buffer = session.page_buffer
    BY <1>1, <1>3 DEF Inv, TypeOK, Sessions
  <1>5. TypeOK'
    BY <1>1, <1>4, NoBytes DEF Inv, TypeOK
  <1>6. Complete' = Complete /\ InFlash' = InFlash /\ CopyBytes' = CopyBytes
    BY <1>4 DEF Complete, InFlash, CopyBytes
  <1>7. Counters' /\ BufferHolds' /\ StagedCells'
    BY <1>1, <1>2, <1>4, <1>6
    DEF Inv, StagingConsistent, Counters, BufferHolds, StagedCells
  <1>8. BootImageIntact'
    BY <1>1, BootImageKept DEF Inv
  <1>9. QED
    BY <1>1, <1>2, <1>5, <1>7, <1>8
    DEF Inv, StagingConsistent, ReadyImageStaged, ApplyConsistent
-----------------------------------------------------------------------------
(* The copy over the application *)

\* What is known while the copy runs.
LEMMA ApplyFacts ==
  ASSUME Inv, mode \in {"applying", "programming"}
  PROVE  /\ image_ready /\ ~session.active
         /\ apply_offset \in Nat /\ apply_offset % SectorSize = 0
         /\ CopyBytes \in Nat /\ apply_offset <= CopyBytes
         /\ CopyBytes <= StagingSize /\ CopyBytes <= StagingOffset
         /\ session.size \in 1 .. StagingSize /\ session.size <= CopyBytes
         /\ (apply_offset < CopyBytes =>
               /\ apply_offset + SectorSize <= CopyBytes
               /\ (apply_offset + SectorSize) % SectorSize = 0)
         /\ \A i \in 0 .. apply_offset - 1 : flash[i] = flash[StagingOffset + i]
         /\ Len(verified) = session.size /\ verified \in Seq(Bytes)
  <1>1. /\ image_ready /\ apply_offset % SectorSize = 0 /\ apply_offset <= CopyBytes
        /\ \A i \in 0 .. apply_offset - 1 : flash[i] = flash[StagingOffset + i]
    BY DEF Inv, ApplyConsistent
  <1>2. /\ CopyBytes \in Nat /\ CopyBytes % SectorSize = 0
        /\ CopyBytes <= StagingSize /\ CopyBytes <= StagingOffset
        /\ session.size \in 1 .. StagingSize /\ session.size <= CopyBytes
    BY <1>1, ImageFacts DEF Inv
  <1>3. apply_offset \in Nat /\ verified \in Seq(Bytes)
    BY DEF Inv, TypeOK
  <1>4. ~session.active /\ Len(verified) = session.size
    BY <1>1 DEF Inv, ReadyImageStaged
  <1> HIDE DEF CopyBytes
  <1>5. apply_offset < CopyBytes =>
               /\ apply_offset + SectorSize <= CopyBytes
               /\ (apply_offset + SectorSize) % SectorSize = 0
    BY <1>1, <1>2, <1>3, SectorBelow
  <1>6. QED
    BY <1>1, <1>2, <1>3, <1>4, <1>5

\* Erasing or programming the next sector of the application leaves the staging
\* area alone, and every cell below it but those of the sector.
LEMMA SectorWritten ==
  ASSUME Inv, image_ready, apply_offset \in Nat, CopyBytes \in Nat,
         CopyBytes <= StagingSize, CopyBytes <= StagingOffset,
         apply_offset + SectorSize <= CopyBytes,
         NEW f, \A i \in FlashOffsets :
                  i \notin apply_offset .. apply_offset + SectorSize - 1 => f[i] = flash[i]
  PROVE  /\ \A i \in 0 .. StagingSize - 1 : f[StagingOffset + i] = flash[StagingOffset + i]
         /\ \A i \in 0 .. apply_offset - 1 : f[i] = flash[i]
  <1> HIDE DEF CopyBytes
  <1>1. ASSUME NEW i \in 0 .. StagingSize - 1
        PROVE  f[StagingOffset + i] = flash[StagingOffset + i]
    <2> DEFINE cell == StagingOffset + i
    <2>1. cell \in FlashOffsets /\ cell \notin apply_offset .. apply_offset + SectorSize - 1
      BY LayoutFacts DEF FlashOffsets
    <2> HIDE DEF cell
    <2>2. f[cell] = flash[cell]
      BY <2>1
    <2>3. QED
      BY <2>2 DEF cell
  <1>2. ASSUME NEW i \in 0 .. apply_offset - 1
        PROVE  f[i] = flash[i]
    <2>1. i \in FlashOffsets /\ i \notin apply_offset .. apply_offset + SectorSize - 1
      BY LayoutFacts DEF FlashOffsets
    <2>2. QED
      BY <2>1
  <1>3. QED
    BY <1>1, <1>2

LEMMA ApplyEraseStep ==
  ASSUME Inv, ApplyErase
  PROVE  Inv'
  <1>1. /\ mode = "applying" /\ mode' = "programming" /\ apply_offset < CopyBytes
        /\ flash' = Erase(flash, apply_offset, SectorSize) /\ boot_image' = verified
        /\ UNCHANGED <<session, image_ready, ready_session_id, rx_data, apply_offset,
                       verified>>
    BY DEF ApplyErase, ram
  <1>2. /\ image_ready /\ ~session.active /\ apply_offset \in Nat
        /\ apply_offset % SectorSize = 0
        /\ CopyBytes \in Nat /\ CopyBytes <= StagingSize /\ CopyBytes <= StagingOffset
        /\ apply_offset + SectorSize <= CopyBytes /\ apply_offset <= CopyBytes
        /\ session.size <= CopyBytes /\ session.size \in Nat
        /\ Len(verified) = session.size /\ verified \in Seq(Bytes)
    BY <1>1, ApplyFacts, LayoutFacts
  <1>3. \A i \in FlashOffsets :
          i \notin apply_offset .. apply_offset + SectorSize - 1 => flash'[i] = flash[i]
    BY <1>1 DEF Erase
  <1>4. /\ \A i \in 0 .. StagingSize - 1 :
             flash'[StagingOffset + i] = flash[StagingOffset + i]
        /\ \A i \in 0 .. apply_offset - 1 : flash'[i] = flash[i]
    BY <1>2, <1>3, SectorWritten
  <1>5. TypeOK'
    BY <1>1, <1>2, EraseType DEF Inv, TypeOK
  <1>6. StagingConsistent' /\ ReadyImageStaged'
    BY <1>1, <1>4, ImageKept DEF Inv
  <1>7. BootImageIntact'
    <2> HIDE DEF CopyBytes
    <2>1. Len(verified) <= StagingOffset
      BY <1>2, LayoutFacts
    <2>2. QED
      BY <1>1, <2>1 DEF BootImageIntact
  <1>8. CopyBytes' = CopyBytes
    BY <1>1 DEF CopyBytes
  <1>9. ApplyConsistent'
    <2> HIDE DEF CopyBytes
    <2>1. ASSUME NEW i \in 0 .. apply_offset - 1
          PROVE  flash'[i] = flash'[StagingOffset + i]
      <3>1. i \in 0 .. StagingSize - 1
        BY <1>2, LayoutFacts
      <3>2. flash[i] = flash[StagingOffset + i]
        BY <1>1, ApplyFacts
      <3>3. QED
        BY <1>4, <3>1, <3>2
    <2>2. ASSUME NEW i \in apply_offset .. apply_offset + SectorSize - 1
          PROVE  flash'[i] = Erased
      <3>1. i \in FlashOffsets
        BY <1>2, LayoutFacts DEF FlashOffsets
      <3>2. QED
        BY <1>1, <3>1 DEF Erase
    <2>3. QED
      BY <1>1, <1>2, <1>8, <2>1, <2>2 DEF ApplyConsistent
  <1>10. QED
    BY <1>5, <1>6, <1>7, <1>9 DEF Inv

LEMMA ApplyProgramStep ==
  ASSUME Inv, ApplyProgram
  PROVE  Inv'
  <1> DEFINE sector == [i \in 0 .. SectorSize - 1 |-> flash[StagingOffset + apply_offset + i]]
             next == apply_offset + SectorSize
  <1>1. /\ mode = "programming" /\ mode' = "applying" /\ apply_offset' = next
        /\ flash' = Program(flash, apply_offset, SectorSize, sector)
        /\ UNCHANGED <<session, image_ready, ready_session_id, rx_data, verified,
                       boot_image>>
    BY DEF ApplyProgram, ram, history
  <1>2. /\ image_ready /\ apply_offset < CopyBytes /\ boot_image = verified
        /\ \A i \in apply_offset .. apply_offset + SectorSize - 1 : flash[i] = Erased
    BY <1>1 DEF Inv, ApplyConsistent
  <1>3. /\ ~session.active /\ apply_offset \in Nat
        /\ CopyBytes \in Nat /\ CopyBytes <= StagingSize /\ CopyBytes <= StagingOffset
        /\ next <= CopyBytes /\ next % SectorSize = 0
    BY <1>1, <1>2, ApplyFacts
  <1>4. next \in Nat /\ next > 0
    BY <1>3, LayoutFacts
  <1>5. flash \in [FlashOffsets -> Cells]
    BY DEF Inv, TypeOK
  <1>6. \A i \in 0 .. SectorSize - 1 :
          /\ StagingOffset + apply_offset + i \in FlashOffsets
          /\ sector[i] = flash[StagingOffset + apply_offset + i]
    <2> HIDE DEF CopyBytes
    <2>1. QED
      BY <1>3, LayoutFacts DEF FlashOffsets
  <1>7. flash' \in [FlashOffsets -> Cells]
    BY <1>1, <1>3, <1>5, <1>6, ProgramType, LayoutFacts
  <1>8. \A i \in FlashOffsets :
          i \notin apply_offset .. apply_offset + SectorSize - 1 => flash'[i] = flash[i]
    BY <1>1 DEF Program
  <1>9. /\ \A i \in 0 .. StagingSize - 1 :
             flash'[StagingOffset + i] = flash[StagingOffset + i]
        /\ \A i \in 0 .. apply_offset - 1 : flash'[i] = flash[i]
    BY <1>2, <1>3, <1>8, SectorWritten
  <1>10. TypeOK'
    BY <1>1, <1>4, <1>7 DEF Inv, TypeOK
  <1>11. StagingConsistent' /\ ReadyImageStaged'
    BY <1>1, <1>9, ImageKept DEF Inv
  <1>12. BootImageIntact'
    BY <1>1 DEF Inv, BootImageIntact
  <1>13. CopyBytes' = CopyBytes
    BY <1>1 DEF CopyBytes
  <1>14. ASSUME NEW i \in 0 .. next - 1
         PROVE  flash'[i] = flash'[StagingOffset + i]
    <2> HIDE DEF CopyBytes, sector
    <2>1. i \in 0 .. StagingSize - 1
      BY <1>3, <1>4, LayoutFacts
    <2>2. CASE i < apply_offset
      <3>1. i \in 0 .. apply_offset - 1
        BY <1>3, <2>2
      <3>2. flash[i] = flash[StagingOffset + i]
        BY <1>1, <3>1, ApplyFacts
      <3>3. QED
        BY <1>9, <2>1, <3>1, <3>2
    <2>3. CASE ~(i < apply_offset)
      <3> DEFINE j == i - apply_offset
      <3>1. /\ i \in apply_offset .. apply_offset + SectorSize - 1 /\ i \in FlashOffsets
            /\ j \in 0 .. SectorSize - 1 /\ StagingOffset + apply_offset + j = StagingOffset + i
        BY <1>3, <1>4, <2>3, LayoutFacts DEF FlashOffsets
      <3>2. sector[j] = flash[StagingOffset + i]
        BY <1>6, <3>1
      <3>3. flash'[i] = ProgramCell(flash[i], sector[j])
        BY <1>1, <3>1 DEF Program
      <3>4. flash'[i] = sector[j]
        BY <1>2, <3>1, <3>3 DEF ProgramCell
      <3>5. QED
        BY <1>9, <2>1, <3>2, <3>4
    <2>4. QED
      BY <2>2, <2>3
  <1>15. ApplyConsistent'
    <2> HIDE DEF CopyBytes, next
    <2>1. QED
      BY <1>1, <1>2, <1>3, <1>4, <1>13, <1>14 DEF ApplyConsistent
  <1>16. QED
    BY <1>10, <1>11, <1>12, <1>15 DEF Inv

\* When the copy is over the application holds the image.
LEMMA CopyComplete ==
  ASSUME Inv, mode = "applying", apply_offset >= CopyBytes
  PROVE  Holds(flash, 0, boot_image)
  <1>1. /\ image_ready /\ apply_offset \in Nat /\ CopyBytes \in Nat
        /\ CopyBytes <= StagingSize
        /\ session.size \in 1 .. StagingSize /\ session.size <= CopyBytes
        /\ \A i \in 0 .. apply_offset - 1 : flash[i] = flash[StagingOffset + i]
        /\ Len(verified) = session.size
    BY ApplyFacts
  <1> HIDE DEF CopyBytes
  <1>2. apply_offset > 0
    BY <1>1, LayoutFacts
  <1>3. boot_image = verified /\ Holds(flash, StagingOffset, verified)
    BY <1>1, <1>2 DEF Inv, ApplyConsistent, ReadyImageStaged
  <1>4. ASSUME NEW i \in 1 .. Len(verified)
        PROVE  flash[0 + i - 1] = verified[i]
    <2>1. /\ i - 1 \in 0 .. apply_offset - 1 /\ 0 + i - 1 = i - 1
          /\ StagingOffset + (i - 1) = StagingOffset + i - 1
      BY <1>1, LayoutFacts
    <2>2. flash[StagingOffset + i - 1] = verified[i]
      BY <1>3 DEF Holds
    <2>3. QED
      BY <1>1, <2>1, <2>2
  <1>5. QED
    BY <1>3, <1>4 DEF Holds

-----------------------------------------------------------------------------
(* Restarts *)

LEMMA RestartStep ==
  ASSUME Inv, NEW next_mode \in {"running", "dead"}, RestartInto(next_mode),
         UNCHANGED <<flash, boot_image>>,
         next_mode = "running" => Holds(flash, 0, boot_image)
  PROVE  Inv'
  <1>1. /\ mode' = next_mode /\ session' = NoSession /\ image_ready' = FALSE
        /\ ready_session_id' = 0 /\ rx_data' = <<>> /\ apply_offset' = 0
        /\ verified' = <<>>
    BY DEF RestartInto
  <1>2. TypeOK'
    BY <1>1, NoSessionType, NoBytes DEF Inv, TypeOK
  <1>3. StagingConsistent' /\ ReadyImageStaged' /\ ApplyConsistent'
    BY <1>1, ImageDropped
  <1>4. BootImageIntact'
    BY <1>1 DEF Inv, BootImageIntact, Holds
  <1>5. QED
    BY <1>2, <1>3, <1>4 DEF Inv

LEMMA ApplyRebootStep ==
  ASSUME Inv, ApplyReboot
  PROVE  Inv'
  BY CopyComplete, RestartStep DEF ApplyReboot

LEMMA PowerFailsStep ==
  ASSUME Inv, PowerFails
  PROVE  Inv'
  <1>1. CASE HalfApplied
    BY <1>1, RestartStep DEF PowerFails
  <1>2. CASE ~HalfApplied
    <2>1. Holds(flash, 0, boot_image)
      <3>1. CASE mode = "applying" /\ apply_offset = 0
        BY <3>1 DEF Inv, ApplyConsistent
      <3>2. CASE mode = "applying" /\ apply_offset # 0
        <4>1. apply_offset \in Nat /\ CopyBytes \in Nat
          BY <3>2, ApplyFacts
        <4> HIDE DEF CopyBytes
        <4>2. apply_offset >= CopyBytes
          BY <1>2, <3>2, <4>1 DEF HalfApplied
        <4>3. QED
          BY <3>2, <4>2, CopyComplete
      <3>3. CASE mode # "applying"
        BY <1>2, <3>3 DEF Inv, TypeOK, BootImageIntact, HalfApplied, PowerFails
      <3>4. QED
        BY <3>1, <3>2, <3>3
    <2>2. QED
      BY <1>2, <2>1, RestartStep DEF PowerFails
  <1>3. QED
    BY <1>1, <1>2

LEMMA UsbFlashStep ==
  ASSUME Inv, UsbFlash
  PROVE  Inv'
  <1> DEFINE length == AlignUp(Len(FactoryImage), SectorSize)
             data == [i \in 0 .. Len(FactoryImage) - 1 |-> FactoryImage[i + 1]]
             blank == Erase(flash, 0, length)
             n == Len(FactoryImage)
  <1>1. /\ mode' = "running" /\ session' = NoSession /\ image_ready' = FALSE
        /\ ready_session_id' = 0 /\ rx_data' = <<>> /\ apply_offset' = 0
        /\ verified' = <<>> /\ boot_image' = FactoryImage
        /\ flash' = Program(blank, 0, n, data)
    BY DEF UsbFlash, RestartInto
  <1>2. /\ FactoryImage \in Seq(Bytes) /\ n \in Nat /\ n <= StagingOffset
    BY HostAssumption
  <1>3. length \in Nat /\ n <= length
    BY <1>2, LayoutFacts, AlignUpRounds
  <1> HIDE DEF length, n
  <1>4. \A i \in 0 .. n - 1 : data[i] = FactoryImage[i + 1] /\ data[i] \in Cells
    BY <1>2 DEF Cells, n
  <1> HIDE DEF data
  <1>5. blank \in [FlashOffsets -> Cells]
    BY EraseType DEF Inv, TypeOK
  <1>6. flash' \in [FlashOffsets -> Cells]
    BY <1>1, <1>2, <1>4, <1>5, ProgramType
  <1>7. TypeOK'
    BY <1>1, <1>2, <1>6, NoSessionType, NoBytes DEF Inv, TypeOK
  <1>8. ASSUME NEW i \in 1 .. n
        PROVE  flash'[0 + i - 1] = FactoryImage[i]
    <2> DEFINE j == i - 1
    <2>1. /\ j \in FlashOffsets /\ j \in 0 .. 0 + length - 1 /\ j \in 0 .. 0 + n - 1
          /\ 0 + i - 1 = j /\ j + 1 = i /\ j - 0 = j /\ j \in 0 .. n - 1
      BY <1>2, <1>3, LayoutFacts DEF FlashOffsets
    <2> HIDE DEF j
    <2>2. blank[j] = Erased
      BY <2>1 DEF Erase
    <2> HIDE DEF blank
    <2>3. flash'[j] = ProgramCell(blank[j], data[j])
      BY <1>1, <2>1 DEF Program
    <2>4. data[j] = FactoryImage[i]
      BY <1>4, <2>1
    <2>5. QED
      BY <2>1, <2>2, <2>3, <2>4 DEF ProgramCell
  <1>9. BootImageIntact'
    BY <1>1, <1>2, <1>8 DEF BootImageIntact, Holds, n
  <1>10. StagingConsistent' /\ ReadyImageStaged' /\ ApplyConsistent'
    BY <1>1, ImageDropped
  <1>11. QED
    BY <1>7, <1>9, <1>10 DEF Inv
-----------------------------------------------------------------------------
(* The theorems *)

LEMMA InitInv == Init => Inv
  <1> SUFFICES ASSUME Init PROVE Inv
    OBVIOUS
  <1>1. PICK stale \in Bytes :
          flash = [i \in FlashOffsets |->
                     IF i < Len(FactoryImage) THEN FactoryImage[i + 1] ELSE stale]
    BY DEF Init
  <1>2. FactoryImage \in Seq(Bytes) /\ Len(FactoryImage) <= StagingOffset
    BY HostAssumption
  <1>3. ASSUME NEW i \in FlashOffsets
        PROVE  flash[i] \in Cells
    <2>1. i \in Nat
      BY LayoutFacts DEF FlashOffsets
    <2>2. i < Len(FactoryImage) => FactoryImage[i + 1] \in Bytes
      BY <1>2, <2>1
    <2>3. QED
      BY <1>1, <2>2 DEF Cells
  <1>4. TypeOK
    BY <1>1, <1>2, <1>3, NoSessionType, NoBytes DEF Init, TypeOK
  <1>5. ASSUME NEW i \in 1 .. Len(FactoryImage)
        PROVE  flash[0 + i - 1] = FactoryImage[i]
    <2> DEFINE j == i - 1
    <2>1. j \in FlashOffsets /\ j < Len(FactoryImage) /\ j + 1 = i /\ 0 + i - 1 = j
      BY <1>2, LayoutFacts DEF FlashOffsets
    <2> HIDE DEF j
    <2>2. QED
      BY <1>1, <2>1
  <1>6. BootImageIntact
    BY <1>2, <1>5 DEF Init, BootImageIntact, Holds
  <1>7. StagingConsistent /\ ReadyImageStaged /\ ApplyConsistent
    BY DEF Init, NoSession, StagingConsistent, ReadyImageStaged, ApplyConsistent
  <1>8. QED
    BY <1>4, <1>6, <1>7 DEF Inv

LEMMA NextInv == Inv /\ [Next]_vars => Inv'
  <1> SUFFICES ASSUME Inv, [Next]_vars PROVE Inv'
    OBVIOUS
  <1>1. ASSUME NEW id \in SessionIds, Control(id)
        PROVE  Inv'
    <2>1. ASSUME NEW size \in ImageSizes, Begin(id, size)
          PROVE  Inv'
      BY <2>1, BeginStep, HostAssumption
    <2>2. ASSUME NEW crc \in {session.crc, <<>>}, Finish(id, crc)
          PROVE  Inv'
      BY <2>2, FinishStep
    <2>3. CASE Commit(id)
      BY <2>3, CommitStep
    <2>4. CASE Abort(id)
      BY <2>4, AbortStep
    <2>5. CASE EnterBootsel(id)
      BY <2>5, EnterBootselStep
    <2>6. CASE RebootToBootloader(id)
      BY <2>6, RebootStep
    <2>7. CASE UnknownCommand(id)
      BY <2>7, RefuseStep DEF UnknownCommand
    <2>8. QED
      BY <1>1, <2>1, <2>2, <2>3, <2>4, <2>5, <2>6, <2>7 DEF Control
  <1>2. ASSUME NEW id \in SessionIds, DataFrame(id)
        PROVE  Inv'
    BY <1>2, DataStep, HostAssumption DEF DataFrame
  <1>3. CASE StageByte
    BY <1>3, StageByteStep
  <1>4. CASE StageDone
    BY <1>4, StageDoneStep
  <1>5. CASE ApplyErase
    BY <1>5, ApplyEraseStep
  <1>6. CASE ApplyProgram
    BY <1>6, ApplyProgramStep
  <1>7. CASE ApplyReboot
    BY <1>7, ApplyRebootStep
  <1>8. CASE PowerFails
    BY <1>8, PowerFailsStep
  <1>9. CASE UsbFlash
    BY <1>9, UsbFlashStep
  <1>10. CASE UNCHANGED vars
    BY <1>10, NothingChanged DEF vars, ram, history
  <1>11. QED
    BY <1>1, <1>2, <1>3, <1>4, <1>5, <1>6, <1>7, <1>8, <1>9, <1>10
    DEF Next, Stage, Apply

LEMMA Invariance == Spec => []Inv
  BY InitInv, NextInv, PTL DEF Spec

\* Every field of the target keeps its type, whatever frames arrive and
\* whenever the power fails: in particular no cell outside the flash is written
\* and the page buffer never overflows.
THEOREM TypeCorrect == Spec => []TypeOK
  <1>1. Inv => TypeOK
    BY DEF Inv
  <1>2. QED
    BY <1>1, Invariance, PTL

\* The staging area, the page buffer and the counters agree byte for byte with
\* what was received (flash_stage_data), in every session.
THEOREM StagingCorrect == Spec => []StagingConsistent
  <1>1. Inv => StagingConsistent
    BY DEF Inv
  <1>2. QED
    BY <1>1, Invariance, PTL

\* An image is ready for COMMIT only while the staging area holds all of what
\* FINISH vouched for (scp_flash_can_target_handle_can_frame).
THEOREM ReadyCorrect == Spec => []ReadyImageStaged
  <1>1. Inv => ReadyImageStaged
    BY DEF Inv
  <1>2. QED
    BY <1>1, Invariance, PTL

\* A module that runs, runs a whole image: the last one committed or installed
\* over USB, at every point where the power may fail but those inside the copy
\* over the application (scp_flash_apply_staged_image).
THEOREM BootImageCorrect == Spec => []BootImageIntact
  <1>1. Inv => BootImageIntact
    BY DEF Inv
  <1>2. QED
    BY <1>1, Invariance, PTL

\* The copy reads a source that nothing changes, and keeps the sectors already
\* copied (scp_flash_apply_staged_image).
THEOREM ApplyCorrect == Spec => []ApplyConsistent
  <1>1. Inv => ApplyConsistent
    BY DEF Inv
  <1>2. QED
    BY <1>1, Invariance, PTL

\* FLASH_WRITE_FAILED is never sent: the range checks of flash_stage_data never
\* fail, and FINISH never finds a complete image not wholly programmed.
THEOREM NoWriteFailureSent == Spec => []NoWriteFailure
  <1>1. Init => NoWriteFailure
    BY DEF Init, NoWriteFailure
  <1>2. Inv /\ NoWriteFailure /\ [Next]_vars => NoWriteFailure'
    <2> SUFFICES ASSUME Inv, NoWriteFailure, [Next]_vars
                 PROVE  NoWriteFailure'
      OBVIOUS
    <2>1. ASSUME NEW id \in SessionIds, Control(id)
          PROVE  NoWriteFailure'
      <3>1. ASSUME NEW size \in ImageSizes, Begin(id, size)
            PROVE  NoWriteFailure'
        BY <3>1 DEF Begin, BeginError, BeginAccepted, Refuse, Refusal, Reply, NoWriteFailure
      <3>2. ASSUME NEW crc \in {session.crc, <<>>}, Finish(id, crc)
            PROVE  NoWriteFailure'
        <4>1. FinishError(id, crc) # "FLASH_WRITE_FAILED"
          BY DEF FinishError, Inv, StagingConsistent, Counters, InFlash, Complete
        <4>2. CASE FinishError(id, crc) = "NONE"
          BY <3>2, <4>2 DEF Finish, FinishAccepted, Reply, NoWriteFailure
        <4>3. CASE FinishError(id, crc) # "NONE"
          <5>1. \/ replies' = <<Refusal(FinishError(id, crc), id)>>
                \/ replies' = <<Refusal(FinishError(id, crc), id), Progress>>
            BY <3>2, <4>3 DEF Finish, Refuse
          <5> HIDE DEF FinishError
          <5>2. QED
            BY <4>1, <5>1 DEF Refusal, Reply, Progress, NoWriteFailure
        <4>4. QED
          BY <4>2, <4>3
      <3>3. CASE Commit(id)
        BY <3>3 DEF Commit, Refuse, Refusal, Reply, NoWriteFailure
      <3>4. CASE Abort(id) \/ EnterBootsel(id) \/ RebootToBootloader(id)
        BY <3>4 DEF Abort, EnterBootsel, RebootToBootloader, RefuseActive, Refuse, Refusal,
           Reply, Progress, NoWriteFailure
      <3>5. CASE UnknownCommand(id)
        BY <3>5 DEF UnknownCommand, Refuse, Refusal, Reply, NoWriteFailure
      <3>6. QED
        BY <2>1, <3>1, <3>2, <3>3, <3>4, <3>5 DEF Control
    <2>2. ASSUME NEW id \in SessionIds, DataFrame(id)
          PROVE  NoWriteFailure'
      BY <2>2 DEF DataFrame, Data, DataError, Refuse, Refusal, Reply, Progress, NoWriteFailure
    <2>3. CASE StageByte
      <3>1. PageFits(Buffered(Head(rx_data)))
        BY <2>3, PageFitsAlways DEF StageByte
      <3>2. UNCHANGED replies
        BY <2>3, <3>1 DEF StageByte
      <3>3. QED
        BY <3>2 DEF NoWriteFailure
    <2>4. CASE StageDone
      BY <2>4 DEF StageDone, Reply, Progress, NoWriteFailure
    <2>5. CASE Apply
      BY <2>5 DEF Apply, ApplyErase, ApplyProgram, ApplyReboot, NoWriteFailure
    <2>6. CASE PowerFails \/ UsbFlash
      BY <2>6 DEF PowerFails, UsbFlash, NoWriteFailure
    <2>7. CASE UNCHANGED vars
      BY <2>7 DEF vars, NoWriteFailure
    <2>8. QED
      BY <2>1, <2>2, <2>3, <2>4, <2>5, <2>6, <2>7 DEF Next, Stage
  <1>3. QED
    BY <1>1, <1>2, Invariance, PTL DEF Spec

\* A session ends only by a FINISH that found the image complete, or by a
\* reset: neither ABORT, nor a reboot request, nor another session's frames
\* end it (scp_flash_can_target_handle_can_frame).
THEOREM SessionKept == Spec => SessionNotPreempted
  <1> DEFINE Kept == session.active /\ ~session'.active =>
                       \/ image_ready' /\ Complete /\ session'.crc = session.crc
                       \/ session' = NoSession /\ replies' = <<>>
  <1>1. Inv /\ [Next]_vars => [Kept]_vars
    <2> SUFFICES ASSUME Inv, Next, session.active, ~session'.active
                 PROVE  \/ image_ready' /\ Complete /\ session'.crc = session.crc
                        \/ session' = NoSession /\ replies' = <<>>
      OBVIOUS
    <2>1. ASSUME NEW id \in SessionIds, Control(id)
          PROVE  image_ready' /\ Complete /\ session'.crc = session.crc
      <3>1. PICK crc \in {session.crc, <<>>} : Finish(id, crc)
        <4>1. ASSUME NEW size \in ImageSizes, Begin(id, size)
              PROVE  FALSE
          BY <4>1 DEF Begin, BeginAccepted, Refuse, ram, NoSession
        <4>2. ~Commit(id)
          BY DEF Commit, Refuse, ram
        <4>3. ~Abort(id) /\ ~EnterBootsel(id) /\ ~RebootToBootloader(id)
          BY DEF Abort, EnterBootsel, RebootToBootloader, RefuseActive, Refuse, ram
        <4>4. ~UnknownCommand(id)
          BY DEF UnknownCommand, Refuse, ram
        <4>5. QED
          BY <2>1, <4>1, <4>2, <4>3, <4>4 DEF Control
      <3>2. FinishError(id, crc) = "NONE" /\ FinishAccepted(id, crc)
        BY <3>1 DEF Finish, Refuse, ram
      <3>3. QED
        BY <3>2 DEF FinishError, FinishAccepted, Complete, Inv, TypeOK, Sessions
    <2>2. ASSUME NEW id \in SessionIds, DataFrame(id)
          PROVE  FALSE
      BY <2>2 DEF DataFrame, Data, Refuse, ram
    <2>3. CASE StageByte
      <3> DEFINE s == Buffered(Head(rx_data))
      <3>1. Staging /\ PageFits(s)
        BY <2>3, PageFitsAlways DEF StageByte
      <3>2. s.active = session.active
        BY <3>1, BufferedFacts
      <3>3. session' = s \/ session' = PageProgrammed(s)
        BY <2>3, <3>1 DEF StageByte
      <3>4. PageProgrammed(s).active = s.active
        BY <3>1 DEF PageProgrammed, Buffered, Inv, TypeOK, Sessions
      <3> HIDE DEF s
      <3>5. QED
        BY <3>2, <3>3, <3>4
    <2>4. CASE StageDone
      BY <2>4 DEF StageDone, Inv, TypeOK, Sessions
    <2>5. CASE Apply
      BY <2>5, ApplyFacts DEF Apply, ApplyErase, ApplyProgram, ApplyReboot, RestartInto, ram
    <2>6. CASE PowerFails \/ UsbFlash
      BY <2>6 DEF PowerFails, UsbFlash, RestartInto
    <2>7. QED
      BY <2>1, <2>2, <2>3, <2>4, <2>5, <2>6 DEF Next, Stage
  <1>2. QED
    BY <1>1, Invariance, PTL DEF Spec, SessionNotPreempted
=============================================================================
