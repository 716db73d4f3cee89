----------------------------- MODULE BridgeProofs -----------------------------
(***************************************************************************)
(* Proofs about the two bridges.  SpiManager, for any number of commands   *)
(* and frames, and queues of any length: types, that a status belongs to   *)
(* the command that waits for it, that what is reported of a command is    *)
(* true, and where the frames are and in which order they come out.        *)
(* UsbBridge, for packets, budgets and streams of any length: that what a  *)
(* dropped byte damages stays bounded.                                     *)
(***************************************************************************)
EXTENDS SpiManager, UsbBridge, SequenceTheorems, FiniteSetTheorems, TLAPS

-----------------------------------------------------------------------------
(* The SPI bridge and its manager *)

\* The bridge has at most one status to tell, and has told it before the host
\* gives up: the host makes fewer transfers while it transmits.
StatusInv ==
  /\ status_queue = <<>>
  /\ bridge.busy = {} => bridge.overlaps = 0
  /\ bridge.busy # {} =>
       /\ bridge.loaded = Nothing /\ tries = bridge.overlaps
       /\ \E c \in Commands : step[c] = "poll" /\ bridge.busy = {c} /\ c \notin transmitted
  /\ bridge.loaded.type = "status" =>
       /\ tries <= BusyTransfers
       /\ \E c \in Commands : step[c] = "poll" /\ (bridge.loaded.ok <=> c \in transmitted)
  /\ bridge.loaded.type # "status" =>
       \A c \in Commands : step[c] = "poll" => c \notin transmitted

\* Only the holder of the lock waits for a status.
HolderInv ==
  /\ \A c \in Commands : step[c] = "poll" => lock # <<>> /\ Head(lock) = c
  /\ \A c \in Commands : step[c] # "done" => result[c] = "none"
  /\ \A c \in Commands : step[c] \in {"new", "request"} => c \notin transmitted

Inv == TypeOK /\ StatusInv /\ HolderInv /\ CommandTruthful
-----------------------------------------------------------------------------
(* Queues *)

LEMMA Bounds ==
  /\ QueueSlots \in Nat /\ QueueSlots > 1 /\ RxQueueSize \in Nat
  /\ IdleTries \in Nat /\ BusyTransfers \in Nat /\ BusyTransfers < IdleTries
  /\ MaxFrames \in Nat /\ ReceiveLoop \notin Commands
  BY SpiAssumption

\* A queue with a limit keeps its newest elements.
LEMMA NewestTyped ==
  ASSUME NEW S, NEW s \in Seq(S), NEW n \in Nat
  PROVE  Newest(s, n) \in Seq(S) /\ Len(Newest(s, n)) <= n
  <1>1. CASE Len(s) <= n
    BY <1>1 DEF Newest
  <1>2. CASE ~(Len(s) <= n)
    <2>1. Newest(s, n) = SubSeq(s, Len(s) - n + 1, Len(s))
      BY <1>2 DEF Newest
    <2>2. Len(s) \in Nat /\ Len(s) - n + 1 \in 1 .. Len(s) + 1
      BY <1>2
    <2>3. QED
      BY <2>1, <2>2
  <1>3. QED
    BY <1>1, <1>2

\* What waits for the lock is appended behind its holder.
LEMMA AppendKeepsHead ==
  ASSUME NEW S, NEW s \in Seq(S), NEW e \in S
  PROVE  /\ Append(s, e) \in Seq(S) /\ Append(s, e) # <<>>
         /\ s # <<>> => Head(Append(s, e)) = Head(s)
  <1> DEFINE t == Append(s, e)
  <1>1. t \in Seq(S) /\ Len(t) = Len(s) + 1 /\ Len(s) \in Nat
    OBVIOUS
  <1>2. s # <<>> => Len(s) > 0 /\ t[1] = s[1]
    OBVIOUS
  <1> HIDE DEF t
  <1>3. t # <<>>
    BY <1>1
  <1>4. s # <<>> => Head(t) = Head(s)
    BY <1>1, <1>2, <1>3
  <1>5. QED
    BY <1>1, <1>3, <1>4 DEF t

\* What is dropped from a queue was in it.
LEMMA OldestTyped ==
  ASSUME NEW S, NEW s \in Seq(S), NEW n \in Nat
  PROVE  Elements(Oldest(s, n)) \subseteq S
  <1>1. Len(Newest(s, n)) \in Nat /\ Len(Newest(s, n)) <= Len(s)
    <2>1. CASE Len(s) <= n
      BY <2>1 DEF Newest
    <2>2. CASE ~(Len(s) <= n)
      <3>1. Newest(s, n) = SubSeq(s, Len(s) - n + 1, Len(s))
        BY <2>2 DEF Newest
      <3>2. Len(s) \in Nat /\ Len(s) - n + 1 \in 1 .. Len(s) + 1
        BY <2>2
      <3>3. QED
        BY <3>1, <3>2
    <2>3. QED
      BY <2>1, <2>2
  <1> DEFINE k == Len(s) - Len(Newest(s, n))
  <1>2. k \in 0 .. Len(s)
    BY <1>1
  <1> HIDE DEF k
  <1>3. SubSeq(s, 1, k) \in Seq(S)
    BY <1>2
  <1>4. Oldest(s, n) = SubSeq(s, 1, k)
    BY DEF Oldest, k
  <1>5. QED
    BY <1>3, <1>4 DEF Elements
-----------------------------------------------------------------------------
(* The bridge *)

Bridges ==
  [ring : Seq(Frames), queue : Seq(Frames), loaded : Packets, busy : SUBSET Commands,
   overlaps : 0 .. BusyTransfers, skewed : BOOLEAN, dropped : SUBSET Frames]

\* What no operation of the bridge but its transmission changes.
Untouched(a, b) ==
  a.busy = b.busy /\ a.overlaps = b.overlaps /\ a.skewed = b.skewed

LEMMA PacketTypes ==
  /\ Nothing \in Packets /\ Nothing.type = "idle"
  /\ \A n \in Frames : CanRx(n) \in Packets /\ CanRx(n).type = "can_rx" /\ CanRx(n).frame = n
  /\ \A ok \in BOOLEAN : Status(ok) \in Packets /\ Status(ok).type = "status" /\ Status(ok).ok = ok
  BY DEF Packets, Nothing, CanRx, Status

\* A packet is nothing, a frame or a status.
LEMMA PacketCases ==
  ASSUME NEW p \in Packets
  PROVE  /\ p.type = "can_rx" => p.frame \in Frames
         /\ p.type = "status" => p.ok \in BOOLEAN
  BY DEF Packets, Nothing, CanRx, Status

LEMMA ServicedFacts ==
  ASSUME NEW b \in Bridges
  PROVE  /\ Serviced(b) \in Bridges /\ Len(Serviced(b).queue) < QueueSlots
         /\ Serviced(b).loaded = b.loaded /\ Untouched(Serviced(b), b)
  <1> DEFINE all == b.queue \o b.ring
             kept == Newest(all, QueueSlots - 1)
             gone == Elements(Oldest(all, QueueSlots - 1))
  <1>1. all \in Seq(Frames) /\ QueueSlots - 1 \in Nat
    BY Bounds DEF Bridges
  <1> HIDE DEF all
  <1>2. kept \in Seq(Frames) /\ Len(kept) <= QueueSlots - 1 /\ gone \subseteq Frames
    BY <1>1, NewestTyped, OldestTyped
  <1>3. Serviced(b) = [b EXCEPT !.ring = <<>>, !.queue = kept, !.dropped = @ \cup gone]
    BY DEF Serviced, all
  <1> HIDE DEF kept, gone
  <1>4. Len(kept) < QueueSlots
    BY <1>2, Bounds
  <1>5. b.dropped \cup gone \in SUBSET Frames /\ <<>> \in Seq(Frames)
    BY <1>2 DEF Bridges
  <1> DEFINE dropped == b.dropped \cup gone
  <1>6. Serviced(b) = [b EXCEPT !.ring = <<>>, !.queue = kept, !.dropped = dropped]
    BY <1>3
  <1>7. dropped \in SUBSET Frames
    BY <1>5
  <1> HIDE DEF dropped
  <1>8. QED
    BY <1>2, <1>4, <1>5, <1>6, <1>7 DEF Bridges, Untouched

LEMMA LoadFrameFacts ==
  ASSUME NEW b \in Bridges, Len(b.queue) < QueueSlots
  PROVE  /\ LoadFrame(b) \in Bridges /\ Len(LoadFrame(b).queue) < QueueSlots
         /\ LoadFrame(b).loaded.type # "status" /\ Untouched(LoadFrame(b), b)
  <1>1. CASE b.queue = <<>>
    <2>1. LoadFrame(b) = [b EXCEPT !.loaded = Nothing]
      BY <1>1 DEF LoadFrame
    <2>2. QED
      BY <2>1, PacketTypes DEF Bridges, Untouched
  <1>2. CASE b.queue # <<>>
    <2>1. LoadFrame(b) = [b EXCEPT !.loaded = CanRx(Head(b.queue)), !.queue = Tail(@)]
      BY <1>2 DEF LoadFrame
    <2>2. /\ Head(b.queue) \in Frames /\ Tail(b.queue) \in Seq(Frames)
          /\ Len(Tail(b.queue)) < QueueSlots
      BY <1>2, Bounds DEF Bridges
    <2>3. CanRx(Head(b.queue)) \in Packets /\ CanRx(Head(b.queue)).type # "status"
      BY <2>2, PacketTypes
    <2>4. QED
      BY <2>1, <2>2, <2>3 DEF Bridges, Untouched
  <1>3. QED
    BY <1>1, <1>2

\* An exchange in which the bridge was waiting.
LEMMA ExchangedFacts ==
  ASSUME NEW b \in Bridges, Len(b.queue) < QueueSlots,
         NEW request \in {Nothing} \cup {CanTx(c) : c \in Commands}
  PROVE  LET after == Exchanged(b, request) IN
         /\ after \in Bridges /\ Len(after.queue) < QueueSlots
         /\ after.loaded.type # "status" /\ after.overlaps = b.overlaps
         /\ \/ after.busy = b.busy
            \/ /\ request.type = "can_tx" /\ after.busy = {request.command}
               /\ after.loaded = Nothing
         /\ request = Nothing => after.busy = b.busy
  <1>1. CASE request.type = "can_tx" /\ ~b.skewed
    <2>1. Exchanged(b, request) = [b EXCEPT !.busy = {request.command}, !.loaded = Nothing]
      BY <1>1 DEF Exchanged
    <2>2. request.command \in Commands /\ request # Nothing
      BY <1>1, PacketTypes DEF CanTx
    <2>3. {request.command} \in SUBSET Commands /\ Nothing \in Packets
          /\ Nothing.type # "status"
      BY <2>2, PacketTypes
    <2>4. /\ Exchanged(b, request) \in Bridges
          /\ Exchanged(b, request).queue = b.queue
          /\ Exchanged(b, request).overlaps = b.overlaps
          /\ Exchanged(b, request).busy = {request.command}
          /\ Exchanged(b, request).loaded = Nothing
      BY <2>1, <2>3 DEF Bridges
    <2>5. QED
      BY <1>1, <2>2, <2>3, <2>4
  <1>2. CASE ~(request.type = "can_tx" /\ ~b.skewed)
    <2>1. Exchanged(b, request) = LoadFrame(Serviced(b))
      BY <1>2 DEF Exchanged
    <2>2. /\ Serviced(b) \in Bridges /\ Len(Serviced(b).queue) < QueueSlots
          /\ Untouched(Serviced(b), b)
      BY ServicedFacts
    <2>3. /\ LoadFrame(Serviced(b)) \in Bridges /\ Len(LoadFrame(Serviced(b)).queue) < QueueSlots
          /\ LoadFrame(Serviced(b)).loaded.type # "status"
          /\ Untouched(LoadFrame(Serviced(b)), Serviced(b))
      BY <2>2, LoadFrameFacts
    <2>4. QED
      BY <2>1, <2>2, <2>3 DEF Untouched
  <1>3. QED
    BY <1>1, <1>2

\* One transfer of the host, waited for or not.
LEMMA TransferFacts ==
  ASSUME TypeOK, NEW request \in {Nothing} \cup {CanTx(c) : c \in Commands}, Transfer(request)
  PROVE  /\ bridge' \in Bridges /\ Len(bridge'.queue) < QueueSlots
         /\ bridge.busy # {} => /\ bridge'.busy = bridge.busy /\ bridge'.loaded = bridge.loaded
                                /\ bridge'.overlaps = bridge.overlaps + 1
         /\ bridge.busy = {} =>
              /\ bridge'.loaded.type # "status" /\ bridge'.overlaps = bridge.overlaps
              /\ \/ bridge'.busy = {}
                 \/ /\ request.type = "can_tx" /\ bridge'.busy = {request.command}
                    /\ bridge'.loaded = Nothing
              /\ request = Nothing => bridge'.busy = {}
  <1>1. bridge \in Bridges /\ Len(bridge.queue) < QueueSlots
    BY DEF TypeOK, Bridges
  <1>2. CASE bridge.busy # {}
    <2>1. bridge' = [bridge EXCEPT !.overlaps = @ + 1] /\ bridge.overlaps < BusyTransfers
      BY <1>2 DEF Transfer
    <2>2. bridge.overlaps + 1 \in 0 .. BusyTransfers
      BY <1>1, <2>1, Bounds DEF Bridges
    <2>3. QED
      BY <1>1, <1>2, <2>1, <2>2 DEF Bridges
  <1>3. CASE bridge.busy = {}
    <2>1. bridge' = Exchanged(bridge, request)
      BY <1>3 DEF Transfer
    <2>2. QED
      BY <1>1, <1>3, <2>1, ExchangedFacts
  <1>4. QED
    BY <1>2, <1>3
-----------------------------------------------------------------------------
(* The steps *)

LEMMA InitInv == Init => Inv
  <1> SUFFICES ASSUME Init PROVE Inv
    OBVIOUS
  <1>1. /\ bridge \in Bridges /\ Len(bridge.queue) < QueueSlots
        /\ bridge.busy = {} /\ bridge.overlaps = 0 /\ bridge.loaded = Nothing
    BY PacketTypes, Bounds DEF Init, Bridges
  <1>2. TypeOK
    <2>1. arrived \in 0 .. MaxFrames /\ tries \in 0 .. IdleTries
      BY Bounds DEF Init
    <2>2. /\ <<>> \in Seq(Frames) /\ <<>> \in Seq(BOOLEAN)
          /\ <<>> \in Seq(Commands \cup {ReceiveLoop}) /\ Len(<<>>) <= RxQueueSize
      BY Bounds
    <2>3. /\ lock = <<>> /\ rx_queue = <<>> /\ evicted = {} /\ status_queue = <<>> /\ ingested = <<>>
      BY DEF Init
    <2>4. /\ transmitted \subseteq Commands
          /\ step \in [Commands -> {"new", "request", "poll", "done"}]
          /\ result \in [Commands -> {"none", "accepted", "transport_error"}]
      BY DEF Init
    <2>5. looping \in BOOLEAN
      BY Zenon DEF Init
    <2>6. QED
      BY <1>1, <2>1, <2>2, <2>3, <2>4, <2>5 DEF TypeOK, Bridges
  <1>3. StatusInv
    BY <1>1, PacketTypes DEF Init, StatusInv
  <1>4. HolderInv /\ CommandTruthful
    BY DEF Init, HolderInv, CommandTruthful
  <1>5. QED
    BY <1>2, <1>3, <1>4 DEF Inv

LEMMA BridgeTyped == TypeOK => bridge \in Bridges /\ Len(bridge.queue) < QueueSlots
  BY DEF TypeOK, Bridges

LEMMA FrameArrivesStep == Inv /\ FrameArrives => Inv'
  <1> SUFFICES ASSUME Inv, FrameArrives PROVE Inv'
    OBVIOUS
  <1>1. arrived' \in 0 .. MaxFrames /\ arrived' \in Frames
    <2>1. arrived \in 0 .. MaxFrames
      BY DEF Inv, TypeOK
    <2>2. arrived < MaxFrames /\ arrived' = arrived + 1
      BY DEF FrameArrives
    <2>3. QED
      BY <2>1, <2>2, Bounds DEF Frames
  <1>2. /\ bridge' \in Bridges /\ Len(bridge'.queue) < QueueSlots
        /\ Untouched(bridge', bridge) /\ bridge'.loaded = bridge.loaded
    <2>1. Append(bridge.ring, arrived') \in Seq(Frames)
      BY <1>1, BridgeTyped DEF Inv, Bridges
    <2>2. bridge' = [bridge EXCEPT !.ring = Append(bridge.ring, arrived')]
      BY DEF FrameArrives
    <2>3. QED
      BY <2>1, <2>2, BridgeTyped DEF Inv, Bridges, Untouched
  <1>3. TypeOK'
    BY <1>1, <1>2 DEF FrameArrives, host, Inv, TypeOK, Bridges
  <1>4. StatusInv'
    BY <1>2 DEF FrameArrives, host, Inv, StatusInv, Untouched
  <1>5. HolderInv' /\ CommandTruthful'
    BY DEF FrameArrives, host, Inv, HolderInv, CommandTruthful
  <1>6. QED
    BY <1>3, <1>4, <1>5 DEF Inv

\* The status is that of the command that is polled for.
LEMMA TransmitEndsStep == Inv /\ TransmitEnds => Inv'
  <1> SUFFICES ASSUME Inv, TransmitEnds PROVE Inv'
    OBVIOUS
  <1>1. PICK ok \in BOOLEAN :
          /\ transmitted' = IF ok THEN transmitted \cup bridge.busy ELSE transmitted
          /\ bridge' = [LoadStatus(Serviced(bridge), Status(ok)) EXCEPT
                          !.busy = {}, !.overlaps = 0, !.skewed = bridge.overlaps > 0]
    BY DEF TransmitEnds
  <1>2. bridge.busy # {} /\ UNCHANGED <<arrived, host>>
    BY DEF TransmitEnds
  <1>3. PICK c \in Commands : step[c] = "poll" /\ bridge.busy = {c} /\ c \notin transmitted
    BY <1>2 DEF Inv, StatusInv
  <1>4. tries = bridge.overlaps /\ bridge.overlaps \in 0 .. BusyTransfers
    BY <1>2 DEF Inv, StatusInv, TypeOK
  <1>5. /\ bridge' \in Bridges /\ Len(bridge'.queue) < QueueSlots
        /\ bridge'.busy = {} /\ bridge'.overlaps = 0 /\ bridge'.loaded = Status(ok)
    <2> DEFINE b == Serviced(bridge)
               skewed == bridge.overlaps > 0
    <2>1. b \in Bridges /\ Len(b.queue) < QueueSlots
      BY BridgeTyped, ServicedFacts DEF Inv
    <2>2. bridge' = [b EXCEPT !.loaded = Status(ok), !.busy = {}, !.overlaps = 0, !.skewed = skewed]
      BY <1>1, <2>1 DEF LoadStatus, Bridges
    <2>3. Status(ok) \in Packets /\ skewed \in BOOLEAN /\ 0 \in 0 .. BusyTransfers
      BY PacketTypes, Bounds
    <2> HIDE DEF b, skewed
    <2>4. QED
      BY <2>1, <2>2, <2>3 DEF Bridges
  <1>6. \A d \in Commands : step[d] = "poll" => d = c
    BY <1>3 DEF Inv, HolderInv
  <1>7. /\ transmitted' \subseteq Commands /\ (ok <=> c \in transmitted')
        /\ \A d \in Commands \ {c} : d \in transmitted' <=> d \in transmitted
    BY <1>1, <1>3 DEF Inv, TypeOK
  <1>8. TypeOK'
    BY <1>2, <1>5, <1>7 DEF host, Inv, TypeOK, Bridges
  <1>9. StatusInv'
    <2>1. bridge'.loaded.type = "status" /\ (bridge'.loaded.ok <=> c \in transmitted')
      BY <1>5, <1>7, PacketTypes
    <2>2. status_queue' = <<>> /\ tries' <= BusyTransfers /\ step'[c] = "poll"
      BY <1>2, <1>3, <1>4, Bounds DEF host, Inv, StatusInv
    <2>3. QED
      BY <1>5, <2>1, <2>2 DEF StatusInv
  <1>10. HolderInv'
    BY <1>2, <1>3, <1>7 DEF host, Inv, HolderInv
  <1>11. CommandTruthful'
    BY <1>2, <1>3, <1>7 DEF host, Inv, HolderInv, CommandTruthful
  <1>12. QED
    BY <1>8, <1>9, <1>10, <1>11 DEF Inv

LEMMA SubmitStep ==
  ASSUME Inv, NEW c \in Commands, Submit(c)
  PROVE  Inv'
  <1>1. /\ step[c] = "new" /\ step' = [step EXCEPT ![c] = "request"]
        /\ lock' = Append(lock, c)
        /\ UNCHANGED <<arrived, bridge, transmitted, tries, result, looping, rx_queue,
                       evicted, status_queue, ingested>>
    BY DEF Submit
  <1>2. /\ lock' \in Seq(Commands \cup {ReceiveLoop})
        /\ lock # <<>> => lock' # <<>> /\ Head(lock') = Head(lock)
    <2>1. lock \in Seq(Commands \cup {ReceiveLoop}) /\ c \in Commands \cup {ReceiveLoop}
      BY DEF Inv, TypeOK
    <2>2. QED
      BY <1>1, <2>1, AppendKeepsHead
  <1>3. /\ step' \in [Commands -> {"new", "request", "poll", "done"}] /\ step'[c] = "request"
        /\ \A d \in Commands \ {c} : step'[d] = step[d]
    BY <1>1 DEF Inv, TypeOK
  <1>4. TypeOK'
    BY <1>1, <1>2, <1>3 DEF Inv, TypeOK
  <1>5. StatusInv'
    <2>1. \A d \in Commands : step'[d] = "poll" <=> step[d] = "poll"
      BY <1>1, <1>3
    <2>2. QED
      BY <1>1, <2>1 DEF Inv, StatusInv
  <1>6. HolderInv' /\ CommandTruthful'
    BY <1>1, <1>2, <1>3 DEF Inv, HolderInv, CommandTruthful
  <1>7. QED
    BY <1>4, <1>5, <1>6 DEF Inv

\* While the holder of the lock is not polling, the bridge owes no status.
LEMMA NothingOwed ==
  ASSUME Inv, \A c \in Commands : step[c] # "poll"
  PROVE  bridge.busy = {} /\ bridge.loaded.type # "status" /\ bridge.overlaps = 0
  BY DEF Inv, StatusInv

LEMMA FrameOfTyped ==
  ASSUME NEW p \in Packets
  PROVE  FrameOf(p) \in Seq(Frames)
  <1>1. CASE p.type = "can_rx"
    BY <1>1, PacketCases DEF FrameOf
  <1>2. CASE p.type # "can_rx"
    BY <1>2 DEF FrameOf
  <1>3. QED
    BY <1>1, <1>2

LEMMA QueueFrameTyped ==
  ASSUME TypeOK, QueueFrame(Response)
  PROVE  rx_queue' \in Seq(Frames) /\ Len(rx_queue') <= RxQueueSize /\ evicted' \subseteq Frames
  <1> DEFINE all == rx_queue \o FrameOf(Response)
  <1>1. all \in Seq(Frames) /\ evicted \subseteq Frames
    BY FrameOfTyped DEF TypeOK, Response
  <1>2. rx_queue' = Newest(all, RxQueueSize) /\ evicted' = evicted \cup Elements(Oldest(all, RxQueueSize))
    BY DEF QueueFrame
  <1> HIDE DEF all
  <1>3. QED
    BY <1>1, <1>2, NewestTyped, OldestTyped, Bounds

LEMMA SendRequestStep ==
  ASSUME Inv, NEW c \in Commands, SendRequest(c)
  PROVE  Inv'
  <1>1. /\ step[c] = "request" /\ lock # <<>> /\ Head(lock) = c /\ Transfer(CanTx(c))
        /\ step' = [step EXCEPT ![c] = "poll"] /\ tries' = 0
        /\ QueueFrame(Response)
        /\ status_queue' = QueueStatus(status_queue, Response)
        /\ UNCHANGED <<arrived, transmitted, lock, result, looping, ingested>>
    BY DEF SendRequest, MayProceed
  <1>2. \A d \in Commands : step[d] # "poll"
    BY <1>1 DEF Inv, HolderInv
  <1>3. bridge.busy = {} /\ bridge.loaded.type # "status" /\ bridge.overlaps = 0
    BY <1>2, NothingOwed
  <1>4. /\ bridge' \in Bridges /\ Len(bridge'.queue) < QueueSlots
        /\ bridge'.loaded.type # "status" /\ bridge'.overlaps = 0
        /\ \/ bridge'.busy = {}
           \/ bridge'.busy = {c} /\ bridge'.loaded = Nothing
    <2>1. CanTx(c).command = c /\ CanTx(c) \in {Nothing} \cup {CanTx(d) : d \in Commands}
      BY DEF CanTx
    <2>2. QED
      BY <1>1, <1>3, <2>1, TransferFacts DEF Inv
  <1>5. status_queue' = <<>>
    BY <1>1, <1>3 DEF QueueStatus, Response, Inv, StatusInv
  <1>6. rx_queue' \in Seq(Frames) /\ Len(rx_queue') <= RxQueueSize /\ evicted' \subseteq Frames
    BY <1>1, QueueFrameTyped DEF Inv
  <1>7. /\ step' \in [Commands -> {"new", "request", "poll", "done"}] /\ step'[c] = "poll"
        /\ \A d \in Commands \ {c} : step'[d] = step[d]
    BY <1>1 DEF Inv, TypeOK
  <1>8. TypeOK'
    <2>1. status_queue' \in Seq(BOOLEAN) /\ tries' \in 0 .. IdleTries
      BY <1>1, <1>5, Bounds
    <2>2. QED
      BY <1>1, <1>4, <1>6, <1>7, <2>1 DEF Inv, TypeOK, Bridges
  <1>9. c \notin transmitted'
    BY <1>1 DEF Inv, HolderInv
  <1>10. StatusInv'
    <2>1. \A d \in Commands : step'[d] = "poll" => d \notin transmitted'
      BY <1>2, <1>7, <1>9
    <2>2. QED
      BY <1>1, <1>4, <1>5, <1>7, <1>9, <2>1 DEF StatusInv
  <1>11. HolderInv' /\ CommandTruthful'
    BY <1>1, <1>2, <1>7 DEF Inv, HolderInv, CommandTruthful
  <1>12. QED
    BY <1>8, <1>10, <1>11 DEF Inv

\* The end of a send that reports the truth.
LEMMA EndSendFacts ==
  ASSUME Inv, NEW c \in Commands, NEW ok \in BOOLEAN, step[c] = "poll",
         EndSend(c, ok), ok <=> c \in transmitted, UNCHANGED transmitted
  PROVE  /\ step' \in [Commands -> {"new", "request", "poll", "done"}]
         /\ result' \in [Commands -> {"none", "accepted", "transport_error"}]
         /\ lock' \in Seq(Commands \cup {ReceiveLoop})
         /\ \A d \in Commands : step'[d] # "poll"
         /\ HolderInv' /\ CommandTruthful'
  <1>1. /\ step' = [step EXCEPT ![c] = "done"]
        /\ result' = [result EXCEPT ![c] = IF ok THEN "accepted" ELSE "transport_error"]
        /\ lock' = Tail(lock)
    BY DEF EndSend
  <1>2. lock # <<>> /\ Head(lock) = c /\ \A d \in Commands : step[d] = "poll" => d = c
    BY DEF Inv, HolderInv
  <1>3. /\ step' \in [Commands -> {"new", "request", "poll", "done"}] /\ step'[c] = "done"
        /\ \A d \in Commands \ {c} : step'[d] = step[d]
    BY <1>1 DEF Inv, TypeOK
  <1>4. /\ result' \in [Commands -> {"none", "accepted", "transport_error"}]
        /\ result'[c] = IF ok THEN "accepted" ELSE "transport_error"
        /\ \A d \in Commands \ {c} : result'[d] = result[d]
    BY <1>1 DEF Inv, TypeOK
  <1>5. lock' \in Seq(Commands \cup {ReceiveLoop})
    BY <1>1, <1>2 DEF Inv, TypeOK
  <1>6. \A d \in Commands : step'[d] # "poll"
    BY <1>2, <1>3
  <1>7. HolderInv'
    BY <1>3, <1>4, <1>6 DEF Inv, HolderInv
  <1>8. CommandTruthful'
    BY <1>4 DEF Inv, CommandTruthful
  <1>9. QED
    BY <1>3, <1>4, <1>5, <1>6, <1>7, <1>8

\* The bridge is still transmitting, has the status ready, or refuses to say.
LEMMA PollStep ==
  ASSUME Inv, NEW c \in Commands, Poll(c)
  PROVE  Inv'
  <1>1. /\ step[c] = "poll" /\ tries < IdleTries /\ lock # <<>> /\ Head(lock) = c
        /\ UNCHANGED <<arrived, transmitted, looping, ingested>>
    BY DEF Poll, MayProceed
  <1>2. /\ Transfer(Nothing) /\ QueueFrame(Response)
        /\ IF Response.type = "status"
             THEN EndSend(c, Response.ok) /\ UNCHANGED tries
             ELSE tries' = tries + 1 /\ UNCHANGED <<step, result, lock>>
        /\ status_queue' = <<>>
    BY DEF Poll, Inv, StatusInv
  <1>3. \A d \in Commands : step[d] = "poll" => d = c
    BY <1>1 DEF Inv, HolderInv
  <1>4. rx_queue' \in Seq(Frames) /\ Len(rx_queue') <= RxQueueSize /\ evicted' \subseteq Frames
    BY <1>2, QueueFrameTyped DEF Inv
  <1>5. /\ bridge' \in Bridges /\ Len(bridge'.queue) < QueueSlots
        /\ bridge.busy # {} => /\ bridge'.busy = bridge.busy /\ bridge'.loaded = bridge.loaded
                               /\ bridge'.overlaps = bridge.overlaps + 1
        /\ bridge.busy = {} => /\ bridge'.loaded.type # "status" /\ bridge'.busy = {}
                               /\ bridge'.overlaps = bridge.overlaps
    BY <1>2, TransferFacts DEF Inv
  <1>6. status_queue' \in Seq(BOOLEAN)
    BY <1>2
  <1>7. bridge.overlaps \in Nat /\ tries \in Nat /\ (bridge.busy = {} => bridge.overlaps = 0)
    BY Bounds DEF Inv, TypeOK, StatusInv
  <1>8. CASE Response.type = "status"
    <2>1. EndSend(c, Response.ok) /\ tries' = tries
      BY <1>2, <1>8
    <2>2. Response.ok \in BOOLEAN /\ (Response.ok <=> c \in transmitted)
      <3>1. Response.ok \in BOOLEAN
        BY <1>8, PacketCases DEF Inv, TypeOK, Response
      <3>2. Response.ok <=> c \in transmitted
        BY <1>3, <1>8 DEF Inv, StatusInv, Response
      <3>3. QED
        BY <3>1, <3>2
    <2>3. bridge.busy = {}
      BY <1>8, PacketTypes DEF Inv, StatusInv, Response
    <2>4. /\ step' \in [Commands -> {"new", "request", "poll", "done"}]
          /\ result' \in [Commands -> {"none", "accepted", "transport_error"}]
          /\ lock' \in Seq(Commands \cup {ReceiveLoop})
          /\ \A d \in Commands : step'[d] # "poll"
          /\ HolderInv' /\ CommandTruthful'
      BY <1>1, <2>1, <2>2, EndSendFacts
    <2>5. TypeOK'
      BY <1>1, <1>4, <1>5, <1>6, <2>1, <2>4 DEF Inv, TypeOK, Bridges
    <2>6. StatusInv'
      BY <1>2, <1>5, <1>7, <2>3, <2>4 DEF StatusInv
    <2>7. QED
      BY <2>4, <2>5, <2>6 DEF Inv
  <1>9. CASE Response.type # "status"
    <2>1. tries' = tries + 1 /\ UNCHANGED <<step, result, lock>>
      BY <1>2, <1>9
    <2>2. tries' \in 0 .. IdleTries
      BY <1>1, <1>7, <2>1, Bounds
    <2>3. TypeOK'
      BY <1>1, <1>4, <1>5, <1>6, <2>1, <2>2 DEF Inv, TypeOK, Bridges
    <2>4. c \notin transmitted'
      BY <1>1, <1>9 DEF Inv, StatusInv, Response
    <2>5. \A d \in Commands : step'[d] = "poll" => d \notin transmitted'
      BY <1>3, <2>1, <2>4
    <2>6. StatusInv'
      <3>1. CASE bridge.busy = {}
        BY <1>2, <1>5, <1>7, <2>5, <3>1 DEF StatusInv
      <3>2. CASE bridge.busy # {}
        <4>1. /\ bridge.loaded = Nothing /\ tries = bridge.overlaps
              /\ \E d \in Commands : step[d] = "poll" /\ bridge.busy = {d} /\ d \notin transmitted
          BY <3>2 DEF Inv, StatusInv
        <4>2. bridge'.loaded = Nothing /\ tries' = bridge'.overlaps /\ bridge'.busy # {}
          BY <1>5, <2>1, <3>2, <4>1
        <4>3. \E d \in Commands : step'[d] = "poll" /\ bridge'.busy = {d} /\ d \notin transmitted'
          BY <1>1, <1>5, <2>1, <3>2, <4>1
        <4>4. QED
          BY <1>2, <2>5, <4>2, <4>3, PacketTypes DEF StatusInv
      <3>3. QED
        BY <3>1, <3>2
    <2>7. HolderInv' /\ CommandTruthful'
      BY <1>1, <2>1 DEF Inv, HolderInv, CommandTruthful
    <2>8. QED
      BY <2>3, <2>6, <2>7 DEF Inv
  <1>10. QED
    BY <1>8, <1>9

\* The host gives up only when nothing was transmitted: it would have had the
\* status after BusyTransfers idle packets and one more.
LEMMA PollFailsStep ==
  ASSUME Inv, NEW c \in Commands, PollFails(c)
  PROVE  Inv'
  <1>1. /\ step[c] = "poll" /\ tries = IdleTries /\ EndSend(c, FALSE)
        /\ UNCHANGED <<arrived, bridge, transmitted, tries, looping, rx_queue, evicted,
                       status_queue, ingested>>
    BY DEF PollFails, MayProceed
  <1>2. bridge.busy = {} /\ bridge.loaded.type # "status"
    <2>1. bridge.overlaps \in 0 .. BusyTransfers
      BY DEF Inv, TypeOK
    <2>2. /\ bridge.busy # {} => tries = bridge.overlaps
          /\ bridge.loaded.type = "status" => tries <= BusyTransfers
      BY DEF Inv, StatusInv
    <2>3. QED
      BY <1>1, <2>1, <2>2, Bounds
  <1>3. c \notin transmitted
    BY <1>1, <1>2 DEF Inv, StatusInv
  <1>4. FALSE \in BOOLEAN /\ (FALSE <=> c \in transmitted) /\ UNCHANGED transmitted
    BY <1>1, <1>3
  <1>5. /\ step' \in [Commands -> {"new", "request", "poll", "done"}]
        /\ result' \in [Commands -> {"none", "accepted", "transport_error"}]
        /\ lock' \in Seq(Commands \cup {ReceiveLoop})
        /\ \A d \in Commands : step'[d] # "poll"
        /\ HolderInv' /\ CommandTruthful'
    BY <1>1, <1>4, EndSendFacts
  <1>6. TypeOK'
    BY <1>1, <1>5 DEF Inv, TypeOK
  <1>7. StatusInv'
    BY <1>1, <1>2, <1>5 DEF Inv, StatusInv
  <1>8. QED
    BY <1>5, <1>6, <1>7 DEF Inv

LEMMA DrainStep == Inv /\ Drain => Inv'
  <1> SUFFICES ASSUME Inv, Drain PROVE Inv'
    OBVIOUS
  <1>1. /\ ingested' = ingested \o rx_queue /\ rx_queue' = <<>>
        /\ lock' = Append(lock, ReceiveLoop)
        /\ UNCHANGED <<arrived, bridge, transmitted, step, tries, result, evicted,
                       status_queue>>
    BY DEF Drain
  <1>2. looping' \in BOOLEAN
    BY Zenon DEF Drain
  <1>3. ingested' \in Seq(Frames) /\ rx_queue' \in Seq(Frames) /\ Len(rx_queue') <= RxQueueSize
    BY <1>1, Bounds DEF Inv, TypeOK
  <1>4. /\ lock' \in Seq(Commands \cup {ReceiveLoop})
        /\ lock # <<>> => lock' # <<>> /\ Head(lock') = Head(lock)
    <2>1. lock \in Seq(Commands \cup {ReceiveLoop}) /\ ReceiveLoop \in Commands \cup {ReceiveLoop}
      BY DEF Inv, TypeOK
    <2>2. QED
      BY <1>1, <2>1, AppendKeepsHead
  <1>5. TypeOK'
    BY <1>1, <1>2, <1>3, <1>4 DEF Inv, TypeOK
  <1>6. StatusInv'
    BY <1>1 DEF Inv, StatusInv
  <1>7. HolderInv' /\ CommandTruthful'
    BY <1>1, <1>4 DEF Inv, HolderInv, CommandTruthful
  <1>8. QED
    BY <1>5, <1>6, <1>7 DEF Inv

\* The receiver holds the lock, so that nobody polls and no status can come.
LEMMA ReceiveStep == Inv /\ Receive => Inv'
  <1> SUFFICES ASSUME Inv, Receive PROVE Inv'
    OBVIOUS
  <1>1. /\ lock # <<>> /\ Head(lock) = ReceiveLoop /\ Transfer(Nothing)
        /\ ingested' = ingested \o FrameOf(Response)
        /\ status_queue' = QueueStatus(status_queue, Response)
        /\ lock' = Tail(lock)
        /\ UNCHANGED <<arrived, transmitted, step, tries, result, rx_queue, evicted>>
    BY DEF Receive, MayProceed
  <1>2. looping' \in BOOLEAN
    BY Zenon DEF Receive
  <1>3. \A d \in Commands : step[d] # "poll"
    BY <1>1, Bounds DEF Inv, HolderInv
  <1>4. bridge.busy = {} /\ bridge.loaded.type # "status" /\ bridge.overlaps = 0
    BY <1>3, NothingOwed
  <1>5. /\ bridge' \in Bridges /\ Len(bridge'.queue) < QueueSlots
        /\ bridge'.loaded.type # "status" /\ bridge'.busy = {} /\ bridge'.overlaps = 0
    BY <1>1, <1>4, TransferFacts DEF Inv
  <1>6. ingested' \in Seq(Frames)
    <2>1. FrameOf(Response) \in Seq(Frames)
      BY FrameOfTyped DEF Inv, TypeOK, Response
    <2>2. QED
      BY <1>1, <2>1 DEF Inv, TypeOK
  <1>7. status_queue' = <<>> /\ status_queue' \in Seq(BOOLEAN)
    BY <1>1, <1>4 DEF QueueStatus, Response, Inv, StatusInv
  <1>8. lock' \in Seq(Commands \cup {ReceiveLoop})
    BY <1>1 DEF Inv, TypeOK
  <1>9. TypeOK'
    BY <1>1, <1>2, <1>5, <1>6, <1>7, <1>8 DEF Inv, TypeOK, Bridges
  <1>10. StatusInv'
    BY <1>1, <1>3, <1>5, <1>7 DEF StatusInv
  <1>11. HolderInv' /\ CommandTruthful'
    BY <1>1, <1>3 DEF Inv, HolderInv, CommandTruthful
  <1>12. QED
    BY <1>9, <1>10, <1>11 DEF Inv

LEMMA NextInv == Inv /\ [Next]_vars => Inv'
  <1> SUFFICES ASSUME Inv, [Next]_vars PROVE Inv'
    OBVIOUS
  <1>1. CASE FrameArrives
    BY <1>1, FrameArrivesStep
  <1>2. CASE TransmitEnds
    BY <1>2, TransmitEndsStep
  <1>3. CASE \E c \in Commands : Submit(c) \/ SendRequest(c) \/ Poll(c) \/ PollFails(c)
    BY <1>3, SubmitStep, SendRequestStep, PollStep, PollFailsStep
  <1>4. CASE Drain
    BY <1>4, DrainStep
  <1>5. CASE Receive
    BY <1>5, ReceiveStep
  <1>6. CASE UNCHANGED vars
    BY <1>6 DEF vars, host, Inv, TypeOK, StatusInv, HolderInv, CommandTruthful, Response
  <1>7. QED
    BY <1>1, <1>2, <1>3, <1>4, <1>5, <1>6 DEF Next

LEMMA Invariance == Spec => []Inv
  BY InitInv, NextInv, PTL DEF Spec
-----------------------------------------------------------------------------
(* The frames, and the order they keep *)

Increasing(s) == \A i, j \in DOMAIN s : i < j => s[i] < s[j]
Before(S, T) == \A m \in S, n \in T : m < n
AtMostOne(S) == \A i, j \in S : i = j

\* The frames the bridge holds: the one it has loaded, and those behind it.
Waiting(b) == b.queue \o b.ring
Taken(b) == Elements(FrameOf(b.loaded))
Ahead(b) == Taken(b) \cup Elements(Waiting(b))

\* A frame is in one place, unless a full queue gave it up.
FramesInv ==
  /\ bridge.dropped \cup evicted \subseteq 1 .. arrived
  /\ Elements(ingested) \cup Elements(rx_queue) \cup Ahead(bridge)
       = (1 .. arrived) \ (bridge.dropped \cup evicted)
  /\ \A i, j \in DOMAIN ingested : ingested[i] = ingested[j] => i = j
  /\ Elements(ingested) \cap Elements(rx_queue) = {}

\* The bridge keeps the order, and so does send; what the manager has is older
\* than what the bridge has.
OrderInv ==
  /\ Increasing(rx_queue)
  /\ Increasing(Waiting(bridge))
  /\ Before(Taken(bridge), Elements(Waiting(bridge)))
  /\ Before(Elements(ingested) \cup Elements(rx_queue), Ahead(bridge))

\* A frame is overtaken by the one that receive_loop was waiting for when send
\* kept it aside, and receive_loop drains before it waits again.
OvertakeInv ==
  /\ \A j \in DOMAIN ingested : AtMostOne({i \in 1 .. j - 1 : ingested[i] > ingested[j]})
  /\ \A n \in Elements(rx_queue) : AtMostOne({i \in DOMAIN ingested : ingested[i] > n})
  /\ looping => Before(Elements(ingested), Elements(rx_queue))

FrameInv == FramesInv /\ OrderInv /\ OvertakeInv

LEMMA FramesAreNaturals == Frames \subseteq Nat
  BY Bounds DEF Frames

LEMMA ElementsConcat ==
  ASSUME NEW S, NEW s \in Seq(S), NEW t \in Seq(S)
  PROVE  Elements(s \o t) = Elements(s) \cup Elements(t)
  <1> DEFINE u == s \o t
  <1>1. /\ u \in Seq(S) /\ Len(u) = Len(s) + Len(t) /\ Len(s) \in Nat /\ Len(t) \in Nat
        /\ \A i \in 1 .. Len(s) : u[i] = s[i]
        /\ \A i \in 1 .. Len(t) : u[Len(s) + i] = t[i]
        /\ DOMAIN u = 1 .. Len(u) /\ DOMAIN s = 1 .. Len(s) /\ DOMAIN t = 1 .. Len(t)
    OBVIOUS
  <1> HIDE DEF u
  <1>2. ASSUME NEW i \in DOMAIN u PROVE u[i] \in Elements(s) \cup Elements(t)
    <2>1. CASE i \in 1 .. Len(s)
      BY <1>1, <2>1 DEF Elements
    <2>2. CASE ~(i \in 1 .. Len(s))
      <3>1. i - Len(s) \in 1 .. Len(t) /\ Len(s) + (i - Len(s)) = i
        BY <1>1, <2>2
      <3>2. u[i] = t[i - Len(s)]
        BY <1>1, <3>1
      <3>3. QED
        BY <1>1, <3>1, <3>2 DEF Elements
    <2>3. QED
      BY <2>1, <2>2
  <1>3. ASSUME NEW i \in DOMAIN s PROVE s[i] \in Elements(u)
    <2>1. i \in DOMAIN u /\ u[i] = s[i]
      BY <1>1
    <2>2. QED
      BY <2>1 DEF Elements
  <1>4. ASSUME NEW i \in DOMAIN t PROVE t[i] \in Elements(u)
    <2>1. Len(s) + i \in DOMAIN u /\ u[Len(s) + i] = t[i]
      BY <1>1
    <2>2. QED
      BY <2>1 DEF Elements
  <1>5. QED
    BY <1>2, <1>3, <1>4 DEF Elements, u

LEMMA IncreasingConcat ==
  ASSUME NEW s \in Seq(Frames), NEW t \in Seq(Frames)
  PROVE  Increasing(s \o t) <=>
           Increasing(s) /\ Increasing(t) /\ Before(Elements(s), Elements(t))
  <1> DEFINE u == s \o t
  <1>1. /\ u \in Seq(Frames) /\ Len(u) = Len(s) + Len(t) /\ Len(s) \in Nat /\ Len(t) \in Nat
        /\ \A i \in 1 .. Len(s) : u[i] = s[i]
        /\ \A i \in 1 .. Len(t) : u[Len(s) + i] = t[i]
        /\ DOMAIN u = 1 .. Len(u) /\ DOMAIN s = 1 .. Len(s) /\ DOMAIN t = 1 .. Len(t)
    OBVIOUS
  <1> HIDE DEF u
  <1>2. ASSUME Increasing(u)
        PROVE  Increasing(s) /\ Increasing(t) /\ Before(Elements(s), Elements(t))
    <2>1. ASSUME NEW i \in DOMAIN s, NEW j \in DOMAIN s, i < j PROVE s[i] < s[j]
      <3>1. i \in DOMAIN u /\ j \in DOMAIN u /\ u[i] = s[i] /\ u[j] = s[j]
        BY <1>1
      <3>2. QED
        BY <1>2, <2>1, <3>1 DEF Increasing
    <2>2. ASSUME NEW i \in DOMAIN t, NEW j \in DOMAIN t, i < j PROVE t[i] < t[j]
      <3>1. /\ Len(s) + i \in DOMAIN u /\ Len(s) + j \in DOMAIN u /\ Len(s) + i < Len(s) + j
            /\ u[Len(s) + i] = t[i] /\ u[Len(s) + j] = t[j]
        BY <1>1, <2>2
      <3>2. QED
        BY <1>2, <3>1 DEF Increasing
    <2>3. ASSUME NEW i \in DOMAIN s, NEW j \in DOMAIN t PROVE s[i] < t[j]
      <3>1. /\ i \in DOMAIN u /\ Len(s) + j \in DOMAIN u /\ i < Len(s) + j
            /\ u[i] = s[i] /\ u[Len(s) + j] = t[j]
        BY <1>1
      <3>2. QED
        BY <1>2, <3>1 DEF Increasing
    <2>4. QED
      BY <2>1, <2>2, <2>3 DEF Increasing, Before, Elements
  <1>3. ASSUME Increasing(s), Increasing(t), Before(Elements(s), Elements(t))
        PROVE  Increasing(u)
    <2> SUFFICES ASSUME NEW i \in DOMAIN u, NEW j \in DOMAIN u, i < j PROVE u[i] < u[j]
      BY DEF Increasing
    <2>1. CASE j \in 1 .. Len(s)
      <3>1. i \in DOMAIN s /\ j \in DOMAIN s /\ u[i] = s[i] /\ u[j] = s[j]
        BY <1>1, <2>1
      <3>2. QED
        BY <1>3, <3>1 DEF Increasing
    <2>2. CASE i \in 1 .. Len(s) /\ j \notin 1 .. Len(s)
      <3>1. j - Len(s) \in 1 .. Len(t) /\ Len(s) + (j - Len(s)) = j
        BY <1>1, <2>2
      <3>2. u[j] = t[j - Len(s)] /\ u[i] = s[i] /\ i \in DOMAIN s /\ j - Len(s) \in DOMAIN t
        BY <1>1, <2>2, <3>1
      <3>3. u[j] \in Elements(t) /\ u[i] \in Elements(s)
        BY <3>2 DEF Elements
      <3>4. QED
        BY <1>3, <3>3 DEF Before
    <2>3. CASE i \notin 1 .. Len(s) /\ j \notin 1 .. Len(s)
      <3>1. /\ j - Len(s) \in 1 .. Len(t) /\ Len(s) + (j - Len(s)) = j
            /\ i - Len(s) \in 1 .. Len(t) /\ Len(s) + (i - Len(s)) = i
            /\ i - Len(s) < j - Len(s)
        BY <1>1, <2>3
      <3>2. /\ u[j] = t[j - Len(s)] /\ u[i] = t[i - Len(s)]
            /\ i - Len(s) \in DOMAIN t /\ j - Len(s) \in DOMAIN t
        BY <1>1, <3>1
      <3>3. QED
        BY <1>3, <3>1, <3>2 DEF Increasing
    <2>4. QED
      BY <1>1, <2>1, <2>2, <2>3
  <1>4. QED
    BY <1>2, <1>3 DEF u

\* A queue at its limit is what it gives up, then what it keeps.
LEMMA Halves ==
  ASSUME NEW S, NEW s \in Seq(S), NEW n \in Nat
  PROVE  /\ Oldest(s, n) \in Seq(S) /\ Newest(s, n) \in Seq(S)
         /\ s = Oldest(s, n) \o Newest(s, n)
  <1>1. CASE Len(s) <= n
    <2>1. Newest(s, n) = s /\ Oldest(s, n) = SubSeq(s, 1, 0)
      BY <1>1 DEF Newest, Oldest
    <2>2. SubSeq(s, 1, 0) = <<>> /\ <<>> \in Seq(S) /\ <<>> \o s = s
      OBVIOUS
    <2>3. QED
      BY <2>1, <2>2
  <1>2. CASE ~(Len(s) <= n)
    <2> DEFINE k == Len(s) - n
    <2>1. k \in 0 .. Len(s) /\ k + 1 = Len(s) - n + 1 /\ Len(s) \in Nat
      BY <1>2
    <2>2. Newest(s, n) = SubSeq(s, k + 1, Len(s))
      BY <1>2, <2>1 DEF Newest
    <2>3. Len(SubSeq(s, k + 1, Len(s))) = n
      BY <1>2
    <2>4. Oldest(s, n) = SubSeq(s, 1, k)
      BY <2>2, <2>3 DEF Oldest
    <2> HIDE DEF k
    <2>5. /\ SubSeq(s, 1, k) \in Seq(S) /\ SubSeq(s, k + 1, Len(s)) \in Seq(S)
          /\ SubSeq(s, 1, Len(s)) = s
      BY <2>1
    <2>6. 1 \in 1 .. Len(s) + 1 /\ k \in 1 - 1 .. Len(s) /\ Len(s) \in k .. Len(s)
      BY <2>1
    <2>7. SubSeq(s, 1, k) \o SubSeq(s, k + 1, Len(s)) = SubSeq(s, 1, Len(s))
      BY <2>6, ConcatAdjacentSubSeq
    <2>8. QED
      BY <2>2, <2>4, <2>5, <2>7
  <1>3. QED
    BY <1>1, <1>2

\* What a full queue gives up is older than what it keeps.
LEMMA KeptInOrder ==
  ASSUME NEW s \in Seq(Frames), Increasing(s), NEW n \in Nat
  PROVE  /\ Increasing(Newest(s, n)) /\ Elements(Newest(s, n)) \subseteq Elements(s)
         /\ Elements(Oldest(s, n)) = Elements(s) \ Elements(Newest(s, n))
  <1> DEFINE old == Oldest(s, n)
             new == Newest(s, n)
  <1>1. old \in Seq(Frames) /\ new \in Seq(Frames) /\ s = old \o new
    BY Halves
  <1> HIDE DEF old, new
  <1>2. Elements(s) = Elements(old) \cup Elements(new)
    BY <1>1, ElementsConcat
  <1>3. Increasing(new) /\ Before(Elements(old), Elements(new))
    BY <1>1, IncreasingConcat
  <1>4. Elements(old) \subseteq Nat
    <2>1. \A i \in DOMAIN old : old[i] \in Frames
      BY <1>1
    <2>2. QED
      BY <2>1, FramesAreNaturals DEF Elements
  <1>5. Elements(old) \cap Elements(new) = {}
    BY <1>3, <1>4 DEF Before
  <1>6. QED
    BY <1>2, <1>3, <1>5 DEF old, new

LEMMA Regroup == \A s, t, u \in Seq(Frames) : (s \o t) \o u = s \o (t \o u)
  BY ConcatAssociative

LEMMA FrameOfInOrder ==
  ASSUME NEW p \in Packets
  PROVE  FrameOf(p) \in Seq(Frames) /\ Increasing(FrameOf(p)) /\ Len(FrameOf(p)) <= 1
  <1>1. FrameOf(p) \in Seq(Frames)
    BY FrameOfTyped
  <1>2. Len(FrameOf(p)) <= 1
    BY DEF FrameOf
  <1>3. QED
    BY <1>1, <1>2 DEF Increasing

LEMMA NothingTaken == FrameOf(Nothing) = <<>> /\ \A ok \in BOOLEAN : FrameOf(Status(ok)) = <<>>
  BY PacketTypes DEF FrameOf

LEMMA NoElements == Elements(<<>>) = {} /\ Increasing(<<>>)
  BY DEF Elements, Increasing

LEMMA WaitingTyped ==
  ASSUME NEW b \in Bridges
  PROVE  /\ Waiting(b) \in Seq(Frames) /\ Elements(Waiting(b)) \subseteq Frames
         /\ Taken(b) \subseteq Frames
  <1>1. Waiting(b) \in Seq(Frames)
    BY DEF Bridges, Waiting
  <1>2. FrameOf(b.loaded) \in Seq(Frames)
    BY FrameOfTyped DEF Bridges
  <1>3. QED
    BY <1>1, <1>2 DEF Elements, Taken

\* What the bridge does with its frames when the host has taken the loaded one.
Passed(a, b) ==
  /\ Increasing(Waiting(b)) /\ Before(Taken(b), Elements(Waiting(b)))
  /\ Ahead(b) \subseteq Elements(Waiting(a))
  /\ b.dropped = a.dropped \cup (Elements(Waiting(a)) \ Ahead(b))

LEMMA ServicedInOrder ==
  ASSUME NEW b \in Bridges, Increasing(Waiting(b))
  PROVE  LET after == Serviced(b) IN
         /\ Increasing(Waiting(after)) /\ after.loaded = b.loaded
         /\ Elements(Waiting(after)) \subseteq Elements(Waiting(b))
         /\ after.dropped = b.dropped \cup (Elements(Waiting(b)) \ Elements(Waiting(after)))
  <1> DEFINE all == b.queue \o b.ring
             kept == Newest(all, QueueSlots - 1)
             gone == Elements(Oldest(all, QueueSlots - 1))
  <1>1. Waiting(b) = all /\ all \in Seq(Frames) /\ QueueSlots - 1 \in Nat
    BY Bounds DEF Bridges, Waiting
  <1>2. Serviced(b) = [b EXCEPT !.ring = <<>>, !.queue = kept, !.dropped = @ \cup gone]
    BY DEF Serviced
  <1> HIDE DEF all
  <1>3. /\ Increasing(kept) /\ Elements(kept) \subseteq Elements(all)
        /\ gone = Elements(all) \ Elements(kept) /\ kept \in Seq(Frames)
    BY <1>1, KeptInOrder, NewestTyped
  <1> HIDE DEF kept, gone
  <1>4. /\ Serviced(b).ring = <<>> /\ Serviced(b).queue = kept /\ Serviced(b).loaded = b.loaded
        /\ Serviced(b).dropped = b.dropped \cup gone
    BY <1>2 DEF Bridges
  <1>5. kept \o <<>> = kept
    BY <1>3
  <1>6. QED
    BY <1>1, <1>3, <1>4, <1>5 DEF Waiting

LEMMA LoadFrameInOrder ==
  ASSUME NEW b \in Bridges, Increasing(Waiting(b))
  PROVE  LET after == LoadFrame(b) IN
         /\ Increasing(Waiting(after)) /\ Before(Taken(after), Elements(Waiting(after)))
         /\ Ahead(after) = Elements(Waiting(b)) /\ after.dropped = b.dropped
  <1>1. CASE b.queue = <<>>
    <2>1. LoadFrame(b) = [b EXCEPT !.loaded = Nothing]
      BY <1>1 DEF LoadFrame
    <2>2. /\ LoadFrame(b).ring = b.ring /\ LoadFrame(b).queue = b.queue
          /\ LoadFrame(b).loaded = Nothing /\ LoadFrame(b).dropped = b.dropped
      BY <2>1 DEF Bridges
    <2>3. Taken(LoadFrame(b)) = {} /\ Waiting(LoadFrame(b)) = Waiting(b)
      BY <2>2, NothingTaken, NoElements DEF Taken, Waiting
    <2>4. QED
      BY <2>2, <2>3 DEF Ahead, Before
  <1>2. CASE b.queue # <<>>
    <2> DEFINE head == Head(b.queue)
               rest == Tail(b.queue) \o b.ring
    <2>1. LoadFrame(b) = [b EXCEPT !.loaded = CanRx(head), !.queue = Tail(@)]
      BY <1>2 DEF LoadFrame
    <2>2. /\ LoadFrame(b).ring = b.ring /\ LoadFrame(b).queue = Tail(b.queue)
          /\ LoadFrame(b).loaded = CanRx(head) /\ LoadFrame(b).dropped = b.dropped
      BY <2>1 DEF Bridges
    <2>3. /\ b.queue \in Seq(Frames) /\ b.ring \in Seq(Frames) /\ head \in Frames
          /\ Tail(b.queue) \in Seq(Frames) /\ rest \in Seq(Frames) /\ <<head>> \in Seq(Frames)
      BY <1>2 DEF Bridges
    <2>4. b.queue = <<head>> \o Tail(b.queue)
      BY <1>2, <2>3
    <2>5. Waiting(b) = <<head>> \o rest
      <3> DEFINE first == <<head>>
                 tail == Tail(b.queue)
                 ring == b.ring
      <3>1. first \in Seq(Frames) /\ tail \in Seq(Frames) /\ ring \in Seq(Frames)
        BY <2>3
      <3>2. Waiting(b) = (first \o tail) \o ring /\ rest = tail \o ring
        BY <2>4 DEF Waiting
      <3> HIDE DEF first, tail, ring, rest
      <3>3. (first \o tail) \o ring = first \o (tail \o ring)
        BY <3>1, Regroup
      <3>4. QED
        BY <3>2, <3>3 DEF first
    <2>6. FrameOf(CanRx(head)) = <<head>>
      BY <2>3, PacketTypes DEF FrameOf
    <2>7. Waiting(LoadFrame(b)) = rest /\ Taken(LoadFrame(b)) = Elements(<<head>>)
      BY <2>2, <2>6 DEF Waiting, Taken
    <2> HIDE DEF head, rest
    <2>8. Increasing(rest) /\ Before(Elements(<<head>>), Elements(rest))
      BY <2>3, <2>5, IncreasingConcat
    <2>9. Elements(Waiting(b)) = Elements(<<head>>) \cup Elements(rest)
      BY <2>3, <2>5, ElementsConcat
    <2>10. QED
      BY <2>2, <2>7, <2>8, <2>9 DEF Ahead
  <1>3. QED
    BY <1>1, <1>2

\* When the bridge loads no frame, all of them stay where they are.
LEMMA NoneLoaded ==
  ASSUME NEW a, NEW b, Increasing(Waiting(a)), FrameOf(b.loaded) = <<>>,
         b.queue = a.queue, b.ring = a.ring, b.dropped = a.dropped
  PROVE  Passed(a, b)
  <1>1. Taken(b) = {} /\ Waiting(b) = Waiting(a)
    BY NoElements DEF Taken, Waiting
  <1>2. QED
    BY <1>1 DEF Passed, Before, Ahead

LEMMA TransferPasses ==
  ASSUME Inv, OrderInv, NEW request \in {Nothing} \cup {CanTx(c) : c \in Commands},
         Transfer(request)
  PROVE  Passed(bridge, bridge')
  <1>1. bridge \in Bridges /\ Increasing(Waiting(bridge))
    BY BridgeTyped DEF Inv, OrderInv
  <1>2. CASE bridge.busy # {}
    <2>1. bridge' = [bridge EXCEPT !.overlaps = @ + 1] /\ bridge.loaded = Nothing
      BY <1>2 DEF Transfer, Inv, StatusInv
    <2>2. /\ bridge'.queue = bridge.queue /\ bridge'.ring = bridge.ring
          /\ bridge'.dropped = bridge.dropped /\ bridge'.loaded = Nothing
      BY <1>1, <2>1 DEF Bridges
    <2>3. QED
      BY <1>1, <2>2, NoneLoaded, NothingTaken
  <1>3. CASE bridge.busy = {} /\ request.type = "can_tx" /\ ~bridge.skewed
    <2>1. bridge' = [bridge EXCEPT !.busy = {request.command}, !.loaded = Nothing]
      BY <1>3 DEF Transfer, Exchanged
    <2>2. /\ bridge'.queue = bridge.queue /\ bridge'.ring = bridge.ring
          /\ bridge'.dropped = bridge.dropped /\ bridge'.loaded = Nothing
      BY <1>1, <2>1 DEF Bridges
    <2>3. QED
      BY <1>1, <2>2, NoneLoaded, NothingTaken
  <1>4. CASE bridge.busy = {} /\ ~(request.type = "can_tx" /\ ~bridge.skewed)
    <2>1. bridge' = LoadFrame(Serviced(bridge))
      BY <1>4 DEF Transfer, Exchanged
    <2> DEFINE b == Serviced(bridge)
    <2>2. b \in Bridges
      BY <1>1, ServicedFacts
    <2>3. /\ Increasing(Waiting(b)) /\ Elements(Waiting(b)) \subseteq Elements(Waiting(bridge))
          /\ b.dropped = bridge.dropped \cup (Elements(Waiting(bridge)) \ Elements(Waiting(b)))
      BY <1>1, ServicedInOrder
    <2> HIDE DEF b
    <2>4. /\ Increasing(Waiting(bridge')) /\ Before(Taken(bridge'), Elements(Waiting(bridge')))
          /\ Ahead(bridge') = Elements(Waiting(b)) /\ bridge'.dropped = b.dropped
      BY <2>1, <2>2, <2>3, LoadFrameInOrder DEF b
    <2>5. QED
      BY <2>3, <2>4 DEF Passed
  <1>5. QED
    BY <1>2, <1>3, <1>4

LEMMA TransmissionPasses ==
  ASSUME Inv, OrderInv, TransmitEnds
  PROVE  Passed(bridge, bridge') /\ Taken(bridge) = {}
  <1>1. bridge \in Bridges /\ Increasing(Waiting(bridge)) /\ bridge.loaded = Nothing
    BY BridgeTyped DEF Inv, OrderInv, StatusInv, TransmitEnds
  <1>2. PICK ok \in BOOLEAN :
          bridge' = [LoadStatus(Serviced(bridge), Status(ok)) EXCEPT
                       !.busy = {}, !.overlaps = 0, !.skewed = bridge.overlaps > 0]
    BY DEF TransmitEnds
  <1> DEFINE b == Serviced(bridge)
  <1>3. b \in Bridges
    BY <1>1, ServicedFacts
  <1>4. /\ Increasing(Waiting(b)) /\ Elements(Waiting(b)) \subseteq Elements(Waiting(bridge))
        /\ b.dropped = bridge.dropped \cup (Elements(Waiting(bridge)) \ Elements(Waiting(b)))
    BY <1>1, ServicedInOrder
  <1> HIDE DEF b
  <1>5. /\ bridge'.queue = b.queue /\ bridge'.ring = b.ring /\ bridge'.dropped = b.dropped
        /\ bridge'.loaded = Status(ok)
    BY <1>2, <1>3 DEF LoadStatus, Bridges, b
  <1>6. Waiting(bridge') = Waiting(b) /\ Taken(bridge') = {} /\ Taken(bridge) = {}
    BY <1>1, <1>5, NothingTaken, NoElements DEF Waiting, Taken
  <1>7. QED
    BY <1>4, <1>5, <1>6 DEF Passed, Before, Ahead

\* What is before another is not in it.
LEMMA BeforeDisjoint ==
  ASSUME NEW S \in SUBSET Frames, NEW T, Before(S, T)
  PROVE  S \cap T = {}
  <1> SUFFICES ASSUME NEW n \in S, n \in T PROVE FALSE
    OBVIOUS
  <1>1. n \in Nat /\ n < n
    BY FramesAreNaturals DEF Before
  <1>2. QED
    BY <1>1

LEMMA HostTyped ==
  ASSUME TypeOK
  PROVE  /\ Elements(ingested) \subseteq Frames /\ Elements(rx_queue) \subseteq Frames
         /\ ingested \in Seq(Frames) /\ rx_queue \in Seq(Frames)
  BY DEF TypeOK, Elements

\* What is in one place only, before the bridge and the host pass it on.
LEMMA ApartFacts ==
  ASSUME Inv, FramesInv, OrderInv
  PROVE  LET I == Elements(ingested)
             Q == Elements(rx_queue)
             L == Taken(bridge)
             W == Elements(Waiting(bridge))
         IN /\ I \cap Q = {} /\ I \cap L = {} /\ I \cap W = {}
            /\ Q \cap L = {} /\ Q \cap W = {} /\ L \cap W = {}
  <1>1. /\ Elements(ingested) \subseteq Frames /\ Elements(rx_queue) \subseteq Frames
        /\ Taken(bridge) \subseteq Frames
    BY HostTyped, BridgeTyped, WaitingTyped DEF Inv
  <1>2. (Elements(ingested) \cup Elements(rx_queue)) \cap Ahead(bridge) = {}
    BY <1>1, BeforeDisjoint DEF OrderInv
  <1>3. Taken(bridge) \cap Elements(Waiting(bridge)) = {}
    BY <1>1, BeforeDisjoint DEF OrderInv
  <1>4. QED
    BY <1>2, <1>3 DEF Ahead, FramesInv

\* The bridge has passed its frame on, and the host holds what it held and that.
LEMMA TakenOrder ==
  ASSUME OrderInv, Passed(bridge, bridge'),
         Elements(ingested') \cup Elements(rx_queue')
           \subseteq Elements(ingested) \cup Elements(rx_queue) \cup Taken(bridge),
         Increasing(rx_queue')
  PROVE  OrderInv'
  <1>1. /\ Increasing(Waiting(bridge')) /\ Before(Taken(bridge'), Elements(Waiting(bridge')))
        /\ Ahead(bridge') \subseteq Elements(Waiting(bridge))
    BY DEF Passed
  <1>2. Before(Elements(ingested') \cup Elements(rx_queue'), Ahead(bridge'))
    <2> SUFFICES ASSUME NEW m \in Elements(ingested') \cup Elements(rx_queue'),
                        NEW n \in Ahead(bridge')
                 PROVE  m < n
      BY DEF Before
    <2>1. n \in Elements(Waiting(bridge)) /\ n \in Ahead(bridge)
      BY <1>1 DEF Ahead
    <2>2. CASE m \in Elements(ingested) \cup Elements(rx_queue)
      BY <2>1, <2>2 DEF OrderInv, Before
    <2>3. CASE m \in Taken(bridge)
      BY <2>1, <2>3 DEF OrderInv, Before
    <2>4. QED
      BY <2>2, <2>3
  <1>3. QED
    BY <1>1, <1>2 DEF OrderInv

\* send keeps the frame that came with the answer.
LEMMA QueueFrameKeeps ==
  ASSUME Inv, FrameInv, Passed(bridge, bridge'), QueueFrame(Response),
         UNCHANGED <<arrived, looping, ingested>>
  PROVE  FrameInv'
  <1> DEFINE all == rx_queue \o FrameOf(bridge.loaded)
             I == Elements(ingested)
             Q == Elements(rx_queue)
             L == Taken(bridge)
             W == Elements(Waiting(bridge))
             A == Ahead(bridge')
             Q2 == Elements(rx_queue')
  <1>1. /\ rx_queue \in Seq(Frames) /\ all \in Seq(Frames)
        /\ FrameOf(bridge.loaded) \in Seq(Frames) /\ Increasing(FrameOf(bridge.loaded))
    BY HostTyped, FrameOfInOrder DEF Inv, TypeOK
  <1>2. Elements(all) = Q \cup L
    BY <1>1, ElementsConcat DEF Taken
  <1>3. Before(I, L) /\ Before(Q, L)
    BY DEF FrameInv, OrderInv, Before, Ahead
  <1>4. Increasing(all)
    <2>1. Before(Elements(rx_queue), Elements(FrameOf(bridge.loaded))) /\ Increasing(rx_queue)
      BY <1>3 DEF FrameInv, OrderInv, Taken
    <2>2. QED
      BY <1>1, <2>1, IncreasingConcat
  <1>5. rx_queue' = Newest(all, RxQueueSize) /\ evicted' = evicted \cup Elements(Oldest(all, RxQueueSize))
    BY DEF QueueFrame, Response
  <1> HIDE DEF all
  <1>6. /\ Increasing(rx_queue') /\ Q2 \subseteq Q \cup L
        /\ evicted' = evicted \cup ((Q \cup L) \ Q2)
    BY <1>1, <1>2, <1>4, <1>5, KeptInOrder, Bounds
  <1>7. OrderInv'
    BY <1>6, TakenOrder DEF FrameInv
  <1>8. FramesInv'
    <2>1. /\ A \subseteq W /\ bridge'.dropped = bridge.dropped \cup (W \ A)
      BY DEF Passed
    <2>2. /\ I \cap Q = {} /\ I \cap L = {} /\ I \cap W = {}
          /\ Q \cap L = {} /\ Q \cap W = {} /\ L \cap W = {}
      BY ApartFacts DEF FrameInv
    <2>3. /\ bridge.dropped \cup evicted \subseteq 1 .. arrived
          /\ I \cup Q \cup L \cup W = (1 .. arrived) \ (bridge.dropped \cup evicted)
      BY DEF FrameInv, FramesInv, Ahead
    <2>4. Elements(ingested') = I
      OBVIOUS
    <2> HIDE DEF I, Q, L, W, A, Q2
    <2>5. bridge'.dropped \cup evicted' \subseteq 1 .. arrived
      BY <1>6, <2>1, <2>3
    <2>6. I \cup Q2 \cup A = (1 .. arrived) \ (bridge'.dropped \cup evicted')
      BY <1>6, <2>1, <2>2, <2>3
    <2>7. I \cap Q2 = {}
      BY <1>6, <2>2
    <2>8. QED
      BY <2>4, <2>5, <2>6, <2>7 DEF FrameInv, FramesInv, A, Q2
  <1>9. OvertakeInv'
    <2>1. /\ \A j \in DOMAIN ingested : AtMostOne({i \in 1 .. j - 1 : ingested[i] > ingested[j]})
          /\ looping => Before(I, Q)
      BY DEF FrameInv, OvertakeInv
    <2>2. ASSUME NEW n \in Q2 PROVE AtMostOne({i \in DOMAIN ingested : ingested[i] > n})
      <3>1. CASE n \in Q
        BY <3>1 DEF FrameInv, OvertakeInv
      <3>2. CASE n \in L
        <4>1. n \in Nat /\ \A i \in DOMAIN ingested : ingested[i] \in Nat /\ ingested[i] < n
          <5>1. L \subseteq Nat /\ I \subseteq Nat
            BY FramesAreNaturals, WaitingTyped, BridgeTyped, HostTyped DEF Inv
          <5>2. QED
            BY <1>3, <3>2, <5>1 DEF Before, Elements
        <4>2. {i \in DOMAIN ingested : ingested[i] > n} = {}
          BY <4>1
        <4>3. QED
          BY <4>2 DEF AtMostOne
      <3>3. QED
        BY <1>6, <3>1, <3>2
    <2>3. looping => Before(I, Q2)
      BY <1>3, <1>6, <2>1 DEF Before
    <2>4. QED
      BY <2>1, <2>2, <2>3 DEF OvertakeInv
  <1>10. QED
    BY <1>7, <1>8, <1>9 DEF FrameInv

\* receive_loop hands on the frame that came with the answer: the newest one.
LEMMA ReceiveKeeps ==
  ASSUME Inv, FrameInv, Receive
  PROVE  FrameInv'
  <1> DEFINE frame == FrameOf(bridge.loaded)
             I == Elements(ingested)
             Q == Elements(rx_queue)
             L == Taken(bridge)
             W == Elements(Waiting(bridge))
             A == Ahead(bridge')
  <1>1. /\ Transfer(Nothing) /\ ingested' = ingested \o frame /\ looping
        /\ UNCHANGED <<arrived, rx_queue, evicted>>
    BY DEF Receive, Response
  <1>2. ~looping'
    BY Zenon DEF Receive
  <1>3. Passed(bridge, bridge')
    BY <1>1, TransferPasses DEF FrameInv
  <1>4. /\ ingested \in Seq(Frames) /\ frame \in Seq(Frames) /\ Len(frame) <= 1
        /\ L = Elements(frame)
    BY HostTyped, FrameOfInOrder DEF Inv, TypeOK, Taken
  <1>5. Before(I, L) /\ Before(Q, L) /\ Before(I, Q)
    BY <1>1 DEF FrameInv, OrderInv, OvertakeInv, Before, Ahead
  <1> HIDE DEF frame
  <1>6. Elements(ingested') = I \cup L
    BY <1>1, <1>4, ElementsConcat
  <1>7. OrderInv'
    <2>1. Increasing(rx_queue') /\ Elements(rx_queue') = Q
      BY <1>1 DEF FrameInv, OrderInv
    <2>2. QED
      BY <1>3, <1>6, <2>1, TakenOrder DEF FrameInv
  \* The old places of ingested, and the new one.
  <1>8. /\ Len(ingested) \in Nat /\ DOMAIN ingested = 1 .. Len(ingested)
        /\ DOMAIN ingested' = 1 .. Len(ingested) + Len(frame)
        /\ Len(frame) \in {0, 1}
        /\ \A i \in DOMAIN ingested : ingested'[i] = ingested[i] /\ ingested[i] \in I
        /\ \A i \in DOMAIN ingested' \ DOMAIN ingested :
             i = Len(ingested) + 1 /\ ingested'[i] \in L
    <2>1. /\ Len(ingested) \in Nat /\ DOMAIN ingested = 1 .. Len(ingested)
          /\ Len(frame) \in {0, 1}
      <3>1. /\ Len(ingested) \in Nat /\ DOMAIN ingested = 1 .. Len(ingested)
            /\ Len(frame) \in Nat
        BY <1>4
      <3>2. Len(frame) <= 1
        BY <1>4
      <3> DEFINE k == Len(frame)
      <3>3. k \in Nat /\ k <= 1
        BY <3>1, <3>2
      <3> HIDE DEF k
      <3>4. k = 0 \/ k = 1
        BY <3>3
      <3>5. QED
        BY <3>1, <3>4 DEF k
    <2>2. /\ DOMAIN ingested' = 1 .. Len(ingested) + Len(frame)
          /\ \A i \in DOMAIN ingested : ingested'[i] = ingested[i]
          /\ Len(frame) = 1 => ingested'[Len(ingested) + 1] = frame[1]
      BY <1>1, <1>4
    <2>3. Len(frame) = 1 => frame[1] \in L
      BY <1>4 DEF Elements
    <2>4. ASSUME NEW i \in DOMAIN ingested' \ DOMAIN ingested
          PROVE  i = Len(ingested) + 1 /\ Len(frame) = 1
      <3>1. i \in 1 .. Len(ingested) + Len(frame) /\ i \notin 1 .. Len(ingested)
        BY <2>1, <2>2, <2>4
      <3> DEFINE k == Len(frame)
                 n == Len(ingested)
      <3>2. i \in 1 .. n + k /\ i \notin 1 .. n /\ n \in Nat /\ (k = 0 \/ k = 1)
        BY <2>1, <3>1
      <3> HIDE DEF k, n
      <3>3. i = n + 1 /\ k = 1
        BY <3>2
      <3>4. QED
        BY <3>3 DEF k, n
    <2>5. QED
      BY <2>1, <2>2, <2>3, <2>4 DEF Elements
  <1>9. I \subseteq Nat /\ L \subseteq Nat /\ Q \subseteq Nat
    BY FramesAreNaturals, WaitingTyped, BridgeTyped, HostTyped DEF Inv
  <1>10. FramesInv'
    <2>1. /\ A \subseteq W /\ bridge'.dropped = bridge.dropped \cup (W \ A)
      BY <1>3 DEF Passed
    <2>2. /\ I \cap Q = {} /\ I \cap L = {} /\ I \cap W = {}
          /\ Q \cap L = {} /\ Q \cap W = {} /\ L \cap W = {}
      BY ApartFacts DEF FrameInv
    <2>3. /\ bridge.dropped \cup evicted \subseteq 1 .. arrived
          /\ I \cup Q \cup L \cup W = (1 .. arrived) \ (bridge.dropped \cup evicted)
          /\ \A i, j \in DOMAIN ingested : ingested[i] = ingested[j] => i = j
      BY DEF FrameInv, FramesInv, Ahead
    <2>4. \A i, j \in DOMAIN ingested' : ingested'[i] = ingested'[j] => i = j
      BY <1>8, <2>2, <2>3
    <2> HIDE DEF I, Q, L, W, A
    <2>5. bridge'.dropped \cup evicted' \subseteq 1 .. arrived
      BY <1>1, <2>1, <2>3
    <2>6. (I \cup L) \cup Q \cup A = (1 .. arrived) \ (bridge'.dropped \cup evicted')
      BY <1>1, <2>1, <2>2, <2>3
    <2>7. (I \cup L) \cap Q = {}
      BY <2>2
    <2>8. QED
      BY <1>1, <1>6, <2>4, <2>5, <2>6, <2>7 DEF FramesInv, Q, A
  <1>11. OvertakeInv'
    <2>1. ASSUME NEW j \in DOMAIN ingested'
          PROVE  AtMostOne({i \in 1 .. j - 1 : ingested'[i] > ingested'[j]})
      <3>1. CASE j \in DOMAIN ingested
        <4>1. \A i \in 1 .. j - 1 : i \in DOMAIN ingested
          BY <1>8, <3>1
        <4>2. {i \in 1 .. j - 1 : ingested'[i] > ingested'[j]}
                = {i \in 1 .. j - 1 : ingested[i] > ingested[j]}
          BY <1>8, <3>1, <4>1
        <4>3. QED
          BY <3>1, <4>2 DEF FrameInv, OvertakeInv
      <3>2. CASE j \notin DOMAIN ingested
        <4>1. j = Len(ingested) + 1 /\ ingested'[j] \in L
          BY <1>8, <3>2
        <4>2. \A i \in 1 .. j - 1 : ingested'[i] \in I
          BY <1>8, <4>1
        <4>3. \A i \in 1 .. j - 1 : ~(ingested'[i] > ingested'[j])
          BY <1>5, <1>9, <4>1, <4>2 DEF Before
        <4>4. QED
          BY <4>3 DEF AtMostOne
      <3>3. QED
        BY <3>1, <3>2
    <2>2. ASSUME NEW n \in Q
          PROVE  AtMostOne({i \in DOMAIN ingested' : ingested'[i] > n})
      <3>1. \A i \in DOMAIN ingested : ~(ingested'[i] > n)
        <4>1. \A i \in DOMAIN ingested : ingested'[i] \in I
          BY <1>8
        <4>2. QED
          BY <1>5, <1>9, <4>1 DEF Before
      <3>2. \A i \in DOMAIN ingested' : ingested'[i] > n => i = Len(ingested) + 1
        BY <1>8, <3>1
      <3>3. QED
        BY <3>2 DEF AtMostOne
    <2>3. rx_queue' = rx_queue
      BY <1>1
    <2>4. QED
      BY <1>2, <2>1, <2>2, <2>3 DEF OvertakeInv
  <1>12. QED
    BY <1>7, <1>10, <1>11 DEF FrameInv

\* receive_loop hands on what send kept aside, in its order.
LEMMA DrainKeeps ==
  ASSUME Inv, FrameInv, Drain
  PROVE  FrameInv'
  <1> DEFINE I == Elements(ingested)
             Q == Elements(rx_queue)
  <1>1. /\ ingested' = ingested \o rx_queue /\ rx_queue' = <<>>
        /\ UNCHANGED <<arrived, bridge, evicted>>
    BY DEF Drain
  <1>2. ingested \in Seq(Frames) /\ rx_queue \in Seq(Frames) /\ I \subseteq Nat /\ Q \subseteq Nat
    BY FramesAreNaturals, HostTyped DEF Inv
  <1>3. Elements(ingested') = I \cup Q /\ Elements(rx_queue') = {}
    BY <1>1, <1>2, ElementsConcat, NoElements
  <1> HIDE DEF I, Q
  <1>4. OrderInv'
    BY <1>1, <1>3, NoElements DEF FrameInv, OrderInv, Before, I, Q
  \* The old places of ingested, and those of the frames drained.
  <1> DEFINE n == Len(ingested)
  <1>5. /\ n \in Nat /\ Len(rx_queue) \in Nat /\ DOMAIN ingested = 1 .. n
        /\ DOMAIN rx_queue = 1 .. Len(rx_queue) /\ DOMAIN ingested' = 1 .. n + Len(rx_queue)
        /\ \A i \in 1 .. n : ingested'[i] = ingested[i] /\ ingested[i] \in I
        /\ \A i \in 1 .. Len(rx_queue) : ingested'[n + i] = rx_queue[i] /\ rx_queue[i] \in Q
    BY <1>1, <1>2 DEF Elements, I, Q
  <1> HIDE DEF n
  <1>6. ASSUME NEW i \in DOMAIN ingested', i \notin 1 .. n
        PROVE  /\ i - n \in DOMAIN rx_queue /\ ingested'[i] = rx_queue[i - n]
               /\ ingested'[i] \in Q
    <2>1. i - n \in 1 .. Len(rx_queue) /\ n + (i - n) = i
      BY <1>5, <1>6
    <2>2. QED
      BY <1>5, <2>1
  <1>7. \A i, j \in DOMAIN rx_queue : i < j => rx_queue[i] < rx_queue[j]
    BY DEF FrameInv, OrderInv, Increasing
  <1>8. ASSUME NEW i \in DOMAIN ingested', NEW j \in DOMAIN ingested', i \notin 1 .. n, i < j
        PROVE  ingested'[i] < ingested'[j]
    <2>1. j \notin 1 .. n /\ i - n < j - n
      BY <1>5, <1>8
    <2>2. /\ i - n \in DOMAIN rx_queue /\ ingested'[i] = rx_queue[i - n]
          /\ j - n \in DOMAIN rx_queue /\ ingested'[j] = rx_queue[j - n]
      BY <1>6, <1>8, <2>1
    <2>3. QED
      BY <1>7, <2>1, <2>2
  <1>9. \A i \in DOMAIN ingested' : ingested'[i] \in Nat
    BY <1>2, <1>5, <1>6
  <1>10. FramesInv'
    <2>1. /\ I \cap Q = {} /\ bridge.dropped \cup evicted \subseteq 1 .. arrived
          /\ I \cup Q \cup Ahead(bridge) = (1 .. arrived) \ (bridge.dropped \cup evicted)
          /\ \A i, j \in DOMAIN ingested : ingested[i] = ingested[j] => i = j
      BY DEF FrameInv, FramesInv, I, Q
    <2>2. ASSUME NEW i \in DOMAIN ingested', NEW j \in DOMAIN ingested',
                 ingested'[i] = ingested'[j], i < j
          PROVE  FALSE
      <3>1. i \in 1 .. n
        BY <1>8, <1>9, <2>2
      <3>2. CASE j \in 1 .. n
        BY <1>5, <2>1, <2>2, <3>1, <3>2
      <3>3. CASE j \notin 1 .. n
        BY <1>5, <1>6, <2>1, <2>2, <3>1, <3>3
      <3>4. QED
        BY <3>2, <3>3
    <2>3. \A i, j \in DOMAIN ingested' : ingested'[i] = ingested'[j] => i = j
      <3>1. DOMAIN ingested' \subseteq Int
        BY <1>5
      <3>2. QED
        BY <2>2, <3>1
    <2>4. (I \cup Q) \cup {} \cup Ahead(bridge) = (1 .. arrived) \ (bridge.dropped \cup evicted)
      BY <2>1
    <2>5. QED
      BY <1>1, <1>3, <2>1, <2>3, <2>4 DEF FramesInv
  <1>11. OvertakeInv'
    <2>1. ASSUME NEW j \in DOMAIN ingested'
          PROVE  AtMostOne({i \in 1 .. j - 1 : ingested'[i] > ingested'[j]})
      <3>1. CASE j \in 1 .. n
        <4>1. \A i \in 1 .. j - 1 : i \in 1 .. n
          BY <1>5, <3>1
        <4>2. {i \in 1 .. j - 1 : ingested'[i] > ingested'[j]}
                = {i \in 1 .. j - 1 : ingested[i] > ingested[j]}
          BY <1>5, <3>1, <4>1
        <4>3. QED
          BY <1>5, <3>1, <4>2 DEF FrameInv, OvertakeInv
      <3>2. CASE j \notin 1 .. n
        <4>1. ingested'[j] \in Q
          BY <1>6, <3>2
        <4>2. AtMostOne({i \in DOMAIN ingested : ingested[i] > ingested'[j]})
          BY <4>1 DEF FrameInv, OvertakeInv, Q
        <4>3. ASSUME NEW i \in 1 .. j - 1, ingested'[i] > ingested'[j]
              PROVE  i \in DOMAIN ingested /\ ingested[i] > ingested'[j]
          <5>1. i \in DOMAIN ingested' /\ i < j
            BY <1>5
          <5>2. i \in 1 .. n
            BY <1>8, <1>9, <4>3, <5>1
          <5>3. QED
            BY <1>5, <4>3, <5>2
        <4>4. QED
          BY <4>2, <4>3 DEF AtMostOne
      <3>3. QED
        BY <3>1, <3>2
    <2>2. QED
      BY <1>3, <2>1 DEF OvertakeInv, Before
  <1>12. QED
    BY <1>4, <1>10, <1>11 DEF FrameInv

\* A frame that arrives is newer than every other.
LEMMA ArrivalKeeps ==
  ASSUME Inv, FrameInv, FrameArrives
  PROVE  FrameInv'
  <1> DEFINE new == arrived + 1
             I == Elements(ingested)
             Q == Elements(rx_queue)
             L == Taken(bridge)
             W == Elements(Waiting(bridge))
  <1>1. /\ arrived' = new /\ arrived \in Nat /\ new \in Frames
        /\ bridge' = [bridge EXCEPT !.ring = Append(bridge.ring, new)]
        /\ UNCHANGED <<rx_queue, evicted, ingested, looping>>
    <2>1. arrived < MaxFrames /\ arrived' = new
      BY DEF FrameArrives
    <2>2. arrived \in 0 .. MaxFrames
      BY DEF Inv, TypeOK
    <2>3. QED
      BY <2>1, <2>2, Bounds DEF FrameArrives, host, Frames
  <1> HIDE DEF new
  <1>2. bridge \in Bridges
    BY BridgeTyped DEF Inv
  <1>3. /\ bridge'.queue = bridge.queue /\ bridge'.loaded = bridge.loaded
        /\ bridge'.dropped = bridge.dropped /\ bridge'.ring = bridge.ring \o <<new>>
        /\ <<new>> \in Seq(Frames)
    BY <1>1, <1>2 DEF Bridges
  <1>4. Waiting(bridge') = Waiting(bridge) \o <<new>> /\ Taken(bridge') = L
    <2> DEFINE queue == bridge.queue
               ring == bridge.ring
               last == <<new>>
    <2>1. queue \in Seq(Frames) /\ ring \in Seq(Frames) /\ last \in Seq(Frames)
      BY <1>2, <1>3 DEF Bridges
    <2>2. Waiting(bridge') = queue \o (ring \o last) /\ Waiting(bridge) = queue \o ring
      BY <1>3 DEF Waiting
    <2>3. Taken(bridge') = L
      BY <1>3 DEF Taken
    <2> HIDE DEF queue, ring, last
    <2>4. (queue \o ring) \o last = queue \o (ring \o last)
      BY <2>1, Regroup
    <2>5. QED
      BY <2>2, <2>3, <2>4 DEF last
  <1>5. Elements(<<new>>) = {new} /\ Increasing(<<new>>)
    <2>1. DOMAIN <<new>> = {1} /\ <<new>>[1] = new
      OBVIOUS
    <2>2. QED
      BY <2>1 DEF Elements, Increasing
  <1>6. /\ bridge.dropped \cup evicted \subseteq 1 .. arrived
        /\ I \cup Q \cup L \cup W = (1 .. arrived) \ (bridge.dropped \cup evicted)
        /\ I \cap Q = {} /\ \A i, j \in DOMAIN ingested : ingested[i] = ingested[j] => i = j
    BY DEF FrameInv, FramesInv, Ahead
  <1>7. 1 .. new = (1 .. arrived) \cup {new} /\ new \notin 1 .. arrived
        /\ \A m \in 1 .. arrived : m < new
    BY <1>1 DEF new
  <1>8. Increasing(Waiting(bridge')) /\ Elements(Waiting(bridge')) = W \cup {new}
    <2>1. Waiting(bridge) \in Seq(Frames) /\ Increasing(Waiting(bridge))
      BY <1>2, WaitingTyped DEF FrameInv, OrderInv
    <2>2. Before(W, {new})
      BY <1>6, <1>7 DEF Before
    <2> DEFINE old == Waiting(bridge)
               last == <<new>>
    <2>3. /\ old \in Seq(Frames) /\ last \in Seq(Frames) /\ Waiting(bridge') = old \o last
          /\ Increasing(old) /\ Increasing(last) /\ Before(Elements(old), Elements(last))
          /\ Elements(old) = W /\ Elements(last) = {new}
      BY <1>3, <1>4, <1>5, <2>1, <2>2
    <2> HIDE DEF old, last, W
    <2>4. Increasing(old \o last)
      BY <2>3, IncreasingConcat
    <2>5. Elements(old \o last) = Elements(old) \cup Elements(last)
      BY <2>3, ElementsConcat
    <2>6. QED
      BY <2>3, <2>4, <2>5
  <1>9. OrderInv'
    <2>1. /\ Increasing(rx_queue) /\ Before(L, W) /\ Before(I \cup Q, L \cup W)
      BY DEF FrameInv, OrderInv, Ahead
    <2>2. Before(L, W \cup {new}) /\ Before(I \cup Q, L \cup (W \cup {new}))
      BY <1>6, <1>7, <2>1 DEF Before
    <2>3. QED
      BY <1>1, <1>4, <1>8, <2>1, <2>2 DEF OrderInv, Ahead
  <1>10. FramesInv'
    <2> HIDE DEF I, Q, L, W
    <2>1. /\ bridge.dropped \cup evicted \subseteq 1 .. new
          /\ I \cup Q \cup (L \cup (W \cup {new})) = (1 .. new) \ (bridge.dropped \cup evicted)
      BY <1>6, <1>7
    <2>2. QED
      BY <1>1, <1>3, <1>4, <1>6, <1>8, <2>1 DEF FramesInv, Ahead, I, Q
  <1>11. OvertakeInv'
    BY <1>1 DEF FrameInv, OvertakeInv
  <1>12. QED
    BY <1>9, <1>10, <1>11 DEF FrameInv

LEMMA TransmissionKeeps ==
  ASSUME Inv, FrameInv, TransmitEnds
  PROVE  FrameInv'
  <1> DEFINE I == Elements(ingested)
             Q == Elements(rx_queue)
             W == Elements(Waiting(bridge))
             A == Ahead(bridge')
  <1>1. Passed(bridge, bridge') /\ Taken(bridge) = {}
    BY TransmissionPasses DEF FrameInv
  <1>2. UNCHANGED <<arrived, rx_queue, evicted, ingested, looping>>
    BY DEF TransmitEnds, host
  <1>3. OrderInv'
    BY <1>1, <1>2, TakenOrder DEF FrameInv, OrderInv
  <1>4. FramesInv'
    <2>1. A \subseteq W /\ bridge'.dropped = bridge.dropped \cup (W \ A)
      BY <1>1 DEF Passed
    <2>2. I \cap Q = {} /\ I \cap W = {} /\ Q \cap W = {}
      BY ApartFacts DEF FrameInv
    <2>3. /\ bridge.dropped \cup evicted \subseteq 1 .. arrived
          /\ I \cup Q \cup W = (1 .. arrived) \ (bridge.dropped \cup evicted)
          /\ \A i, j \in DOMAIN ingested : ingested[i] = ingested[j] => i = j
      BY <1>1 DEF FrameInv, FramesInv, Ahead
    <2> HIDE DEF I, Q, W, A
    <2>4. bridge'.dropped \cup evicted \subseteq 1 .. arrived
      BY <2>1, <2>3
    <2>5. I \cup Q \cup A = (1 .. arrived) \ (bridge'.dropped \cup evicted)
      BY <2>1, <2>2, <2>3
    <2>6. QED
      BY <1>2, <2>2, <2>3, <2>4, <2>5 DEF FramesInv, I, Q, A
  <1>5. OvertakeInv'
    BY <1>2 DEF FrameInv, OvertakeInv
  <1>6. QED
    BY <1>3, <1>4, <1>5 DEF FrameInv

LEMMA FramesUntouched ==
  ASSUME FrameInv, UNCHANGED <<arrived, bridge, looping, rx_queue, evicted, ingested>>
  PROVE  FrameInv'
  BY DEF FrameInv, FramesInv, OrderInv, OvertakeInv

LEMMA CommandKeeps ==
  ASSUME Inv, FrameInv, NEW c \in Commands,
         Submit(c) \/ SendRequest(c) \/ Poll(c) \/ PollFails(c)
  PROVE  FrameInv'
  <1>1. CASE Submit(c)
    BY <1>1, FramesUntouched DEF Submit
  <1>2. CASE SendRequest(c)
    <2>1. /\ Transfer(CanTx(c)) /\ QueueFrame(Response)
          /\ UNCHANGED <<arrived, looping, ingested>>
      BY <1>2 DEF SendRequest
    <2>2. CanTx(c) \in {Nothing} \cup {CanTx(d) : d \in Commands}
      OBVIOUS
    <2>3. Passed(bridge, bridge')
      BY <2>1, <2>2, TransferPasses DEF FrameInv
    <2>4. QED
      BY <2>1, <2>3, QueueFrameKeeps
  <1>3. CASE Poll(c)
    <2>1. status_queue = <<>>
      BY DEF Inv, StatusInv
    <2>2. /\ Transfer(Nothing) /\ QueueFrame(Response)
          /\ UNCHANGED <<arrived, looping, ingested>>
      BY <1>3, <2>1 DEF Poll
    <2>3. Passed(bridge, bridge')
      BY <2>2, TransferPasses DEF FrameInv
    <2>4. QED
      BY <2>2, <2>3, QueueFrameKeeps
  <1>4. CASE PollFails(c)
    BY <1>4, FramesUntouched DEF PollFails
  <1>5. QED
    BY <1>1, <1>2, <1>3, <1>4

LEMMA InitFrames == Init => FrameInv
  <1> SUFFICES ASSUME Init PROVE FrameInv
    OBVIOUS
  <1>1. /\ arrived = 0 /\ evicted = {} /\ ingested = <<>> /\ rx_queue = <<>>
        /\ bridge.ring = <<>> /\ bridge.queue = <<>> /\ bridge.dropped = {}
        /\ bridge.loaded = Nothing
    BY DEF Init
  <1>2. Taken(bridge) = {} /\ Waiting(bridge) = <<>>
    BY <1>1, NothingTaken, NoElements DEF Taken, Waiting
  <1>3. FramesInv
    <2>1. 1 .. 0 = {} /\ DOMAIN ingested = {}
      BY <1>1
    <2>2. QED
      BY <1>1, <1>2, <2>1, NoElements DEF FramesInv, Ahead
  <1>4. OrderInv
    BY <1>1, <1>2, NoElements DEF OrderInv, Before, Ahead
  <1>5. OvertakeInv
    BY <1>1, NoElements DEF OvertakeInv, Before
  <1>6. QED
    BY <1>3, <1>4, <1>5 DEF FrameInv

LEMMA NextFrames == Inv /\ FrameInv /\ [Next]_vars => FrameInv'
  <1> SUFFICES ASSUME Inv, FrameInv, [Next]_vars PROVE FrameInv'
    OBVIOUS
  <1>1. CASE FrameArrives
    BY <1>1, ArrivalKeeps
  <1>2. CASE TransmitEnds
    BY <1>2, TransmissionKeeps
  <1>3. CASE \E c \in Commands : Submit(c) \/ SendRequest(c) \/ Poll(c) \/ PollFails(c)
    BY <1>3, CommandKeeps
  <1>4. CASE Drain
    BY <1>4, DrainKeeps
  <1>5. CASE Receive
    BY <1>5, ReceiveKeeps
  <1>6. CASE UNCHANGED vars
    BY <1>6, FramesUntouched DEF vars, host
  <1>7. QED
    BY <1>1, <1>2, <1>3, <1>4, <1>5, <1>6 DEF Next

LEMMA FrameInvariance == Spec => [](Inv /\ FrameInv)
  BY InitInv, NextInv, InitFrames, NextFrames, PTL DEF Spec
-----------------------------------------------------------------------------
(* The theorems *)

\* The states of the bridge and of SpiCanBus are of their types: the queues
\* stay within their limits however long commands and frames keep coming.
THEOREM SpiTypeCorrect == Spec => []TypeOK
  <1>1. Inv => TypeOK
    BY DEF Inv
  <1>2. QED
    BY <1>1, Invariance, PTL

\* A status under way is the one the holder of the lock waits for, so that no
\* send takes the status of another, and receive_loop never takes any.
THEOREM StatusBelongsToHolder == Spec => []StatusBelongs
  <1>1. Inv => StatusBelongs
    <2> SUFFICES ASSUME Inv PROVE StatusBelongs
      OBVIOUS
    <2>1. ASSUME NEW c \in Commands, step[c] = "poll"
          PROVE  lock # <<>> /\ Head(lock) = c
      BY <2>1 DEF Inv, HolderInv
    <2>2. bridge.busy # {} \/ bridge.loaded.type = "status" =>
            \E c \in Commands : step[c] = "poll"
      BY DEF Inv, StatusInv
    <2>3. status_queue = <<>>
      BY DEF Inv, StatusInv
    <2>4. QED
      BY <2>1, <2>2, <2>3 DEF StatusBelongs
  <1>2. QED
    BY <1>1, Invariance, PTL

\* submit_command reports of each command what became of it on the bus, when
\* the bridge skips requests and retries its transmissions as well.
THEOREM CommandReported == Spec => []CommandTruthful
  <1>1. Inv => CommandTruthful
    BY DEF Inv
  <1>2. QED
    BY <1>1, Invariance, PTL

\* A sequence without repetitions has as many elements as places.
LEMMA CountDistinct ==
  ASSUME NEW S, NEW s \in Seq(S), \A i, j \in DOMAIN s : s[i] = s[j] => i = j
  PROVE  Cardinality(Elements(s)) = Len(s)
  <1>1. s \in [1 .. Len(s) -> Elements(s)] /\ Len(s) \in Nat /\ DOMAIN s = 1 .. Len(s)
    BY DEF Elements
  <1>2. s \in Bijection(1 .. Len(s), Elements(s))
    <2>1. s \in Injection(1 .. Len(s), Elements(s))
      BY <1>1 DEF Injection, IsInjective
    <2>2. \A e \in Elements(s) : \E i \in 1 .. Len(s) : s[i] = e
      BY <1>1 DEF Elements
    <2>3. s \in Surjection(1 .. Len(s), Elements(s))
      BY <1>1, <2>2 DEF Surjection
    <2>4. QED
      BY <2>1, <2>3 DEF Bijection
  <1>3. ExistsBijection(1 .. Len(s), Elements(s))
    BY <1>2 DEF ExistsBijection
  <1>4. IsFiniteSet(1 .. Len(s)) /\ Cardinality(1 .. Len(s)) = Len(s)
    <2> DEFINE n == Len(s)
    <2>1. n \in Nat
      BY <1>1
    <2> HIDE DEF n
    <2>2. 1 \in Int /\ n \in Int /\ (IF 1 > n THEN 0 ELSE n - 1 + 1) = n
      BY <2>1
    <2>3. IsFiniteSet(1 .. n) /\ Cardinality(1 .. n) = n
      BY <2>2, FS_Interval
    <2>4. QED
      BY <2>3 DEF n
  <1>5. QED
    BY <1>3, <1>4, FS_Bijection

\* Two sequences that share no element repeat none together.
LEMMA DistinctConcat ==
  ASSUME NEW S, NEW s \in Seq(S), NEW t \in Seq(S),
         \A i, j \in DOMAIN s : s[i] = s[j] => i = j,
         \A i, j \in DOMAIN t : t[i] = t[j] => i = j,
         Elements(s) \cap Elements(t) = {}
  PROVE  \A i, j \in DOMAIN (s \o t) : (s \o t)[i] = (s \o t)[j] => i = j
  <1> DEFINE u == s \o t
  <1>1. /\ u \in Seq(S) /\ Len(u) = Len(s) + Len(t) /\ Len(s) \in Nat /\ Len(t) \in Nat
        /\ \A i \in 1 .. Len(s) : u[i] = s[i]
        /\ \A i \in 1 .. Len(t) : u[Len(s) + i] = t[i]
        /\ DOMAIN u = 1 .. Len(u) /\ DOMAIN s = 1 .. Len(s) /\ DOMAIN t = 1 .. Len(t)
    OBVIOUS
  <1> HIDE DEF u
  <1>2. ASSUME NEW i \in DOMAIN u, i \notin DOMAIN s
        PROVE  i - Len(s) \in DOMAIN t /\ u[i] = t[i - Len(s)]
    <2>1. i - Len(s) \in 1 .. Len(t) /\ Len(s) + (i - Len(s)) = i
      BY <1>1, <1>2
    <2>2. QED
      BY <1>1, <2>1
  <1>3. ASSUME NEW i \in DOMAIN u, NEW j \in DOMAIN u, u[i] = u[j]
        PROVE  i = j
    <2>1. CASE i \in DOMAIN s /\ j \in DOMAIN s
      BY <1>1, <1>3, <2>1
    <2>2. CASE i \notin DOMAIN s /\ j \notin DOMAIN s
      <3>1. i - Len(s) = j - Len(s)
        BY <1>2, <1>3, <2>2
      <3>2. QED
        BY <1>1, <3>1
    <2>3. CASE i \in DOMAIN s /\ j \notin DOMAIN s
      <3>1. u[i] \in Elements(s)
        BY <1>1, <2>3 DEF Elements
      <3>2. u[j] \in Elements(t)
        BY <1>2, <2>3 DEF Elements
      <3>3. QED
        BY <1>3, <3>1, <3>2
    <2>4. CASE i \notin DOMAIN s /\ j \in DOMAIN s
      <3>1. u[j] \in Elements(s)
        BY <1>1, <2>4 DEF Elements
      <3>2. u[i] \in Elements(t)
        BY <1>2, <2>4 DEF Elements
      <3>3. QED
        BY <1>3, <3>1, <3>2
    <2>5. QED
      BY <2>1, <2>2, <2>3, <2>4
  <1>4. QED
    BY <1>3 DEF u

LEMMA IncreasingDistinct ==
  ASSUME NEW s \in Seq(Frames), Increasing(s)
  PROVE  \A i, j \in DOMAIN s : s[i] = s[j] => i = j
  <1> SUFFICES ASSUME NEW i \in DOMAIN s, NEW j \in DOMAIN s, s[i] = s[j] PROVE i = j
    OBVIOUS
  <1>1. i \in Int /\ j \in Int /\ s[i] \in Nat /\ s[j] \in Nat
    <2>1. i \in Int /\ j \in Int /\ s[i] \in Frames /\ s[j] \in Frames
      OBVIOUS
    <2>2. QED
      BY <2>1, FramesAreNaturals
  <1>2. ~(s[i] < s[j]) /\ ~(s[j] < s[i])
    BY <1>1
  <1>3. ~(i < j) /\ ~(j < i)
    BY <1>2 DEF Increasing
  <1>4. QED
    BY <1>1, <1>3

\* Every frame that arrived is on its way or ingested, once, or was given up by
\* a full queue, of the bridge or of SpiCanBus: whatever the sizes of the
\* queues and however send and receive_loop take turns, no other is lost.
THEOREM NoFrameLost == Spec => []FramesConserved
  <1>1. Inv /\ FrameInv => FramesConserved
    <2> SUFFICES ASSUME Inv, FrameInv PROVE FramesConserved
      OBVIOUS
    <2> DEFINE carried == FrameOf(bridge.loaded)
               waiting == Waiting(bridge)
               ahead == carried \o waiting
               kept == rx_queue \o ahead
               all == ingested \o kept
    <2>1. /\ ingested \in Seq(Frames) /\ rx_queue \in Seq(Frames) /\ carried \in Seq(Frames)
          /\ waiting \in Seq(Frames) /\ Increasing(carried)
          /\ bridge.queue \in Seq(Frames) /\ bridge.ring \in Seq(Frames)
      BY HostTyped, BridgeTyped, WaitingTyped, FrameOfInOrder DEF Inv, TypeOK
    <2>2. /\ Increasing(rx_queue) /\ Increasing(waiting)
          /\ Before(Elements(carried), Elements(waiting))
          /\ Before(Elements(ingested) \cup Elements(rx_queue), Ahead(bridge))
      BY DEF FrameInv, OrderInv, Taken
    <2>3. InTransit = all
      <3> DEFINE queue == bridge.queue
                 ring == bridge.ring
                 held == ingested \o rx_queue
                 front == held \o carried
      <3>1. /\ InTransit = (front \o queue) \o ring /\ waiting = queue \o ring
            /\ front = held \o carried /\ held = ingested \o rx_queue
            /\ ahead = carried \o waiting /\ kept = rx_queue \o ahead /\ all = ingested \o kept
        BY DEF InTransit, Waiting
      <3>2. /\ ingested \in Seq(Frames) /\ rx_queue \in Seq(Frames) /\ queue \in Seq(Frames)
            /\ ring \in Seq(Frames) /\ carried \in Seq(Frames) /\ waiting \in Seq(Frames)
        BY <2>1
      <3> HIDE DEF carried, waiting, ahead, kept, all, queue, ring, held, front
      <3>3. held \in Seq(Frames) /\ ahead \in Seq(Frames)
        BY <3>1, <3>2
      <3>4. front \in Seq(Frames)
        BY <3>1, <3>2, <3>3
      <3>5. (front \o queue) \o ring = front \o (queue \o ring)
        BY <3>2, <3>4, Regroup
      <3>6. (held \o carried) \o waiting = held \o (carried \o waiting)
        <4>1. held \in Seq(Frames) /\ carried \in Seq(Frames) /\ waiting \in Seq(Frames)
          BY <3>2, <3>3
        <4>2. QED
          BY <4>1, Regroup
      <3>7. (ingested \o rx_queue) \o ahead = ingested \o (rx_queue \o ahead)
        <4>1. ingested \in Seq(Frames) /\ rx_queue \in Seq(Frames) /\ ahead \in Seq(Frames)
          BY <3>2, <3>3
        <4>2. QED
          BY <4>1, Regroup
      <3>8. QED
        BY <3>1, <3>5, <3>6, <3>7
    <2>4. /\ ahead \in Seq(Frames) /\ Increasing(ahead)
          /\ Elements(ahead) = Ahead(bridge)
      <3>1. Elements(carried) = Taken(bridge) /\ Elements(waiting) = Elements(Waiting(bridge))
        BY DEF Taken
      <3> HIDE DEF carried, waiting
      <3>2. QED
        BY <2>1, <2>2, <3>1, IncreasingConcat, ElementsConcat DEF Ahead
    <2> HIDE DEF ahead
    <2>5. /\ kept \in Seq(Frames) /\ Increasing(kept)
          /\ Elements(kept) = Elements(rx_queue) \cup Ahead(bridge)
      <3>1. Before(Elements(rx_queue), Elements(ahead))
        BY <2>2, <2>4 DEF Before
      <3>2. QED
        BY <2>1, <2>2, <2>4, <3>1, IncreasingConcat, ElementsConcat
    <2> HIDE DEF kept
    <2>6. /\ all \in Seq(Frames)
          /\ Elements(all) = Elements(ingested) \cup Elements(rx_queue) \cup Ahead(bridge)
      BY <2>1, <2>5, ElementsConcat
    <2>7. Elements(ingested) \cap Elements(kept) = {}
      BY <2>5, ApartFacts DEF FrameInv, Ahead
    <2>8. \A i, j \in DOMAIN all : all[i] = all[j] => i = j
      BY <2>1, <2>5, <2>7, DistinctConcat, IncreasingDistinct DEF FrameInv, FramesInv
    <2> HIDE DEF all
    <2>9. Cardinality(Elements(all)) = Len(all)
      BY <2>6, <2>8, CountDistinct
    <2>10. Elements(all) = (1 .. arrived) \ (bridge.dropped \cup evicted)
      BY <2>6 DEF FrameInv, FramesInv
    <2>11. QED
      BY <2>3, <2>9, <2>10 DEF FramesConserved
  <1>2. QED
    BY <1>1, FrameInvariance, PTL

LEMMA AtMostOneCounted ==
  ASSUME NEW S, AtMostOne(S)
  PROVE  Cardinality(S) <= 1
  <1>1. CASE S = {}
    BY <1>1, FS_EmptySet
  <1>2. CASE S # {}
    <2>1. PICK e \in S : TRUE
      BY <1>2
    <2>2. S = {e}
      BY <2>1 DEF AtMostOne
    <2>3. QED
      BY <2>2, FS_Singleton
  <1>3. QED
    BY <1>1, <1>2

\* A frame that send keeps aside is overtaken by one newer frame at most, with
\* any number of commands: receive_loop drains _rx_queue before each transfer.
THEOREM OvertakenOnceOnly == Spec => []OvertakenOnce
  <1>1. FrameInv => OvertakenOnce
    BY AtMostOneCounted DEF FrameInv, OvertakeInv, OvertakenOnce
  <1>2. QED
    BY <1>1, FrameInvariance, PTL
-----------------------------------------------------------------------------
(* The USB bridge: the stream and its parser *)

\* The loop has handed nothing to the parser since it last read.
Entered == phase = "usb" => processed = 0

StreamTypeOK ==
  /\ payload \in [Free -> {Magic0, Magic1, "other"}]
  /\ taken \in Nat
  /\ buffer \in Seq(Nat) /\ Len(buffer) < PacketSize
  /\ phase \in {"usb", "can"} /\ processed \in 0 .. UsbBudget
  /\ drops \in Nat /\ genuine \in Nat /\ corrupted \in Nat /\ bitrate_asked \in BOOLEAN

\* The next byte is number r of packet q, counted from 0, and the parser knows:
\* it keeps what it has of this packet, each byte in its place.
Aligned(q, r) ==
  /\ taken = q * PacketSize + r
  /\ Len(buffer) = r
  /\ \A k \in 3 .. r : buffer[k] = q * PacketSize + k - 1
  /\ q - genuine <= 2 * drops /\ corrupted <= drops

\* A byte of packet q was dropped behind its magic ones: the parser keeps r
\* bytes of it and is going to take one of the next packet for its last.  There
\* is no budget to use up before that.
Short(q, r) ==
  /\ r \in 2 .. PacketSize - 1
  /\ taken = q * PacketSize + r + 1
  /\ Len(buffer) = r
  /\ r >= 3 => buffer[3] \in {q * PacketSize + 2, q * PacketSize + 3}
  /\ q - genuine + 2 <= 2 * drops /\ corrupted + 1 <= drops
  /\ phase = "usb" => processed <= r - 2

\* Packet q is lost and the parser looks for the next one.  If it keeps a byte,
\* it is one that no second magic byte follows, and none would if the next
\* byte were dropped, which can happen once.
Hunting(q, r) ==
  /\ r # 0 /\ taken = q * PacketSize + r
  /\ Len(buffer) <= 1
  /\ Len(buffer) = 1 =>
       \/ r = 2 /\ Entered
       \/ \E i \in Free : payload[i] = Magic0 /\ (r = i \/ (r = i + 1 /\ Entered))
  /\ q + 1 - genuine <= 2 * drops /\ corrupted <= drops

\* The parser keeps the last byte of a lost packet, and packet q comes.
Late(q) ==
  /\ taken = q * PacketSize /\ Len(buffer) = 1
  /\ q - genuine <= 2 * drops /\ corrupted <= drops

Located ==
  /\ \E q \in Nat, r \in 0 .. PacketSize - 1 :
       Aligned(q, r) \/ Short(q, r) \/ Hunting(q, r) \/ Late(q)
  /\ ~bitrate_asked

StreamInv == StreamTypeOK /\ (Clean => Located)
-----------------------------------------------------------------------------

LEMMA Sizes == PacketSize \in Nat /\ PacketSize >= 6 /\ UsbBudget \in Nat /\ UsbBudget >= PacketSize
  BY PacketAssumption, BudgetAssumption

LEMMA Division ==
  ASSUME NEW u \in Nat \ {0}, NEW q \in Nat, NEW r \in 0 .. u - 1
  PROVE  (q * u + r) % u = r /\ (q * u + r) \div u = q
  BY SMT

LEMMA PacketPlaces ==
  ASSUME NEW q \in Nat
  PROVE  /\ q * PacketSize \in Nat
         /\ (q + 1) * PacketSize = q * PacketSize + PacketSize
  BY Sizes

\* Which byte the host wrote at place r of packet q.
LEMMA ByteOf ==
  ASSUME NEW q \in Nat, NEW r \in 0 .. PacketSize - 1, NEW n, n = q * PacketSize + r
  PROVE  /\ n \in Nat /\ PositionOf(n) = r + 1 /\ PacketOf(n) = q
         /\ r = 0 => Byte(n) = Magic0
         /\ r = 1 => Byte(n) = Magic1
         /\ r \in {2, 3} => Byte(n) = "other"
         /\ r >= 4 => r + 1 \in Free /\ Byte(n) = payload[r + 1]
  <1>1. n \in Nat
    BY PacketPlaces
  <1>2. PositionOf(n) = r + 1 /\ PacketOf(n) = q
    BY Sizes, Division DEF PositionOf, PacketOf
  <1>3. r >= 4 => r + 1 \in Free
    BY Sizes DEF Free
  <1>4. QED
    BY <1>1, <1>2, <1>3, Sizes DEF Byte

LEMMA MagicDiffer == Magic0 # Magic1 /\ Magic0 # "other" /\ Magic1 # "other"
  BY DEF Magic0, Magic1

LEMMA PushTyped ==
  ASSUME StreamTypeOK
  PROVE  /\ Push(taken) \in Seq(Nat) /\ Len(Push(taken)) <= PacketSize
         /\ Len(buffer) >= 2 => Push(taken) = Append(buffer, taken)
         /\ Len(buffer) = 0 => Push(taken) = IF Byte(taken) = Magic0 THEN <<taken>> ELSE <<>>
         /\ Len(buffer) = 1 => 
              Push(taken) = IF Byte(taken) = Magic1 THEN Append(buffer, taken)
                            ELSE IF Byte(taken) = Magic0 THEN <<taken>> ELSE <<>>
  <1>1. taken \in Nat /\ buffer \in Seq(Nat) /\ Len(buffer) \in Nat /\ Len(buffer) < PacketSize
    BY DEF StreamTypeOK
  <1>2. /\ Append(buffer, taken) \in Seq(Nat) /\ Len(Append(buffer, taken)) = Len(buffer) + 1
        /\ <<taken>> \in Seq(Nat) /\ Len(<<taken>>) = 1
        /\ <<>> \in Seq(Nat) /\ Len(<<>>) = 0
    BY <1>1
  <1> DEFINE l == Len(buffer)
  <1>3. l \in Nat /\ (l = 0 \/ l = 1 \/ l >= 2) /\ (l >= 2 => l # 0 /\ l # 1)
    <2>1. l \in Nat
      BY <1>1
    <2> HIDE DEF l
    <2>2. QED
      BY <2>1
  <1>4. l # 0 /\ l # 1 => Push(taken) = Append(buffer, taken)
    BY Zenon DEF Push
  <1>5. l = 0 => Push(taken) = IF Byte(taken) = Magic0 THEN <<taken>> ELSE <<>>
    BY Zenon DEF Push
  <1>6. l = 1 =>
          Push(taken) = IF Byte(taken) = Magic1 THEN Append(buffer, taken)
                        ELSE IF Byte(taken) = Magic0 THEN <<taken>> ELSE <<>>
    BY DEF Push
  <1>7. Push(taken) \in {Append(buffer, taken), <<taken>>, <<>>}
    BY <1>3, <1>4, <1>5, <1>6
  <1> DEFINE p == Push(taken)
  <1>8. p \in Seq(Nat) /\ Len(p) <= PacketSize
    <2> HIDE DEF p
    <2>1. l + 1 <= PacketSize /\ 1 <= PacketSize
      BY <1>1, Sizes
    <2>2. p = Append(buffer, taken) \/ p = <<taken>> \/ p = <<>>
      BY <1>7 DEF p
    <2>3. p = Append(buffer, taken) => p \in Seq(Nat) /\ Len(p) <= PacketSize
      BY <1>2, <2>1
    <2>4. p = <<taken>> => p \in Seq(Nat) /\ Len(p) <= PacketSize
      BY <1>2, <2>1
    <2>5. p = <<>> => p \in Seq(Nat) /\ Len(p) <= PacketSize
      BY <1>2, Sizes
    <2>6. QED
      BY <2>2, <2>3, <2>4, <2>5
  <1>9. QED
    BY <1>3, <1>4, <1>5, <1>6, <1>8

\* What the parser keeps when the packet is not complete, and what it hands on
\* when it is.
LEMMA PushedFacts ==
  ASSUME NEW packet, packet \in Seq(Nat), Len(packet) <= PacketSize, Pushed(packet), StreamTypeOK
  PROVE  /\ Len(packet) < PacketSize =>
              /\ buffer' = packet
              /\ genuine' = genuine /\ corrupted' = corrupted /\ bitrate_asked' = bitrate_asked
         /\ Len(packet) = PacketSize => buffer' = <<>> /\ Handle(packet)
         /\ buffer' \in Seq(Nat) /\ Len(buffer') < PacketSize
         /\ genuine' \in {genuine, genuine + 1} /\ corrupted' \in {corrupted, corrupted + 1}
         /\ bitrate_asked' \in BOOLEAN
  <1>1. CASE Len(packet) = PacketSize
    <2>1. buffer' = <<>> /\ Handle(packet)
      BY <1>1 DEF Pushed
    <2>2. PICK type \in Types(packet) :
            /\ genuine' = IF Genuine(packet) THEN genuine + 1 ELSE genuine
            /\ corrupted' = IF type = "can_tx" /\ ~Genuine(packet) THEN corrupted + 1 ELSE corrupted
            /\ bitrate_asked' = (bitrate_asked \/ type = "set_bitrate")
      BY <2>1 DEF Handle
    <2>3. bitrate_asked' \in BOOLEAN
      BY <2>2
    <2>4. genuine' \in {genuine, genuine + 1} /\ corrupted' \in {corrupted, corrupted + 1}
      BY <2>2
    <2>5. <<>> \in Seq(Nat) /\ Len(<<>>) = 0
      OBVIOUS
    <2>6. QED
      BY <1>1, <2>1, <2>3, <2>4, <2>5, Sizes
  <1>2. CASE Len(packet) # PacketSize
    BY <1>2, Sizes DEF Pushed, StreamTypeOK
  <1>3. QED
    BY <1>1, <1>2

LEMMA StreamTyped == StreamTypeOK /\ [StreamNext]_stream_vars => StreamTypeOK'
  <1> SUFFICES ASSUME StreamTypeOK, [StreamNext]_stream_vars PROVE StreamTypeOK'
    OBVIOUS
  <1>1. CASE ReadByte
    <2>1. /\ Push(taken) \in Seq(Nat) /\ Len(Push(taken)) <= PacketSize
      BY PushTyped
    <2>2. /\ buffer' \in Seq(Nat) /\ Len(buffer') < PacketSize
          /\ genuine' \in {genuine, genuine + 1} /\ corrupted' \in {corrupted, corrupted + 1}
          /\ bitrate_asked' \in BOOLEAN
      BY <1>1, <2>1, PushedFacts DEF ReadByte
    <2>3. genuine' \in Nat /\ corrupted' \in Nat
      BY <2>2 DEF StreamTypeOK
    <2>4. processed' \in 0 .. UsbBudget /\ taken' \in Nat
      BY <1>1, Sizes DEF ReadByte, StreamTypeOK
    <2>5. QED
      BY <1>1, <2>2, <2>3, <2>4 DEF ReadByte, StreamTypeOK
  <1>2. CASE DropByte
    BY <1>2 DEF DropByte, StreamTypeOK
  <1>3. CASE HostWrites
    BY <1>3 DEF HostWrites, StreamTypeOK
  <1>4. CASE NothingToRead
    BY <1>4 DEF NothingToRead, StreamTypeOK
  <1>5. CASE NextTurn
    BY <1>5, Sizes DEF NextTurn, StreamTypeOK
  <1>6. CASE UNCHANGED stream_vars
    BY <1>6 DEF stream_vars, StreamTypeOK
  <1>7. QED
    BY <1>1, <1>2, <1>3, <1>4, <1>5, <1>6 DEF StreamNext

-----------------------------------------------------------------------------
(* A byte is read *)

\* What ReadByte does but for the parser.
LEMMA ReadFacts ==
  ASSUME StreamTypeOK, ReadByte
  PROVE  /\ phase = "usb" /\ phase' = "usb" /\ payload' = payload /\ drops' = drops
         /\ taken' = taken + 1 /\ processed' = processed + 1
         /\ Len(buffer) \in Nat /\ Len(buffer) < PacketSize /\ taken \in Nat
         /\ Pushed(Push(taken)) /\ Push(taken) \in Seq(Nat) /\ Len(Push(taken)) <= PacketSize
  BY PushTyped DEF ReadByte, StreamTypeOK

\* The parser keeps the byte behind those it has.
LEMMA ReadAppends ==
  ASSUME StreamTypeOK, ReadByte,
         Len(buffer) >= 2 \/ (Len(buffer) = 1 /\ Byte(taken) = Magic1),
         Len(buffer) < PacketSize - 1
  PROVE  /\ buffer' = Append(buffer, taken) /\ Len(buffer') = Len(buffer) + 1
         /\ \A k \in 1 .. Len(buffer) : buffer'[k] = buffer[k]
         /\ buffer'[Len(buffer) + 1] = taken
         /\ genuine' = genuine /\ corrupted' = corrupted /\ bitrate_asked' = bitrate_asked
  <1>1. Push(taken) = Append(buffer, taken)
    BY PushTyped
  <1>2. buffer \in Seq(Nat) /\ taken \in Nat
    BY DEF StreamTypeOK
  <1>3. /\ Len(Append(buffer, taken)) = Len(buffer) + 1
        /\ \A k \in 1 .. Len(buffer) : Append(buffer, taken)[k] = buffer[k]
        /\ Append(buffer, taken)[Len(buffer) + 1] = taken
    BY <1>2
  <1>4. Len(Append(buffer, taken)) < PacketSize
    BY <1>2, <1>3, Sizes
  <1>5. QED
    BY <1>1, <1>3, <1>4, ReadFacts, PushedFacts

\* The parser keeps the byte, and no other, if it may begin a packet.
LEMMA ReadBegins ==
  ASSUME StreamTypeOK, ReadByte, Len(buffer) <= 1, Len(buffer) = 1 => Byte(taken) # Magic1
  PROVE  /\ buffer' = IF Byte(taken) = Magic0 THEN <<taken>> ELSE <<>>
         /\ Len(buffer') = IF Byte(taken) = Magic0 THEN 1 ELSE 0
         /\ genuine' = genuine /\ corrupted' = corrupted /\ bitrate_asked' = bitrate_asked
  <1>1. Len(buffer) = 0 \/ Len(buffer) = 1
    <2> DEFINE l == Len(buffer)
    <2>1. l \in Nat /\ l <= 1
      BY ReadFacts
    <2> HIDE DEF l
    <2>2. l = 0 \/ l = 1
      BY <2>1
    <2>3. QED
      BY <2>2 DEF l
  <1>2. Push(taken) = IF Byte(taken) = Magic0 THEN <<taken>> ELSE <<>>
    BY <1>1, PushTyped
  <1>3. Len(Push(taken)) = IF Byte(taken) = Magic0 THEN 1 ELSE 0
    BY <1>2
  <1>4. Len(Push(taken)) < PacketSize
    BY <1>3, Sizes
  <1>5. QED
    BY <1>2, <1>3, <1>4, ReadFacts, PushedFacts

\* The byte completes a packet.
LEMMA ReadCompletes ==
  ASSUME StreamTypeOK, ReadByte, Len(buffer) = PacketSize - 1
  PROVE  /\ buffer' = <<>> /\ Len(buffer') = 0
         /\ \E packet \in Seq(Nat) :
              /\ Len(packet) = PacketSize /\ Handle(packet)
              /\ \A k \in 1 .. PacketSize - 1 : packet[k] = buffer[k]
              /\ packet[PacketSize] = taken
  <1>1. Len(buffer) >= 2
    BY Sizes
  <1>2. Push(taken) = Append(buffer, taken)
    BY <1>1, PushTyped
  <1>3. buffer \in Seq(Nat) /\ taken \in Nat
    BY DEF StreamTypeOK
  <1>4. /\ Append(buffer, taken) \in Seq(Nat) /\ Len(Append(buffer, taken)) = PacketSize
        /\ \A k \in 1 .. PacketSize - 1 : Append(buffer, taken)[k] = buffer[k]
        /\ Append(buffer, taken)[PacketSize] = taken
    BY <1>3, Sizes
  <1>5. buffer' = <<>> /\ Handle(Append(buffer, taken))
    BY <1>2, <1>4, ReadFacts, PushedFacts
  <1>6. QED
    BY <1>4, <1>5

LEMMA LocatedBy ==
  ASSUME NEW q \in Nat, NEW r \in 0 .. PacketSize - 1, ~bitrate_asked',
         Aligned(q, r)' \/ Short(q, r)' \/ Hunting(q, r)' \/ Late(q)'
  PROVE  Located'
  BY DEF Located

LEMMA ReadAligned ==
  ASSUME StreamTypeOK, ReadByte, ~bitrate_asked,
         NEW q \in Nat, NEW r \in 0 .. PacketSize - 1, Aligned(q, r)
  PROVE  Located'
  <1> DEFINE b == q * PacketSize
  <1>1. b \in Nat /\ (q + 1) * PacketSize = b + PacketSize
    BY PacketPlaces
  <1>2. /\ taken = b + r /\ Len(buffer) = r /\ \A k \in 3 .. r : buffer[k] = b + k - 1
        /\ q - genuine <= 2 * drops /\ corrupted <= drops
    BY DEF Aligned
  <1>3. /\ PositionOf(taken) = r + 1 /\ PacketOf(taken) = q
        /\ r = 0 => Byte(taken) = Magic0
        /\ r = 1 => Byte(taken) = Magic1
    BY <1>2, ByteOf
  <1>4. CASE r < PacketSize - 1
    <2>1. r + 1 \in 0 .. PacketSize - 1
      BY <1>4, Sizes
    <2>2. taken' = b + (r + 1) /\ drops' = drops
      BY <1>1, <1>2, ReadFacts
    <2>3. CASE r = 0
      <3>1. Len(buffer') = 1 /\ genuine' = genuine /\ corrupted' = corrupted
            /\ bitrate_asked' = bitrate_asked
        BY <1>2, <1>3, <2>3, ReadBegins
      <3>2. Aligned(q, r + 1)'
        BY <1>1, <1>2, <2>2, <2>3, <3>1 DEF Aligned
      <3>3. QED
        BY <2>1, <3>1, <3>2, LocatedBy
    <2>4. CASE r # 0
      <3>1. Len(buffer) >= 2 \/ (Len(buffer) = 1 /\ Byte(taken) = Magic1)
        BY <1>2, <1>3, <2>4
      <3>2. /\ Len(buffer') = r + 1
            /\ \A k \in 1 .. r : buffer'[k] = buffer[k]
            /\ buffer'[r + 1] = taken
            /\ genuine' = genuine /\ corrupted' = corrupted /\ bitrate_asked' = bitrate_asked
        BY <1>2, <1>4, <3>1, ReadAppends
      <3>3. ASSUME NEW k \in 3 .. r + 1 PROVE buffer'[k] = b + k - 1
        <4>1. CASE k = r + 1
          BY <1>1, <1>2, <3>2, <4>1
        <4>2. CASE k # r + 1
          BY <1>2, <3>2, <4>2
        <4>3. QED
          BY <4>1, <4>2
      <3>4. Aligned(q, r + 1)'
        BY <1>2, <2>2, <3>2, <3>3 DEF Aligned
      <3>5. QED
        BY <2>1, <3>2, <3>4, LocatedBy
    <2>5. QED
      BY <2>3, <2>4
  <1>5. CASE r = PacketSize - 1
    <2>1. PICK packet \in Seq(Nat) :
            /\ Len(packet) = PacketSize /\ Handle(packet)
            /\ \A k \in 1 .. PacketSize - 1 : packet[k] = buffer[k]
            /\ packet[PacketSize] = taken
      BY <1>2, <1>5, ReadCompletes
    <2>2. ASSUME NEW k \in 3 .. PacketSize
          PROVE  PositionOf(packet[k]) = k /\ PacketOf(packet[k]) = q
      <3>1. packet[k] = b + (k - 1)
        <4>1. CASE k = PacketSize
          BY <1>1, <1>2, <1>5, <2>1, <4>1, Sizes
        <4>2. CASE k # PacketSize
          BY <1>1, <1>2, <1>5, <2>1, <4>2, Sizes
        <4>3. QED
          BY <4>1, <4>2
      <3>2. k - 1 \in 0 .. PacketSize - 1
        BY Sizes
      <3>3. QED
        BY <3>1, <3>2, ByteOf
    <2>3. 3 \in 3 .. PacketSize
      BY Sizes
    <2>4. Genuine(packet) /\ Types(packet) = {"can_tx"}
      BY <2>2, <2>3 DEF Genuine, Types
    <2>5. genuine' = genuine + 1 /\ corrupted' = corrupted /\ bitrate_asked' = FALSE
      BY <2>1, <2>4 DEF Handle
    <2>6. Len(buffer') = 0 /\ taken' = (q + 1) * PacketSize + 0 /\ drops' = drops
      BY <1>1, <1>2, <1>5, ReadCompletes, ReadFacts, Sizes
    <2>7. PICK p \in Nat : p = q + 1
      OBVIOUS
    <2>8. Aligned(p, 0)'
      <3>1. taken' = p * PacketSize + 0 /\ Len(buffer') = 0
        BY <2>6, <2>7
      <3>2. p - genuine' <= 2 * drops' /\ corrupted' <= drops'
        BY <1>2, <2>5, <2>6, <2>7 DEF StreamTypeOK
      <3>3. \A k \in 3 .. 0 : FALSE
        OBVIOUS
      <3>4. QED
        BY <3>1, <3>2, <3>3 DEF Aligned
    <2>9. 0 \in 0 .. PacketSize - 1 /\ ~bitrate_asked'
      BY <2>5, Sizes
    <2>10. QED
      BY <2>8, <2>9, LocatedBy
  <1>6. QED
    BY <1>4, <1>5, Sizes

LEMMA ReadShort ==
  ASSUME StreamTypeOK, ReadByte, ~bitrate_asked,
         NEW q \in Nat, NEW r \in 0 .. PacketSize - 1, Short(q, r)
  PROVE  Located'
  <1> DEFINE b == q * PacketSize
  <1>1. b \in Nat /\ (q + 1) * PacketSize = b + PacketSize
    BY PacketPlaces
  <1>2. /\ r >= 2 /\ taken = b + r + 1 /\ Len(buffer) = r
        /\ r >= 3 => buffer[3] \in {b + 2, b + 3}
        /\ q - genuine + 2 <= 2 * drops /\ corrupted + 1 <= drops
    BY DEF Short
  <1>3. processed <= r - 2
    BY ReadFacts DEF Short
  <1>4. CASE r < PacketSize - 1
    <2>1. r + 1 \in 0 .. PacketSize - 1 /\ r + 1 \in 2 .. PacketSize - 1
      BY <1>2, <1>4, Sizes
    <2>2. /\ Len(buffer') = r + 1
          /\ \A k \in 1 .. r : buffer'[k] = buffer[k]
          /\ buffer'[r + 1] = taken
          /\ genuine' = genuine /\ corrupted' = corrupted /\ bitrate_asked' = bitrate_asked
      BY <1>2, <1>4, ReadAppends
    <2>3. taken' = b + (r + 1) + 1 /\ drops' = drops /\ processed' = processed + 1
      BY <1>1, <1>2, ReadFacts
    <2>4. processed' <= (r + 1) - 2
      BY <1>3, <2>3 DEF StreamTypeOK
    <2>5. buffer'[3] \in {b + 2, b + 3}
      <3>1. CASE r = 2
        BY <1>1, <1>2, <2>2, <3>1
      <3>2. CASE r >= 3
        BY <1>2, <2>2, <3>2
      <3>3. QED
        BY <1>2, <3>1, <3>2
    <2>6. Short(q, r + 1)'
      BY <1>2, <2>1, <2>2, <2>3, <2>4, <2>5 DEF Short
    <2>7. QED
      BY <2>1, <2>2, <2>6, LocatedBy
  <1>5. CASE r = PacketSize - 1
    <2>1. PICK packet \in Seq(Nat) :
            /\ Len(packet) = PacketSize /\ Handle(packet)
            /\ \A k \in 1 .. PacketSize - 1 : packet[k] = buffer[k]
            /\ packet[PacketSize] = taken
      BY <1>2, <1>5, ReadCompletes
    <2>2. packet[3] = b + 2 \/ packet[3] = b + 3
      BY <1>2, <1>5, <2>1, Sizes
    <2>3. PositionOf(packet[3]) \in {3, 4}
      <3>1. 2 \in 0 .. PacketSize - 1 /\ 3 \in 0 .. PacketSize - 1
        BY Sizes
      <3>2. PositionOf(b + 2) = 3 /\ PositionOf(b + 3) = 4
        BY <3>1, ByteOf
      <3>3. QED
        BY <2>2, <3>2
    <2>4. PositionOf(packet[PacketSize]) = 1
      <3>1. taken = (q + 1) * PacketSize + 0 /\ q + 1 \in Nat /\ 0 \in 0 .. PacketSize - 1
        BY <1>1, <1>2, <1>5, Sizes
      <3>2. QED
        BY <2>1, <3>1, ByteOf
    <2>5. ~Genuine(packet)
      <3>1. PacketSize \in 3 .. PacketSize /\ PacketSize # 1
        BY Sizes
      <3>2. QED
        BY <2>4, <3>1 DEF Genuine
    <2>6. "set_bitrate" \notin Types(packet)
      BY <2>3 DEF Types
    <2>7. genuine' = genuine /\ corrupted' \in {corrupted, corrupted + 1} /\ ~bitrate_asked'
      BY <2>1, <2>5, <2>6 DEF Handle
    <2>8. Len(buffer') = 0 /\ taken' = (q + 1) * PacketSize + 1 /\ drops' = drops
      BY <1>1, <1>2, <1>5, ReadCompletes, ReadFacts, Sizes
    <2>9. (q + 1) + 1 - genuine' <= 2 * drops' /\ corrupted' <= drops'
      BY <1>2, <2>7, <2>8 DEF StreamTypeOK
    <2>10. PICK p \in Nat : p = q + 1
      OBVIOUS
    <2>11. Hunting(p, 1)'
      BY <2>8, <2>9, <2>10 DEF Hunting
    <2>12. 1 \in 0 .. PacketSize - 1
      BY Sizes
    <2>13. QED
      BY <2>7, <2>11, <2>12, LocatedBy
  <1>6. QED
    BY <1>4, <1>5, Sizes

\* No second magic byte completes what the parser keeps while it looks for a
\* packet.
LEMMA HuntedByte ==
  ASSUME StreamTypeOK, Clean, ReadByte,
         NEW q \in Nat, NEW r \in 0 .. PacketSize - 1, Hunting(q, r), Len(buffer) = 1
  PROVE  Byte(taken) # Magic1
  <1>1. taken = q * PacketSize + r
    BY DEF Hunting
  <1>2. CASE r = 2
    BY <1>1, <1>2, ByteOf, MagicDiffer
  <1>3. CASE \E i \in Free : payload[i] = Magic0 /\ (r = i \/ r = i + 1)
    <2>1. PICK i \in Free : payload[i] = Magic0 /\ (r = i \/ r = i + 1)
      BY <1>3
    <2>2. i \in Nat /\ i >= 5 /\ r >= 4
      BY <2>1 DEF Free
    <2>3. r + 1 \in Free /\ Byte(taken) = payload[r + 1]
      BY <1>1, <2>2, ByteOf
    <2>4. r + 1 \in {i + 1, i + 2}
      BY <2>1, <2>2
    <2>5. QED
      BY <2>1, <2>3, <2>4 DEF Clean
  <1>4. QED
    BY <1>2, <1>3 DEF Hunting

LEMMA ReadHunting ==
  ASSUME StreamTypeOK, Clean, ReadByte, ~bitrate_asked,
         NEW q \in Nat, NEW r \in 0 .. PacketSize - 1, Hunting(q, r)
  PROVE  Located'
  <1>1. /\ taken = q * PacketSize + r /\ r # 0 /\ Len(buffer) <= 1
        /\ q + 1 - genuine <= 2 * drops /\ corrupted <= drops
    BY DEF Hunting
  <1>2. /\ Len(buffer') = IF Byte(taken) = Magic0 THEN 1 ELSE 0
        /\ genuine' = genuine /\ corrupted' = corrupted /\ bitrate_asked' = bitrate_asked
    BY <1>1, HuntedByte, ReadBegins
  <1>3. taken' = taken + 1 /\ drops' = drops /\ payload' = payload
    BY ReadFacts
  <1>4. CASE r < PacketSize - 1
    <2>1. PICK s \in 0 .. PacketSize - 1 : s = r + 1
      BY <1>4, Sizes
    <2>2. taken' = q * PacketSize + s
      <3>1. PICK b \in Nat : b = q * PacketSize
        BY PacketPlaces
      <3>2. taken = b + r /\ taken' = taken + 1
        BY <1>1, <3>1, <1>3
      <3>3. taken' = b + s
        BY <2>1, <3>2
      <3>4. QED
        BY <3>1, <3>3
    <2>3. Byte(taken) = Magic0 => s \in Free /\ payload[s] = Magic0
      <3>1. r >= 4 \/ r \in {1, 2, 3}
        BY <1>1
      <3>2. QED
        BY <1>1, <2>1, <3>1, ByteOf, MagicDiffer
    <2>4. Hunting(q, s)'
      <3>1. s # 0 /\ Len(buffer') <= 1
        BY <1>2, <2>1
      <3>2. Len(buffer') = 1 => \E i \in Free : payload'[i] = Magic0 /\ s = i
        BY <1>2, <1>3, <2>3
      <3>3. QED
        BY <1>1, <1>2, <1>3, <2>2, <3>1, <3>2 DEF Hunting
    <2>5. QED
      BY <1>2, <2>4, LocatedBy
  <1>5. CASE r = PacketSize - 1
    <2>1. PICK p \in Nat : p = q + 1
      OBVIOUS
    <2>2. taken' = p * PacketSize
      BY <1>1, <1>3, <1>5, <2>1, PacketPlaces, Sizes
    <2>3. p - genuine' <= 2 * drops' /\ corrupted' <= drops'
      BY <1>1, <1>2, <1>3, <2>1 DEF StreamTypeOK
    <2>4. CASE Byte(taken) = Magic0
      BY <1>2, <2>2, <2>3, <2>4, Sizes, LocatedBy DEF Late
    <2>5. CASE Byte(taken) # Magic0
      <3>1. taken' = p * PacketSize + 0 /\ Len(buffer') = 0
        BY <1>2, <2>2, <2>5, PacketPlaces
      <3>2. \A k \in 3 .. 0 : FALSE
        OBVIOUS
      <3>3. Aligned(p, 0)'
        BY <2>3, <3>1, <3>2 DEF Aligned
      <3>4. 0 \in 0 .. PacketSize - 1
        BY Sizes
      <3>5. QED
        BY <1>2, <3>3, <3>4, LocatedBy
    <2>6. QED
      BY <2>4, <2>5
  <1>6. QED
    BY <1>4, <1>5, Sizes

LEMMA ReadLate ==
  ASSUME StreamTypeOK, ReadByte, ~bitrate_asked, NEW q \in Nat, Late(q)
  PROVE  Located'
  <1>1. /\ taken = q * PacketSize /\ Len(buffer) = 1
        /\ q - genuine <= 2 * drops /\ corrupted <= drops
    BY DEF Late
  <1>2. taken = q * PacketSize + 0 /\ 0 \in 0 .. PacketSize - 1
    BY <1>1, PacketPlaces, Sizes
  <1>3. Byte(taken) = Magic0
    BY <1>2, ByteOf
  <1>4. /\ Len(buffer') = 1
        /\ genuine' = genuine /\ corrupted' = corrupted /\ bitrate_asked' = bitrate_asked
    BY <1>1, <1>3, ReadBegins, MagicDiffer
  <1>5. taken' = q * PacketSize + 1 /\ drops' = drops
    BY <1>1, ReadFacts
  <1>6. \A k \in 3 .. 1 : FALSE
    OBVIOUS
  <1>7. Aligned(q, 1)'
    BY <1>1, <1>4, <1>5, <1>6 DEF Aligned
  <1>8. 1 \in 0 .. PacketSize - 1
    BY Sizes
  <1>9. QED
    BY <1>4, <1>7, <1>8, LocatedBy
-----------------------------------------------------------------------------
(* A byte is dropped *)

LEMMA DropFacts ==
  ASSUME StreamTypeOK, DropByte
  PROVE  /\ phase = "usb" /\ phase' = "can" /\ processed = UsbBudget
         /\ payload' = payload /\ drops' = drops + 1 /\ taken' = taken + 1
         /\ buffer' = buffer /\ genuine' = genuine /\ corrupted' = corrupted
         /\ bitrate_asked' = bitrate_asked
         /\ taken \in Nat /\ drops \in Nat /\ genuine \in Nat /\ corrupted \in Nat
  BY DEF DropByte, StreamTypeOK

\* What the parser had of a packet it can no longer complete; a packet that
\* has not begun is lost, too.
LEMMA DropAligned ==
  ASSUME StreamTypeOK, DropByte, ~bitrate_asked,
         NEW q \in Nat, NEW r \in 0 .. PacketSize - 1, Aligned(q, r)
  PROVE  Located'
  <1>1. /\ taken = q * PacketSize + r /\ Len(buffer) = r
        /\ \A k \in 3 .. r : buffer[k] = q * PacketSize + k - 1
        /\ q - genuine <= 2 * drops /\ corrupted <= drops
    BY DEF Aligned
  <1>2. CASE r < 2
    <2>1. PICK s \in 0 .. PacketSize - 1 : s = r + 1
      BY <1>2, Sizes
    <2>2. taken' = q * PacketSize + s
      <3>1. PICK b \in Nat : b = q * PacketSize
        BY PacketPlaces
      <3>2. taken = b + r /\ taken' = taken + 1
        BY <1>1, <3>1, DropFacts
      <3>3. taken' = b + s
        BY <2>1, <3>2
      <3>4. QED
        BY <3>1, <3>3
    <2>3. s # 0 /\ Len(buffer') <= 1
      BY <1>1, <1>2, <2>1, DropFacts
    <2>4. Len(buffer') = 1 => s = 2 /\ Entered'
      <3>1. Entered'
        BY DropFacts DEF Entered
      <3>2. Len(buffer') = r
        BY <1>1, DropFacts
      <3>3. QED
        BY <2>1, <3>1, <3>2
    <2>5. q + 1 - genuine' <= 2 * drops' /\ corrupted' <= drops'
      BY <1>1, DropFacts
    <2>6. Hunting(q, s)'
      BY <2>2, <2>3, <2>4, <2>5 DEF Hunting
    <2>7. QED
      BY <2>6, DropFacts, LocatedBy
  <1>3. CASE r >= 2
    <2>1. taken' = q * PacketSize + r + 1 /\ Len(buffer') = r /\ r \in 2 .. PacketSize - 1
      BY <1>1, <1>3, DropFacts, PacketPlaces
    <2>2. r >= 3 => buffer'[3] = q * PacketSize + 2
      BY <1>1, DropFacts, PacketPlaces
    <2>3. q - genuine' + 2 <= 2 * drops' /\ corrupted' + 1 <= drops'
      BY <1>1, DropFacts
    <2>4. Short(q, r)'
      BY <2>1, <2>2, <2>3, DropFacts DEF Short
    <2>5. QED
      BY <2>4, DropFacts, LocatedBy
  <1>4. QED
    BY <1>2, <1>3

\* The budget does not end a second time while a packet is one byte short.
LEMMA DropShort ==
  ASSUME StreamTypeOK, DropByte, NEW q \in Nat, NEW r \in 0 .. PacketSize - 1, Short(q, r)
  PROVE  FALSE
  <1>1. processed <= r - 2 /\ r <= PacketSize - 1
    BY DropFacts DEF Short
  <1>2. QED
    BY <1>1, DropFacts, Sizes

LEMMA DropHunting ==
  ASSUME StreamTypeOK, DropByte, ~bitrate_asked,
         NEW q \in Nat, NEW r \in 0 .. PacketSize - 1, Hunting(q, r)
  PROVE  Located'
  <1>1. /\ taken = q * PacketSize + r /\ r # 0 /\ Len(buffer) <= 1
        /\ q + 1 - genuine <= 2 * drops /\ corrupted <= drops
    BY DEF Hunting
  <1>2. ~Entered
    BY DropFacts, Sizes DEF Entered
  <1>3. CASE r < PacketSize - 1
    <2>1. PICK s \in 0 .. PacketSize - 1 : s = r + 1
      BY <1>3, Sizes
    <2>2. taken' = q * PacketSize + s
      <3>1. PICK b \in Nat : b = q * PacketSize
        BY PacketPlaces
      <3>2. taken = b + r /\ taken' = taken + 1
        BY <1>1, <3>1, DropFacts
      <3>3. taken' = b + s
        BY <2>1, <3>2
      <3>4. QED
        BY <3>1, <3>3
    <2>3. Len(buffer') = 1 => \E i \in Free : payload'[i] = Magic0 /\ s = i + 1 /\ Entered'
      <3>1. Len(buffer) = 1 => \E i \in Free : payload[i] = Magic0 /\ r = i
        BY <1>2 DEF Hunting
      <3>2. Entered'
        BY DropFacts DEF Entered
      <3>3. QED
        BY <2>1, <3>1, <3>2, DropFacts
    <2>4. s # 0 /\ Len(buffer') <= 1
      BY <1>1, <2>1, DropFacts
    <2>5. q + 1 - genuine' <= 2 * drops' /\ corrupted' <= drops'
      BY <1>1, DropFacts
    <2>6. Hunting(q, s)'
      BY <2>2, <2>3, <2>4, <2>5 DEF Hunting
    <2>7. QED
      BY <2>6, DropFacts, LocatedBy
  <1>4. CASE r = PacketSize - 1
    <2>1. PICK p \in Nat : p = q + 1
      OBVIOUS
    <2>2. taken' = p * PacketSize
      BY <1>1, <1>4, <2>1, DropFacts, PacketPlaces, Sizes
    <2>3. p - genuine' <= 2 * drops' /\ corrupted' <= drops'
      BY <1>1, <2>1, DropFacts
    <2>4. CASE Len(buffer) = 1
      BY <2>2, <2>3, <2>4, DropFacts, Sizes, LocatedBy DEF Late
    <2>5. CASE Len(buffer) # 1
      <3>1. taken' = p * PacketSize + 0 /\ Len(buffer') = 0
        <4> DEFINE l == Len(buffer)
        <4>1. l \in Nat /\ l <= 1 /\ l # 1
          BY <1>1, <2>5 DEF StreamTypeOK
        <4> HIDE DEF l
        <4>2. l = 0
          BY <4>1
        <4>3. QED
          BY <2>2, <4>2, DropFacts, PacketPlaces DEF l
      <3>2. \A k \in 3 .. 0 : FALSE
        OBVIOUS
      <3>3. Aligned(p, 0)'
        BY <2>3, <3>1, <3>2 DEF Aligned
      <3>4. 0 \in 0 .. PacketSize - 1
        BY Sizes
      <3>5. QED
        BY <3>3, <3>4, DropFacts, LocatedBy
    <2>6. QED
      BY <2>4, <2>5
  <1>5. QED
    BY <1>3, <1>4, Sizes

LEMMA DropLate ==
  ASSUME StreamTypeOK, DropByte, ~bitrate_asked, NEW q \in Nat, Late(q)
  PROVE  Located'
  <1>1. /\ taken = q * PacketSize /\ Len(buffer) = 1
        /\ q - genuine <= 2 * drops /\ corrupted <= drops
    BY DEF Late
  <1>2. taken' = q * PacketSize + 1 /\ Len(buffer') = 1
    BY <1>1, DropFacts
  <1>3. q - genuine' <= 2 * drops' /\ corrupted' <= drops'
    BY <1>1, DropFacts
  <1>4. \A k \in 3 .. 1 : FALSE
    OBVIOUS
  <1>5. Aligned(q, 1)'
    BY <1>2, <1>3, <1>4 DEF Aligned
  <1>6. 1 \in 0 .. PacketSize - 1
    BY Sizes
  <1>7. QED
    BY <1>5, <1>6, DropFacts, LocatedBy

-----------------------------------------------------------------------------
(* What a dropped byte costs *)

LEMMA StreamInitInv == StreamInit => StreamInv
  <1> SUFFICES ASSUME StreamInit PROVE StreamInv
    OBVIOUS
  <1>1. StreamTypeOK
    <2>1. <<>> \in Seq(Nat) /\ Len(<<>>) = 0
      OBVIOUS
    <2>2. buffer \in Seq(Nat) /\ Len(buffer) < PacketSize
      BY <2>1, Sizes DEF StreamInit
    <2>3. payload \in [Free -> {Magic0, Magic1, "other"}] /\ phase = "usb" /\ bitrate_asked = FALSE
      BY Zenon DEF StreamInit
    <2>4. /\ processed \in 0 .. UsbBudget /\ taken \in Nat
          /\ drops \in Nat /\ genuine \in Nat /\ corrupted \in Nat
      BY Sizes DEF StreamInit
    <2>5. QED
      BY <2>2, <2>3, <2>4 DEF StreamTypeOK
  <1>2. 0 \in Nat /\ 0 \in 0 .. PacketSize - 1 /\ 0 * PacketSize + 0 = 0
    BY Sizes
  <1>3. Aligned(0, 0)
    <2>1. \A k \in 3 .. 0 : FALSE
      OBVIOUS
    <2>2. Len(buffer) = 0 /\ taken = 0 /\ drops = 0 /\ genuine = 0 /\ corrupted = 0
      BY DEF StreamInit
    <2>3. 0 - genuine <= 2 * drops /\ corrupted <= drops
      BY <2>2
    <2>4. QED
      BY <1>2, <2>1, <2>2, <2>3 DEF Aligned
  <1>4. ~bitrate_asked
    BY DEF StreamInit
  <1>5. QED
    BY <1>1, <1>2, <1>3, <1>4 DEF StreamInv, Located

LEMMA LocatedStep ==
  ASSUME StreamTypeOK, Clean, Located, [StreamNext]_stream_vars
  PROVE  Located'
  <1>1. PICK q \in Nat, r \in 0 .. PacketSize - 1 :
          Aligned(q, r) \/ Short(q, r) \/ Hunting(q, r) \/ Late(q)
    BY DEF Located
  <1>2. ~bitrate_asked
    BY DEF Located
  <1>3. CASE ReadByte
    BY <1>1, <1>2, <1>3, ReadAligned, ReadShort, ReadHunting, ReadLate
  <1>4. CASE DropByte
    BY <1>1, <1>2, <1>4, DropAligned, DropShort, DropHunting, DropLate
  <1>5. CASE UNCHANGED <<payload, taken, buffer, phase, processed, drops, genuine, corrupted,
                         bitrate_asked>>
    BY <1>1, <1>2, <1>5, LocatedBy DEF Aligned, Short, Hunting, Late, Entered
  <1>6. CASE NothingToRead
    BY <1>1, <1>2, <1>6, LocatedBy
       DEF NothingToRead, Aligned, Short, Hunting, Late, Entered
  <1>7. CASE NextTurn
    <2>1. /\ UNCHANGED <<payload, taken, buffer, drops, genuine, corrupted, bitrate_asked>>
          /\ processed' = 0
      BY <1>7 DEF NextTurn
    <2>2. Entered'
      BY <2>1 DEF Entered
    <2>3. CASE Aligned(q, r)
      BY <1>2, <2>1, <2>3, LocatedBy DEF Aligned
    <2>4. CASE Short(q, r)
      <3>1. processed' <= r - 2
        BY <2>1, <2>4 DEF Short
      <3>2. QED
        BY <1>2, <2>1, <2>4, <3>1, LocatedBy DEF Short
    <2>5. CASE Hunting(q, r)
      BY <1>2, <2>1, <2>2, <2>5, LocatedBy DEF Hunting
    <2>6. CASE Late(q)
      BY <1>2, <2>1, <2>6, LocatedBy DEF Late
    <2>7. QED
      BY <1>1, <2>3, <2>4, <2>5, <2>6
  <1>8. HostWrites \/ UNCHANGED stream_vars =>
          UNCHANGED <<payload, taken, buffer, phase, processed, drops, genuine, corrupted,
                      bitrate_asked>>
    BY DEF HostWrites, stream_vars
  <1>9. QED
    BY <1>3, <1>4, <1>5, <1>6, <1>7, <1>8 DEF StreamNext

LEMMA StreamNextInv == StreamInv /\ [StreamNext]_stream_vars => StreamInv'
  <1> SUFFICES ASSUME StreamInv, [StreamNext]_stream_vars PROVE StreamInv'
    OBVIOUS
  <1>1. StreamTypeOK'
    BY StreamTyped DEF StreamInv
  <1>2. payload' = payload
    BY DEF StreamNext, HostWrites, ReadByte, DropByte, NothingToRead, NextTurn, stream_vars
  <1>3. Clean' => Clean
    BY <1>2 DEF Clean
  <1>4. Clean => Located'
    BY LocatedStep DEF StreamInv
  <1>5. QED
    BY <1>1, <1>3, <1>4 DEF StreamInv

LEMMA LocatedBounded ==
  ASSUME StreamTypeOK, Located
  PROVE  PacketOf(taken) - genuine <= 2 * drops /\ corrupted <= drops /\ ~bitrate_asked
  <1>1. PICK q \in Nat, r \in 0 .. PacketSize - 1 :
          Aligned(q, r) \/ Short(q, r) \/ Hunting(q, r) \/ Late(q)
    BY DEF Located
  <1>2. ~bitrate_asked /\ genuine \in Nat /\ drops \in Nat /\ corrupted \in Nat
    BY DEF Located, StreamTypeOK
  <1>3. CASE Aligned(q, r) \/ Hunting(q, r)
    <2>1. PacketOf(taken) = q
      BY <1>3, ByteOf DEF Aligned, Hunting
    <2>2. q - genuine <= 2 * drops /\ corrupted <= drops
      BY <1>2, <1>3 DEF Aligned, Hunting
    <2>3. QED
      BY <1>2, <2>1, <2>2
  <1>4. CASE Short(q, r)
    <2>1. PacketOf(taken) = q \/ PacketOf(taken) = q + 1
      <3>1. CASE r < PacketSize - 1
        <4>1. PICK s \in 0 .. PacketSize - 1 : s = r + 1
          BY <3>1, Sizes
        <4>2. taken = q * PacketSize + s
          BY <1>4, <4>1, PacketPlaces DEF Short
        <4>3. QED
          BY <4>2, ByteOf
      <3>2. CASE r = PacketSize - 1
        <4>1. PICK b \in Nat : b = q * PacketSize /\ (q + 1) * PacketSize = b + PacketSize
          BY PacketPlaces
        <4>2. taken = b + r + 1
          BY <1>4, <4>1 DEF Short
        <4>3. taken = (q + 1) * PacketSize + 0
          BY <3>2, <4>1, <4>2, Sizes
        <4>4. q + 1 \in Nat /\ 0 \in 0 .. PacketSize - 1
          BY Sizes
        <4>5. QED
          BY <4>3, <4>4, ByteOf
      <3>3. QED
        BY <3>1, <3>2, Sizes
    <2>2. q - genuine + 2 <= 2 * drops /\ corrupted + 1 <= drops
      BY <1>4 DEF Short
    <2>3. QED
      BY <1>2, <2>1, <2>2
  <1>5. CASE Late(q)
    <2>1. taken = q * PacketSize + 0 /\ 0 \in 0 .. PacketSize - 1
      BY <1>5, PacketPlaces, Sizes DEF Late
    <2>2. PacketOf(taken) = q
      BY <2>1, ByteOf
    <2>3. QED
      BY <1>2, <1>5, <2>2 DEF Late
  <1>6. QED
    BY <1>1, <1>3, <1>4, <1>5

LEMMA StreamInvariance == StreamSpec => []StreamInv
  BY StreamInitInv, StreamNextInv, PTL DEF StreamSpec

\* Whatever the sizes of a packet, of the budget and of the stream, and however
\* the bytes come in: a byte that the bridge reads and drops costs at most its
\* packet and the next, puts at most one garbled frame on the bus, and never
\* asks for another bitrate, when the data hold nothing like a packet's begin.
THEOREM DamageIsBounded == StreamSpec => []DamageBounded
  <1>1. StreamInv => DamageBounded
    BY LocatedBounded DEF StreamInv, DamageBounded
  <1>2. QED
    BY <1>1, StreamInvariance, PTL
=============================================================================
