----------------------------- MODULE CanRxQueue -----------------------------
(***************************************************************************)
(* The receive ring of bsp/pico/src/can_bus.c.  The CAN interrupt writes   *)
(* it (scp_can_rx_cb), the main loop reads it (scp_can_try_read) and may   *)
(* initialise it again while frames keep arriving (scp_can_init, called    *)
(* for SET_BITRATE by both bridges).  Every store of the C code to shared  *)
(* memory is a step of its own, so that the interrupt can fall between     *)
(* any two steps of the main loop at which interrupts are enabled.  The    *)
(* converse cannot happen: the main loop never runs inside the interrupt.  *)
(***************************************************************************)
EXTENDS Integers, Sequences

CONSTANTS
  Frames,      \* CAN frames
  NoFrame,     \* scp_can_try_read returned false
  QueueSlots   \* length of rx_queue (128 in can_bus.h)

ASSUME QueueSlotsAssumption == QueueSlots \in Nat /\ QueueSlots >= 2
ASSUME NoFrameAssumption == NoFrame \notin Frames

VARIABLES
  rx_queue,     \* the slots; a slot never written holds NoFrame
  rx_head,      \* next slot the interrupt fills
  rx_tail,      \* next slot the main loop reads
  irq_enabled,  \* FALSE between save_and_disable_ and restore_interrupts
  irq_pc,       \* control point of scp_can_rx_cb
  irq_msg,      \* its argument *msg
  main_pc,      \* control point of the main loop in this file
  result        \* *msg_out of the last scp_can_try_read, or NoFrame

vars == <<rx_queue, rx_head, rx_tail, irq_enabled, irq_pc, irq_msg, main_pc,
          result>>

Slots == 0 .. QueueSlots - 1

\* A faulty index that leaves the ring.
SuccUnwrapped(i) == i + 1

Succ(i) == (i + 1) % QueueSlots

Init ==
  /\ rx_queue = [i \in Slots |-> NoFrame]
  /\ rx_head = 0
  /\ rx_tail = 0
  /\ irq_enabled = TRUE
  /\ irq_pc = "idle"
  /\ irq_msg = NoFrame
  /\ main_pc = "idle"
  /\ result = NoFrame

-----------------------------------------------------------------------------
(* scp_can_rx_cb *)

\* The two stores of scp_can_init are adjacent instructions, and a CAN frame
\* occupies the bus for at least 47 us: at most one frame completes between
\* them.  An assumption on the hardware, not a guard of the code.
FrameSpacing == main_pc = "init_tail" => rx_head = 0

\* A faulty callback that overruns the oldest frame instead of dropping it.
RxOverrun(f) ==
  /\ irq_enabled
  /\ irq_pc = "idle"
  /\ FrameSpacing
  /\ irq_pc' = "store"
  /\ irq_msg' = f
  /\ UNCHANGED <<rx_queue, rx_head, rx_tail, irq_enabled, main_pc, result>>

RxMakeRoom(f) ==
  /\ irq_enabled
  /\ irq_pc = "idle"
  /\ FrameSpacing
  /\ irq_pc' = "store"
  /\ irq_msg' = f
  /\ rx_tail' = IF Succ(rx_head) = rx_tail THEN Succ(rx_tail) ELSE rx_tail
  /\ UNCHANGED <<rx_queue, rx_head, irq_enabled, main_pc, result>>

RxStore ==
  /\ irq_pc = "store"
  /\ irq_pc' = "publish"
  /\ rx_queue' = [rx_queue EXCEPT ![rx_head] = irq_msg]
  /\ UNCHANGED <<rx_head, rx_tail, irq_enabled, irq_msg, main_pc, result>>

RxPublish ==
  /\ irq_pc = "publish"
  /\ irq_pc' = "idle"
  /\ rx_head' = Succ(rx_head)
  /\ UNCHANGED <<rx_queue, rx_tail, irq_enabled, irq_msg, main_pc, result>>

-----------------------------------------------------------------------------
(* scp_can_try_read *)

\* A faulty read that leaves interrupts enabled.
TryReadUnmasked ==
  /\ main_pc = "idle"
  /\ irq_pc = "idle"
  /\ main_pc' = "copy"
  /\ UNCHANGED <<rx_queue, rx_head, rx_tail, irq_enabled, irq_pc, irq_msg, result>>

TryReadMask ==
  /\ main_pc = "idle"
  /\ irq_pc = "idle"
  /\ main_pc' = "copy"
  /\ irq_enabled' = FALSE
  /\ UNCHANGED <<rx_queue, rx_head, rx_tail, irq_pc, irq_msg, result>>

TryReadCopy ==
  /\ main_pc = "copy"
  /\ irq_pc = "idle"
  /\ IF rx_head # rx_tail
       THEN result' = rx_queue[rx_tail] /\ main_pc' = "advance"
       ELSE result' = NoFrame /\ main_pc' = "unmask"
  /\ UNCHANGED <<rx_queue, rx_head, rx_tail, irq_enabled, irq_pc, irq_msg>>

TryReadAdvance ==
  /\ main_pc = "advance"
  /\ irq_pc = "idle"
  /\ main_pc' = "unmask"
  /\ rx_tail' = Succ(rx_tail)
  /\ UNCHANGED <<rx_queue, rx_head, irq_enabled, irq_pc, irq_msg, result>>

TryReadUnmask ==
  /\ main_pc = "unmask"
  /\ irq_pc = "idle"
  /\ main_pc' = "idle"
  /\ irq_enabled' = TRUE
  /\ UNCHANGED <<rx_queue, rx_head, rx_tail, irq_pc, irq_msg, result>>

-----------------------------------------------------------------------------
(* scp_can_init on a bus already started; the rest of it sets fields that   *)
(* do not change and hands the same callback to can2040 again.              *)

InitHead ==
  /\ main_pc = "idle"
  /\ irq_pc = "idle"
  /\ main_pc' = "init_tail"
  /\ rx_head' = 0
  /\ UNCHANGED <<rx_queue, rx_tail, irq_enabled, irq_pc, irq_msg, result>>

InitTail ==
  /\ main_pc = "init_tail"
  /\ irq_pc = "idle"
  /\ main_pc' = "idle"
  /\ rx_tail' = 0
  /\ UNCHANGED <<rx_queue, rx_head, irq_enabled, irq_pc, irq_msg, result>>

-----------------------------------------------------------------------------

Interrupt == (\E f \in Frames : RxMakeRoom(f)) \/ RxStore \/ RxPublish

MainLoop ==
  TryReadMask \/ TryReadCopy \/ TryReadAdvance \/ TryReadUnmask
    \/ InitHead \/ InitTail

Next == Interrupt \/ MainLoop

Spec == Init /\ [][Next]_vars
-----------------------------------------------------------------------------

TypeOK ==
  /\ rx_queue \in [Slots -> Frames \cup {NoFrame}]
  /\ rx_head \in Slots
  /\ rx_tail \in Slots
  /\ irq_enabled \in BOOLEAN
  /\ irq_pc \in {"idle", "store", "publish"}
  /\ irq_msg \in Frames \cup {NoFrame}
  /\ main_pc \in {"idle", "copy", "advance", "unmask", "init_tail"}
  /\ result \in Frames \cup {NoFrame}

(***************************************************************************)
(* The refinement mapping.  A frame belongs to the queue from the moment   *)
(* the callback has made room for it, and leaves it when the main loop     *)
(* has copied it.  While scp_can_init is between its two stores the old    *)
(* tail counts for nothing: everything from slot 0 to the head is queued.  *)
(***************************************************************************)
LogicalTail == IF main_pc = "init_tail" THEN 0
               ELSE IF main_pc = "advance" THEN Succ(rx_tail)
               ELSE rx_tail

Stored == IF rx_head >= LogicalTail THEN rx_head - LogicalTail
                                    ELSE rx_head - LogicalTail + QueueSlots

SlotOf(k) == (LogicalTail + k - 1) % QueueSlots

Pending == IF irq_pc = "idle" THEN 0 ELSE 1

Contents ==
  [k \in 1 .. Stored + Pending |->
     IF k <= Stored THEN rx_queue[SlotOf(k)] ELSE irq_msg]

Fifo == INSTANCE DropOldestFifo
          WITH Capacity <- QueueSlots - 1, queue <- Contents

\* The ring, with its interrupt falling between any two unmasked stores of the
\* main loop, is a drop-oldest queue of QueueSlots - 1 frames: no read returns
\* a frame twice, out of order, torn or older than one already dropped.
ImplementsFifo == Fifo!Spec

\* What makes it so.  The callback runs only while no read is in progress; a
\* frame being copied is there to copy; the slot being filled is outside the
\* queue, which keeps at least one slot free, and holds the new frame before
\* it is published; every queued slot was written.
RingInv ==
  /\ main_pc \in {"copy", "advance", "unmask"} => ~irq_enabled /\ irq_pc = "idle"
  /\ main_pc \in {"idle", "init_tail"} => irq_enabled
  /\ main_pc = "advance" => rx_head # rx_tail
  /\ irq_pc # "idle" =>
       /\ irq_msg \in Frames
       /\ main_pc = "init_tail" \/ Succ(rx_head) # rx_tail
  /\ irq_pc = "publish" => rx_queue[rx_head] = irq_msg
  /\ main_pc = "init_tail" => rx_head \in {0, 1} /\ (irq_pc # "idle" => rx_head = 0)
  /\ \A k \in 1 .. Stored : rx_queue[SlotOf(k)] \in Frames
=============================================================================
