-------------------------- MODULE CanRxQueueProofs --------------------------
(***************************************************************************)
(* Proofs about CanRxQueue, for a ring of any length and any set of        *)
(* frames: types, the ring invariant, and that the ring implements         *)
(* DropOldestFifo.                                                         *)
(***************************************************************************)
EXTENDS CanRxQueue, TLAPS

-----------------------------------------------------------------------------
(* Slot arithmetic *)

\* A remainder taken of less than two ring lengths subtracts at most one.
LEMMA WrapOnce ==
  ASSUME NEW x \in Int, 0 <= x, x < 2 * QueueSlots
  PROVE  x % QueueSlots = IF x >= QueueSlots THEN x - QueueSlots ELSE x
  BY QueueSlotsAssumption, SMT

\* Succ steps to the next slot and wraps at the end of the ring.
LEMMA SuccWraps ==
  ASSUME NEW i \in Slots
  PROVE  Succ(i) = (IF i = QueueSlots - 1 THEN 0 ELSE i + 1) /\ Succ(i) \in Slots
  BY QueueSlotsAssumption, WrapOnce DEF Succ, Slots

\* The slot k - 1 places after slot t.
LEMMA SlotArithmetic ==
  ASSUME NEW t \in Slots, NEW k \in 1 .. QueueSlots
  PROVE  /\ (t + k - 1) % QueueSlots \in Slots
         /\ (t + k - 1) % QueueSlots = IF t + k - 1 >= QueueSlots
                                         THEN t + k - 1 - QueueSlots
                                         ELSE t + k - 1
  <1> DEFINE x == t + k - 1
  <1>1. x \in Int /\ 0 <= x /\ x < 2 * QueueSlots
    BY QueueSlotsAssumption DEF Slots
  <1>2. x % QueueSlots = IF x >= QueueSlots THEN x - QueueSlots ELSE x
    BY <1>1, WrapOnce
  <1>3. QED
    BY <1>1, <1>2, QueueSlotsAssumption DEF Slots

\* Where the queue lies in the ring: it starts at a slot, it leaves at least
\* one slot free, and its k-th frame is k - 1 slots after the first.
LEMMA QueueLayout ==
  ASSUME TypeOK
  PROVE  /\ LogicalTail \in Slots
         /\ Stored \in 0 .. QueueSlots - 1
         /\ \A k \in 1 .. QueueSlots :
              /\ SlotOf(k) \in Slots
              /\ SlotOf(k) = IF LogicalTail + k - 1 >= QueueSlots
                               THEN LogicalTail + k - 1 - QueueSlots
                               ELSE LogicalTail + k - 1
  <1>0. rx_head \in Slots /\ rx_tail \in Slots /\ 0 \in Slots
    BY QueueSlotsAssumption DEF TypeOK, Slots
  <1>1. LogicalTail \in Slots
    BY <1>0, SuccWraps DEF LogicalTail
  <1>2. Stored \in 0 .. QueueSlots - 1
    BY <1>0, <1>1, QueueSlotsAssumption DEF Stored, Slots
  <1>3. QED
    BY <1>1, <1>2, SlotArithmetic DEF SlotOf

\* The same after a step.
LEMMA QueueLayoutNext ==
  ASSUME TypeOK'
  PROVE  /\ LogicalTail' \in Slots
         /\ Stored' \in 0 .. QueueSlots - 1
         /\ \A k \in 1 .. QueueSlots :
              /\ SlotOf(k)' \in Slots
              /\ SlotOf(k)' = IF LogicalTail' + k - 1 >= QueueSlots
                               THEN LogicalTail' + k - 1 - QueueSlots
                               ELSE LogicalTail' + k - 1
  <1>0. rx_head' \in Slots /\ rx_tail' \in Slots /\ 0 \in Slots
    BY QueueSlotsAssumption DEF TypeOK, Slots
  <1>1. LogicalTail' \in Slots
    BY <1>0, SuccWraps DEF LogicalTail
  <1>2. Stored' \in 0 .. QueueSlots - 1
    <2> DEFINE h == rx_head'
               t == LogicalTail'
    <2>1. (IF h >= t THEN h - t ELSE h - t + QueueSlots) \in 0 .. QueueSlots - 1
      <3>1. h \in Slots /\ t \in Slots
        BY <1>0, <1>1
      <3> HIDE DEF h, t
      <3>2. QED
        BY <3>1, QueueSlotsAssumption DEF Slots
    <2>2. QED
      BY <2>1 DEF Stored
  <1>3. QED
    BY <1>1, <1>2, SlotArithmetic DEF SlotOf

-----------------------------------------------------------------------------
(* Types *)

LEMMA TypeStep == TypeOK /\ [Next]_vars => TypeOK'
  <1> SUFFICES ASSUME TypeOK, [Next]_vars
               PROVE  TypeOK'
    OBVIOUS
  <1>0. 0 \in Slots
    BY QueueSlotsAssumption DEF Slots
  <1>1. ASSUME NEW f \in Frames, RxMakeRoom(f)
        PROVE  TypeOK'
    BY <1>1, SuccWraps DEF TypeOK, RxMakeRoom
  <1>2. CASE RxStore
    BY <1>2 DEF TypeOK, RxStore
  <1>3. CASE RxPublish
    BY <1>3, SuccWraps DEF TypeOK, RxPublish
  <1>4. CASE TryReadMask
    BY <1>4 DEF TypeOK, TryReadMask
  <1>5. CASE TryReadCopy
    BY <1>5 DEF TypeOK, TryReadCopy
  <1>6. CASE TryReadAdvance
    BY <1>6, SuccWraps DEF TypeOK, TryReadAdvance
  <1>7. CASE TryReadUnmask
    BY <1>7 DEF TypeOK, TryReadUnmask
  <1>8. CASE InitHead
    BY <1>0, <1>8 DEF TypeOK, InitHead
  <1>9. CASE InitTail
    BY <1>0, <1>9 DEF TypeOK, InitTail
  <1>10. CASE UNCHANGED vars
    BY <1>10 DEF TypeOK, vars
  <1>11. QED
    BY <1>1, <1>2, <1>3, <1>4, <1>5, <1>6, <1>7, <1>8, <1>9, <1>10
    DEF Next, Interrupt, MainLoop

LEMMA TypeInit == Init => TypeOK
  BY QueueSlotsAssumption DEF Init, TypeOK, Slots

\* The indices, the control points and the buffers of the ring keep their
\* types through every interleaving of the interrupt and the main loop.
THEOREM TypeCorrect == Spec => []TypeOK
  BY TypeInit, TypeStep, PTL DEF Spec

-----------------------------------------------------------------------------
(* How each step moves the queue *)

\* RxMakeRoom drops the oldest frame exactly when the ring is full.
LEMMA MakeRoomMoves ==
  ASSUME TypeOK, RingInv, TypeOK', NEW f \in Frames, RxMakeRoom(f)
  PROVE  /\ Stored' = IF Stored = QueueSlots - 1 THEN Stored - 1 ELSE Stored
         /\ \A k \in 1 .. Stored' :
              SlotOf(k)' = IF Stored = QueueSlots - 1 THEN SlotOf(k + 1) ELSE SlotOf(k)
         /\ main_pc = "init_tail" \/ Succ(rx_head)' # rx_tail'
         /\ rx_queue' = rx_queue /\ rx_head' = rx_head
  <1>1. main_pc \in {"idle", "init_tail"} /\ main_pc' = main_pc
    BY DEF RxMakeRoom, RingInv, TypeOK
  <1>2. rx_queue' = rx_queue /\ rx_head' = rx_head /\ Succ(rx_head)' = Succ(rx_head)
    BY DEF RxMakeRoom, Succ
  <1>3. rx_head \in Slots /\ rx_tail \in Slots
    BY DEF TypeOK
  <1>4. CASE main_pc = "init_tail"
    <2>1. LogicalTail = 0 /\ LogicalTail' = 0
      BY <1>1, <1>4 DEF LogicalTail
    <2>2. rx_head = 0
      BY <1>4 DEF RxMakeRoom, FrameSpacing
    <2>3. Stored = 0 /\ Stored' = 0
      BY <1>2, <2>1, <2>2 DEF Stored
    <2>4. QED
      BY <1>2, <1>4, <2>3, QueueSlotsAssumption
  <1>5. CASE main_pc = "idle"
    <2>1. LogicalTail = rx_tail /\ LogicalTail' = rx_tail'
      BY <1>1, <1>5 DEF LogicalTail
    <2>2. Stored = (QueueSlots - 1) <=> Succ(rx_head) = rx_tail
      BY <1>3, <2>1, SuccWraps, QueueSlotsAssumption DEF Stored, Slots
    <2>3. CASE Succ(rx_head) = rx_tail
      <3>1. rx_tail' = Succ(rx_tail)
        BY <2>3 DEF RxMakeRoom
      <3>2. Stored' = Stored - 1
        BY <1>2, <1>3, <2>1, <2>2, <2>3, <3>1, SuccWraps, QueueSlotsAssumption
        DEF Stored, Slots
      <3>3. \A k \in 1 .. Stored' : SlotOf(k)' = SlotOf(k + 1)
        <4>1. SUFFICES ASSUME NEW k \in 1 .. Stored'
                       PROVE  SlotOf(k)' = SlotOf(k + 1)
          OBVIOUS
        <4>2. k \in 1 .. QueueSlots /\ k + 1 \in 1 .. QueueSlots
          BY <2>2, <2>3, <3>2, QueueSlotsAssumption
        <4>3. SlotOf(k)' = (Succ(rx_tail) + k - 1) % QueueSlots
          BY <2>1, <3>1 DEF SlotOf
        <4>4. SlotOf(k + 1) = (rx_tail + (k + 1) - 1) % QueueSlots
          BY <2>1 DEF SlotOf
        <4>5. QED
          BY <1>3, <4>2, <4>3, <4>4, SlotArithmetic, SuccWraps, QueueSlotsAssumption
          DEF Slots
      <3>4. Succ(rx_head)' # rx_tail'
        BY <1>2, <1>3, <2>3, <3>1, SuccWraps, QueueSlotsAssumption DEF Slots
      <3>5. QED
        BY <1>2, <2>2, <2>3, <3>2, <3>3, <3>4
    <2>4. CASE Succ(rx_head) # rx_tail
      <3>1. rx_tail' = rx_tail
        BY <2>4 DEF RxMakeRoom
      <3>2. Stored' = Stored /\ LogicalTail' = LogicalTail
        BY <1>2, <2>1, <3>1 DEF Stored
      <3>3. \A k : SlotOf(k)' = SlotOf(k)
        BY <3>2 DEF SlotOf
      <3>4. QED
        BY <1>2, <2>2, <2>4, <3>1, <3>2, <3>3
    <2>5. QED
      BY <2>3, <2>4
  <1>6. QED
    BY <1>1, <1>4, <1>5

\* A step that moves neither end of the queue leaves its layout alone.
LEMMA LayoutKept ==
  ASSUME rx_head' = rx_head, LogicalTail' = LogicalTail
  PROVE  Stored' = Stored /\ \A k : SlotOf(k)' = SlotOf(k)
  BY DEF Stored, SlotOf

\* The slot at the head is the one after the last frame of the queue.
LEMMA HeadOutside ==
  ASSUME TypeOK
  PROVE  /\ SlotOf(Stored + 1) = rx_head
         /\ \A k \in 1 .. Stored : SlotOf(k) # rx_head
  <1>1. rx_head \in Slots /\ LogicalTail \in Slots /\ Stored \in 0 .. QueueSlots - 1
    BY QueueLayout DEF TypeOK
  <1>2. Stored = IF rx_head >= LogicalTail THEN rx_head - LogicalTail
                 ELSE rx_head - LogicalTail + QueueSlots
    BY DEF Stored
  <1>3. Stored + 1 \in 1 .. QueueSlots /\ \A k \in 1 .. Stored : k \in 1 .. QueueSlots
    BY <1>1, QueueSlotsAssumption
  <1>4. QED
    BY <1>1, <1>2, <1>3, QueueLayout, QueueSlotsAssumption DEF Slots

\* RxPublish adds the frame at the head.
LEMMA PublishMoves ==
  ASSUME TypeOK, RingInv, RxPublish
  PROVE  /\ Stored' = Stored + 1
         /\ \A k : SlotOf(k)' = SlotOf(k)
         /\ rx_queue[SlotOf(Stored + 1)] = irq_msg
  <1>1. /\ main_pc \in {"idle", "init_tail"}
        /\ main_pc' = main_pc /\ rx_tail' = rx_tail /\ rx_head' = Succ(rx_head)
        /\ rx_queue[rx_head] = irq_msg
    BY DEF RxPublish, RingInv, TypeOK
  <1>2. LogicalTail' = LogicalTail
    BY <1>1 DEF LogicalTail
  <1>3. rx_head \in Slots /\ LogicalTail \in Slots /\ 0 \in Slots
    BY QueueLayout, QueueSlotsAssumption DEF TypeOK, Slots
  <1>4. Succ(rx_head) # LogicalTail
    <2>1. CASE main_pc = "init_tail"
      BY <1>3, <2>1, SuccWraps, QueueSlotsAssumption
      DEF RxPublish, RingInv, LogicalTail
    <2>2. CASE main_pc = "idle"
      BY <2>2 DEF RxPublish, RingInv, LogicalTail
    <2>3. QED
      BY <1>1, <2>1, <2>2
  <1>5. Stored' = Stored + 1
    <2>1. Stored' = IF Succ(rx_head) >= LogicalTail THEN Succ(rx_head) - LogicalTail
                    ELSE Succ(rx_head) - LogicalTail + QueueSlots
      BY <1>1, <1>2 DEF Stored
    <2>2. QED
      BY <1>3, <1>4, <2>1, SuccWraps, QueueSlotsAssumption DEF Stored, Slots
  <1>6. QED
    BY <1>1, <1>2, <1>5, HeadOutside DEF SlotOf

\* TryReadCopy takes the oldest frame when there is one.
LEMMA CopyMoves ==
  ASSUME TypeOK, RingInv, TryReadCopy
  PROVE  /\ rx_head = rx_tail <=> Stored = 0
         /\ rx_head # rx_tail =>
              /\ Stored' = Stored - 1
              /\ \A k \in 1 .. Stored' : SlotOf(k)' = SlotOf(k + 1)
              /\ result' = rx_queue[SlotOf(1)]
         /\ rx_head = rx_tail =>
              /\ Stored' = Stored
              /\ result' = NoFrame
  <1>1. rx_head \in Slots /\ rx_tail \in Slots /\ rx_head' = rx_head /\ rx_tail' = rx_tail
    BY DEF TypeOK, TryReadCopy
  <1>2. LogicalTail = rx_tail
    BY DEF TryReadCopy, LogicalTail
  <1>3. rx_head = rx_tail <=> Stored = 0
    BY <1>1, <1>2, QueueSlotsAssumption DEF Stored, Slots
  <1>4. ASSUME rx_head # rx_tail
        PROVE  /\ Stored' = Stored - 1
               /\ \A k \in 1 .. Stored' : SlotOf(k)' = SlotOf(k + 1)
               /\ result' = rx_queue[SlotOf(1)]
    <2>1. LogicalTail' = Succ(rx_tail)
      BY <1>1, <1>4 DEF TryReadCopy, LogicalTail
    <2>2. Stored' = Stored - 1
      <3>1. Stored' = IF rx_head >= Succ(rx_tail) THEN rx_head - Succ(rx_tail)
                      ELSE rx_head - Succ(rx_tail) + QueueSlots
        BY <1>1, <2>1 DEF Stored
      <3>2. QED
        BY <1>1, <1>2, <1>4, <3>1, SuccWraps, QueueSlotsAssumption DEF Stored, Slots
    <2>3. ASSUME NEW k \in 1 .. Stored'
          PROVE  SlotOf(k)' = SlotOf(k + 1)
      <3>1. k \in 1 .. QueueSlots /\ k + 1 \in 1 .. QueueSlots
        BY <2>2, QueueLayout, QueueSlotsAssumption
      <3>2. SlotOf(k)' = (Succ(rx_tail) + k - 1) % QueueSlots
        BY <2>1 DEF SlotOf
      <3>3. SlotOf(k + 1) = (rx_tail + (k + 1) - 1) % QueueSlots
        BY <1>2 DEF SlotOf
      <3>4. QED
        BY <1>1, <3>1, <3>2, <3>3, SlotArithmetic, SuccWraps, QueueSlotsAssumption
        DEF Slots
    <2>4. result' = rx_queue[SlotOf(1)]
      BY <1>1, <1>2, <1>4, QueueLayout, QueueSlotsAssumption DEF TryReadCopy, Slots
    <2>5. QED
      BY <2>2, <2>3, <2>4
  <1>5. ASSUME rx_head = rx_tail
        PROVE  Stored' = Stored /\ result' = NoFrame
    BY <1>1, <1>2, <1>5 DEF TryReadCopy, LogicalTail, Stored
  <1>6. QED
    BY <1>3, <1>4, <1>5

-----------------------------------------------------------------------------
(* The ring invariant *)

LEMMA RingStep == TypeOK /\ TypeOK' /\ RingInv /\ [Next]_vars => RingInv'
  <1> SUFFICES ASSUME TypeOK, TypeOK', RingInv, [Next]_vars
               PROVE  RingInv'
    OBVIOUS
  <1> DEFINE Written == \A k \in 1 .. Stored : rx_queue[SlotOf(k)] \in Frames
  <1>w. Written
    BY DEF RingInv
  <1>n. Stored \in 0 .. QueueSlots - 1
    BY QueueLayout
  <1>1. ASSUME NEW f \in Frames, RxMakeRoom(f)
        PROVE  RingInv'
    <2>1. Written'
      BY <1>1, <1>w, <1>n, MakeRoomMoves
    <2>2. QED
      BY <1>1, <2>1, MakeRoomMoves DEF RxMakeRoom, FrameSpacing, RingInv
  <1>2. CASE RxStore
    <2>1. rx_head' = rx_head /\ LogicalTail' = LogicalTail /\ Succ(rx_head)' = Succ(rx_head)
      BY <1>2 DEF RxStore, LogicalTail, Succ
    <2>2. Written'
      BY <1>2, <1>w, <2>1, LayoutKept, HeadOutside DEF RxStore, TypeOK
    <2>3. rx_queue'[rx_head'] = irq_msg'
      BY <1>2 DEF RxStore, TypeOK
    <2>4. QED
      BY <1>2, <2>1, <2>2, <2>3 DEF RxStore, RingInv
  <1>3. CASE RxPublish
    <2>1. Written'
      <3>1. rx_queue' = rx_queue /\ irq_msg \in Frames
        BY <1>3 DEF RxPublish, RingInv
      <3>2. QED
        BY <1>3, <1>w, <1>n, <3>1, PublishMoves
    <2>2. main_pc = "init_tail" => rx_head' \in {0, 1}
      BY <1>3, SuccWraps, QueueSlotsAssumption DEF RxPublish, RingInv, TypeOK
    <2>3. QED
      BY <1>3, <2>1, <2>2 DEF RxPublish, RingInv
  <1>4. CASE TryReadMask
    <2>1. rx_head' = rx_head /\ LogicalTail' = LogicalTail /\ rx_queue' = rx_queue
      BY <1>4 DEF TryReadMask, LogicalTail
    <2>2. QED
      BY <1>4, <1>w, <2>1, LayoutKept DEF TryReadMask, RingInv
  <1>5. CASE TryReadCopy
    <2>1. Written'
      <3>1. rx_queue' = rx_queue
        BY <1>5 DEF TryReadCopy
      <3>2. CASE rx_head # rx_tail
        BY <1>5, <1>w, <1>n, <3>1, <3>2, CopyMoves
      <3>3. CASE rx_head = rx_tail
        BY <1>5, <1>n, <3>3, CopyMoves
      <3>4. QED
        BY <3>2, <3>3
    <2>2. QED
      BY <1>5, <2>1 DEF TryReadCopy, RingInv, Succ
  <1>6. CASE TryReadAdvance
    <2>1. rx_head' = rx_head /\ LogicalTail' = LogicalTail /\ rx_queue' = rx_queue
      BY <1>6 DEF TryReadAdvance, LogicalTail
    <2>2. QED
      BY <1>6, <1>w, <2>1, LayoutKept DEF TryReadAdvance, RingInv
  <1>7. CASE TryReadUnmask
    <2>1. rx_head' = rx_head /\ LogicalTail' = LogicalTail /\ rx_queue' = rx_queue
      BY <1>7 DEF TryReadUnmask, LogicalTail
    <2>2. QED
      BY <1>7, <1>w, <2>1, LayoutKept DEF TryReadUnmask, RingInv
  <1>8. CASE InitHead
    <2>1. Stored' = 0
      BY <1>8 DEF InitHead, LogicalTail, Stored
    <2>2. Written'
      BY <2>1
    <2>3. QED
      BY <1>8, <2>2 DEF InitHead, RingInv
  <1>9. CASE InitTail
    <2>1. rx_head' = rx_head /\ LogicalTail' = LogicalTail /\ rx_queue' = rx_queue
      BY <1>9 DEF InitTail, LogicalTail
    <2>2. QED
      BY <1>9, <1>w, <2>1, LayoutKept DEF InitTail, RingInv
  <1>10. CASE UNCHANGED vars
    <2>1. rx_head' = rx_head /\ LogicalTail' = LogicalTail /\ rx_queue' = rx_queue
      BY <1>10 DEF vars, LogicalTail
    <2>2. QED
      BY <1>10, <1>w, <2>1, LayoutKept DEF vars, RingInv, Succ
  <1>11. QED
    BY <1>1, <1>2, <1>3, <1>4, <1>5, <1>6, <1>7, <1>8, <1>9, <1>10
    DEF Next, Interrupt, MainLoop

LEMMA RingInit == Init => RingInv
  BY QueueSlotsAssumption DEF Init, RingInv, Stored, LogicalTail

\* No interrupt reaches the ring inside a read, no frame is overwritten while
\* it is queued, and every queued slot holds a frame that arrived.
THEOREM RingSafe == Spec => []RingInv
  <1>1. Init => TypeOK /\ RingInv
    BY TypeInit, RingInit
  <1>2. TypeOK /\ RingInv /\ [Next]_vars => (TypeOK /\ RingInv)'
    BY TypeStep, RingStep
  <1>3. QED
    BY <1>1, <1>2, PTL DEF Spec

-----------------------------------------------------------------------------
(* Refinement *)

\* Append and Tail on sequences given as functions on 1 .. n.
LEMMA AppendExpands ==
  ASSUME NEW n \in Nat, NEW s, s = [k \in 1 .. n |-> s[k]], NEW e
  PROVE  Append(s, e) = [k \in 1 .. n + 1 |-> IF k <= n THEN s[k] ELSE e]
  <1>1. Len(s) = n
    OBVIOUS
  <1>2. DOMAIN Append(s, e) = 1 .. n + 1
    BY <1>1
  <1>3. QED
    BY <1>1

LEMMA TailExpands ==
  ASSUME NEW n \in Nat \ {0}, NEW s, s = [k \in 1 .. n |-> s[k]]
  PROVE  /\ Len(s) = n /\ Head(s) = s[1] /\ s # <<>>
         /\ Tail(s) = [k \in 1 .. n - 1 |-> s[k + 1]]
  <1>1. Len(s) = n
    OBVIOUS
  <1>2. QED
    BY <1>1

LEMMA DropAndAppend ==
  ASSUME NEW n \in Nat \ {0}, NEW s, s = [k \in 1 .. n |-> s[k]], NEW e
  PROVE  Append(Tail(s), e) = [k \in 1 .. n |-> IF k <= n - 1 THEN s[k + 1] ELSE e]
  <1> DEFINE m == n - 1
             t == Tail(s)
  <1>1. t = [k \in 1 .. m |-> s[k + 1]]
    BY TailExpands
  <1>2. m \in Nat /\ m + 1 = n
    OBVIOUS
  <1>3. t = [k \in 1 .. m |-> t[k]]
    <2> HIDE DEF t
    <2>1. QED
      BY <1>1
  <1>4. \A k \in 1 .. m : t[k] = s[k + 1]
    <2> HIDE DEF t, m
    <2>1. QED
      BY <1>1
  <1>5. Append(t, e) = [k \in 1 .. m + 1 |-> IF k <= m THEN t[k] ELSE e]
    <2> HIDE DEF t, m
    <2>1. QED
      BY <1>2, <1>3, AppendExpands
  <1>6. [k \in 1 .. m + 1 |-> IF k <= m THEN t[k] ELSE e]
          = [k \in 1 .. n |-> IF k <= n - 1 THEN s[k + 1] ELSE e]
    <2>1. ASSUME NEW k \in 1 .. n
          PROVE  (IF k <= m THEN t[k] ELSE e) = IF k <= n - 1 THEN s[k + 1] ELSE e
      <3>1. (k <= m <=> k <= n - 1) /\ (k <= m => k \in 1 .. m)
        OBVIOUS
      <3> HIDE DEF t, m
      <3>2. QED
        BY <1>4, <3>1
    <2> HIDE DEF t
    <2>2. QED
      BY <1>2, <2>1
  <1>7. QED
    BY <1>5, <1>6

LEMMA MakeRoomPuts ==
  ASSUME TypeOK, RingInv, TypeOK', NEW f \in Frames, RxMakeRoom(f)
  PROVE  Fifo!Put(f)
  <1>1. Pending = 0 /\ Pending' = 1 /\ irq_msg' = f /\ result' = result
    BY DEF RxMakeRoom, Pending
  <1>2. Stored \in 0 .. QueueSlots - 1 /\ Stored' \in 0 .. QueueSlots - 1
    BY QueueLayout, QueueLayoutNext
  <1>3. Contents = [k \in 1 .. Stored |-> rx_queue[SlotOf(k)]]
    BY <1>1, <1>2 DEF Contents
  <1>4. Contents' = [k \in 1 .. Stored' + 1 |->
                       IF k <= Stored' THEN rx_queue'[SlotOf(k)'] ELSE f]
    BY <1>1 DEF Contents
  <1>5. CASE Stored = QueueSlots - 1
    <2>1. Stored' = Stored - 1 /\ rx_queue' = rx_queue
          /\ \A k \in 1 .. Stored' : SlotOf(k)' = SlotOf(k + 1)
      BY <1>5, MakeRoomMoves
    <2>2. Contents' = Append(Tail(Contents), f)
      <3>1. Contents' = [k \in 1 .. Stored |->
                           IF k <= Stored - 1 THEN rx_queue[SlotOf(k + 1)] ELSE f]
        BY <1>2, <1>4, <2>1
      <3>2. Stored \in Nat \ {0} /\ Stored - 1 \in Nat
        BY <1>2, <1>5, QueueSlotsAssumption
      <3>3. \A k \in 1 .. Stored : k <= Stored - 1 => Contents[k + 1] = rx_queue[SlotOf(k + 1)]
        BY <1>3, <3>2
      <3>4. Contents = [k \in 1 .. Stored |-> Contents[k]]
        BY <1>3
      <3>5. Append(Tail(Contents), f) =
              [k \in 1 .. Stored |-> IF k <= Stored - 1 THEN Contents[k + 1] ELSE f]
        BY <3>2, <3>4, DropAndAppend
      <3>6. QED
        BY <3>1, <3>3, <3>5
    <2>3. Len(Contents) = QueueSlots - 1
      BY <1>2, <1>3, <1>5
    <2>4. QED
      BY <1>1, <2>2, <2>3 DEF Fifo!Put
  <1>6. CASE Stored # QueueSlots - 1
    <2>1. Stored' = Stored /\ rx_queue' = rx_queue
          /\ \A k \in 1 .. Stored' : SlotOf(k)' = SlotOf(k)
      BY <1>6, MakeRoomMoves
    <2>2. Contents' = Append(Contents, f)
      BY <1>2, <1>3, <1>4, <2>1
    <2>3. Len(Contents) # QueueSlots - 1
      BY <1>2, <1>3, <1>6
    <2>4. QED
      BY <1>1, <2>2, <2>3 DEF Fifo!Put
  <1>7. QED
    BY <1>5, <1>6

LEMMA CopyGets ==
  ASSUME TypeOK, RingInv, TryReadCopy
  PROVE  Fifo!Get \/ Fifo!GetNothing
  <1>1. Pending = 0 /\ Pending' = 0 /\ rx_queue' = rx_queue
    BY DEF TryReadCopy, Pending
  <1>2. Stored \in 0 .. QueueSlots - 1 /\ Stored' \in 0 .. QueueSlots - 1
    BY QueueLayout, QueueLayoutNext, TypeStep DEF Next, MainLoop
  <1>3. Contents = [k \in 1 .. Stored |-> rx_queue[SlotOf(k)]]
    BY <1>1, <1>2 DEF Contents
  <1>4. Contents' = [k \in 1 .. Stored' |-> rx_queue[SlotOf(k)']]
    <2> DEFINE n == Stored'
    <2>1. Contents' = [k \in 1 .. n + 0 |->
                         IF k <= n THEN rx_queue[SlotOf(k)'] ELSE irq_msg']
      BY <1>1 DEF Contents
    <2>2. n \in Nat
      BY <1>2, QueueSlotsAssumption
    <2> HIDE DEF n
    <2>3. n + 0 = n /\ \A k \in 1 .. n : k <= n
      BY <2>2
    <2>4. Contents' = [k \in 1 .. n |-> rx_queue[SlotOf(k)']]
      BY <2>1, <2>3
    <2>5. QED
      BY <2>4 DEF n
  <1>5. CASE rx_head # rx_tail
    <2>1. /\ Stored \in Nat \ {0} /\ Stored' = Stored - 1
          /\ \A k \in 1 .. Stored' : SlotOf(k)' = SlotOf(k + 1)
          /\ result' = rx_queue[SlotOf(1)]
      BY <1>2, <1>5, CopyMoves, QueueSlotsAssumption
    <2>2. /\ Contents # <<>> /\ Head(Contents) = Contents[1]
          /\ Tail(Contents) = [k \in 1 .. Stored - 1 |-> Contents[k + 1]]
      BY <1>3, <2>1, TailExpands
    <2>3. Contents[1] = rx_queue[SlotOf(1)]
      BY <1>3, <2>1
    <2>4. \A k \in 1 .. Stored - 1 : Contents[k + 1] = rx_queue[SlotOf(k)']
      BY <1>3, <2>1
    <2>5. QED
      BY <1>4, <2>1, <2>2, <2>3, <2>4 DEF Fifo!Get
  <1>6. CASE rx_head = rx_tail
    <2>1. Stored = 0 /\ Stored' = 0 /\ result' = NoFrame
      BY <1>6, CopyMoves
    <2>2. QED
      BY <1>3, <1>4, <2>1 DEF Fifo!GetNothing
  <1>7. QED
    BY <1>5, <1>6

LEMMA PublishStutters ==
  ASSUME TypeOK, RingInv, RxPublish
  PROVE  Contents' = Contents /\ result' = result
  <1>1. Pending = 1 /\ Pending' = 0 /\ rx_queue' = rx_queue /\ irq_msg' = irq_msg
        /\ result' = result
    BY DEF RxPublish, Pending
  <1>2. Stored \in Nat /\ Stored' = Stored + 1 /\ \A k : SlotOf(k)' = SlotOf(k)
    BY QueueLayout, PublishMoves, QueueSlotsAssumption
  <1>3. Contents = [k \in 1 .. Stored + 1 |->
                      IF k <= Stored THEN rx_queue[SlotOf(k)] ELSE irq_msg]
    BY <1>1 DEF Contents
  <1>4. Contents' = [k \in 1 .. Stored + 1 |-> rx_queue[SlotOf(k)]]
    BY <1>1, <1>2 DEF Contents
  <1>5. ASSUME NEW k \in 1 .. Stored + 1
        PROVE  rx_queue[SlotOf(k)] = IF k <= Stored THEN rx_queue[SlotOf(k)] ELSE irq_msg
    <2>1. k <= Stored \/ k = Stored + 1
      BY <1>2
    <2>2. QED
      BY <2>1, PublishMoves
  <1>6. QED
    BY <1>1, <1>3, <1>4, <1>5

LEMMA InitHeadResets ==
  ASSUME TypeOK, RingInv, InitHead
  PROVE  Fifo!Reset
  <1>1. Stored' = 0 /\ Pending' = 0 /\ result' = result
    BY DEF InitHead, LogicalTail, Stored, Pending
  <1>2. Contents' = <<>>
    BY <1>1 DEF Contents
  <1>3. QED
    BY <1>1, <1>2 DEF Fifo!Reset

\* The remaining steps are invisible from outside.
LEMMA QuietSteps ==
  ASSUME TypeOK, RingInv,
         \/ RxStore \/ TryReadMask \/ TryReadAdvance \/ TryReadUnmask
         \/ InitTail \/ UNCHANGED vars
  PROVE  Contents' = Contents /\ result' = result
  <1>1. /\ LogicalTail' = LogicalTail /\ rx_head' = rx_head /\ result' = result
        /\ Pending' = Pending /\ irq_msg' = irq_msg
    BY DEF RxStore, TryReadMask, TryReadAdvance, TryReadUnmask, InitTail, vars,
           LogicalTail, RingInv, Pending
  <1>2. Stored' = Stored /\ \A k : SlotOf(k)' = SlotOf(k)
    BY <1>1, LayoutKept
  <1>3. \A k \in 1 .. Stored : rx_queue'[SlotOf(k)] = rx_queue[SlotOf(k)]
    <2>1. CASE RxStore
      BY <2>1, HeadOutside DEF RxStore, TypeOK
    <2>2. CASE ~RxStore
      BY <2>2 DEF TryReadMask, TryReadAdvance, TryReadUnmask, InitTail, vars
    <2>3. QED
      BY <2>1, <2>2
  <1>4. Stored \in Nat
    BY QueueLayout, QueueSlotsAssumption
  <1>5. QED
    BY <1>1, <1>2, <1>3, <1>4 DEF Contents

\* The ring implements the drop-oldest queue: every step of the interrupt and
\* of the main loop is one operation of the queue, or invisible from outside.
THEOREM RingImplementsFifo == Spec => ImplementsFifo
  <1>1. Init => Fifo!Init
    <2>1. Init => Stored = 0 /\ Pending = 0 /\ result = NoFrame
      BY DEF Init, Stored, LogicalTail, Pending
    <2>2. QED
      BY <2>1 DEF Contents, Fifo!Init
  <1>2. TypeOK /\ RingInv /\ TypeOK' /\ [Next]_vars => [Fifo!Next]_(Fifo!vars)
    <2> SUFFICES ASSUME TypeOK, RingInv, TypeOK', [Next]_vars
                 PROVE  [Fifo!Next]_(Fifo!vars)
      OBVIOUS
    <2>1. ASSUME NEW f \in Frames, RxMakeRoom(f)
          PROVE  Fifo!Next
      BY <2>1, MakeRoomPuts DEF Fifo!Next
    <2>2. CASE RxPublish
      BY <2>2, PublishStutters DEF Fifo!vars
    <2>3. CASE TryReadCopy
      BY <2>3, CopyGets DEF Fifo!Next
    <2>4. CASE InitHead
      BY <2>4, InitHeadResets DEF Fifo!Next
    <2>5. CASE RxStore \/ TryReadMask \/ TryReadAdvance \/ TryReadUnmask
               \/ InitTail \/ UNCHANGED vars
      BY <2>5, QuietSteps DEF Fifo!vars
    <2>6. QED
      BY <2>1, <2>2, <2>3, <2>4, <2>5 DEF Next, Interrupt, MainLoop
  <1>3. QED
    BY <1>1, <1>2, TypeCorrect, RingSafe, PTL DEF ImplementsFifo, Fifo!Spec, Spec
=============================================================================
