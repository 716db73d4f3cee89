--------------------------- MODULE DropOldestFifo ---------------------------
(***************************************************************************)
(* What the receive side of scp_can_bus_t promises its callers: a queue    *)
(* of at most Capacity frames.  A frame that arrives is always accepted,   *)
(* at the price of the oldest one when the queue is full; a read returns   *)
(* the oldest frame kept or says that there is none; an initialisation     *)
(* empties the queue.  Frames are neither invented, duplicated nor put     *)
(* out of order.                                                           *)
(***************************************************************************)
EXTENDS Naturals, Sequences

CONSTANTS
  Frames,    \* CAN frames
  NoFrame,   \* the outcome of a read that finds nothing
  Capacity   \* frames held at most

VARIABLES
  queue,     \* frames kept, the oldest first
  result     \* what the last read returned

vars == <<queue, result>>

Init ==
  /\ queue = <<>>
  /\ result = NoFrame

Put(f) ==
  /\ queue' = IF Len(queue) = Capacity THEN Append(Tail(queue), f)
                                       ELSE Append(queue, f)
  /\ UNCHANGED result

Get ==
  /\ queue # <<>>
  /\ result' = Head(queue)
  /\ queue' = Tail(queue)

GetNothing ==
  /\ queue = <<>>
  /\ result' = NoFrame
  /\ UNCHANGED queue

Reset ==
  /\ queue' = <<>>
  /\ UNCHANGED result

Next == (\E f \in Frames : Put(f)) \/ Get \/ GetNothing \/ Reset

Spec == Init /\ [][Next]_vars
=============================================================================
