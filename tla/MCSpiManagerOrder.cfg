SPECIFICATION Spec
CONSTANTS
  Commands = {c1, c2}
  ReceiveLoop = receive_loop
  QueueSlots = 3
  RxQueueSize = 4
  IdleTries = 3
  BusyTransfers = 2
  MaxFrames = 4
INVARIANT LiveState
