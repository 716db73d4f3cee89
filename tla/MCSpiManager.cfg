SPECIFICATION Spec
CONSTANTS
  Commands = {c1, c2}
  ReceiveLoop = receive_loop
  QueueSlots = 3
  RxQueueSize = 2
  IdleTries = 3
  BusyTransfers = 2
  MaxFrames = 4
INVARIANTS TypeOK StatusBelongs CommandTruthful FramesConserved OvertakenOnce
PROPERTIES CommandsEnd NewestIngested
