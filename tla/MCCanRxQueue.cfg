SPECIFICATION Spec
CONSTANTS
  Frames = {f1, f2, f3, f4}
  NoFrame = NoFrame
  QueueSlots = 4
SYMMETRY FrameSymmetry
INVARIANTS TypeOK RingInv
PROPERTY ImplementsFifo
