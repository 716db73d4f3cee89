---------------------------- MODULE MCCanRxQueue ----------------------------
\* A ring of four slots: three frames fit, a fourth drops the oldest.
EXTENDS CanRxQueue, TLC

FrameSymmetry == Permutations(Frames)
=============================================================================
