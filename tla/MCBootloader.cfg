SPECIFICATION LoaderSpec
CONSTANTS
  Bytes = {"x", "FF"}
  Erased = "FF"
  Corrupt = "corrupt"
  FrameBytes = 3
  PageSize = 2
  SectorSize = 4
  StagingOffset = 8
  StagingSize = 8
  SequenceModulus = 2
  ProgressInterval = 2
  IdleTicks = 1
  SessionIds = {1, 2}
  ImageSizes <- MCImageSizes
  Payloads <- MCPayloads
  FactoryImage <- MCFactoryImage
INVARIANTS TypeOK StagingConsistent ReadyImageStaged BootImageIntact ApplyConsistent NoWriteFailure LoaderLeaves
PROPERTY SessionNotPreempted
