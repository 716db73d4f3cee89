SPECIFICATION TransferSpec
CONSTANTS
  Bytes = {"a", "b", "c", "d", "FF"}
  Erased = "FF"
  Corrupt = "corrupt"
  FrameBytes = 2
  PageSize = 4
  SectorSize = 8
  StagingOffset = 8
  StagingSize = 8
  SequenceModulus = 3
  ProgressInterval = 2
  SessionIds <- MCSessionIds
  ImageSizes <- MCImageSizes
  Payloads <- MCPayloads
  FactoryImage <- MCFactoryImage
  Image <- MCImage
  SessionId = 2
  SetupSessionId = 1
  ControlAttempts = 2
  MaxTimeouts = 2
  LinkCapacity = 6
  MaxLosses = 1
INVARIANT ProbeConsumesIncomplete
