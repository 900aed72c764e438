SPECIFICATION FairSpec
CONSTANTS
  FrameCounts = 3
  CmdCounts = 2
  MaxEvents = 2
INVARIANT PicturesWhole
PROPERTY BricksKeepComing
PROPERTY CameraStops
