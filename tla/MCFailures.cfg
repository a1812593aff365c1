SPECIFICATION FailuresSpec
CONSTANTS
  Codecs = {"h264", "mjpeg"}
  StreamSize = 1
  MaxFrames = 3
  MinCounts = {1, 3}
  Extras = {1}
  MaxAvail = 4
  FrameBytes = 9
  MaxHeaders = 2
  Faults = {"drivers", "alloc", "map", "framemap", "poll"}
  EncoderSetup <- MCEncoder
  OldSetup <- MCOld
  OldStreamSetup <- MCOldStream
  DriversSetup <- MCDriverParts
INVARIANTS
  FailuresTypeOK
  DeinitReleases
  FramesInMapping
  ClosedLeavesNothing
  IndicesAccounted
  PictureOfThisCall
