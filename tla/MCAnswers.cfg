SPECIFICATION AnswersSpec
CONSTANTS
  SurfaceChoices = {1, 2, 3}
  MinFrameBufferCount = 2
  MaxFrameBufferCnt = 5
  MaxReorder = 1
  Outcomes = {"frame", "buf_full", "fail"}
  MaxPts = 4
  LoopKinds = {"poll_cmd", "venc", "vdec", "4kd2"}
  MaxRounds = 3
  MaxTries = 2
  MaxOutstanding = 2
  LoopFaults = {"refuse", "pollerr", "hangup"}
  FramePlugins = {"legacy", "vdec"}
  FieldPlugins = {"vdec"}
  SkipCodecs = {"h264", "h265", "other"}
  Gops <- MCGops
  MaxFull = 2
INVARIANTS
  AnswersTypeOK
  LentIsHeld
  AnswersMatch
  SkipKeepsReferences
  ClocksInOrder
PROPERTIES
  SurfaceFramesKept
  CallsReturn
  StreamGoesOn
