SPECIFICATION Spec
CONSTANTS
  SurfaceChoices = {0, 1, 3}
  OutputChoices = {0, 1}
  MinFrameBufferCount = 2
  DEFAULT_FRAME_BUF_CNT = 1
  VD_DEFAULT_OUTFRAMES = 2
  MaxFrameBufferCnt = 4
  MaxReorder = 2
  Outcomes = {"frame", "field", "skipped", "buf_full", "exit"}
  MaxPts = 4
  MaxFailedCommands = 0
  MAX_CLOCK_33BIT = 2000
  CLOCK_WRAP_DETECT_TERM = 2
  MAX_VIDEO_CLOCK_COUNT = 20
  INT_MODULUS = 90
INVARIANTS
  TypeOK
  WindowBound
  NoOverwrite
  CommandProtocol
  OwnershipAgreement
  RecordsFollowBuffers
  OutputCarriesOwnTimestamp
  GetOutputFailsOnlyBeforeFirst
PROPERTIES
  SurfaceFramesKept
