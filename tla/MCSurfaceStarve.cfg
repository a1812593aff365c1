SPECIFICATION FairSpec
CONSTANTS
  SurfaceChoices = {6}
  OutputChoices = {0}
  MinFrameBufferCount = 1
  DEFAULT_FRAME_BUF_CNT = 4
  VD_DEFAULT_OUTFRAMES = 2
  MaxFrameBufferCnt = 6
  MaxReorder = 0
  Outcomes = {"frame", "buf_full"}
  MaxPts = 6
  MaxFailedCommands = 0
  MAX_CLOCK_33BIT = 2000
  CLOCK_WRAP_DETECT_TERM = 2
  MAX_VIDEO_CLOCK_COUNT = 20
  INT_MODULUS = 90
PROPERTIES
  DecodingNeverStarves
