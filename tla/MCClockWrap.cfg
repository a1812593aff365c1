SPECIFICATION QueueSpec
CONSTANTS
  Streams <- WrapStreams
  Pictures = 6
  Step = 3
  MAX_CLOCK_33BIT = 2000
  CLOCK_WRAP_DETECT_TERM = 20
  MAX_VIDEO_CLOCK_COUNT = 4
  INT_MODULUS = 90
INVARIANTS
  ClocksFollowDisplayOrder
CHECK_DEADLOCK FALSE
