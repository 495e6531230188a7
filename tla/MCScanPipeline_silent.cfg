\* Discovery in front of a peer that never answers, one slot in each channel, one plan at a time.
CONSTANTS
  Modes = {"full"}
  Jobs = 5
  JobCap = 1
  OpenCap = 1
  ResCap = 1
  Global = 1
  MaxRecords = 1
SPECIFICATION FairSpec
PROPERTY ShutdownStops
CHECK_DEADLOCK FALSE
