\* Both modes, one slot in each channel, two plans at a time.
CONSTANTS
  Modes = {"probe", "full"}
  Jobs = 3
  JobCap = 1
  OpenCap = 1
  ResCap = 1
  Global = 2
  MaxRecords = 4
SPECIFICATION FairSpec
INVARIANTS FlushedAtExit FailureReported WholeScan
PROPERTIES ProbeModeStops ScanEnds
CHECK_DEADLOCK FALSE
