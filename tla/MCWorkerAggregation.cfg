\* Two workers of two lines, one slot in each pipe and in the line channel.
CONSTANTS
  Processes = 2
  Records = 2
  PipeCap = 1
  LineCap = 1
SPECIFICATION Spec
INVARIANTS FileIsPrefix Complete FailureReported NoWorkerLeft
PROPERTIES ShutdownReturns ParentReturns
CHECK_DEADLOCK FALSE
