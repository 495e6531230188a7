\* Every document of up to four of 28 steps, run against every peer.
CONSTANTS
  Name = {"a", "b"}
  Register = {"x", "y"}
  Steps <- Document
  MaxSteps = 4
  MaxBuffer = 4
  Budget = 6
  Widest = 2
  Hash = 1
  ReadTimeout = 2
  Tls = TRUE
SPECIFICATION Spec
INVARIANTS BuffersFit ReadsDefined VerdictSound DeadlineHeld
