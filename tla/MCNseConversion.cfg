\* Two of the three modes, one that sends and one that does not; three open blocks.
CONSTANTS
  winos = winos
  vvas = vvas
  n520 = n520
  Xor = Xor
  Other = Other
  None = None
  Mode = {winos, n520}
  Sender = {winos}
  MaxNesting = 3
  MaxSends = 1
  MaxReceives = 3
  MaxRuns = 3
SPECIFICATION Spec
INVARIANTS ExtentRight ReadsCarriedOver ReportMeansComplete
PROPERTY NeverOverwrites
SYMMETRY ModeSymmetry
CHECK_DEADLOCK FALSE
