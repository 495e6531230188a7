\* Is what the source sends what the YAML sends?
CONSTANTS
  winos = winos
  vvas = vvas
  n520 = n520
  Xor = Xor
  Other = Other
  None = None
  Mode = {winos, n520}
  Sender = {winos}
  MaxNesting = 3
  MaxSends = 1
  MaxReceives = 3
  MaxRuns = 3
SPECIFICATION Spec
INVARIANT NothingDropped
CHECK_DEADLOCK FALSE
