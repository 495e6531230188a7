\* Two batches of up to two packets, late and repeated answers.
CONSTANTS
  Jobs = 4
  Open = {1}
  Unroutable = {2}
  BatchSize = 2
  Gap = 1
  Wait = 1
  Span = 2
  Answers = 2
  MaxTime = 4
SPECIFICATION Spec
INVARIANTS RateHeld JobsAccounted FoundRight
CHECK_DEADLOCK FALSE
