\* The documents of up to three steps around a short answer.
CONSTANTS
  Name = {"a", "b"}
  Register = {"x", "y"}
  Steps <- ShortAnswer
  MaxSteps = 3
  MaxBuffer = 4
  Budget = 6
  Widest = 2
  Hash = 1
  ReadTimeout = 2
  Tls = FALSE
SPECIFICATION Spec
INVARIANT AnswerReported
