CONSTANTS
  NPaths = 3
  Param = {1, 2}
  Value <- MCValue
  Doc <- MCDoc
  None = None
SPECIFICATION Spec
INVARIANTS NothingLeftOut PlanOrdered SubstitutionExact
CHECK_DEADLOCK FALSE
