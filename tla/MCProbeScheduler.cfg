\* Three plans of one host over two endpoints, under permits for one execution.
CONSTANTS
  i1 = i1
  i2 = i2
  p1 = p1
  p2 = p2
  t1 = t1
  t2 = t2
  t3 = t3
  t4 = t4
  n1 = n1
  n2 = n2
  None = None
  Ip = {i1}
  Port = {p1, p2}
  Plan = {t1, t2, t3}
  Arrivals <- OneAndTwo
  NProbes = 3
  Name = {n1, n2}
  NameOf <- Namesake
  Scope <- Scoped
  Outcome <- MatchOrTimeout
  Global = 2
  PerHost = 1
  PerProbe = 1
  Retries = 0
  OutputMode = "all"
  InCap = 1
  OutCap = 1
SPECIFICATION Spec
INVARIANTS TypeOK ConnectionLimits HostEntriesLive ProbedOnce NoProbeLost ConfirmedStopsPlan OpenBeforeProbe DepthExact
PROPERTY NoSecondLatePlan
SYMMETRY PlanSymmetry
CHECK_DEADLOCK FALSE
