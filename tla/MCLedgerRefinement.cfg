\* Two plans of one or two endpoints, two probes of one name, retries, one permit
\* for each name.
CONSTANTS
  i1 = i1
  i2 = i2
  p1 = p1
  p2 = p2
  t1 = t1
  t2 = t2
  t3 = t3
  t4 = t4
  n1 = n1
  n2 = n2
  None = None
  Ip = {i1}
  Port = {p1, p2}
  Plan = {t1, t2}
  Arrivals <- AnyTwo
  NProbes = 3
  Name = {n1, n2}
  NameOf <- Namesake
  Scope <- Scoped
  Outcome <- SilentMatchOrAnswer
  Global = 2
  PerHost = 2
  PerProbe = 1
  Retries = 1
  OutputMode = "responsive"
  InCap = 1
  OutCap = 1
SPECIFICATION FairSpec
INVARIANT ResultsDelivered
PROPERTIES ComesToRest ImplementsLedger
CHECK_DEADLOCK FALSE
