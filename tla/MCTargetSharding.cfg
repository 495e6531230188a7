\* Up to two target lines, two exclusions and three workers; limits that leave each
\* remainder, the limit that is the number of workers, and quotients above one.
CONSTANTS
  Bits = 3
  Lines <- MCLines
  Exclusions <- MCExclusions
  PortSets <- MCPortSets
  Limits = {3, 5, 8}
  MaxLines = 2
  MaxExclusions = 2
  MaxProcesses = 3
SPECIFICATION Spec
INVARIANTS OneOwner  CountsExact
CHECK_DEADLOCK FALSE
