CONSTANTS
  NoSpec = NoSpec
  Workloads = {w1, w2}
  Specs <- MCSpecs
  Writers <- MCWriters
  Modes = {TRUE, FALSE}
  MaxChanges = 3
  MaxFaults = 1
SPECIFICATION Spec
INVARIANTS TypeOK ReloadOnItsWay
PROPERTY ReloadArrives
CHECK_DEADLOCK FALSE
