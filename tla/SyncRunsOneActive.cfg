SPECIFICATION Spec
CONSTANTS
  Connections = {c1}
  Experiments = {}
  AutoSync = {}
  Callers = {a1, a2}
  Schedulers = {}
  Workers = {w1}
  RunIds = {r1, r2}
  None = None
  MaxDup = 0
  MaxCrash = 0
CHECK_DEADLOCK FALSE
INVARIANTS
  OneActivePerConnection
