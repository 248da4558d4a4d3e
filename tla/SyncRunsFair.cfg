SPECIFICATION FairSpec
CONSTANTS
  Connections = {c1}
  Experiments = {}
  AutoSync = {c1}
  Callers = {a1}
  Schedulers = {s1}
  Workers = {w1, w2}
  RunIds = {r1, r2}
  None = None
  MaxDup = 0
  MaxCrash = 0
\* once RunIds is used up, processes about to create a run stay there
CHECK_DEADLOCK FALSE
PROPERTIES
  ImplementsLifecycle
  JobsCatchUp
