SPECIFICATION Spec
CONSTANTS
  Connections = {c1}
  Experiments = {e1}
  AutoSync = {c1}
  Callers = {a1, a2}
  Schedulers = {s1}
  Workers = {w1, w2}
  RunIds = {r1, r2}
  None = None
  MaxDup = 1
  MaxCrash = 1
SYMMETRY Symmetry
\* once RunIds is used up, processes about to create a run stay there
CHECK_DEADLOCK FALSE
INVARIANTS
  TypeOK
  ReportsHold
  NoRunForgotten
  JobMirrorsRun
  OneActivePerCreator
PROPERTIES
  FinishedStaysFinished
