SPECIFICATION Spec
CONSTANTS
  c1 = c1
  k1 = k1
  Conns = {c1}
  Exps = {x1}
  Keys = {k1, k2}
  ExpConn <- ConnOfExp
  EventKey = k1
  EventConn = c1
  EventExp = None
  Syncs = {s1, s2}
  Handlers = {h1}
  EventIds = {v1}
  Kinds = {"sync", "experiment", "import"}
  RowIds = {r1, r2}
  MaxLeads = 1
  None = None
SYMMETRY Symmetry
\* once RowIds is used up, a request about to insert a row stays there
CHECK_DEADLOCK FALSE
INVARIANTS
  TypeOK
  SuccessIsCatalogued
PROPERTIES
  CommitIsExact
  ReportMatchesCommit
