SPECIFICATION FairSpec
CONSTANTS
  c1 = c1
  k1 = k1
  Conns = {c1}
  Exps = {x1}
  Keys = {k1, k2}
  ExpConn <- ConnOfExp
  EventKey = k1
  EventConn = c1
  EventExp = None
  Syncs = {s1, s2}
  Handlers = {h1, h2}
  EventIds = {v1}
  Kinds = {"force", "experiment"}
  RowIds = {r1, r2}
  MaxLeads = 0
  None = None
\* once RowIds is used up, a request about to insert a row stays there
CHECK_DEADLOCK FALSE
INVARIANTS
  NoDoubleCount
PROPERTIES
  WritersEnd
