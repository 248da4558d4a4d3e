SPECIFICATION Spec
CONSTANTS
  Users = {u1, u2}
  Orgs = {o1}
  InviteIds = {v1}
  Handlers = {h1, h2}
  AskedRoles = {"owner", "admin"}
  None = None
SYMMETRY Symmetry
\* a table that is full and requests that are all refused may stop everything
CHECK_DEADLOCK FALSE
PROPERTIES
  OwnerRemains
