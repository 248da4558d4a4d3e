SPECIFICATION Spec
CONSTANTS
  Users = {u1, u2, u3}
  Orgs = {o1, o2}
  InviteIds = {v1, v2}
  Handlers = {h1}
  AskedRoles = {"owner", "admin"}
  None = None
SYMMETRY Symmetry
\* a table that is full and requests that are all refused may stop everything
CHECK_DEADLOCK FALSE
PROPERTIES
  OwnerRemains
