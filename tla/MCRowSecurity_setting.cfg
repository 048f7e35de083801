\* set_tenant as documented: one request at a time, a connection of one session.
SPECIFICATION Spec
CONSTANTS
  p1 = p1
  s1 = s1
  Tenants = {t1, t2}
  Tasks = {p1}
  Managers = {m1}
  None = none
  Sessions = {s1}
  Pool <- OneConnection
  Brackets = {}
INVARIANTS
  ReadsOwnRows
