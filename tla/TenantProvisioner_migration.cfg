\* One operator, one migration at a time, over an admin pool of two sessions.
SPECIFICATION Spec
CONSTANTS
  Tenants = {t1, t2}
  Admin = admin
  None = none
  Operators = {o1}
  Backends = {"postgres"}
  Valid = {t1, t2}
  Existing = {}
  Sessions = {a1, a2}
  AdminSessions = {a1, a2}
INVARIANTS
  MigrationInSchema
