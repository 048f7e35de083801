\* With a URL and without, on both servers that have schemas: one call at a time
\* beside one migration or other administration, over a shared connection of one
\* session, which may be replaced. The schema of t2 has a name too
\* long to provision, and is there from the start.
SPECIFICATION AdministrationSpec
CONSTANTS
  Tenants = {t1, t2}
  Admin = admin
  None = none
  Operators = {o1}
  Backends = {"postgres", "mysql", "sqlite"}
  Valid = {t1}
  Existing = {t2}
  Quotables = {{t1, t2}}
  Urls = {TRUE, FALSE}
  Tasks = {p1}
  Sessions = {s1, d1, d2}
  SharedSessions = {s1}
  AdminSessions = {s1}
  Ttl = 1
  MaxClock = 1
  MaxReconnects = 1
SYMMETRY Symmetry
INVARIANTS
  AdministrationTypeOK
  TenantsUndisturbed
  MigrationUndisturbed
PROPERTIES
  ServesTenants
