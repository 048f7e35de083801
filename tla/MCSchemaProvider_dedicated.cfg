\* With a URL and without: two tasks, two tenants, as many sessions as can be held at once, and a
\* pool that replaces a session once, at any moment.
SPECIFICATION Spec
CONSTANTS
  Tenants = {t1, t2}
  Admin = admin
  Tasks = {p1, p2}
  None = none
  Urls = {TRUE, FALSE}
  Sessions = {s1, d1, d2, d3, d4}
  SharedSessions = {s1}
  Quotables <- OneRefused
  Ttl = 1
  MaxClock = 1
  MaxReconnects = 1
SYMMETRY Symmetry
INVARIANTS
  TypeOK
  Pinned
  NoForeignSchema
  SharedUnpinned
  RefusedSchemas
PROPERTIES
  ImplementsUntilReplaced
