\* Two tasks, two tenants, capacity one: eviction at every second miss.
SPECIFICATION Spec
CONSTANTS
  Tenants = {t1, t2}
  Admin = admin
  Tasks = {p1, p2}
  None = none
  Shards <- OwnShards
  MaxConnections = 1
  Ttl = 1
  MaxClock = 1
  MaxRevision = 1
SYMMETRY Symmetry
INVARIANTS
  TypeOK
  OwnDatabase
  FlushEffective
  CapacityKept
PROPERTIES
  ImplementsProvider
