\* Two calls that miss at the same time.
SPECIFICATION Spec
CONSTANTS
  Tenants = {t1, t2}
  Admin = admin
  Tasks = {p1, p2}
  None = none
  Shards <- OwnShards
  MaxConnections = 1
  Ttl = 1
  MaxClock = 0
  MaxRevision = 0
INVARIANTS
  CapacityRespected
