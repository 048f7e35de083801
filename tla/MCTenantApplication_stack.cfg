\* Two requests of two tenants over a cache that is told to hold nothing, and holds
\* one entry.
SPECIFICATION ApplicationSpec
CONSTANTS
  Raw <- AppStrings
  Trim <- AppTrim
  Json <- NoJson
  Null = null
  Blank = ""
  Nobody = nobody
  Invalid = invalid
  Absent = absent
  Opaque = opaque
  Admin = admin
  None = none
  Tasks = {p1, p2}
  Requests <- AppRequests
  Layers <- AppLayers
  Bridged = TRUE
  Shards <- OwnShards
  MaxConnections = 0
  Ttl = 1
  MaxClock = 0
  MaxRevision = 0
INVARIANTS
  EndToEnd
  Connectedness
PROPERTIES
  ImplementsMiddleware
  RequestAnswered
