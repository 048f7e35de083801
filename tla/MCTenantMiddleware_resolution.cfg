\* One request at a time, of every kind, through every layer.
SPECIFICATION Spec
CONSTANTS
  Raw <- RawStrings
  Trim <- Trimmed
  Json <- JsonText
  Null = null
  Blank = ""
  Nobody = nobody
  Invalid = invalid
  Absent = absent
  Opaque = opaque
  Admin = admin
  None = none
  Tasks = {p1}
  Requests <- AllRequests
  Layers <- AllLayers
  Bridged = TRUE
INVARIANTS
  TypeOK
  NoTenantNoHandler
  ClaimsWin
  DefaultIsLast
  ErrorsRefused
