\* The two layers alone, as documented: nothing of the application in between.
SPECIFICATION Spec
CONSTANTS
  Raw <- RawStrings
  Trim <- Trimmed
  Json <- JsonText
  Null = null
  Blank = ""
  Nobody = nobody
  Invalid = invalid
  Absent = absent
  Opaque = opaque
  Admin = admin
  None = none
  Tasks = {p1}
  Requests <- DocumentedRequests
  Layers <- DocumentedLayers
  Bridged = FALSE
INVARIANTS
  DbInjected
