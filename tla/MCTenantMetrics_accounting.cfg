\* Two requests at a time, three in all, against a scraper.
SPECIFICATION Spec
CONSTANTS
  Tasks = {p1, p2}
  None = none
  MaxRequests = 3
SYMMETRY Symmetry
INVARIANTS
  TypeOK
  Accounting
  MissingCounted
PROPERTIES
  SnapshotsGrow
