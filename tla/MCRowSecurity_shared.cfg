\* One request in transactions on a session of its own, two that share two
\* sessions; two managers whose calls may fail.
SPECIFICATION Spec
CONSTANTS
  p1 = p1
  s1 = s1
  Tenants = {t1, t2}
  Tasks = {p1, p2, p3}
  Managers = {m1, m2}
  None = none
  Sessions = {s1, s2, s3}
  Pool <- Pools
  Brackets = {p1}
SYMMETRY Symmetry
INVARIANTS
  TypeOK
  Protected
  NeverHalfEnabled
  Isolated
  BracketedReadOwnRows
