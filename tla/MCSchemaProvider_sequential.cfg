\* No URL, a shared pool of one session, one call at a time.
SPECIFICATION Spec
CONSTANTS
  Tenants = {t1, t2}
  Admin = admin
  Tasks = {p1}
  None = none
  Urls = {FALSE}
  Sessions = {s1}
  SharedSessions = {s1}
  Quotables <- NoneRefused
  Ttl = 1
  MaxClock = 0
  MaxReconnects = 0
INVARIANTS
  EachPinned
