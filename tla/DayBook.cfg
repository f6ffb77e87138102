SPECIFICATION MCSpec
CONSTANTS
  Tickets = {t1, t2, t3}
  Users = {u1, u2}
  Services = {s1, s2}
  Counters = {c1}
  Prefix = A
  PrefixOf <- SamePrefix
  HoursPerDay = 2
  DefaultDays = 1
  AvgService = 5
  PageSize = 1
  Settings <- SomeSettings
  LastHour = 2
  MaxRows = 5
  None = None
CONSTRAINT Followed
SYMMETRY Symmetric
CHECK_DEADLOCK FALSE
INVARIANTS
  TypeOK
  NumberIsRank
  
  
