SPECIFICATION Spec
CONSTANTS
  Tickets = {t1, t2}
  Users = {ann, bob}
  Members = {ann}
  Services = {caisse}
  Requests = {r1, r2}
  Priorities = {"STANDARD"}
  BranchStates = {TRUE}
  ScoreUnit = 100
  MaxEnqueues = 3
  MaxCrashes = 0
  None = None
INVARIANTS OneActivePerUser
CHECK_DEADLOCK FALSE
