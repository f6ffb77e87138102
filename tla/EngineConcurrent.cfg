SPECIFICATION Spec
CONSTANTS
  Tickets = {t1, t2}
  Users = {ann, bob}
  Members = {ann}
  Services = {caisse}
  Requests = {r1, r2}
  Priorities = {"STANDARD"}
  BranchStates = {TRUE, FALSE}
  ScoreUnit = 100
  MaxEnqueues = 3
  MaxCrashes = 1
  None = None
SYMMETRY Symmetry
INVARIANTS TypeOK QueueSound AuditTruthful  NoPhantomNotice
CHECK_DEADLOCK FALSE
VIEW AuditView
