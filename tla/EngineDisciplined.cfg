SPECIFICATION DisciplinedSpec
CONSTANTS
  Tickets = {t1, t2, t3}
  Users = {ann, bob}
  Members = {ann}
  Services = {caisse}
  Requests = {r1, r2}
  Priorities = {"STANDARD", "VIP"}
  BranchStates = {TRUE, FALSE}
  ScoreUnit = 100
  MaxEnqueues = 3
  MaxCrashes = 1
  None = None
SYMMETRY Symmetry
INVARIANTS OneActivePerUser AuditChain WaitingIsQueuedUnlessCrash NoServedTicketInQueue 
PROPERTIES ImplementsLifecycle OnlyAllowedTransitions
CHECK_DEADLOCK FALSE
