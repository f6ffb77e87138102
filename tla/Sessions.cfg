SPECIFICATION Spec
CONSTANTS
  Phones = {ph}
  Emails = {em}
  Codes = {c1, c2, c3}
  Tokens = {t1, t2, t3, t4}
  Requests = {r1, r2}
  Workloads <- MCWorkloads
  OTP_MAX_ATTEMPTS = 2
  PHONE_REGISTER_MAX = 2
  MaxCrashes = 1
  None = None
SYMMETRY Symmetric
CHECK_DEADLOCK FALSE
INVARIANTS
  TypeOK
  OneLiveTokenPerSession
  EndedSessionIsDead
  TriesArePerCode
  
  CodeAcceptedOnce
  
PROPERTIES
  ImplementsSessionLifecycle
