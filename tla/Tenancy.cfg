SPECIFICATION MCSpec
CONSTANTS
  NoOrg = NoOrg
  Users = {boss, u1}
  Hired = {u1}
  Founder = boss
  Orgs = {o1, o2}
  Rows = {e1, e2}
  StaffRoles = {"AGENT", "ADMIN_ORG"}
  StatusesGiven = {"ACTIVE", "INACTIVE"}
  Clients = {u1}
  Slugs = {g1, g2}
  Invitations = {i1, i2}
  NoCode = NoCode
  Branches = {b1}
  BranchSlugs = {s1}
  Services = {v1, v2}
  Counters = {k1, k2}
  Labels = {l1, l2}
  OrgRequests = {q1, q2}
  NoLabel = NoLabel
SYMMETRY Symmetric
CONSTRAINT Followed
CHECK_DEADLOCK FALSE
INVARIANTS
  TypesOK
  UserCopiesEmployment
  
  
  ReplacedCodeStaysDead
  ActiveLabelsDistinct
  
PROPERTIES
  InvitationOpensAtCommit
