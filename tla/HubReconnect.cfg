SPECIFICATION Spec
CONSTANTS
  c1 = c1
  c2 = c2
  c3 = c3
  t1 = t1
  t2 = t2
  a1 = a1
  Conns = {c1, c2, c3}
  Tickets = {t1, t2}
  Agencies = {a1}
  TicketOf <- MCTicketOf
  AgencyOf <- MCAgencyOf
  MaxEvents = 1
  MaxDrops = 0
  None = None
INVARIANTS FollowedTicketIsIndexed
CHECK_DEADLOCK FALSE
