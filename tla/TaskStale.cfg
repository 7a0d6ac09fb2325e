SPECIFICATION Spec
CONSTANTS
  o1 = o1
  o2 = o2
  p1 = p1
  p2 = p2
  c = c
  q1 = q1
  q2 = q2
  a = a
  Offers = {o1, o2}
  Performers = {p1, p2}
  By <- MCBy
  Slots = {c, q1, q2}
  Actor <- MCActor
  Overlap = TRUE
  Photos = {}
  Decisions = {}
  Faults = {}
  MaxFaults = 0
PROPERTIES
  AcceptedStaysAccepted
CHECK_DEADLOCK FALSE
