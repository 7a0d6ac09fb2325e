SPECIFICATION Spec
CONSTANTS
  o1 = o1
  o2 = o2
  p1 = p1
  p2 = p2
  c = c
  q1 = q1
  q2 = q2
  a = a
  Offers = {o1, o2}
  Performers = {p1, p2}
  By <- MCBy
  Slots = {c, q1, q2, a}
  Actor <- MCActor
  Overlap = FALSE
  Photos = {"clean", "doubtful", "banned"}
  Decisions = {"approved", "needs_fix", "deleted"}
  Faults = {"request dies"}
  MaxFaults = 1
INVARIANTS
  TaskAndWorkAgree
CHECK_DEADLOCK FALSE
