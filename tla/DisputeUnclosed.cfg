SPECIFICATION Spec
CONSTANTS
  d1 = d1
  d2 = d2
  k1 = k1
  k2 = k2
  c1 = c1
  c2 = c2
  p1 = p1
  p2 = p2
  a1 = a1
  w1 = w1
  w2 = w2
  Disputes = {d1}
  Kinds = {k1, k2}
  Ballots <- WaveringBallot
  Slots = {c1, p1}
  Actor <- MCActor
  Overlap = TRUE
  Turns = {w1, w2}
  Faults = {}
  MaxFaults = 0
PROPERTIES
  ClosedIsFinal
CHECK_DEADLOCK FALSE
