SPECIFICATION Spec
CONSTANTS
  b1 = b1
  b2 = b2
  s1 = s1
  s2 = s2
  p1 = p1
  p2 = p2
  q1 = q1
  q2 = q2
  Bodies = {b1, b2}
  Services = {s1, s2}
  Planners = {p1, p2}
  Replays = {q1}
  BatchSize = 2
  Overlap = FALSE
  MaxEvents = 2
  MaxReplays = 1
  MaxEdits = 1
  MaxFaults = 1
SYMMETRY Interchangeable
INVARIANTS
  TypeOK
  WholeSet
  WakeNotLost
  ReplayRebuilds
PROPERTY
  PromiseSpec
