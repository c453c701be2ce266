SPECIFICATION FairSpec
CONSTANTS
  b1 = b1
  b2 = b2
  s1 = s1
  s2 = s2
  p1 = p1
  p2 = p2
  q1 = q1
  q2 = q2
  Bodies = {b1}
  Services = {s1}
  Planners = {p1, p2}
  Replays = {q1}
  BatchSize = 1
  Overlap = TRUE
  MaxEvents = 2
  MaxReplays = 2
  MaxEdits = 1
  MaxFaults = 1
PROPERTY
  EventIsPlanned
