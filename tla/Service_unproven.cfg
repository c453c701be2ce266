SPECIFICATION Spec
CONSTANTS
  u1 = u1
  u2 = u2
  h1 = h1
  h2 = h2
  j1 = j1
  j2 = j2
  Urls = {u1, u2}
  Handshakes = {h1, h2}
  Jobs = {j1}
  Overlap = TRUE
  MaxTokens = 2
  BreakerThreshold = 2
  MaxFailures = 3
INVARIANT
  VerifiedIsProven
CHECK_DEADLOCK FALSE
