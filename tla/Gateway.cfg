SPECIFICATION GatewayFairSpec
CONSTANTS
  c1 = c1
  c2 = c2
  p1 = p1
  p2 = p2
  Clients = {c1, c2}
  Publishers = {p1, p2}
  BufferSize = 2
  j1 = j1
  j2 = j2
  Jobs = {j1, j2}
  BatchSize = 1
  DefaultLimit = 1
  MaxLimit = 2
  Limits = {0, 3}
  MaxEvents = 3
  Processes <- MCProcesses
  Known <- MCKnown
  MaxFaults = 1
  k1 = k1
  k2 = k2
  b1 = b1
  r1 = r1
  Secrets = {k1, k2}
  Bodies = {b1}
  Requests = {r1}
  MaxListeners = 2
  MaxPatches = 2
  None = None
  w1 = w1
  w2 = w2
  Workers = {w1, w2}
  Rates = {0, 1, 3}
  MaxWait = 1
  TicksPerSecond = 2
  Window = 3
  MaxSends = 3
  MaxEdits = 1
  MaxAttempts = 3
  Codes <- MCCodes
  Asked <- MCAsked
  Dates <- MCDates
  Second = 2
  Word = 16
  BackoffBase = 2
  BackoffCap = 6
INVARIANTS
  TypeOK
  TypesOK
  NoPanic
  NoLeak
  ListedOnce
  NoneSkipped
  UpToDate
  Authentic
  DeafByPatch
  Paced
  DelayBounded
  PaceHonoured
PROPERTIES
  PublishEnds
  StopEnds
  ExpiredLeave
  LockComes
  KeepsPromise
CHECK_DEADLOCK FALSE
