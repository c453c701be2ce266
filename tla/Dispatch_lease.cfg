SPECIFICATION Spec
CONSTANTS
  d1 = d1
  d2 = d2
  s1 = s1
  r1 = r1
  r2 = r2
  w1 = w1
  w2 = w2
  Deliveries = {d1, d2}
  Services = {s1}
  ServiceOf <- OneService
  Replicas = {r1, r2}
  Workers = {w1, w2}
  ReplicaOf <- TwoProcesses
  MaxAttempts = 2
  BreakerThreshold = 2
  ClaimBatchSize = 2
  DeliveryTime = 1
  ReapAfter = 2
  MaxDelay = 0
  Lag = 1
  Refusals = TRUE
  MaxFaults = 1
  MaxRequeues = 1
SYMMETRY SameProcesses
INVARIANTS
  IInv
  OncePerAttempt
  Exclusive
  CountedOnce
PROPERTIES
  LifecycleSpec
