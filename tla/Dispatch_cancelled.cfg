SPECIFICATION Spec
CONSTANTS
  d1 = d1
  d2 = d2
  s1 = s1
  r1 = r1
  r2 = r2
  w1 = w1
  w2 = w2
  Deliveries = {d1, d2}
  Services = {s1}
  ServiceOf <- OneService
  Replicas = {r1}
  Workers = {w1}
  ReplicaOf <- OneProcess
  MaxAttempts = 2
  BreakerThreshold = 1
  ClaimBatchSize = 1
  DeliveryTime = 1
  ReapAfter = 1
  MaxDelay = 0
  Lag = 1
  Refusals = FALSE
  MaxFaults = 1
  MaxRequeues = 0
INVARIANT
  TripEarned
