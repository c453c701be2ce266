SPECIFICATION FairSpec
CONSTANTS
  d1 = d1
  d2 = d2
  s1 = s1
  r1 = r1
  r2 = r2
  w1 = w1
  w2 = w2
  Deliveries = {d1, d2}
  Services = {s1}
  ServiceOf <- OneService
  Replicas = {r1}
  Workers = {w1}
  ReplicaOf <- OneProcess
  MaxAttempts = 2
  BreakerThreshold = 2
  ClaimBatchSize = 2
  DeliveryTime = 2
  ReapAfter = 3
  MaxDelay = 1
  Lag = 0
  Refusals = TRUE
  MaxFaults = 1
  MaxRequeues = 0
PROPERTIES
  NeverStuck
  EveryDeliveryEnds
