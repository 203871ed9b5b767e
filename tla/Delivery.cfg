CONSTANTS
  Deliveries = {v1, v2}
  Workers = {w1}
  MaxAttempts = 2
  BatchSize = 2
  MaxFaults = 1
  MaxShutdowns = 0
  Replicas = {w1, w2}
  ReplicaFaults = 2
  ReplicaShutdowns = 1
  Single = v1
SPECIFICATION MCSpec
INVARIANTS
  DeliveredIsAccepted
  GivenUpExhausted
PROPERTY
  EveryDeliveryEnds
\* Everything may be delivered and every worker idle.
CHECK_DEADLOCK FALSE
