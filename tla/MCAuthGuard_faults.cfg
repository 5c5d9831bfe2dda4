\* Two replicas, failing Redis calls and restarts.
SPECIFICATION Spec
CONSTANTS
  w1 = w1  w2 = w2  r1 = r1  r2 = r2  a = a
  IPs = {a}
  Workers = {w1, w2}
  Replicas = {r1, r2}
  ReplicaOf <- TwoReplicas
  AttemptLimit <- UnevenLimits
  BlockSeconds = 2
  MaxFaults = 1
  NoAttempt = NoAttempt
INVARIANTS TypeOK QuotaBound EarnedCharge OrphanNeedsFault
PROPERTY BlockLapses
