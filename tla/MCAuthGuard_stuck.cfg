\* One crash of a process with several workers blocks a client for ever.
SPECIFICATION Spec
CONSTANTS
  w1 = w1  w2 = w2  r1 = r1  r2 = r2  a = a
  IPs = {a}
  Workers = {w1, w2}
  Replicas = {r1}
  ReplicaOf <- OneReplica
  AttemptLimit <- Limits
  BlockSeconds = 2
  MaxFaults = 1
  NoAttempt = NoAttempt
PROPERTY BlockEnds
