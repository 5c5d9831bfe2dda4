\* No request takes as long as a tick: a banned client starts afresh.
SPECIFICATION PromptSpec
CONSTANTS
  w1 = w1  w2 = w2  w3 = w3  r1 = r1  r2 = r2  a = a  b = b  e1 = e1  e2 = e2
  IPs = {a}
  Endpoints = {e1, e2}
  Workers = {w1, w2, w3}
  Replicas = {r1, r2}
  ReplicaOf <- TwoReplicas
  RequestLimit <- LimitOne
  WindowSeconds <- TwoWindows
  BanTimeSeconds <- Ban
  MaxFaults = 0
  NoJob = NoJob
  AdminEndpoints = {e2}
  AdminBanSeconds = {3}
  Predefined = {a}
  PredefinedBanSeconds = 1
  MaxAdminOps = 1
INVARIANT CounterDiesBeforeBan
