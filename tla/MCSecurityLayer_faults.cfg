\* Two replicas, failing Redis calls, restarts, and the admin API.
SPECIFICATION Spec
CONSTANTS
  w1 = w1  w2 = w2  w3 = w3  r1 = r1  r2 = r2  a = a  b = b  e1 = e1  e2 = e2
  IPs = {a}
  Endpoints = {e1}
  Workers = {w1, w2}
  Replicas = {r1, r2}
  ReplicaOf <- TwoReplicas
  RequestLimit <- LimitOne
  WindowSeconds <- Window
  BanTimeSeconds <- Ban
  MaxFaults = 2
  NoJob = NoJob
  AdminEndpoints = {e1}
  AdminBanSeconds = {4}
  Predefined = {a}
  PredefinedBanSeconds = 3
  MaxAdminOps = 1
INVARIANTS TypeOK AdmissionBound LeakBound OrphanNeedsFault
PROPERTIES BanLapses KeepsPromise
