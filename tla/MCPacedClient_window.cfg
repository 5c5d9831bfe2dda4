\* A client within the limit is banned.
SPECIFICATION PacedSpec
CONSTANTS
  w1 = w1  w2 = w2  w3 = w3  r1 = r1  r2 = r2  a = a  b = b  e1 = e1  e2 = e2
  IPs = {a}
  Endpoints = {e1}
  Workers = {w1}
  Replicas = {r1}
  ReplicaOf <- OneReplica
  RequestLimit <- LimitTwo
  WindowSeconds <- Window
  BanTimeSeconds <- Ban
  MaxFaults = 0
  NoJob = NoJob
  AdminEndpoints = {}
  AdminBanSeconds = {}
  Predefined = {}
  PredefinedBanSeconds = 3
  MaxAdminOps = 0
INVARIANT PacedClientNotBanned
