\* The rate limiter shortens a ban set through the admin API.
SPECIFICATION HealthySpec
CONSTANTS
  w1 = w1  w2 = w2  w3 = w3  r1 = r1  r2 = r2  a = a  b = b  e1 = e1  e2 = e2
  IPs = {a, b}
  Endpoints = {e1}
  Workers = {w1, w2}
  Replicas = {r1}
  ReplicaOf <- OneReplica
  RequestLimit <- LimitOne
  WindowSeconds <- Window
  BanTimeSeconds <- Ban
  MaxFaults = 0
  NoJob = NoJob
  AdminEndpoints = {e1}
  AdminBanSeconds = {4}
  Predefined = {}
  PredefinedBanSeconds = 3
  MaxAdminOps = 1
PROPERTY AdminBanKept
