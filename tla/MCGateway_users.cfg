\* Logins and registrations through to the users service, with lost answers,
\* retries, failing Redis calls, and a crash.
SPECIFICATION Spec
CONSTANTS
  w1 = w1  w2 = w2  x = x  a = a  p = p
  IPs = {a}
  Workers = {w1, w2}
  Process = p
  AttemptLimit <- Limits
  BlockSeconds = 1
  MaxFaults = 1
  NoAttempt = NoAttempt
  Calls = {1, 2}
  MaxRetries = 2
  Addresses = {x}
  AddressLists <- AtMostOne
  NoClient = NoClient
  MaxPicks = 0
  NoCall = NoCall
SYMMETRY WorkerSymmetry
INVARIANTS TypeOK RegistrationsCounted ChargeHasCause ResetEarned
