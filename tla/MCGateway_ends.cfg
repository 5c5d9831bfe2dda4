\* Every request ends although the backend may stay silent and the process die.
SPECIFICATION Spec
CONSTANTS
  w1 = w1  w2 = w2  x = x  a = a  p = p
  IPs = {a}
  Workers = {w1}
  Process = p
  AttemptLimit <- Limits
  BlockSeconds = 1
  MaxFaults = 1
  NoAttempt = NoAttempt
  Calls = {1, 2}
  MaxRetries = 2
  Addresses = {x}
  AddressLists <- AtMostOne
  NoClient = NoClient
  MaxPicks = 0
  NoCall = NoCall
PROPERTY GuardAssumptionsHold
