\* Two calls race for the clients; errors, late executions, three attempts.
SPECIFICATION Spec
CONSTANTS
  x = x  y = y  c1 = c1  c2 = c2
  Addresses = {x, y}
  AddressLists <- ShortLists
  NoClient = NoClient
  MaxPicks = 0
  Calls = {c1, c2}
  MaxRetries = 3
\* Once every call is answered nothing is left to do.
CHECK_DEADLOCK FALSE
INVARIANTS TypeOK EffectsAccounted HonestAnswer
PROPERTIES Answered KeepsPromise
