\* The clients are handed out in turn, through changes of the list.
SPECIFICATION BalancerSpec
CONSTANTS
  x = x  y = y  z = z
  Addresses = {x, y, z}
  AddressLists <- Lists
  NoClient = NoClient
  MaxPicks = 4
INVARIANTS BalancerTypeOK IndexInRange Balanced
