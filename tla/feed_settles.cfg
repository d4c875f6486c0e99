SPECIFICATION Spec
CONSTANTS
  a = a
  b = b
  p = p
  q = q
  NoRow = NoRow
  Ids = {a}
  Writers = {p, q}
  Seeded = {}
  MaxWrites = 3
  MaxEntries = 2
  MaxQueue = 2
  MaxDrops = 1
  Hazards = {"lose"}
CHECK_DEADLOCK FALSE
INVARIANTS
  ReplayComplete
PROPERTIES
  Settles
