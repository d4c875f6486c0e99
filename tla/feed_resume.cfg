SPECIFICATION Spec
CONSTANTS
  a = a
  b = b
  p = p
  q = q
  NoRow = NoRow
  Ids = {a, b}
  Writers = {p, q}
  Seeded = {a, b}
  MaxWrites = 2
  MaxEntries = 2
  MaxQueue = 4
  MaxDrops = 1
  Hazards = {}
CHECK_DEADLOCK FALSE
INVARIANTS
  CatchupDelivered
