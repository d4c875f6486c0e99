SPECIFICATION Spec
CONSTANTS
  a = a
  b = b
  p = p
  q = q
  NoRow = NoRow
  Ids = {a}
  Writers = {p, q}
  Seeded = {}
  MaxWrites = 2
  MaxEntries = 2
  MaxQueue = 4
  MaxDrops = 1
  Hazards = {"race"}
CHECK_DEADLOCK FALSE
INVARIANTS
  LiveAfterUpto
