SPECIFICATION Spec
CONSTANTS
  a = a
  b = b
  p = p
  q = q
  NoRow = NoRow
  Ids = {a, b}
  Writers = {p, q}
  Seeded = {a, b}
  MaxWrites = 0
  MaxEntries = 2
  MaxQueue = 2
  MaxDrops = 0
  Hazards = {}
CHECK_DEADLOCK FALSE
PROPERTIES
  FreshStart
