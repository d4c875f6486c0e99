SPECIFICATION ServiceSpec
CONSTANTS
  a = a
  b = b
  p = p
  q = q
  NoRow = NoRow
  Ids = {a, b}
  Writers = {p, q}
  Seeded = {}
  MaxWrites = 3
  MaxEntries = 2
  MaxQueue = 3
  MaxDrops = 1
  Hazards = {}
  Running = {"feed", "store", "filter", "pages", "files"}
  StoreModes = {"live", "strict"}
  Limit = 1
  StartRows = 1
  MaxRows = 2
  MaxCreates = 1
  MaxMutations = 1
  MaxOthers = 1
  MaxIncidents = 1
  Null = Null
  Terms <- SomeTerms
  Rows <- SomeRows
  Vocabularies <- SomeVocabularies
  MaxNodes = 4
  MaxDepth = 1
  Dialects = {"sqlite", "postgres"}
  NullsAt = {"first", "last"}
  Sorts <- SomeSorts
  Keys = {1, 2, 3}
  Contents <- SomeContents
  Limits = {0, 3}
  MaxLimit = 2
  MaxChanges <- SomeChanges
  h1 = h1
  h2 = h2
  Routes = {"whole", "signed", "parts"}
  Hands = {h1, h2}
  MaxAsks <- SomeAsks
  MaxPuts = 2
  MaxMishaps <- SomeMishaps
  MaxErasures = 2
SYMMETRY ServicesSym
CHECK_DEADLOCK FALSE
INVARIANTS
  ServiceTypeOK
  ClientMirrors
  KnownIsHeld
  WindowContiguous
  StoreSettled
  FiltersSound
  PagesWhole
  FilesWhole
  FilesSwept
