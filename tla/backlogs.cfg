SPECIFICATION BacklogSpec
CONSTANTS
  t1 = t1
  t2 = t2
  fresh = fresh
  stored = stored
  Nobody = Nobody
  Gone = Gone
  Tabs = {t1, t2}
  Objects = {fresh, stored}
  Existing = {stored}
  Plans <- SomePlans
  MaxRetries = 2
  Resolutions = {"discard", "retry", "resolve"}
  MaxFaults = 2
  Running = {"offline", "letters", "recurring", "keyvalue"}
  Originals = {o1, o2}
  Callers = {l1, l2}
  MaxCalls = 2
  MaxReplays = 1
  MaxStops = 1
  Schedules = {x}
  Interval = 1
  Catchup = {"skip", "all"}
  Ticks = {d1, d2}
  Managers = {m1}
  Horizon = 4
  MaxOrders = 1
  Calls <- SomeCalls
  Missing = Missing
  MaxTime = 3
  MaxScore = 3
  MaxDrift = 3
CHECK_DEADLOCK FALSE
INVARIANTS
  OfflineTypeOK
  Accounted
  SentInTurn
  CreatedOnce
  StrandedBounded
  LettersHold
  SchedulesHold
  StoresAgree
PROPERTY TakenUp
