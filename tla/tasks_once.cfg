SPECIFICATION Spec
CONSTANTS
  t1 = t1
  t2 = t2
  t3 = t3
  w1 = w1
  w2 = w2
  k1 = k1
  NoTask = NoTask
  NoWorker = NoWorker
  NoKey = NoKey
  NoLane = NoLane
  Tasks = {t1, t3}
  Workers = {w1, w2}
  Lanes = {1, 2}
  Concurrency = 2
  MaxAttempts = 1
  MaxConcurrency = 0
  Buckets = 2
  BatchSize = 10
  BucketOf <- TwoBuckets
  Handles <- SomeTypes
  Registered = {t1}
  Keys = {k1}
  KeyOf <- NoKeys
  Entry = {"pending", "scheduled"}
  Faults = {"crash", "cancel", "overrun"}
CHECK_DEADLOCK FALSE
INVARIANT ExclusiveExecution
PROPERTY NeverRunAgain
