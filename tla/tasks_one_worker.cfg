SPECIFICATION FairSpec
CONSTANTS
  t1 = t1
  t2 = t2
  t3 = t3
  w1 = w1
  w2 = w2
  k1 = k1
  NoTask = NoTask
  NoWorker = NoWorker
  NoKey = NoKey
  NoLane = NoLane
  Tasks = {t1, t2}
  Workers = {w1}
  Lanes = {1, 2}
  Concurrency = 2
  MaxAttempts = 2
  MaxConcurrency = 1
  Buckets = 1
  BatchSize = 10
  BucketOf <- OneBucket
  Handles <- AllTypes
  Registered = {t1, t2}
  Keys = {k1}
  KeyOf <- OneKey
  Entry = {"pending"}
  Faults = {}
INVARIANT NothingStranded
PROPERTIES
  FollowsLifecycle
  Finishes
