SPECIFICATION FairSpec
CONSTANTS
  t1 = t1
  t2 = t2
  t3 = t3
  w1 = w1
  w2 = w2
  k1 = k1
  NoTask = NoTask
  NoWorker = NoWorker
  NoKey = NoKey
  NoLane = NoLane
  Tasks = {t1}
  Workers = {w1, w2}
  Lanes = {1}
  Concurrency = 1
  MaxAttempts = 1
  MaxConcurrency = 0
  Buckets = 1
  BatchSize = 10
  BucketOf <- OneBucket
  Handles <- AllTypes
  Registered = {t1}
  Keys = {k1}
  KeyOf <- NoKeys
  Entry = {"pending"}
  Faults = {"crash"}
PROPERTY ReclaimedAfterCrash
CHECK_DEADLOCK FALSE
