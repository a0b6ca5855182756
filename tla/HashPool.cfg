SPECIFICATION PoolSpec
CONSTANTS
  Tasks = {t1, t2, t3, t4, t5}
  Concurrency = 2
  MaxWaiting = 2
INVARIANTS
  PoolTypeOK
  QueueHoldsQueued
  PermitsConserved
  WaitingCounts
PROPERTIES
  WaitersServed
  ImplementsBoundedPool
