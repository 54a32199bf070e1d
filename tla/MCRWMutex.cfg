CONSTANTS
  t1 = t1
  t2 = t2
  t3 = t3
  Lockers = {t1, t2, t3}
  Exclusives = {t1, t2}
  Depth = 2
  NoThread = NoThread
SPECIFICATION FairMutexSpec
INVARIANTS
  LockAccounting
  NoLostWakeup
PROPERTIES
  EveryLockReturns
  ImplementsContract
