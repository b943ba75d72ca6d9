SPECIFICATION LiveSpec
CONSTANTS
  Threads = {t1, t2, t3}
  Refs = {r1, r2, r3}
  Nobody = Nobody
INVARIANTS
  Counts
  DestroyedUnused
  LastDestroys
  SoleIsSole
PROPERTIES
  AtomicSpec
  LockReleased
CHECK_DEADLOCK FALSE
