CONSTANTS
  LeaseIds = {l1}
  Workers = {w1}
  TTLs = {1}
  Intervals = {1}
  Callers = {c1}
  Threads = {t1, t2}
  Horizon = 2
  MaxTime = 4
  Nobody = Nobody
SPECIFICATION FairSpec
INVARIANT AtMostOneRelease
PROPERTIES NoPrematureRelease EveryLeaseEnds ReleaseDeletes
CHECK_DEADLOCK FALSE
