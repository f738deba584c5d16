SPECIFICATION FairSpec
CONSTANTS
  t1 = t1
  n1 = n1
  n2 = n2
  w1 = w1
  w2 = w2
  Nobody = Nobody
  Tasks = {t1, n1, n2}
  NewIds = {n1, n2}
  Senders = {w1, w2}
  Traffic <- MCTraffic
  MaxSent = 3
  MaxCrashes = 1
INVARIANTS LatestWins OneHolder
PROPERTIES RedeliveryIsHarmless EveryoneServed
CHECK_DEADLOCK FALSE
