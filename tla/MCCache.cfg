CONSTANTS
  n1 = n1
  n2 = n2
  t1 = t1
  t2 = t2
  k1 = k1
  None = None
  Nodes = {n1, n2}
  Threads = {t1, t2}
  Homes <- MCHomes
  Keys = {k1}
  MaxCalls = 2
  MaxFaults = 1
SPECIFICATION CacheFairSpec
CHECK_DEADLOCK FALSE
INVARIANT CacheTypeOK
INVARIANT CoherentAtRest
PROPERTY StaleIsTemporary
PROPERTY AsyncIsFlushed
