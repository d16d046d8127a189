\* Progress, under fair threads: two or three of them, one struct, one key.
CONSTANTS
  Kind = {"mcs", "barrier", "once", "rwlock", "cond", "thread", "keys"}
  Thread = {t1, t2, t3}
  Waiter = {t1, t2}
  User = {t1, t2}
  Struct = {t1}
  Caller = {t2}
  MaxReuse = 2
  Key = {k1}
  PTHREAD_DESTRUCTOR_ITERATIONS = 1
  SEM_VALUE_MAX = 2
  MaxDepth = 2
  Height = 3
  INT_MAX = 3
  GoneMax = 2
SPECIFICATION FairSpec
CHECK_DEADLOCK FALSE
PROPERTIES
  WaitersProceed
  EndingsComplete
