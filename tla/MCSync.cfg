\* Every module of the threads library, safety: three threads, two structs or keys.
CONSTANTS
  Kind = {"semaphore", "mutex", "mcs", "barrier", "once", "spin", "rwlock", "cond", "thread", "keys"}
  Thread = {t1, t2, t3}
  Waiter = {t1, t2, t3}
  User = {u1, u2}
  Struct = {p1, p2}
  Caller = {c1, c2}
  MaxReuse = 2
  Key = {k1, k2}
  PTHREAD_DESTRUCTOR_ITERATIONS = 2
  SEM_VALUE_MAX = 2
  MaxDepth = 2
  Height = 3
  INT_MAX = 4
  GoneMax = 2
SPECIFICATION Spec
SYMMETRY Perms
CHECK_DEADLOCK FALSE
INVARIANTS
  RecordsTrue
  NoUseAfterFree
  NobodyStranded
  GateShutWhileUnblocking
  DoneOnce
PROPERTIES
  KeepsPromise
