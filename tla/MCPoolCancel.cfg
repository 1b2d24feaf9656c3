\* One slot handed from thread to thread, two handles.
CONSTANTS
  Thread = {t1, t2}
  Addr = {a1, a2}
  Nil = Nil
  Size = 1
  Timeouts = {"infinite"}
  MaxCalls = 1
  ReuseDangling = FALSE
  TimeoutConsumes = FALSE
  Op = {o1, o2}
SPECIFICATION Spec
SYMMETRY Symmetry
INVARIANT LeaseUnharmed
PROPERTY PoolImplemented
CHECK_DEADLOCK FALSE
