\* One slot, three threads: no symmetry, for the liveness property.
CONSTANTS
  Thread = {t1, t2, t3}
  Addr = {a1}
  Nil = Nil
  Size = 1
  Timeouts = {"infinite", "timed", "try"}
  MaxCalls = 2
  ReuseDangling = FALSE
  TimeoutConsumes = FALSE
SPECIFICATION FairSpec
INVARIANT NoStrandedWaiter
PROPERTY AcquireReturns
CHECK_DEADLOCK FALSE
