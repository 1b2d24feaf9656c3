\* Two slots, three competing threads: every interleaving of acquire,
\* reconnection, release, cancellation and destruction.
CONSTANTS
  Thread = {t1, t2, t3}
  Addr = {a1, a2, a3}
  Nil = Nil
  Size = 2
  Timeouts = {"infinite", "timed", "try"}
  MaxCalls = 2
  ReuseDangling = FALSE
  TimeoutConsumes = FALSE
SPECIFICATION Spec
SYMMETRY Symmetry
INVARIANTS
  LeaseExclusive
  SlotKept
  NoLeak
PROPERTIES
  LeaseIsFresh
  LeaseService
CHECK_DEADLOCK FALSE
