\* A forward-only result whose rows are all retained, on a connection that may
\* be lost, and a scrollable one refetched in windows of one or two rows; rows
\* that do not validate, refetches that fail, transactions that end.
CONSTANTS
  Kinds <- BothKinds
  MaxRows = 3
  MaxWindow = 2
  Targets <- AllTargets
  Offsets <- AllOffsets
  Faults = {"rows", "refetch", "lost"}
SPECIFICATION Spec
INVARIANT RowNumberTruthful
PROPERTIES
  EofMeansExhausted
  FailureSticks
  ScrollService
CHECK_DEADLOCK FALSE
