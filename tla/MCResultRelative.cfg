\* A scrollable cursor and relative moves past the first row.
CONSTANTS
  Kinds <- Scrolling
  MaxRows = 3
  MaxWindow = 2
  Targets <- AllTargets
  Offsets <- AllOffsets
  Faults = {"pass_start"}
SPECIFICATION Spec
INVARIANT RowNumberTruthful
CHECK_DEADLOCK FALSE
