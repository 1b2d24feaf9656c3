\* A prepared SELECT or data statement in both transaction modes: executed again
\* over an open cursor, across commits and rollbacks, in batches of two rows; a
\* peer that closes, requests refused at any step.
CONSTANTS
  Ops = {"commit", "rollback", "prepare", "execute", "batch", "stmt_close"}
  Kinds = {}
  Prepared = {"select", "work", "begin", "commit", "rollback"}
  Levels = {}
  Holds = {TRUE, FALSE}
  Faults = {"close"}
  BatchRows = 2
  MaxCalls = 5
SPECIFICATION Spec
INVARIANTS
  OkMeansDone
  CursorKnown
\* The application may stop between calls.
CHECK_DEADLOCK FALSE
