\* The transaction calls over a network that may deliver a reply in parts.
CONSTANTS
  Ops = {"begin", "commit", "rollback"}
  Kinds = {}
  Prepared = {}
  Levels = {}
  Holds = {FALSE}
  Faults = {"split"}
  BatchRows = 1
  MaxCalls = 3
SPECIFICATION FairSpec
INVARIANTS
  OkMeansDone
CHECK_DEADLOCK FALSE
