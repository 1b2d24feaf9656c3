\* Every call and every kind of statement, refused or accepted at any step, with
\* second groups, a peer that closes and receives that time out; three calls
\* reach the server (open, work, end; or work, an implicit transaction, end).
CONSTANTS
  Ops = {"begin", "commit", "rollback", "savepoint", "isolation", "query"}
  Kinds = {"select", "work", "begin", "commit", "rollback"}
  Prepared = {}
  Levels = {"repeatable", "serializable"}
  Holds = {FALSE}
  Faults = {"close", "late"}
  BatchRows = 1
  MaxCalls = 3
SPECIFICATION FairSpec
INVARIANTS
  OkMeansDone
  InStep
  MirrorTruthful
  SelectReleased
PROPERTIES
  WorkInTransaction
  CallReturns
\* The application may stop between calls; CallReturns says it does nowhere else.
CHECK_DEADLOCK FALSE
