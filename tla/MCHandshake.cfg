CONSTANTS
  Conn = {c1, c2}
  Fds = {1, 2}
  Ssl = {s1, s2}
  Nil = Nil
  Lost = Lost
  Addresses = 2
  Transports = {"tcp", "unix"}
  MaxConnects = 1
  MaxPrompts = 1
  Faults = {"sync"}
SPECIFICATION Spec
SYMMETRY Symmetry
INVARIANTS
  OwnSession
  NothingLeft
  ReadyTruthful
  AdviceSound
CHECK_DEADLOCK FALSE
