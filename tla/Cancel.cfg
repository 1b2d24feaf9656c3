\* Two connections and two handles, without symmetry: a connection runs one or
\* both of them in succession, requests arrive before, during and after each
\* execution, and started executions end.
CONSTANTS
  Op = {o1, o2}
  Session = {c1, c2}
  Nil = Nil
SPECIFICATION FairSpec
INVARIANTS
  OutcomeTruthful
  NoStrayInterrupt
  RequestActedUpon
PROPERTY ActiveEnds
CHECK_DEADLOCK FALSE
