\* Overlapping appends by two requests.  The log fills up: no deadlock check.
SPECIFICATION Spec
CONSTANTS
  Writers = {w1, w2}
  Payloads = {"p1", "p2"}
  Labels = {"l1", "l2"}
  MaxRows = 4
CHECK_DEADLOCK FALSE
INVARIANTS
  TypeOK
  BrokenExactlyByStaleAppend
  EveryRowLinked
  TamperEvident
