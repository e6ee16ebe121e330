\* Two overlapping tasks under a moving switch.  Tasks end: no deadlock check.
SPECIFICATION TaskSpec
CONSTANTS
  Callers = {t1, t2}
  CacheMs = 2
  MaxTime = 2
  MaxIterations = 2
  EscalationThreshold = 5
  Registry <- MCRegistry
  Configured = {"calculer_prime", "recommander_reglement"}
  ToolCalls <- MCToolCalls
  MaxCalls = 2
SYMMETRY Symmetry
CHECK_DEADLOCK FALSE
INVARIANTS
  TaskTypeOK
  BoundedStaleness
  NeverOffFromNothing
  SentOnlyUnlocked
  StoppedLeavesNoTrace
  NeverSelfSettles
