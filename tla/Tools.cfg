\* Calls of every tool, over the forms the model may write their arguments in.
\* A call ends: no deadlock check.
SPECIFICATION ToolsSpec
CONSTANTS
  Wires <- MCWires
  EscalationThreshold = 5000000
CHECK_DEADLOCK FALSE
INVARIANTS
  RecommendationKept
  GridKept
