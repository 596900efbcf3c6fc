SPECIFICATION Spec
CONSTANTS
  MaxCalls = 2
  ToolCap = 2
  MaxRaises = 1
  MaxRetries = 1
  NudgeAfter = 1
  MaxTurns = 1
  MaxInput = 2
INVARIANTS TypeOK RequestsPaired InputKept TruncatedNeverRun
PROPERTIES LateInputAnswered TurnEnds
CHECK_DEADLOCK FALSE
