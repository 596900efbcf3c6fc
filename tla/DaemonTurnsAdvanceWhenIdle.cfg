CONSTANTS
  c1 = c1
  c2 = c2
  Clients = {c1, c2}
  Free = Free
  Wg = Wg
  MaxSessions = 1
  MaxCmds = 2
  MaxEvents = 1
  MaxAuto = 1
SPECIFICATION Spec
INVARIANT AdvanceWhenIdle
CHECK_DEADLOCK FALSE
