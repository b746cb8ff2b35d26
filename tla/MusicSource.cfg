SPECIFICATION Spec
CONSTANTS
  Transports <- WiredOnly
  MaxGates = 0
  Audio <- MediaOnly
  CommandCapacity = 1
  MaxPending = 1
  MaxCommands = 2
  MaxReturns = 0
  MaxSessions = 1
  MaxSelects = 2
INVARIANT GateSilences
INVARIANT NoOverlap
INVARIANT SelectionApplied
CHECK_DEADLOCK FALSE
