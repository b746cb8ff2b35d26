SPECIFICATION AaFairSpec
CONSTANTS
  Transports <- BothTransports
  MaxGates = 1
  Audio <- MediaOnly
  CommandCapacity = 1
  MaxPending = 1
  MaxCommands = 2
  MaxReturns = 1
  MaxSessions = 1
INVARIANT VisibleAllowed
INVARIANT VisibleIsNewer
INVARIANT StreamsHavePlayback
PROPERTY SilentPeerEnds
PROPERTY CommandsExecuted
CHECK_DEADLOCK FALSE
