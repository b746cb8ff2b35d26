CONSTANTS
    Roles = {rear, front}
    NoRole = NoRole
    Shown = rear
    Depth = 2
    MaxFrames = 3
    MaxCommands = 2
    MaxFaults = 1
    Retries = 1
SPECIFICATION Spec
INVARIANTS NotTorn ValidIsLive
PROPERTIES OutdatedLeaves RecoveryEnds
CHECK_DEADLOCK FALSE
