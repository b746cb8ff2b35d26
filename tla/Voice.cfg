CONSTANTS
    MaxStreams = 2
    MaxLimit = 1
    MaxTests = 1
    MaxFaults = 1
    MaxCarPlay = 1
    Phones = {p1}
    NoPhone = NoPhone
    Uses = {"connect"}
    MaxRequests = 1
    QueueCap = 1
    Attempts = 1
    MaxEvents = 0
SPECIFICATION Spec
INVARIANTS CaptureExclusive CreditWindow
CHECK_DEADLOCK FALSE
