CONSTANTS
    MaxStreams = 0
    MaxLimit = 1
    MaxTests = 0
    MaxFaults = 1
    MaxCarPlay = 0
    Phones = {p1}
    NoPhone = NoPhone
    Uses = {"connect", "disconnect", "audio", "dial", "command", "import", "clear"}
    MaxRequests = 3
    QueueCap = 1
    Attempts = 1
    MaxEvents = 1
SPECIFICATION Spec
INVARIANTS CleanExitConfirmed ContactsOfDevice QuitEndsCallAudio
PROPERTIES CallAudioEnds MuteApplies
CHECK_DEADLOCK FALSE
