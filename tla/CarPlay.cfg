SPECIFICATION FairSpec
CONSTANTS
  p1 = p1
  p2 = p2
  Pointers = {p1}
  HasAudio = FALSE
  CommandCap = 1
  EventCap = 1
  QueueLimit = 1
  MaxInputs = 1
  MaxFrames = 0
  UsbLease = TRUE
  MaxRequests = 2
  MaxFaults = 1
INVARIANT LeaseCoversSession
PROPERTY DisconnectEnds
CHECK_DEADLOCK FALSE
