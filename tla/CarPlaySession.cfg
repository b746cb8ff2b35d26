SPECIFICATION FairSpec
CONSTANTS
  p1 = p1
  p2 = p2
  Pointers = {p1, p2}
  HasAudio = TRUE
  CommandCap = 2
  EventCap = 1
  QueueLimit = 1
  MaxInputs = 4
  MaxFrames = 3
  UsbLease = FALSE
  MaxRequests = 0
  MaxFaults = 0
INVARIANT NoStuckTouch
INVARIANT VideoContinuous
PROPERTY ReportsDelivered
PROPERTY HiddenReleases
CHECK_DEADLOCK FALSE
