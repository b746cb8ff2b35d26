SPECIFICATION FairSpec
CONSTANTS
  p1 = p1
  p2 = p2
  NoSerial = NoSerial
  Phones = {p1}
  StartupBounce = FALSE
  Wireless = TRUE
  MaxEnum = 2
  MaxToggles = 2
  WorkCapacity = 8
  Serial <- NoSerials
INVARIANT ReleasedAfterCleanup
PROPERTY DisableReleases
PROPERTY AccessoryWaitEnds
PROPERTY ConnectingResolves
CHECK_DEADLOCK FALSE
