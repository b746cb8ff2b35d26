SPECIFICATION Spec
CONSTANTS
  p1 = p1
  p2 = p2
  NoSerial = NoSerial
  Phones = {p1, p2}
  StartupBounce = FALSE
  Wireless = TRUE
  MaxEnum = 3
  MaxToggles = 0
  WorkCapacity = 8
  Serial <- OwnSerials
INVARIANT ReleasedAfterCleanup
CHECK_DEADLOCK FALSE
