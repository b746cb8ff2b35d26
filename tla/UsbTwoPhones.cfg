SPECIFICATION Spec
CONSTANTS
  p1 = p1
  p2 = p2
  NoSerial = NoSerial
  Phones = {p1, p2}
  StartupBounce = FALSE
  Wireless = FALSE
  MaxEnum = 3
  MaxToggles = 0
  WorkCapacity = 2
  Serial <- NoSerials
INVARIANT LiveSessionOwned
INVARIANT SessionIdOwn
PROPERTY NoSecondAttempt
PROPERTY FailsOnlyByOwnSession
CHECK_DEADLOCK FALSE
SYMMETRY PhoneSymmetry
