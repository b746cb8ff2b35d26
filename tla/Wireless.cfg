SPECIFICATION Spec
CONSTANTS
  wlan0 = wlan0
  wlan1 = wlan1
  NoInterface = NoInterface
  Interfaces = {wlan0}
  QueueCapacity = 1
  MaxRequests = 2
  MaxQuits = 1
  MaxClients = 1
INVARIANT ResourcesUnderLease
INVARIANT RetryAfterCleanup
INVARIANT GuardRecorded
INVARIANT QuitConfirmed
CHECK_DEADLOCK FALSE
