SPECIFICATION FairSpec
CONSTANTS
  wlan0 = wlan0
  wlan1 = wlan1
  NoInterface = NoInterface
  Interfaces = {wlan0}
  QueueCapacity = 1
  MaxRequests = 1
  MaxQuits = 1
  MaxClients = 2
PROPERTY CancelReleases
PROPERTY QuitAnswered
PROPERTY CloseReleases
CHECK_DEADLOCK FALSE
