SPECIFICATION FairSpec
CONSTANTS
  wlan0 = wlan0
  wlan1 = wlan1
  null = null
  home = home
  Ifaces <- TwoIfaces
  None = null
  Ssids <- OneSsid
  Signals <- FarAndNear
  MaxStations = 2
  MaxIndex = 3
  MaxChanges = 2
  MaxFaults = 1
  MaxLeft = 1
INVARIANTS
  NothingLeftOver
  AnswersAsked
PROPERTIES
  CallsReturn
