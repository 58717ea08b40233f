SPECIFICATION Spec
CONSTANTS
  wlan0 = wlan0
  eth0 = eth0
  left = left
  right = right
  null = null
  Ifaces <- TwoIfaces
  Directions <- OneWay
  Addrs <- TwoAddrs
  None = null
  Wrap = 4
  MaxVal = 2
  MaxEvents = 3
  Interval = 3
  Thousand = 2
  Million = 2
  MaxTime = 14
INVARIANTS
  Conserved
  PercentInRange
  VolumeIsServers
  CrashOnlyByOthers
  ValidSleep
  Punctual
