SPECIFICATION Spec
CONSTANTS
  wlan = wlan
  home = home
  hidden = hidden
  null = null
  addr = addr
  Ifaces <- OneWifi
  Wifi <- OneWifi
  APs <- TwoAPs
  None = null
  Ssid <- Tells
  Addresses <- OneAddress
  Strengths <- WeakOrGood
  MaxChanges = 3
INVARIANTS
  ViewOfDevice
  StrengthExplained
  AddressOfActivation
  ChangeAnnounced
  LineSafe
