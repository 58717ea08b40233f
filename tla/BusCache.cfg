SPECIFICATION FairSpec
CONSTANTS
  BAT0 = BAT0
  wwan0 = wwan0
  null = null
  due = due
  Batteries <- OneBattery
  Modems <- OneModem
  None = null
  Due = due
  Levels <- LowAndHigh
  Misread <- HalfAnAddress
  Profiles <- TwoProfiles
  MaxChanges = 2
INVARIANTS
  CacheFollows
  ProfileFollows
  ChangeAnnounced
PROPERTIES
  CatchesUp
