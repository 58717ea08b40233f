SPECIFICATION FairSpec
CONSTANTS
  intel = intel
  kbd = kbd
  gone = gone
  null = null
  head = head
  Devices <- TwoDevices
  Wanted <- WithMissing
  None = null
  Top = head
  MaxLevel = 1
  MaxChanges = 3
INVARIANTS
  WalkFindsLinked
  NeverBehindOnceMet
  ShownOrRaised
  QueueReady
PROPERTIES
  MetCatchesUp
