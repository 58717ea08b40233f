SPECIFICATION FairSpec
CONSTANTS
  a = a
  b = b
  null = null
  Sinks <- TwoSinks
  NoSink = null
  Aliases <- NoAliases
  Wanted <- Both
  FirstIndex <- FromOne
  MaxIndex = 2
  MaxLevel = 0
  MaxChanges = 1
  MaxEntries = 2
INVARIANTS
  TypeOK
  ShowsDefault
  BoundToItsSink
  ShownStaysSafe
PROPERTIES
  InitReturns
  DefaultFollowed
