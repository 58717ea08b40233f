SPECIFICATION Spec
CONSTANTS
  a = a
  b = b
  null = null
  Sinks <- TwoSinks
  NoSink = null
  Aliases <- NoAliases
  Wanted <- Default
  FirstIndex <- FromZero
  MaxIndex = 2
  MaxLevel = 1
  MaxChanges = 2
  MaxEntries = 3
INVARIANTS
  NeverBehind
  ShownOrRaised
