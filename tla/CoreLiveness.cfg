SPECIFICATION FairSpec
CONSTANTS
  N = 3
  Turn <- Turn3
  Signal <- Signal3
  Feed <- Feed3
  Long <- Long3
  IterMax = 2
  IterFold = 1
  MaxVersion = 2
  MaxUserSignals = 1
  StrayHandler = TRUE
PROPERTIES
  Terminates
  SampledIsShown
  PolledCatchesUp
  WakeupRefreshesAll
