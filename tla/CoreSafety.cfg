SPECIFICATION Spec
CONSTANTS
  N = 4
  Turn <- Turn4
  Signal <- Signal4
  Feed <- Feed4
  Long <- Long4
  IterMax = 1
  IterFold = 0
  MaxVersion = 2
  MaxUserSignals = 2
  StrayHandler = TRUE
INVARIANTS
  NothingUnsampledShown
  OneLateWrite
PROPERTIES
  LostOnlyByCollision
  BarSpec
