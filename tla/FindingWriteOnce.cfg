SPECIFICATION Spec
CONSTANTS
  N = 3
  Turn <- Turn3
  Signal <- Signal3
  Feed <- Feed3
  Long <- Long0
  IterMax = 1
  IterFold = 0
  MaxVersion = 2
  MaxUserSignals = 2
  StrayHandler = TRUE
INVARIANT
  WritesOnce
