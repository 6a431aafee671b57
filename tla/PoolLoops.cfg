SPECIFICATION FairSpec
CONSTANTS
  Workers = {w1, w2}
  Main = main
  Outer = {g1}
  Inner = {g2}
  Background = {g3}
  NoGroup = NoGroup
  Loops <- TwoSteps
  Nested = {1}
  Torn = FALSE
  MaxCalls = 2
INVARIANTS
  TypeOK
  LoopsAreComplete
PROPERTY
  CallsReturn
CHECK_DEADLOCK FALSE
