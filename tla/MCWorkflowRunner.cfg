SPECIFICATION FairSpec
CONSTANTS
  Node <- MCNode
  Graphs <- MCGraphs
  Canceller = {c1}
  MaxDbErrors = 1
  MayCrash = TRUE
INVARIANTS
  CompletedIsWhole
  OwnConditionPicksEdge
  StragglersComeFromForks
PROPERTIES
  ImplementsContract
  RunEnds
\* A run ends: when it is over and every cancellation is answered.
CHECK_DEADLOCK FALSE
