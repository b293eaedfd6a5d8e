SPECIFICATION AlgorithmsSpec
CONSTANTS
  Id <- MCId
  Graphs <- MCGraphs
  Text <- MCText
  Setting <- MCSetting
  PieceLimit = 3
  CutFactor = 2
  EmbedBatch = 3
  ApiBatch = 2
INVARIANT OverlapIsText
CHECK_DEADLOCK FALSE
