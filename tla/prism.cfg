CONSTANTS
  Graph <- Prism
  vertices_ <- MCVertices
  adjList_ <- MCAdjList
  chromaticNum_ = 3
  PopsFirst <- OldestFirst
  grainSize = 3
  baseline = FALSE
  doSubgraph = TRUE
  timeout = 1
  MaxWork = 2
  chares <- SearchChares
  PE = {p1}
SPECIFICATION Spec
INVARIANTS
  AssertionsHold
  NoForcedMoveLeft
  RepliesProper
  VerdictExact
