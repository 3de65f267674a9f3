CONSTANTS
  Graph <- Squares
  vertices_ <- MCVertices
  adjList_ <- MCAdjList
  chromaticNum_ = 2
  PopsFirst <- OldestFirst
  grainSize = 1
  baseline = FALSE
  doSubgraph = TRUE
  timeout = 1
  MaxWork = 1
  chares <- SearchChares
  PE = {p1}
SPECIFICATION FairSpec
INVARIANTS
  UncoloredCountExact
  AssertionsHold
  RepliesProper
PROPERTY JobEnds
