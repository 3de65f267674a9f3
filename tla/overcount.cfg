CONSTANTS
  Graph <- DiamondAndK33
  vertices_ <- MCVertices
  adjList_ <- MCAdjList
  chromaticNum_ = 3
  PopsFirst <- OldestFirst
  grainSize = 1
  baseline = FALSE
  doSubgraph = TRUE
  timeout = 1
  MaxWork = 1
  chares <- SearchChares
  PE = {p1}
SPECIFICATION Spec
INVARIANT AssertionsHold
