CONSTANTS
  Graph <- Edge
  vertices_ <- MCVertices
  adjList_ <- MCAdjList
  chromaticNum_ = 1
  PopsFirst <- OldestFirst
  grainSize = 1
  baseline = FALSE
  doSubgraph = TRUE
  timeout = 1
  MaxWork = 1
  chares <- SearchChares
  PE = {p1}
SPECIFICATION FairSpec
PROPERTY JobEnds
\* The root waits for ever for a child it never created: that is the point.
CHECK_DEADLOCK FALSE
