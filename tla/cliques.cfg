CONSTANTS
  Graph <- SquareAndCliques
  vertices_ <- MCVertices
  adjList_ <- MCAdjList
  chromaticNum_ = 2
  PopsFirst <- YoungestFirst
  grainSize = 1
  baseline = FALSE
  doSubgraph = TRUE
  timeout = 1
  MaxWork = 1
  chares <- SearchChares
  PE = {p1}
SPECIFICATION Spec
INVARIANTS
  RepliesExact
  MergesFit
  WaitHasReason
