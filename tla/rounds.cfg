\* Every two of four vertices are adjacent, and the file states no degree.
CONSTANTS
  V = 4
  npes = 2
  Graphs <- CompleteOnly
  MaxDegrees <- NoDegree
  Weight = {0, 1, 2, 3}
SPECIFICATION FairSpec
INVARIANTS
  RoundsSuffice
