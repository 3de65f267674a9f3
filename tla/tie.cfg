\* A path of four vertices on two processes, with weights that may be equal.
CONSTANTS
  V = 4
  npes = 2
  Graphs <- PathOnly
  MaxDegrees <- NoDegree
  Weight = {0, 1}
SPECIFICATION FairSpec
INVARIANTS
  EveryRoundColors
