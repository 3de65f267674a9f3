\* Five vertices on three processes, with and without equal weights.
CONSTANTS
  V = 5
  npes = 3
  Graphs <- KiteOnly
  MaxDegrees <- FileDegrees
  Weight = {0, 1, 2, 3}
SPECIFICATION FairSpec
INVARIANTS
  TypeOK
  ViewsProper
  ViewsAgree
  OwnWorkKept
  ColoredOnTime
PROPERTIES
  KeepsPromise
  AllFinish
