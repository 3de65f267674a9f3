\* Every graph on five vertices beside three isolated ones, and one on eight, one
\* to four colours.
CONSTANTS
  vertices_ = 8
  Draws <- LocalDraws
  Files <- LocalFiles
  ColorNums = {1, 2, 3, 4}
  PopsFirst <- HeapTies
  timeout = 1
  init_s = 3
SPECIFICATION FairSpec
INVARIANTS
  TypeOK
  GraphRead
  EstimateSuffices
  AnswerProper
  NeverTrips
  CountsExact
  StackKeepsSolution
PROPERTIES
  KeepsPromise
  Answers
\* An answered chare does nothing more.
CHECK_DEADLOCK FALSE
