\* An AND chare that fails below an OR root, on two PEs.
CONSTANTS
  Tree <- KillTree
  Node <- MCNode
  Root <- MCRoot
  Parent <- MCParent
  Kind <- MCKind
  Value <- MCValue
  Work <- MCWork
  timeout = 1
  Trips <- MCTrips
  nodeID <- MCNodeID
  PE = {p1, p2}
SPECIFICATION FairSpec
INVARIANTS
  TypeOK
  RepliesRight
  AccountedFor
  KillOnlyFalsified
  RefusedOnlyDoomed
  PrintedCountsFinal
  WaitHasReason
PROPERTIES
  KeepsPromise
  JobEnds
