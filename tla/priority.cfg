\* Words of four bits, at most six children, three levels.
CONSTANTS
  CkIntbits = 4
  UShortRange = 16
  KidCounts <- FewKids
  MaxDepth = 3
SPECIFICATION Spec
INVARIANTS
  TypeOK
  PathEncoded
  TreeOrder
\* The tree ends at MaxDepth.
CHECK_DEADLOCK FALSE
