SPECIFICATION Spec
CONSTANTS
  NBLOCK = 7
  Reserved <- MCReserved
  NDIRECT = 1
  MaxSize = 3
  FILE2BLK = 1
  MaxDir = 2
  ROOT = ROOT
  Name = {n1, n2}
  n1 = n1
  n2 = n2
  words0 <- MCwords0
  size0 <- MCsize0
  name0 <- MCname0
  free0 <- MCfree0
  NULL = NULL
  Olds <- MCOlds
INVARIANTS
  TypeOK
  ExclusiveUnlessStale
PROPERTIES
  LostOnlyByTruncate
