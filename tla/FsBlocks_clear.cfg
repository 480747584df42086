SPECIFICATION Spec
CONSTANTS
  NBLOCK = 7
  Reserved <- MCReserved
  NDIRECT = 3
  MaxSize = 4
  FILE2BLK = 2
  MaxDir = 1
  ROOT = ROOT
  Name = {n1, n2}
  n1 = n1
  n2 = n2
  words0 <- MCwords3
  size0 <- MCsize3
  name0 <- MCname0
  free0 = {}
  NULL = NULL
  Olds = {}
INVARIANTS
  ClearsSilently
