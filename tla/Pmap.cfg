SPECIFICATION Spec
CONSTANTS
  Env = {e1, e2}
  Page = {b0, b1, p1, p2, p3, p4}
  va0 = va0
  va1 = va1
  va2 = va2
  t2 = t2
  t3a = t3a
  t3b = t3b
  b0 = b0
  b1 = b1
  DIR = DIR
  NULL = NULL
  MaxLost = 1
  VA0 <- va0
  VA <- MCVA
  Table <- MCTable
  tab2 <- MCtab2
  tab3 <- MCtab3
  LowVA <- MCLowVA
  low <- MClow
  bootRef <- MCbootRef
  bootUsed <- MCbootUsed
SYMMETRY MCSymmetry
INVARIANTS
  TypeOK
  RefExact
  MappedIsUsed
  TablePrivate
  TreeOK
PROPERTIES
  LostOnlyWithoutMemory
  GivenBackOnce
