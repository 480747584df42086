SPECIFICATION Spec
CONSTANTS
  NWORD = 3
  WORD = 8
  INT = 4
  Reserved <- MCReserved
INVARIANTS
  LowServed
PROPERTIES
  NoDoubleAlloc
