SPECIFICATION Spec
CONSTANTS
  Proc = {p1, p2}
  p1 = p1
  p2 = p2
  p3 = p3
  NSLOT = 3
  BY2PIPE = 1
  MaxByte = 0
  Chunk = {1}
  Reader = {}
  Writer = {}
  Start <- MCRace
  Api = {"close", "dup", "exit", "test"}
  NULL = NULL
INVARIANTS
  ClosedUnlessTorn
  RefsAgree
