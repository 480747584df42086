SPECIFICATION FairSpec
CONSTANTS
  Proc = {p1, p2, p3}
  p1 = p1
  p2 = p2
  p3 = p3
  NSLOT = 2
  BY2PIPE = 2
  MaxByte = 4
  Chunk = {1, 3}
  Reader = {p2}
  Writer = {p1}
  Start <- MCPair
  Api = {"close", "fork", "exit"}
  NULL = NULL
INVARIANTS
  Fifo
  

  
