CONSTANTS
  Procs = {p1, p2}
  First = p1
  NSLOT = 2
  NOPEN = 2
  NGEN = 2
  NFILE = 2
  Paths = {"a", "b"}
  Named <- MCNamed
  Blk0 <- MCBlk0
  MAXBLK = 3
  NBLK = 3
  Api = {"open", "close", "dup", "read", "write", "seek", "ftruncate", "fork", "exit", "create", "remove", "sync"}
  MaxOps = 5
  NULL = NULL
SPECIFICATION Spec
INVARIANTS
  TypeOK
  IdDenotesFile
  MappedIsFile
  
