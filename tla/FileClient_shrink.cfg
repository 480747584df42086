CONSTANTS
  Procs = {p1}
  First = p1
  NSLOT = 3
  NOPEN = 2
  NGEN = 2
  NFILE = 1
  Paths = {"a"}
  Named <- MCNamed
  Blk0 <- MCBlk0
  MAXBLK = 3
  NBLK = 3
  Api = {"open", "write"}
  MaxOps = 8
  NULL = NULL
SPECIFICATION Spec
PROPERTY
  WriteNeverShrinks
