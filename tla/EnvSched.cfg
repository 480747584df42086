SPECIFICATION Spec
CONSTANTS
  NENV = 3
  IdLimit = 8
  MaxId = 3
  Boot <- MCBoot
  Value = {v1}
  Lib = TRUE
  Api = {"env", "ipc"}
  Waits = {}
  NULL = NULL
INVARIANTS
  TypeOK
  SchedPartition
  FreeListExact
  NeverCorrupt
  NoPrematureStart
  MsgIntact
  PanicOnlyWhenGone
