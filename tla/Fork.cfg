CONSTANTS
  Procs = {p1, p2, p3}
  Root = p1
  NVA = 3
  Stack = 1
  Lib = {2}
  Xst = 3
  NPAGE = 6
  Vals = {0, 1}
SPECIFICATION Spec
SYMMETRY Symm
VIEW View
INVARIANTS
  TypeOK
  Isolated
  OneWriter
  FaultsHandled
  LibraryShared
