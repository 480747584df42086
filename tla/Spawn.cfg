CONSTANTS
  PG = 24
  W = 4
  Top = 240
  NLIB = 2
  Images <- MCImages
  Argvs <- MCArgvs
SPECIFICATION Spec
INVARIANTS
  LoadedWhole
  ArgsArrive
  OwnTrapframe
PROPERTY
  SpawnEnds
