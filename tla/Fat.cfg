CONSTANTS
  Volumes = {v1}
  Inodes = {i1, i2, d1}
  Dirs = {d1}
  AlreadyThere <- EmptyOrSplit
  VolumeOf <- OneVolume
  LastOf <- FiveClusters
  Cells = {c1, c2, c3}
  NULL = NULL
  UseFree = {}
  MaxOpens = 1
  GrowsClosed = FALSE
  Remounts = {v1}
  GoesOn = FALSE
  MaxFailures = 1
SPECIFICATION FatMCSpec
SYMMETRY Alike
INVARIANTS  FilesGrowInPlace
CHECK_DEADLOCK FALSE
