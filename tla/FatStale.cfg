CONSTANTS
  Volumes = {v1}
  Inodes = {i1, i2}
  Dirs = {}
  AlreadyThere <- Empty
  VolumeOf <- OneVolume
  LastOf <- FiveClusters
  Cells = {c1, c2, c3}
  NULL = NULL
  UseFree = {}
  MaxOpens = 1
  GrowsClosed = FALSE
  Remounts = {}
  GoesOn = TRUE
  MaxFailures = 0
SPECIFICATION EverybodySpec
SYMMETRY Alike
INVARIANT AllocatedIsFree
CHECK_DEADLOCK FALSE
