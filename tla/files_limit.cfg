SPECIFICATION VfsSpec
CONSTANTS
  Callers = {c1}
  MAX_OPEN_FILES = 5
  MaxOpens = 6
  Paths = {"/bin/zds"}
  Directories = {}
  Modes = {{"read"}}
  Points = {"/", "/home", "/tmp"}
  BootMounts <- BootMountPoints
  MaxMounts = 3
  NoFile = NoFile
CHECK_DEADLOCK FALSE
PROPERTY RefusedOnlyWhenFull
