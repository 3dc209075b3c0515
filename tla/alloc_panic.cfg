SPECIFICATION Spec
CONSTANTS
  Usable <- UsableFromZero
  MAX_PAGES = 7
  HEAP_START = 1
  STACK_END = 7
  STACK_PAGES = 2
  Levels = 2
  TableSize = 2
  KernelPages = {0}
  MapPages = {3}
  MapFrames = {7}
  MapFlags <- SmallFlags
  MaxRequest = 3
  LastPage = 7
CHECK_DEADLOCK FALSE
INVARIANT NoPanic
