SPECIFICATION MachineSpec
CONSTANTS
  Readers = {r1, r2}
  BUFFER_SIZE = 3
  Modifiers = {"LSHIFT", "RSHIFT", "CAPSLOCK"}
  Keys = {"letter", "silent"}
  Resetters = {r1, r2}
  BYTE = 4
  INT = 8
  Motions <- SmallMotions
  Holds = {{}, {"left", "middle"}}
  Width = 9
  Height = 7
  U32 = 96
  CharWidth = 2
  CharHeight = 2
  Coords = {0, 2, 4, 8}
  Sizes = {0, 1, 4}
  Radii = {0, 1, 2, 3, 4, 5}
  MaxDraws = 1
  MaxChars = 6
  ThreadsRun = TRUE
  Remapped = TRUE
  EnableWindow = TRUE
  Plugged = {0, 1, 12}
  MESSAGE = 2
  Usable <- UsableFromZero
  MAX_PAGES = 7
  HEAP_START = 1
  STACK_END = 7
  STACK_PAGES = 2
  Levels = 2
  TableSize = 2
  KernelPages = {0}
  MapPages = {3}
  MapFrames = {7}
  MapFlags <- SmallFlags
  MaxRequest = 3
  LastPage = 7
CHECK_DEADLOCK FALSE
INVARIANTS KeysInOrder CharAsTyped PositionIsSum PaintedExactly
INVARIANTS FreeCountExact SearchIsFirstFit FramesExclusive LeakOnlyOnFailure AccessSound
PROPERTIES MessagesWhole TimerServed
