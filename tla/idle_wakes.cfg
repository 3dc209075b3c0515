SPECIFICATION IrqSpec
CONSTANTS
  ThreadsRun = FALSE
  Remapped = TRUE
  EnableWindow = TRUE
  Plugged = {0}
  MESSAGE = 2
CHECK_DEADLOCK FALSE
PROPERTY IdleWakes
