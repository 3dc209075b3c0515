SPECIFICATION Spec
CONSTANTS
  MaxThreads = 3
  MaxPids = 2
  MAX_QUANTUM = 2
  USize = 1
  ProcessShapes <- SmallShapes
  ThreadPriorities = {"RealTime", "Normal"}
  SetPriorities = {"RealTime", "Normal"}
  TerminateFrom = {"Ready", "Running", "Blocked", "Terminated"}
  HasDispatcher = TRUE
INVARIANTS SingleRunning QueuedOnce QueuedRunnable ReadyIsQueued
