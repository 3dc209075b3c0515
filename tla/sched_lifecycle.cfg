SPECIFICATION FairSpec
CONSTANTS
  MaxThreads = 3
  MaxPids = 2
  MAX_QUANTUM = 2
  USize = 1
  ProcessShapes <- SmallShapes
  ThreadPriorities = {"RealTime", "Normal"}
  SetPriorities = {}
  TerminateFrom = {"Running", "Blocked", "Terminated"}
  HasDispatcher = TRUE
PROPERTIES LifecycleRefinement PriorityOrder BlockedYields
