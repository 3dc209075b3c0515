SPECIFICATION FairSpec
CONSTANTS
  MaxThreads = 2
  MaxPids = 2
  MAX_QUANTUM = 2
  USize = 1
  ProcessShapes <- KernelShape
  ThreadPriorities = {}
  SetPriorities = {}
  TerminateFrom = {}
  HasDispatcher = TRUE
PROPERTY RoundRobin
