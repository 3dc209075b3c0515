SPECIFICATION KernelSpec
CONSTANTS
  Cpu = {c1, c2}
  NumMutexes = 2
  MaxNest = 2
  AnyDropOrder = FALSE
  Threads = {t1, t2, t3}
  USize = 4
  Initial = 1
  MaxSignals = 1
  MaxRounds = 5
  Notifiers = {n1, n2}
  MaxNotifies = 3
  NotifyAlls = TRUE
  Callers = {c1, c2}
  MAX_OPEN_FILES = 6
  MaxOpens = 8
  Paths = {"/bin/", "/bin/zds"}
  Directories = {"/bin/"}
  Modes = {{"read"}, {"write"}}
  Points = {"/", "/home", "/tmp"}
  BootMounts <- BootMountPoints
  MaxMounts = 5
  NoFile = NoFile
  MaxSockets = 3
  MaxSent = 1
  Addrs = {a1}
  NoAddr = NoAddr
  NoSocket = NoSocket
  MaxFrame = 35
  TABLE_SIZE = 256
  U64_MAX = 1000
  Args = {0, 1000}
  Processes = {p1, p2}
CHECK_DEADLOCK FALSE
INVARIANTS MutualExclusion NoSelfDeadlock InterruptsRestored
INVARIANTS SpinExclusion PermitsConserved ReadersCounted WriterExclusion BarrierHolds OneLeader
INVARIANTS AccessAsOpened OnlyTruncatedHeaderPanics TableAgrees
PROPERTIES LockProgress PermitTaken NoEntryWhileWriting WaitReturns
PROPERTIES SpuriousOnlyAfterUnderflow ClearedCounterWakes
PROPERTIES VfsRefinement NetRefinement
