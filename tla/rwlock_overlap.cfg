SPECIFICATION RwSpec
CONSTANTS
  Threads = {t1, t2}
  USize = 4
CHECK_DEADLOCK FALSE
INVARIANT ReaderWriterExclusion
