SPECIFICATION RwFairSpec
CONSTANTS
  Threads = {t1, t2}
  USize = 4
CHECK_DEADLOCK FALSE
PROPERTY WriteEndsItsWait
