SPECIFICATION CvFairSpec
CONSTANTS
  Threads = {w1, w2}
  Notifiers = {n1}
  MaxNotifies = 1
  NotifyAlls = FALSE
  USize = 4
CHECK_DEADLOCK FALSE
PROPERTY NotifyOneWakes
