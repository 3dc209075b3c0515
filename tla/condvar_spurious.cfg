SPECIFICATION CvSpec
CONSTANTS
  Threads = {w1, w2}
  Notifiers = {n1, n2}
  MaxNotifies = 2
  NotifyAlls = FALSE
  USize = 4
CHECK_DEADLOCK FALSE
PROPERTY NoSpuriousReturn
