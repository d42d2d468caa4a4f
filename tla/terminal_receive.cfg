SPECIFICATION Spec
CONSTANTS
  Pcbs = {p1, p2}
  Sems = {}
  Units <- Terminal
  NULL = NULL
  Calls <- IOCalls
  Traps <- NoTraps
  SlowDevices = TRUE
  KernelOverrun = FALSE
  MaxSem = 0
  MinClock <- ClockFloor4
CHECK_DEADLOCK FALSE
PROPERTY WakeMeansDone
