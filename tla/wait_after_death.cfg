SPECIFICATION Spec
CONSTANTS
  Pcbs = {p1, p2}
  Sems = {}
  Units <- NoUnits
  NULL = NULL
  Calls <- ClockKillCalls
  Traps <- NoTraps
  SlowDevices = TRUE
  KernelOverrun = FALSE
  MaxSem = 0
  MinClock <- ClockFloor4
CHECK_DEADLOCK FALSE
PROPERTY WaitEndsInDispatch
