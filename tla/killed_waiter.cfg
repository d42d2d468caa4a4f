SPECIFICATION Spec
CONSTANTS
  Pcbs = {p1, p2, p3}
  Sems = {s1}
  Units <- Disk
  NULL = NULL
  Calls <- IOKillCalls
  Traps <- NoTraps
  SlowDevices = TRUE
  KernelOverrun = FALSE
  MaxSem = 1
  MinClock <- ClockFloor4
CHECK_DEADLOCK FALSE
PROPERTY InterruptFindsWaiter
