SPECIFICATION TimedSpec
CONSTANTS
  Pcbs = {p1, p2}
  Sems = {}
  Units <- NoUnits
  NULL = NULL
  Calls <- OnlySYS1
  Traps <- NoTraps
  SlowDevices = TRUE
  KernelOverrun = FALSE
  MaxSem = 0
  MinClock <- ClockFloor
  Half = 3
  TimeScale = 1
  MaxBurst = 2
  MaxCharge = 2
  Horizon = 4
CHECK_DEADLOCK FALSE
INVARIANT NotMoreThanReal
