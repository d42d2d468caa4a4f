SPECIFICATION TimedSpec
CONSTANTS
  Pcbs = {p1, p2}
  Sems = {s1}
  Units <- Transmitter
  NULL = NULL
  Calls <- EveryCall
  Traps <- PgmVector
  SlowDevices = TRUE
  KernelOverrun = TRUE
  MaxSem = 0
  MinClock <- ClockFloor
  Half = 3
  TimeScale = 1
  MaxBurst = 2
  MaxCharge = 2
  Horizon = 4
SYMMETRY PcbSymmetry
CHECK_DEADLOCK FALSE
INVARIANT NeverUndercharged
PROPERTY WaitUnattributed
