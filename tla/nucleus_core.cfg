SPECIFICATION Spec
CONSTANTS
  Pcbs = {p1, p2, p3}
  Sems = {s1}
  Units <- Transmitter
  NULL = NULL
  Calls <- EveryCall
  Traps <- PgmVector
  SlowDevices = FALSE
  KernelOverrun = TRUE
  MaxSem = 1
  MinClock <- ClockFloor4
SYMMETRY PcbSymmetry
CHECK_DEADLOCK FALSE
INVARIANTS
  TypeOK
  CountAccurate
  OnePlace
  CurrentApart
  FreeClean
  PanicSound
  IOWaitersPending
  WaitFlagRight
