SPECIFICATION FairSpec
CONSTANTS
  Pcbs = {p1, p2, p3}
  Sems = {s1}
  Units <- DiskAndTerminal
  NULL = NULL
  Calls <- LiveCalls
  Traps <- NoTraps
  SlowDevices = TRUE
  KernelOverrun = FALSE
  MaxSem = 1
  MinClock <- ClockFloor4
CHECK_DEADLOCK FALSE
INVARIANTS
  SemCountsQueue
  WaitIsAnswered
  HandlersReturn
PROPERTIES
  ImplementsSemaphores
  WakeMeansDone
  EveryReadyRuns
  SoftBlockedWakes
