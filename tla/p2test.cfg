SPECIFICATION P2FairSpec
CONSTANTS
  Pcbs = {b1, b2, b3, b4, b5, b6, b7, b8, b9, b10,
          b11, b12, b13, b14, b15, b16, b17, b18, b19, b20}
  term_mut = term_mut
  sArr = sArr
  testsem = testsem
  startp2 = startp2
  endp2 = endp2
  endp3 = endp3
  blkp4 = blkp4
  synp4 = synp4
  endp4 = endp4
  endp5 = endp5
  endp8 = endp8
  endcreate = endcreate
  blkp8 = blkp8
  Sems <- TestSems
  Units <- Terminal0
  NULL = NULL
  Calls <- EveryCall
  Traps <- EveryTrap
  SlowDevices = TRUE
  KernelOverrun = FALSE
  MaxSem = 10
  MinClock <- ClockFloor
  Incarnations = 2
  TicksAfterDeath = FALSE
CHECK_DEADLOCK FALSE
INVARIANTS
  
  TerminalExclusive
  P4Gone
  NobodyForgotten
  TreeConsistent
  KillFrames

  
