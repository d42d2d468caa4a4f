--------------------------- MODULE CpuTimeProofs ----------------------------
(***************************************************************************)
(* No CPU time gets lost when a microsecond is one tick of the clock       *)
(* (TimeScale = 1).  With a faster clock the difference of two readings    *)
(* does not wrap as the clock does, and the claim fails.                   *)
(***************************************************************************)
EXTENDS CpuTime, NucleusProofs

CpuT == -Half..(Half - 1)

(* The interval of a current process that is alive began at time.          *)
TimeInv ==
  /\ tod \in CpuT /\ time \in CpuT
  /\ since \in 0..MaxBurst
  /\ p_time \in [Pcbs -> Int] /\ used \in [Pcbs -> Int]
  /\ currentProcess \in Live => Wrap(tod - time) = since
  /\ NeverUndercharged

(* On such a clock STCK reads the low word itself.                         *)
LEMMA ReadingIsTod ==
  ASSUME TimeScale = 1, tod \in Int
  PROVE  STCK = tod
BY DEF STCK, Truncate

(* Elapsed is what the running process has not been charged for.           *)
LEMMA ElapsedIsSince ==
  ASSUME TimeScale = 1, TimeInv, currentProcess \in Live
  PROVE  Elapsed = since
BY ReadingIsTod, TimeAssumption DEF Elapsed, TimeInv, CpuT

(* A handler that leaves the time alone and goes back to the process that  *)
(* it found, which it may have charged without restarting its interval.    *)
LEMMA KeepsRunning ==
  ASSUME TimeInv, UNCHANGED <<tod, time, since, used, currentProcess>>,
         Live' \subseteq Live, p_time' \in [Pcbs -> Int],
         \A p \in Live' : p_time'[p] >= p_time[p]
  PROVE  TimeInv'
<1> SUFFICES NeverUndercharged'
  BY DEF TimeInv
<1> SUFFICES ASSUME NEW p \in Live'
             PROVE  p_time'[p] + (IF p = currentProcess THEN since ELSE 0) >= used[p]
  BY DEF NeverUndercharged
<1>1. p \in Live /\ p \in Pcbs
  BY DEF Live
<1>2. p_time[p] + (IF p = currentProcess THEN since ELSE 0) >= used[p]
  BY <1>1 DEF TimeInv, NeverUndercharged
<1>3. p_time[p] \in Int /\ p_time'[p] \in Int /\ used[p] \in Int /\ since \in Int
  BY <1>1, TimeAssumption DEF TimeInv
<1> QED
  BY <1>1, <1>2, <1>3

(* A handler that charges the current process, if it is alive, and reads   *)
(* the clock again if it leaves somebody running.                          *)
LEMMA ChargesAndRestarts ==
  ASSUME TimeScale = 1, TimeInv, UNCHANGED <<tod, used>>, Restart,
         Live' \subseteq Live, p_time' \in [Pcbs -> Int],
         currentProcess' \in Live' => cpu' = "user" \/ currentProcess' = currentProcess,
         \A p \in Live' : p_time'[p] >= p_time[p] + (IF p = currentProcess THEN Elapsed ELSE 0)
  PROVE  TimeInv'
<1>1. CASE cpu' = "user"
  <2>1. time' = tod /\ since' = 0
    BY <1>1, ReadingIsTod DEF Restart, TimeInv, CpuT
  <2>2. Wrap(tod' - time') = since'
    BY <2>1, TimeAssumption DEF TimeInv, CpuT, Wrap
  <2>3. NeverUndercharged'
    <3> SUFFICES ASSUME NEW p \in Live' PROVE p_time'[p] + 0 >= used[p]
      BY <2>1 DEF NeverUndercharged
    <3>1. p \in Live /\ p \in Pcbs
      BY DEF Live
    <3>2. p_time[p] + (IF p = currentProcess THEN since ELSE 0) >= used[p]
      BY <3>1 DEF TimeInv, NeverUndercharged
    <3>3. p_time'[p] >= p_time[p] + (IF p = currentProcess THEN since ELSE 0)
      BY <3>1, ElapsedIsSince
    <3>4. p_time[p] \in Int /\ p_time'[p] \in Int /\ used[p] \in Int /\ since \in Int
      BY <3>1, TimeAssumption DEF TimeInv
    <3> QED
      BY <3>2, <3>3, <3>4
  <2> QED
    BY <2>1, <2>2, <2>3, TimeAssumption DEF TimeInv
<1>2. CASE cpu' # "user"
  <2>1. UNCHANGED <<time, since>>
    BY <1>2 DEF Restart
  <2>2. currentProcess' \in Live' => currentProcess' = currentProcess /\ currentProcess \in Live
    BY <1>2
  <2>3. NeverUndercharged'
    <3> SUFFICES ASSUME NEW p \in Live'
                 PROVE  p_time'[p] + (IF p = currentProcess' THEN since ELSE 0) >= used[p]
      BY <2>1 DEF NeverUndercharged
    <3>1. p \in Live /\ p \in Pcbs
      BY DEF Live
    <3>2. p_time[p] + (IF p = currentProcess THEN since ELSE 0) >= used[p]
      BY <3>1 DEF TimeInv, NeverUndercharged
    <3>3. p_time'[p] >= p_time[p] + (IF p = currentProcess THEN since ELSE 0)
      BY <3>1, ElapsedIsSince
    <3>4. p_time[p] \in Int /\ p_time'[p] \in Int /\ used[p] \in Int /\ since \in Nat
      BY <3>1, TimeAssumption DEF TimeInv
    <3> QED
      BY <3>2, <3>3, <3>4
  <2> QED
    BY <2>1, <2>2, <2>3 DEF TimeInv
<1> QED
  BY <1>1, <1>2

-----------------------------------------------------------------------------
(* What charging does to p_time: the interval is never negative.           *)
LEMMA ChargeAdds ==
  ASSUME TimeScale = 1, TimeInv, currentProcess \in Pcbs, Charge(currentProcess)
  PROVE  /\ p_time' \in [Pcbs -> Int]
         /\ \A p \in Pcbs : p_time'[p] = p_time[p] + (IF p = currentProcess THEN Elapsed ELSE 0)
         /\ Elapsed \in Int
         /\ currentProcess \in Live => Elapsed >= 0
<1>1. Elapsed \in Int
  BY ReadingIsTod, TimeAssumption DEF Elapsed, Wrap, TimeInv, CpuT
<1>2. currentProcess \in Live => Elapsed >= 0
  BY ElapsedIsSince, TimeAssumption DEF TimeInv
<1> QED
  BY <1>1, <1>2 DEF Charge, TimeInv

(* SYS4, SYS7 and SYS8: the process is charged and gives the CPU up, or    *)
(* goes on.                                                                *)
LEMMA BlockKeepsTime ==
  ASSUME TimeScale = 1, TimeInv, IInv, NEW s \in AllSems, NEW e, P(s, e),
         cpu = "user", UNCHANGED pcbFree, TimedBlock(s)
  PROVE  TimeInv'
<1>1. currentProcess \in Live /\ currentProcess \in Pcbs
  BY UserIsLive DEF Live
<1>2. Live' = Live
  BY DEF Live
<1>3. UNCHANGED <<tod, used>>
  BY DEF TimedBlock
<1>4. CASE semVal'[s] < 0
  <2>1. Charge(currentProcess) /\ Restart
    BY <1>4 DEF TimedBlock
  <2>2. currentProcess' \in Live' => cpu' = "user"
    BY <1>4, NullApart DEF P, Block, Scheduler, Live
  <2> QED
    BY <1>1, <1>2, <1>3, <2>1, <2>2, ChargeAdds, ChargesAndRestarts DEF Live, TimeInv
<1>5. CASE ~(semVal'[s] < 0)
  <2>1. UNCHANGED <<currentProcess, p_time, time, since>>
    BY <1>5 DEF P, TimedBlock
  <2> QED
    BY <1>2, <1>3, <2>1, KeepsRunning DEF TimeInv, Live
<1> QED
  BY <1>4, <1>5

LEMMA PassingKeepsTime ==
  ASSUME TimeScale = 1, TimeInv, IInv, TimedPassing
  PROVE  TimeInv'
<1>1. CASE \E s \in Sems : Passeren(s) /\ TimedBlock(s)
  BY <1>1, BlockKeepsTime DEF Passeren, Running, procVars, AllSems
<1>2. CASE WaitForClock /\ TimedBlock(Clock)
  BY <1>2, BlockKeepsTime DEF WaitForClock, Running, procVars, AllSems, DevSems
<1>3. CASE WaitForIODevice /\ TimedBlock(op[currentProcess])
  <2>1. op[currentProcess] \in AllSems
    BY <1>3, UserIsLive DEF WaitForIODevice, Running, AllSems, DevSems, IInv, TypeOK, Live
  <2> QED
    BY <1>3, <2>1, BlockKeepsTime DEF WaitForIODevice, Running, procVars
<1> QED
  BY <1>1, <1>2, <1>3 DEF TimedPassing

(* A new process starts with nothing used and nothing charged.             *)
LEMMA CreateKeepsTime ==
  ASSUME TimeInv, IInv, TimedCreate
  PROVE  TimeInv'
<1>1. PICK p \in Pcbs :
        /\ CreateProcess(p)
        /\ p_time' = [p_time EXCEPT ![p] = 0]
        /\ used' = [used EXCEPT ![p] = 0]
        /\ UNCHANGED <<tod, time, now, since>>
  BY DEF TimedCreate
<1>2. currentProcess' = currentProcess /\ currentProcess \in Live /\ p \notin Live
  BY <1>1, UserIsLive DEF CreateProcess, Running, Live
<1>3. Live' = Live \cup {p}
  BY <1>1 DEF CreateProcess, Live
<1> QED
  BY <1>1, <1>2, <1>3, TimeAssumption DEF TimeInv, NeverUndercharged, Live

LEMMA UntimedKeepsTime ==
  ASSUME TimeInv, Untimed, currentProcess' = currentProcess, Live' \subseteq Live
  PROVE  TimeInv'
BY KeepsRunning DEF Untimed, timeVars, TimeInv, Live

LEMMA OtherKeepsTime ==
  ASSUME TimeInv, TimedOther
  PROVE  TimeInv'
<1>1. currentProcess' = currentProcess /\ pcbFree' = pcbFree
  BY DEF TimedOther, CreateFails, TerminateProcess, StartKill, Verhogen,
         SpecifyExceptionStateVector, Return, cpuVars, Exception, PassUpOrDie, LoadState,
         StartIO, ProgramLDST, procVars
<1> QED
  BY <1>1, UntimedKeepsTime DEF TimedOther, Live

(* SYS6 charges more than it should, never less.                           *)
LEMMA GetCPUTimeKeepsTime ==
  ASSUME TimeScale = 1, TimeInv, IInv, GetCPUTime
  PROVE  TimeInv'
<1>1. currentProcess \in Live /\ currentProcess \in Pcbs
  BY UserIsLive DEF GetCPUTime, Live
<1>2. UNCHANGED <<tod, time, since, used, currentProcess, pcbFree>>
  BY DEF GetCPUTime, vars, cpuVars, procVars
<1>3. /\ p_time' \in [Pcbs -> Int]
      /\ \A p \in Live : p_time'[p] >= p_time[p]
  <2>1. /\ p_time' \in [Pcbs -> Int]
        /\ \A p \in Pcbs : p_time'[p] = p_time[p] + (IF p = currentProcess THEN Elapsed ELSE 0)
        /\ Elapsed \in Int /\ Elapsed >= 0
    BY <1>1, ChargeAdds DEF GetCPUTime
  <2>2. \A p \in Pcbs : p_time[p] \in Int
    BY DEF TimeInv
  <2> QED
    BY <2>1, <2>2 DEF Live
<1> QED
  BY <1>2, <1>3, KeepsRunning DEF Live

(* Only the end of a termination dispatches, and it has freed the current  *)
(* process.                                                                *)
LEMMA KillKeepsTime ==
  ASSUME TimeScale = 1, TimeInv, IInv, TimedKill
  PROVE  TimeInv'
<1>1. CASE (KillChild \/ KillMissing \/ KernelTrap) /\ Untimed
  <2>1. currentProcess' = currentProcess /\ pcbFree' = pcbFree
    BY <1>1 DEF KillChild, KillMissing, KernelTrap, PassUpOrDie, LoadState, StartKill,
                cpuVars, procVars
  <2> QED
    BY <1>1, <2>1, UntimedKeepsTime DEF Live
<1>2. CASE KillLeaf /\ Restart /\ p_time' = [p_time EXCEPT ![Victim] = 0]
           /\ UNCHANGED <<tod, now, used>>
  <2>1. Live' = Live \ {Victim}
    BY <1>2 DEF KillLeaf, Live
  <2>2. p_time' \in [Pcbs -> Int]
    <3>1. p_time \in [Pcbs -> Int]
      BY DEF TimeInv
    <3>2. Victim \in Pcbs
      BY <1>2, VictimPlace DEF KillLeaf
    <3>3. PICK p \in Pcbs : p_time' = [p_time EXCEPT ![p] = 0]
      BY <1>2, <3>2
    <3> QED
      BY <3>1, <3>3
  <2>3. CASE Len(killStack) = 1
    <3>1. Victim = currentProcess
      BY <1>2, <2>3 DEF KillLeaf, Victim, Last, IInv, KillFrames
    <3>2. currentProcess' \in Live' => cpu' = "user" \/ currentProcess' = currentProcess
      BY <1>2, <2>3 DEF KillLeaf, Scheduler
    <3>3. \A p \in Live' : p_time'[p] >= p_time[p] + (IF p = currentProcess THEN Elapsed ELSE 0)
      <4>1. \A p \in Live' : p_time'[p] = p_time[p] /\ p_time[p] \in Int /\ p # currentProcess
        BY <1>2, <2>1, <3>1 DEF TimeInv, Live
      <4> QED
        BY <4>1
    <3> QED
      BY <1>2, <2>1, <2>2, <3>2, <3>3, ChargesAndRestarts
  <2>4. CASE Len(killStack) # 1
    <3>1. UNCHANGED <<cpu, currentProcess>> /\ cpu = "kill"
      BY <1>2, <2>4 DEF KillLeaf
    <3>2. UNCHANGED <<time, since>>
      BY <1>2, <3>1 DEF Restart
    <3>4. \A p \in Live' : p_time'[p] >= p_time[p]
      <4>1. \A p \in Live' : p_time'[p] = p_time[p] /\ p_time[p] \in Int
        BY <1>2, <2>1 DEF TimeInv, Live
      <4> QED
        BY <4>1
    <3> QED
      BY <1>2, <2>1, <2>2, <3>1, <3>2, <3>4, KeepsRunning
  <2> QED
    BY <2>3, <2>4
<1> QED
  BY <1>1, <1>2 DEF TimedKill

(* interruptHandler charges whoever it finds in currentProcess.            *)
LEMMA InterruptCharges ==
  ASSUME TimeScale = 1, TimeInv, IInv, ChargeInterrupted
  PROVE  /\ p_time' \in [Pcbs -> Int]
         /\ \A p \in Live : p_time'[p] >= p_time[p] + (IF p = currentProcess THEN Elapsed ELSE 0)
         /\ \A p \in Live : p_time'[p] >= p_time[p]
<1>1. currentProcess \in Pcbs \cup {NULL}
  BY DEF IInv, TypeOK
<1>2. \A p \in Pcbs : p_time[p] \in Int
  BY DEF TimeInv
<1>3. CASE currentProcess # NULL
  <2>1. /\ p_time' \in [Pcbs -> Int]
        /\ \A p \in Pcbs : p_time'[p] = p_time[p] + (IF p = currentProcess THEN Elapsed ELSE 0)
        /\ Elapsed \in Int
        /\ currentProcess \in Live => Elapsed >= 0
    BY <1>1, <1>3, ChargeAdds DEF ChargeInterrupted
  <2> QED
    BY <1>2, <2>1 DEF Live
<1>4. CASE currentProcess = NULL
  BY <1>2, <1>4, NullApart DEF ChargeInterrupted, TimeInv, Live
<1> QED
  BY <1>3, <1>4

LEMMA InterruptKeepsTime ==
  ASSUME TimeScale = 1, TimeInv, IInv, TimedInterrupt
  PROVE  TimeInv'
<1>1. currentProcess' \in Live' => cpu' = "user" \/ currentProcess' = currentProcess
  <2>1. CASE TimerInterrupt
    BY <2>1, NullApart DEF TimerInterrupt, Scheduler, Live
  <2>2. CASE \E d \in Devices : DeviceInterrupt(d)
    BY <2>2 DEF DeviceInterrupt, Scheduler
  <2> QED
    BY <2>1, <2>2 DEF TimedInterrupt
<1>2. Live' = Live
  BY DEF TimedInterrupt, TimerInterrupt, DeviceInterrupt, procVars, Live
<1> QED
  BY <1>1, <1>2, InterruptCharges, ChargesAndRestarts DEF TimedInterrupt

(* A tick charges the process it returns to and leaves its interval open.  *)
LEMMA ClockKeepsTime ==
  ASSUME TimeScale = 1, TimeInv, IInv, TimedClockInterrupt
  PROVE  TimeInv'
<1>1. Live' = Live
  BY DEF TimedClockInterrupt, ClockInterrupt, procVars, Live
<1>2. UNCHANGED <<tod, used>> /\ ChargeInterrupted
  BY DEF TimedClockInterrupt
<1>3. CASE currentProcess = NULL
  <2>1. currentProcess' \in Live' => cpu' = "user" \/ currentProcess' = currentProcess
    BY <1>3 DEF TimedClockInterrupt, ClockInterrupt, Scheduler
  <2>2. Restart
    BY <1>3 DEF TimedClockInterrupt
  <2> QED
    BY <1>1, <1>2, <2>1, <2>2, InterruptCharges, ChargesAndRestarts
<1>4. CASE currentProcess # NULL
  <2>1. UNCHANGED <<time, since, currentProcess>>
    BY <1>4 DEF TimedClockInterrupt, ClockInterrupt
  <2> QED
    BY <1>1, <1>2, <2>1, InterruptCharges, KeepsRunning
<1> QED
  BY <1>3, <1>4

(* The clock wraps from the largest cpu_t to the smallest, and so does the *)
(* difference.                                                             *)
LEMMA TimePassesKeeps ==
  ASSUME TimeScale = 1, TimeInv, IInv, TimePasses
  PROVE  TimeInv'
<1>1. UNCHANGED <<cpu, currentProcess, pcbFree, time, p_time>> /\ tod' = Wrap(tod + 1)
  BY DEF TimePasses, vars, cpuVars, procVars
<1>2. Live' = Live /\ tod' \in CpuT
  BY <1>1, TimeAssumption DEF Live, TimeInv, CpuT, Wrap
<1>3. CASE cpu = "user"
  <2>1. currentProcess \in Live /\ currentProcess \in Pcbs
    BY <1>3, UserIsLive DEF Live
  <2>2. since' = since + 1 /\ since < MaxBurst /\ used' = [used EXCEPT ![currentProcess] = @ + 1]
    BY <1>3 DEF TimePasses
  <2>3. since' \in 0..MaxBurst
    BY <2>2, TimeAssumption DEF TimeInv
  <2>4. Wrap(tod' - time) = since'
    <3>1. Wrap(tod - time) = since /\ tod \in CpuT /\ time \in CpuT
      BY <2>1 DEF TimeInv
    <3> QED
      BY <1>1, <2>2, <2>3, <3>1, TimeAssumption DEF Wrap, CpuT
  <2>5. NeverUndercharged'
    <3> SUFFICES ASSUME NEW p \in Live
                 PROVE  p_time[p] + (IF p = currentProcess THEN since' ELSE 0) >= used'[p]
      BY <1>1, <1>2 DEF NeverUndercharged
    <3>1. p \in Pcbs
      BY DEF Live
    <3>2. p_time[p] + (IF p = currentProcess THEN since ELSE 0) >= used[p]
      BY DEF TimeInv, NeverUndercharged
    <3>3. p_time[p] \in Int /\ used[p] \in Int /\ since \in Int
      BY <3>1, TimeAssumption DEF TimeInv
    <3>4. used'[p] = IF p = currentProcess THEN used[p] + 1 ELSE used[p]
      BY <2>1, <2>2, <3>1 DEF TimeInv
    <3> QED
      BY <2>2, <3>2, <3>3, <3>4
  <2>6. used' \in [Pcbs -> Int]
    BY <2>1, <2>2 DEF TimeInv
  <2> QED
    BY <1>1, <1>2, <2>3, <2>4, <2>5, <2>6 DEF TimeInv
<1>4. CASE cpu # "user"
  <2>1. cpu = "wait" /\ UNCHANGED <<used, since>>
    BY <1>4 DEF TimePasses
  <2>2. currentProcess \notin Live
    BY <2>1 DEF IInv, WaitFlagRight
  <2> QED
    BY <1>1, <1>2, <2>1, <2>2 DEF TimeInv, NeverUndercharged
<1> QED
  BY <1>3, <1>4

-----------------------------------------------------------------------------
(* What the nucleus does to its own variables are steps of Nucleus.        *)
LEMMA TimedIsNext ==
  ASSUME TimedNext
  PROVE  Next \/ UNCHANGED vars
<1>1. CASE TimedPassing
  BY <1>1 DEF TimedPassing, Next, SystemCall
<1>2. CASE TimedCreate
  BY <1>2 DEF TimedCreate, Next, SystemCall
<1>3. CASE TimedOther
  BY <1>3 DEF TimedOther, Next, SystemCall
<1>4. CASE GetCPUTime \/ TimePasses
  BY <1>4 DEF GetCPUTime, TimePasses
<1>5. CASE TimedKill
  BY <1>5 DEF TimedKill, Next, Termination
<1>6. CASE TimedInterrupt \/ TimedClockInterrupt \/ TimedDevice
  BY <1>6 DEF TimedInterrupt, TimedClockInterrupt, TimedDevice, Next, Interrupt
<1> QED
  BY <1>1, <1>2, <1>3, <1>4, <1>5, <1>6 DEF TimedNext

(* The accounting only watches the nucleus.                                *)
THEOREM TimedImplements == TimedSpec => Spec
<1>1. TimedInit => Init
  BY DEF TimedInit
<1>2. [TimedNext]_allVars => [Next]_vars
  BY TimedIsNext DEF allVars
<1> QED
  BY <1>1, <1>2, PTL DEF TimedSpec, Spec

LEMMA TimedNextKeeps ==
  ASSUME TimeScale = 1, TimeInv, IInv, [TimedNext]_allVars
  PROVE  TimeInv'
<1>1. CASE TimedDevice
  BY <1>1, UntimedKeepsTime DEF TimedDevice, DeviceDone, cpuVars, procVars, Live
<1>2. CASE UNCHANGED allVars
  BY <1>2, UntimedKeepsTime DEF allVars, vars, cpuVars, procVars, Untimed, Live
<1> QED
  BY <1>1, <1>2, PassingKeepsTime, CreateKeepsTime, OtherKeepsTime, GetCPUTimeKeepsTime,
     KillKeepsTime, InterruptKeepsTime, ClockKeepsTime, TimePassesKeeps DEF TimedNext

(* No CPU time gets lost, with any number of processes and devices and     *)
(* across every wrap of the clock.                                         *)
THEOREM TimedNeverUndercharged ==
  ASSUME TimeScale = 1
  PROVE  TimedSpec => []NeverUndercharged
<1>1. TimedInit => TimeInv
  BY TimeAssumption DEF TimedInit, TimeInv, NeverUndercharged, CpuT, Wrap, Live
<1>2. TimeInv /\ IInv /\ [TimedNext]_allVars => TimeInv'
  BY TimedNextKeeps
<1>3. TimedSpec => []IInv
  BY TimedImplements, SpecIInv, PTL
<1>4. TimeInv => NeverUndercharged
  BY DEF TimeInv
<1> QED
  BY <1>1, <1>2, <1>3, <1>4, PTL DEF TimedSpec
-----------------------------------------------------------------------------
(* Only an interrupt is handled in a wait, and the one process it may      *)
(* charge, that of currentProcess, is dead by then.  This needs nothing of *)
(* the clock.                                                              *)
LEMMA WaitChargesNobody ==
  ASSUME DOMAIN p_time = Pcbs, IInv, [TimedNext]_allVars, cpu = "wait", NEW p \in Live
  PROVE  p_time'[p] = p_time[p]
<1>1. p \in Pcbs /\ p # currentProcess
  BY DEF IInv, WaitFlagRight, Live
<1>2. ~TimedPassing /\ ~TimedCreate /\ ~GetCPUTime
  BY DEF TimedPassing, Passeren, WaitForClock, WaitForIODevice, TimedCreate, CreateProcess,
         Running, GetCPUTime
<1>3. CASE TimedOther \/ TimedDevice \/ TimePasses \/ UNCHANGED allVars
  BY <1>3 DEF TimedOther, TimedDevice, TimePasses, Untimed, allVars, timeVars
<1>4. CASE TimedKill
  BY <1>4 DEF TimedKill, KillLeaf, Untimed, timeVars
<1>5. CASE TimedInterrupt \/ TimedClockInterrupt
  BY <1>1, <1>5 DEF TimedInterrupt, TimedClockInterrupt, ChargeInterrupted, Charge
<1> QED
  BY <1>2, <1>3, <1>4, <1>5 DEF TimedNext

(* Every pcb has a p_time, which is never more than updated.               *)
LEMMA ChargesKeepDomain ==
  ASSUME DOMAIN p_time = Pcbs, [TimedNext]_allVars
  PROVE  DOMAIN p_time' = Pcbs
<1>1. \/ p_time' = p_time
      \/ \E p \in {currentProcess} : p_time' = [p_time EXCEPT ![p] = @ + Elapsed]
      \/ \E p \in Pcbs \cup {Victim} : p_time' = [p_time EXCEPT ![p] = 0]
  BY DEF TimedNext, TimedPassing, TimedBlock, TimedCreate, TimedOther, GetCPUTime, TimedKill,
         TimedInterrupt, TimedClockInterrupt, TimedDevice, TimePasses, ChargeInterrupted,
         Charge, Untimed, allVars, timeVars
<1> QED
  BY <1>1

(* No process that is alive pays for the end of a wait: with any clock, in *)
(* a wait after a termination too.                                         *)
THEOREM TimedWaitUnattributed == TimedSpec => WaitUnattributed
<1>1. TimedInit => DOMAIN p_time = Pcbs
  BY DEF TimedInit
<1>2. DOMAIN p_time = Pcbs /\ [TimedNext]_allVars => (DOMAIN p_time = Pcbs)'
  BY ChargesKeepDomain
<1>3. TimedSpec => []IInv
  BY TimedImplements, SpecIInv, PTL
<1>4. DOMAIN p_time = Pcbs /\ IInv /\ [TimedNext]_allVars
      => [cpu = "wait" => \A p \in Live : p_time'[p] = p_time[p]]_allVars
  BY WaitChargesNobody
<1> QED
  BY <1>1, <1>2, <1>3, <1>4, PTL DEF TimedSpec, WaitUnattributed
=============================================================================
