------------------------------- MODULE CpuTime -------------------------------
(***************************************************************************)
(* The processor time accounting of the nucleus (SYS6): p_time of every    *)
(* pcb and the global time, the reading of the clock from which the        *)
(* running process is charged next.                                        *)
(*                                                                         *)
(* Time passes while a process runs and while the nucleus waits; a handler *)
(* takes none.  Every step is a step of Nucleus with what it does to the   *)
(* two, a SYS6, or a tick of the time-of-day clock.                        *)
(***************************************************************************)
EXTENDS Nucleus

CONSTANTS
  Half,           \* half the range of cpu_t: 2^31
  TimeScale,      \* clock ticks per microsecond (TIMESCALEADDR)
  MaxBurst,       \* bound: time a process has the CPU after one dispatch
  MaxCharge,      \* bound: no charge that takes p_time beyond it
  Horizon         \* bound: the real time of a run

ASSUME TimeAssumption ==
  /\ Half \in Nat \ {0} /\ TimeScale \in 1..Half
  /\ MaxBurst \in Nat /\ MaxBurst < Half
  /\ MaxCharge \in Nat /\ MaxCharge < Half /\ Horizon \in Nat

VARIABLES
  tod,            \* the low word of the time-of-day clock, as a cpu_t
  time,
  p_time,         \* of each pcb
  now,            \* history: real time
  since,          \* history: time the running process has run since the last STCK(time)
  used            \* history: of each pcb, the time its process has had the CPU

timeVars == <<tod, time, p_time, now, since, used>>
allVars  == <<vars, timeVars>>
-----------------------------------------------------------------------------
(* cpu_t is a 32-bit integer: a difference or an increment wraps.          *)
Wrap(x) == IF x >= Half THEN x - 2 * Half ELSE IF x < -Half THEN x + 2 * Half ELSE x

(* Division of C: towards zero.                                            *)
Truncate(x, y) == IF x >= 0 THEN x \div y ELSE -((-x) \div y)

STCK == Truncate(tod, TimeScale)

(* currTime - time.                                                        *)
Elapsed == Wrap(STCK - time)

(* p->p_time = p->p_time + (currTime - time).                              *)
Charge(p) ==
  /\ p_time[p] + Elapsed <= MaxCharge
  /\ p_time' = [p_time EXCEPT ![p] = @ + Elapsed]

(* The end of a handler that has called scheduler(), which reads the clock *)
(* when it dispatches, or the STCK(time) of a device interrupt.            *)
Restart ==
  IF cpu' = "user" THEN time' = STCK /\ since' = 0 ELSE UNCHANGED <<time, since>>

Untimed == UNCHANGED timeVars
-----------------------------------------------------------------------------
(* The system calls.                                                       *)

(* SYS4, SYS7 and SYS8 charge a process that they block.                   *)
TimedBlock(s) ==
  /\ IF semVal'[s] < 0 THEN Charge(currentProcess) /\ Restart
     ELSE UNCHANGED <<p_time, time, since>>
  /\ UNCHANGED <<tod, now, used>>

TimedPassing ==
  \/ \E s \in Sems : Passeren(s) /\ TimedBlock(s)
  \/ WaitForClock /\ TimedBlock(Clock)
  \/ WaitForIODevice /\ TimedBlock(op[currentProcess])

(* allocPcb sets p_time to zero.                                           *)
TimedCreate ==
  \E p \in Pcbs :
    /\ CreateProcess(p)
    /\ p_time' = [p_time EXCEPT ![p] = 0]
    /\ used' = [used EXCEPT ![p] = 0]
    /\ UNCHANGED <<tod, time, now, since>>

TimedOther ==
  /\ \/ CreateFails
     \/ TerminateProcess
     \/ \E s \in Sems : Verhogen(s)
     \/ \E t \in Traps : SpecifyExceptionStateVector(t) \/ Exception(t)
     \/ \E u \in Units : StartIO(u)
     \/ ProgramLDST
  /\ Untimed

(* SYS6.  It does not restart the interval it charges.                     *)
GetCPUTime ==
  /\ cpu = "user"
  /\ Charge(currentProcess)
  /\ UNCHANGED <<vars, tod, time, now, since, used>>

(* freePcb cleans p_time; the last activation calls the scheduler.         *)
TimedKill ==
  \/ /\ KillLeaf
     /\ p_time' = [p_time EXCEPT ![Victim] = 0]
     /\ Restart
     /\ UNCHANGED <<tod, now, used>>
  \/ (KillChild \/ KillMissing \/ KernelTrap) /\ Untimed

(* Fault: the test for a wait is the wrong way round.                      *)
FaultChargeInterrupted ==
  IF currentProcess # NULL /\ waitFlag = 1 THEN Charge(currentProcess) ELSE UNCHANGED p_time

(* interruptHandler charges currentProcess, even one that is dead.         *)
ChargeInterrupted ==
  IF currentProcess # NULL THEN Charge(currentProcess) ELSE UNCHANGED p_time

TimedInterrupt ==
  /\ TimerInterrupt \/ \E d \in Devices : DeviceInterrupt(d)
  /\ ChargeInterrupted
  /\ Restart
  /\ UNCHANGED <<tod, now, used>>

(* A tick of the pseudo-clock returns to the interrupted process with the  *)
(* interval going on.                                                      *)
TimedClockInterrupt ==
  /\ ClockInterrupt
  /\ ChargeInterrupted
  /\ IF currentProcess = NULL THEN Restart ELSE UNCHANGED <<time, since>>
  /\ UNCHANGED <<tod, now, used>>

TimedDevice == (\E u \in Units : DeviceDone(u)) /\ Untimed

(* A microsecond passes, of a process or of a wait.                        *)
TimePasses ==
  /\ cpu \in {"user", "wait"}
  /\ now < Horizon
  /\ cpu = "user" => since < MaxBurst
  /\ now' = now + 1
  /\ tod' = Wrap(tod + TimeScale)
  /\ IF cpu = "user"
     THEN /\ used' = [used EXCEPT ![currentProcess] = @ + 1]
          /\ since' = since + 1
     ELSE UNCHANGED <<used, since>>
  /\ UNCHANGED <<vars, time, p_time>>

TimedInit ==
  /\ Init
  /\ tod = 0
  /\ time = 0
  /\ p_time = [p \in Pcbs |-> 0]
  /\ now = 0
  /\ since = 0
  /\ used = [p \in Pcbs |-> 0]

TimedNext ==
  \/ TimedPassing
  \/ TimedCreate
  \/ TimedOther
  \/ GetCPUTime
  \/ TimedKill
  \/ TimedInterrupt
  \/ TimedClockInterrupt
  \/ TimedDevice
  \/ TimePasses

TimedSpec == TimedInit /\ [][TimedNext]_allVars
-----------------------------------------------------------------------------
(* No CPU time gets lost: whoever interrupts a process and whatever wraps, *)
(* p_time, with the interval not yet charged of the current process, is at *)
(* least what the process has used.                                        *)
NeverUndercharged ==
  \A p \in Live : p_time[p] + (IF p = currentProcess THEN since ELSE 0) >= used[p]

(* "if in a wait state, do not attribute time" (interrupts.c): no process  *)
(* that is alive pays for the end of a wait.                               *)
WaitUnattributed ==
  [][cpu = "wait" => \A p \in Live : p_time'[p] = p_time[p]]_allVars

(* "error: more cpu time than real time" (p2test.c): no process has used   *)
(* more CPU time than has gone by since the machine was started.           *)
NotMoreThanReal == \A p \in Live : p_time[p] <= now
=============================================================================
