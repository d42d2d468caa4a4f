------------------------------ MODULE Nucleus -------------------------------
(***************************************************************************)
(* The Kaya nucleus (phase2): main, the scheduler, the system calls that   *)
(* create, kill, block and wake processes, the trap handlers and the       *)
(* interrupt handler, over the process queues and semaphore queues of      *)
(* phase1.                                                                 *)
(*                                                                         *)
(* There is one CPU, and every handler runs with interrupts masked until   *)
(* it loads a processor state (LDST) or waits (WAIT): a handler is one     *)
(* action.  terminateRecursively is a loop over a tree of processes that   *)
(* may fault half way; its iterations are steps of their own, and while    *)
(* they last (cpu = "kill") no other step is possible.                     *)
(***************************************************************************)
EXTENDS Naturals, Integers, FiniteSets, Sequences, QueueOps

CONSTANTS
  Pcbs,           \* the process blocks of procTable
  Sems,           \* the semaphores of the programs (variables in their memory)
  Units,          \* the device units in use, as indices of devSemTable: 0..31
                  \* disks, tapes, network, printers, 32..39 terminal
                  \* transmitters, 40..47 terminal receivers
  NULL,           \* the null pointer
  Calls,          \* the kinds of system call and trap the programs make
  Traps,          \* the exception types the programs use with SYS5 and raise
  SlowDevices,    \* no device finishes before its starter has reached SYS8
  KernelOverrun,  \* the quantum may run out while the nucleus is executing
  MaxSem,         \* bound: no V on a program semaphore beyond this value
  MinClock        \* bound: no SYS7 when the clock semaphore is this low

Clock == 48
DevSems == Units \cup {Clock}
AllSems == Sems \cup DevSems
TrapTypes == {"TLB", "Pgm", "Sys"}
AllCalls == {"SYS1", "SYS1full", "SYS2", "SYS3", "SYS4", "SYS5", "SYS7",
             "SYS8", "trap", "LDST"}

ASSUME PcbsAssumption == IsFiniteSet(Pcbs) /\ Pcbs # {} /\ NULL \notin Pcbs
ASSUME SemsAssumption == /\ Units \subseteq 0..47
                         /\ \A u \in Units : u >= 40 => u - 8 \in Units
                         /\ Sems \cap (0..48) = {}
                         /\ NULL \notin Sems \cup 0..48
ASSUME KindsAssumption == Calls \subseteq AllCalls /\ Traps \subseteq TrapTypes
ASSUME ScopeAssumption == /\ SlowDevices \in BOOLEAN /\ KernelOverrun \in BOOLEAN
                          /\ MaxSem \in Nat /\ MinClock \in Int

VARIABLES
  cpu,            \* who has the CPU: "user" a process, "wait" nobody (WAIT),
                  \* "kill" terminateRecursively, "trap" the nucleus has just
                  \* faulted; "halt", "panic": stopped; "lost": a handler
                  \* returned and left the CPU with no state to load
  currentProcess, \* the pcb the nucleus takes for the running one
  readyQue,       \* the ready queue, head first
  pcbFree,        \* the pcbs on the free list
  processCount,
  softBlockCount,
  waitFlag,
  p_semAdd,       \* of each pcb, the semaphore it waits for
  p_prnt,         \* of each pcb, its parent
  p_child,        \* of each pcb, its children, newest first
  vectors,        \* of each pcb, the exception types it gave SYS5 a vector for
  unmasked,       \* the pcbs whose processor state has interrupts enabled
  procQ,          \* of each semaphore, the queue of its descriptor on the ASL;
                  \* <<>> when it has no descriptor
  semVal,         \* of each semaphore, its value
  killStack,      \* the activations of terminateRecursively, outermost first
  timerIRQ,       \* the quantum ran out in the nucleus and is still pending
  unit,           \* of each device unit: "ready", "busy", or "done" and not acked
  op              \* of each pcb, the unit it has started and not yet waited for

procVars == <<pcbFree, processCount, p_prnt, p_child, vectors, unmasked>>
semVars  == <<softBlockCount, p_semAdd, procQ, semVal>>
cpuVars  == <<cpu, currentProcess, readyQue, waitFlag, timerIRQ>>
devVars  == <<unit, op>>
vars     == <<procVars, semVars, cpuVars, devVars, killStack>>

Live == Pcbs \ pcbFree
-----------------------------------------------------------------------------
(* What the handlers are built from.                                       *)

(* Faults: the operators named Fault... are wrong variants of the one that *)
(* follows them.  No definition uses them; each is there to show that a    *)
(* property of this module fails when the code has that fault.             *)

(* Fault: a dispatch leaves waitFlag as it is.                             *)
FaultSchedulerKeepsFlag(rq, count, soft, cur) ==
  IF rq # <<>>
  THEN /\ cpu' = "user"
       /\ currentProcess' = Head(rq)
       /\ readyQue' = Tail(rq)
       /\ timerIRQ' = FALSE
       /\ UNCHANGED waitFlag
  ELSE /\ cpu' = IF count = 0 THEN "halt" ELSE IF soft = 0 THEN "panic" ELSE "wait"
       /\ currentProcess' = cur
       /\ readyQue' = rq
       /\ waitFlag' = IF cpu' = "wait" THEN 1 ELSE waitFlag
       /\ timerIRQ' \in (IF cpu' = "wait" /\ KernelOverrun THEN BOOLEAN ELSE {FALSE})

(* scheduler(), called with the ready queue rq, the two counts and the     *)
(* current process as the handler leaves them.  It dispatches the head of  *)
(* rq with a new quantum, or it stops, or it waits; currentProcess is not  *)
(* reset when there is nobody to dispatch.                                 *)
Scheduler(rq, count, soft, cur) ==
  IF rq # <<>>
  THEN /\ cpu' = "user"
       /\ currentProcess' = Head(rq)
       /\ readyQue' = Tail(rq)
       /\ waitFlag' = 0
       /\ timerIRQ' = FALSE
  ELSE /\ cpu' = IF count = 0 THEN "halt" ELSE IF soft = 0 THEN "panic" ELSE "wait"
       /\ currentProcess' = cur
       /\ readyQue' = rq
       /\ waitFlag' = IF cpu' = "wait" THEN 1 ELSE waitFlag
       /\ timerIRQ' \in (IF cpu' = "wait" /\ KernelOverrun THEN BOOLEAN ELSE {FALSE})

(* A handler of the running process that returns to it.                    *)
Return == UNCHANGED cpuVars

(* terminateProcess: the nucleus starts to kill currentProcess.            *)
StartKill ==
  /\ cpu' = "kill"
  /\ killStack' = <<currentProcess>>
  /\ UNCHANGED <<currentProcess, readyQue, waitFlag, timerIRQ, procVars, semVars, devVars>>

(* Fault: the caller forgets currentProcess = NULL.                        *)
FaultBlockKeepsCurrent(s) ==
  /\ procQ' = [procQ EXCEPT ![s] = Append(@, currentProcess)]
  /\ p_semAdd' = [p_semAdd EXCEPT ![currentProcess] = s]
  /\ softBlockCount' = IF s \in DevSems THEN softBlockCount + 1 ELSE softBlockCount
  /\ Scheduler(readyQue, processCount, softBlockCount', currentProcess)

(* Fault: SYS4 counts its waiters as soft-blocked too.                     *)
FaultBlockCountsAll(s) ==
  /\ procQ' = [procQ EXCEPT ![s] = Append(@, currentProcess)]
  /\ p_semAdd' = [p_semAdd EXCEPT ![currentProcess] = s]
  /\ softBlockCount' = softBlockCount + 1
  /\ Scheduler(readyQue, processCount, softBlockCount', NULL)

(* Fault: insertBlocked puts the process at the head of the queue.         *)
FaultBlockAtHead(s) ==
  /\ procQ' = [procQ EXCEPT ![s] = <<currentProcess>> \o @]
  /\ p_semAdd' = [p_semAdd EXCEPT ![currentProcess] = s]
  /\ softBlockCount' = IF s \in DevSems THEN softBlockCount + 1 ELSE softBlockCount
  /\ Scheduler(readyQue, processCount, softBlockCount', NULL)

(* insertBlocked(s, currentProcess) and the rest of a P that blocks.       *)
Block(s) ==
  /\ procQ' = [procQ EXCEPT ![s] = Append(@, currentProcess)]
  /\ p_semAdd' = [p_semAdd EXCEPT ![currentProcess] = s]
  /\ softBlockCount' = IF s \in DevSems THEN softBlockCount + 1 ELSE softBlockCount
  /\ Scheduler(readyQue, processCount, softBlockCount', NULL)

(* Fault: the P blocks on a semaphore it has brought to zero.              *)
FaultPBlocksAtZero(s, endsInLDST) ==
  /\ semVal' = [semVal EXCEPT ![s] = @ - 1]
  /\ IF semVal'[s] <= 0
     THEN Block(s)
     ELSE /\ cpu' = IF endsInLDST THEN "user" ELSE "lost"
          /\ UNCHANGED <<procQ, p_semAdd, softBlockCount, currentProcess,
                         readyQue, waitFlag, timerIRQ>>

(* A P on s by currentProcess; a process that does not block goes on when  *)
(* the handler ends in an LDST, and loses the CPU for everybody when it    *)
(* does not.                                                               *)
P(s, endsInLDST) ==
  /\ semVal' = [semVal EXCEPT ![s] = @ - 1]
  /\ IF semVal'[s] < 0
     THEN Block(s)
     ELSE /\ cpu' = IF endsInLDST THEN "user" ELSE "lost"
          /\ UNCHANGED <<procQ, p_semAdd, softBlockCount, currentProcess,
                         readyQue, waitFlag, timerIRQ>>

(* Fault: the caller forgets p_semAdd = NULL.                              *)
FaultWakeKeepsSemAdd(s) ==
  /\ procQ' = [procQ EXCEPT ![s] = QueueAfterOut(@, Head(@))]
  /\ p_semAdd' = p_semAdd

(* removeBlocked(s), with p_semAdd reset and the process made ready; the   *)
(* descriptor goes when its queue becomes empty.                           *)
Wake(s) ==
  /\ procQ' = [procQ EXCEPT ![s] = QueueAfterOut(@, Head(@))]
  /\ p_semAdd' = [p_semAdd EXCEPT ![Head(procQ[s])] = NULL]

(* Fault: a V that brings the semaphore to zero wakes nobody.              *)
FaultOwesWakeup(s) == semVal'[s] < 0

(* The test of a V, after it has incremented the semaphore.                *)
OwesWakeup(s) == semVal'[s] <= 0

Running(call) == cpu = "user" /\ call \in Calls
-----------------------------------------------------------------------------
(* main(): one process, dispatched at once.  FIRSTPROCESSSTATUSMASK leaves *)
(* the previous-interrupt-enable bit off, so the LDST that starts the root *)
(* process also masks its interrupts.                                      *)
Init ==
  \E root \in Pcbs :
    /\ cpu = "user"
    /\ currentProcess = root
    /\ readyQue = <<>>
    /\ pcbFree = Pcbs \ {root}
    /\ processCount = 1
    /\ softBlockCount = 0
    /\ waitFlag = 0
    /\ p_semAdd = [p \in Pcbs |-> NULL]
    /\ p_prnt = [p \in Pcbs |-> NULL]
    /\ p_child = [p \in Pcbs |-> <<>>]
    /\ vectors = [p \in Pcbs |-> {}]
    /\ unmasked = {}
    /\ procQ = [s \in AllSems |-> <<>>]
    /\ semVal \in {v \in [AllSems -> 0..1] : \A s \in DevSems : v[s] = 0}
    /\ killStack = <<>>
    /\ timerIRQ = FALSE
    /\ unit = [u \in Units |-> "ready"]
    /\ op = [p \in Pcbs |-> NULL]
-----------------------------------------------------------------------------
(* System calls of the running process, in kernel mode.                    *)

(* SYS1.  The new process is made ready; the programs give it a state with *)
(* interrupts enabled.                                                     *)
CreateProcess(p) ==
  /\ Running("SYS1")
  /\ p \in pcbFree
  /\ pcbFree' = pcbFree \ {p}
  /\ processCount' = processCount + 1
  /\ p_prnt' = [p_prnt EXCEPT ![p] = currentProcess]
  /\ p_child' = [p_child EXCEPT ![currentProcess] = <<p>> \o @]
  /\ unmasked' = unmasked \cup {p}
  /\ readyQue' = Append(readyQue, p)
  /\ UNCHANGED <<cpu, currentProcess, waitFlag, timerIRQ, vectors, semVars, devVars, killStack>>

(* Fault: processCount++ comes before the test for a free pcb.             *)
FaultCreateCountsFailure ==
  /\ Running("SYS1full")
  /\ pcbFree = {}
  /\ processCount' = processCount + 1
  /\ UNCHANGED <<cpuVars, pcbFree, p_prnt, p_child, vectors, unmasked, semVars, devVars, killStack>>

(* SYS1 with no free pcb: the handler returns to no one.                   *)
CreateFails ==
  /\ Running("SYS1full")
  /\ pcbFree = {}
  /\ cpu' = "lost"
  /\ UNCHANGED <<currentProcess, readyQue, waitFlag, timerIRQ, procVars, semVars, devVars, killStack>>

(* SYS2.                                                                   *)
TerminateProcess ==
  /\ Running("SYS2")
  /\ StartKill

(* SYS3 on a semaphore of the programs.                                    *)
Verhogen(s) ==
  /\ Running("SYS3")
  /\ semVal[s] < MaxSem
  /\ semVal' = [semVal EXCEPT ![s] = @ + 1]
  /\ IF OwesWakeup(s) /\ procQ[s] # <<>>
     THEN /\ Wake(s)
          /\ readyQue' = Append(readyQue, Head(procQ[s]))
     ELSE UNCHANGED <<procQ, p_semAdd, readyQue>>
  /\ UNCHANGED <<cpu, currentProcess, waitFlag, timerIRQ, softBlockCount, procVars, devVars, killStack>>

(* Fault: the P tests the semaphore before it decrements it.               *)
FaultPasseren(s) ==
  /\ Running("SYS4")
  /\ semVal' = [semVal EXCEPT ![s] = @ - 1]
  /\ IF semVal[s] < 0
     THEN Block(s)
     ELSE Return /\ UNCHANGED <<procQ, p_semAdd, softBlockCount>>
  /\ UNCHANGED <<procVars, devVars, killStack>>

(* SYS4 on a semaphore of the programs.                                    *)
Passeren(s) ==
  /\ Running("SYS4")
  /\ P(s, TRUE)
  /\ UNCHANGED <<procVars, devVars, killStack>>

(* Fault: a second vector for the same exception type replaces the first.  *)
FaultSecondVector(t) ==
  /\ Running("SYS5")
  /\ vectors' = [vectors EXCEPT ![currentProcess] = @ \cup {t}]
  /\ Return
  /\ UNCHANGED <<pcbFree, processCount, p_prnt, p_child, unmasked, semVars, devVars, killStack>>

(* SYS5: the second vector for one exception type is fatal.                *)
SpecifyExceptionStateVector(t) ==
  /\ Running("SYS5")
  /\ IF t \in vectors[currentProcess]
     THEN StartKill
     ELSE /\ vectors' = [vectors EXCEPT ![currentProcess] = @ \cup {t}]
          /\ Return
          /\ UNCHANGED <<pcbFree, processCount, p_prnt, p_child, unmasked, semVars, devVars, killStack>>

(* SYS7.                                                                   *)
WaitForClock ==
  /\ Running("SYS7")
  /\ semVal[Clock] > MinClock
  /\ P(Clock, TRUE)
  /\ UNCHANGED <<procVars, devVars, killStack>>

(* A program stores a command in the register of a device unit: it is the  *)
(* first half of an I/O request, SYS8 the second.                          *)
StartIO(u) ==
  /\ Running("SYS8")
  /\ op[currentProcess] = NULL
  /\ unit[u] = "ready"
  /\ unit' = [unit EXCEPT ![u] = "busy"]
  /\ op' = [op EXCEPT ![currentProcess] = u]
  /\ UNCHANGED <<cpuVars, procVars, semVars, killStack>>

(* Fault: the semaphore index leaves the line number out.                  *)
FaultWaitForIODevice ==
  /\ Running("SYS8")
  /\ op[currentProcess] # NULL
  /\ P(op[currentProcess] % 8, FALSE)
  /\ op' = [op EXCEPT ![currentProcess] = NULL]
  /\ UNCHANGED <<procVars, unit, killStack>>

(* SYS8 for the unit that the process has started.                         *)
WaitForIODevice ==
  /\ Running("SYS8")
  /\ op[currentProcess] # NULL
  /\ P(op[currentProcess], FALSE)
  /\ op' = [op EXCEPT ![currentProcess] = NULL]
  /\ UNCHANGED <<procVars, unit, killStack>>

(* A processor state the program supplies is loaded: it may have           *)
(* interrupts enabled or not, and nothing else of it is modelled.          *)
LoadState ==
  /\ unmasked' \in {unmasked \cup {currentProcess}, unmasked \ {currentProcess}}
  /\ UNCHANGED <<currentProcess, readyQue, waitFlag, timerIRQ, pcbFree, processCount,
                 p_prnt, p_child, vectors, semVars, devVars, killStack>>

(* passUpOrDie: an exception of the running process, which goes on in its  *)
(* own handler or dies.  "Pgm" is a program trap or SYS1-8 in user mode,   *)
(* "TLB" a TLB exception, "Sys" a SYSCALL above 8.                         *)
PassUpOrDie(t) ==
  IF t \in vectors[currentProcess] THEN cpu' = "user" /\ LoadState ELSE StartKill

Exception(t) ==
  /\ Running("trap")
  /\ PassUpOrDie(t)

(* A trap handler of a program ends, or starts something else, with an     *)
(* LDST of its own.                                                        *)
ProgramLDST ==
  /\ Running("LDST")
  /\ LoadState
  /\ UNCHANGED cpu
-----------------------------------------------------------------------------
(* terminateRecursively, one activation after the other.                   *)

Victim == Last(killStack)

(* Fault: the child is killed where it is, without removeChild.            *)
FaultKillChild ==
  /\ cpu = "kill"
  /\ p_child[Victim] # <<>>
  /\ killStack' = Append(killStack, Head(p_child[Victim]))
  /\ p_child' = [p_child EXCEPT ![Victim] = Tail(@)]
  /\ UNCHANGED <<cpuVars, pcbFree, processCount, p_prnt, vectors, unmasked, semVars, devVars>>

(* The loop of an activation: the first child leaves its parent and is     *)
(* killed before it.                                                       *)
KillChild ==
  /\ cpu = "kill"
  /\ p_child[Victim] # <<>>
  /\ LET c == Head(p_child[Victim]) IN
       /\ p_child' = [p_child EXCEPT ![Victim] = Tail(@)]
       /\ p_prnt' = [p_prnt EXCEPT ![c] = NULL]
       /\ killStack' = Append(killStack, c)
  /\ UNCHANGED <<cpuVars, pcbFree, processCount, vectors, unmasked, semVars, devVars>>

Blocked(p) == p_semAdd[p] # NULL

(* Does the structure the victim is looked for in have it?  outBlocked,    *)
(* outChild and outProcQ return NULL when it has not.                      *)
Found(p) ==
  IF Blocked(p) THEN p \in ToSet(procQ[p_semAdd[p]])
  ELSE IF p = currentProcess THEN p_prnt[p] # NULL
  ELSE p \in ToSet(readyQue)

(* Fault: every blocked victim is taken for a soft-blocked one.            *)
FaultReleaseSoft(p) ==
  /\ softBlockCount' = IF Blocked(p) THEN softBlockCount - 1 ELSE softBlockCount
  /\ UNCHANGED semVal

(* Fault: the semaphore keeps counting a victim that has left its queue.   *)
FaultReleaseNothing(p) ==
  /\ softBlockCount' = IF Blocked(p) /\ p_semAdd[p] \in DevSems THEN softBlockCount - 1
                       ELSE softBlockCount
  /\ UNCHANGED semVal

(* The count the victim was in: softBlockCount for a device semaphore, the *)
(* semaphore itself for any other.                                         *)
ReleaseSemaphore(p) ==
  IF Blocked(p) /\ p_semAdd[p] \in DevSems
  THEN softBlockCount' = softBlockCount - 1 /\ UNCHANGED semVal
  ELSE /\ semVal' = IF Blocked(p) THEN [semVal EXCEPT ![p_semAdd[p]] = @ + 1] ELSE semVal
       /\ UNCHANGED softBlockCount

(* Fault: the trap vectors survive in the freed pcb.                       *)
FaultCleanKeepsVectors(p) ==
  /\ p_semAdd' = [p_semAdd EXCEPT ![p] = NULL]
  /\ p_prnt' = [p_prnt EXCEPT ![p] = NULL]
  /\ unmasked' = unmasked \ {p}
  /\ op' = [op EXCEPT ![p] = NULL]
  /\ UNCHANGED vectors

(* cleanPcb, and what the model keeps of the process besides its pcb.      *)
Clean(p) ==
  /\ p_semAdd' = [p_semAdd EXCEPT ![p] = NULL]
  /\ p_prnt' = [p_prnt EXCEPT ![p] = NULL]
  /\ vectors' = [vectors EXCEPT ![p] = {}]
  /\ unmasked' = unmasked \ {p}
  /\ op' = [op EXCEPT ![p] = NULL]

(* outBlocked, outChild or outProcQ, for a victim that is blocked, current *)
(* or ready: what each leaves of the structure it removes p from.          *)
QueuesAfter(p) ==
  IF Blocked(p) THEN [procQ EXCEPT ![p_semAdd[p]] = QueueAfterOut(@, p)] ELSE procQ

(* Fault: the current process is freed without outChild.                   *)
FaultChildrenKept(p) == p_child

ChildrenAfter(p) ==
  IF ~Blocked(p) /\ p = currentProcess
  THEN [p_child EXCEPT ![p_prnt[p]] = TakenOut(@, p)] ELSE p_child

ReadyAfter(p) ==
  IF ~Blocked(p) /\ p # currentProcess THEN TakenOut(readyQue, p) ELSE readyQue

(* The end of an activation that has no child left to kill: the victim is  *)
(* taken from its structure and freed, processCount--, and the activation  *)
(* returns to the one below, or to terminateProcess, which calls the       *)
(* scheduler.                                                              *)
KillLeaf ==
  LET p == Victim IN
  /\ cpu = "kill"
  /\ p_child[p] = <<>>
  /\ Found(p)
  /\ ReleaseSemaphore(p)
  /\ procQ' = QueuesAfter(p)
  /\ p_child' = ChildrenAfter(p)
  /\ Clean(p)
  /\ pcbFree' = pcbFree \cup {p}
  /\ processCount' = processCount - 1
  /\ killStack' = Front(killStack)
  /\ IF Len(killStack) = 1
     THEN Scheduler(ReadyAfter(p), processCount', softBlockCount', currentProcess)
     ELSE readyQue' = ReadyAfter(p) /\ UNCHANGED <<cpu, currentProcess, waitFlag, timerIRQ>>
  /\ UNCHANGED unit

(* freePcb(NULL): cleanPcb stores through the null pointer, which is not   *)
(* even a word address, and the nucleus takes a program trap.              *)
KillMissing ==
  /\ cpu = "kill"
  /\ p_child[Victim] = <<>>
  /\ ~Found(Victim)
  /\ ReleaseSemaphore(Victim)
  /\ cpu' = "trap"
  /\ killStack' = <<>>
  /\ UNCHANGED <<currentProcess, readyQue, waitFlag, timerIRQ, p_semAdd, procQ, procVars, devVars>>

(* pgmTrapHandler for a fault of the nucleus itself: passUpOrDie treats it *)
(* as a program trap of currentProcess.  With no current process it faults *)
(* again, for ever.                                                        *)
KernelTrap ==
  /\ cpu = "trap"
  /\ currentProcess # NULL
  /\ PassUpOrDie("Pgm")
-----------------------------------------------------------------------------
(* interruptHandler.                                                       *)

Interruptible == cpu = "wait" \/ (cpu = "user" /\ currentProcess \in unmasked)

(* Fault: the process whose quantum ends is not put in the ready queue.    *)
FaultTimerDropsProcess ==
  /\ Interruptible
  /\ cpu = "user"
  /\ Scheduler(readyQue, processCount, softBlockCount, NULL)
  /\ UNCHANGED <<procVars, semVars, devVars, killStack>>

(* Fault: it is put at the head of the queue.                              *)
FaultTimerToHead ==
  /\ Interruptible
  /\ cpu = "user"
  /\ Scheduler(<<currentProcess>> \o readyQue, processCount, softBlockCount, NULL)
  /\ UNCHANGED <<procVars, semVars, devVars, killStack>>

(* Fault: in a wait, the null pointer is inserted in the queue.            *)
FaultTimerInsertsNull ==
  /\ Interruptible
  /\ cpu = "wait" => timerIRQ
  /\ cpu' = "lost"
  /\ readyQue' = Append(readyQue, currentProcess)
  /\ UNCHANGED <<currentProcess, waitFlag, timerIRQ, procVars, semVars, devVars, killStack>>

(* Line 1, the quantum: the running process goes to the tail of the ready  *)
(* queue.  In a wait the handler uses currentProcess all the same: a null  *)
(* pointer makes it trap, and the pcb of a terminated process is put in    *)
(* the ready queue and "resumed" inside the nucleus.                       *)
TimerInterrupt ==
  /\ Interruptible
  /\ cpu = "wait" => timerIRQ
  /\ IF cpu = "user"
     THEN Scheduler(Append(readyQue, currentProcess), processCount, softBlockCount, NULL)
     ELSE /\ cpu' = IF currentProcess = NULL THEN "trap" ELSE "lost"
          /\ timerIRQ' = FALSE
          /\ UNCHANGED <<currentProcess, readyQue, waitFlag>>
  /\ UNCHANGED <<procVars, semVars, devVars, killStack>>

(* Fault: the test on the clock semaphore is the wrong way round.          *)
FaultClockWaiters == IF semVal[Clock] >= 0 THEN procQ[Clock] ELSE <<>>

(* The processes a tick wakes.                                             *)
ClockWaiters == IF semVal[Clock] <= 0 THEN procQ[Clock] ELSE <<>>

(* Line 2, the pseudo-clock: everybody who waits for it becomes ready.     *)
(* When currentProcess is not NULL the interrupted state is loaded: that   *)
(* of the process, or, in a wait after a termination, that of the          *)
(* scheduler behind its WAIT.                                              *)
ClockInterrupt ==
  LET woken == ClockWaiters
      rq == readyQue \o woken
  IN
  /\ Interruptible
  /\ ~timerIRQ
  /\ procQ' = [procQ EXCEPT ![Clock] = IF woken = <<>> THEN @ ELSE <<>>]
  /\ p_semAdd' = [p \in Pcbs |-> IF p \in ToSet(woken) THEN NULL ELSE p_semAdd[p]]
  /\ semVal' = [semVal EXCEPT ![Clock] = @ + Len(woken)]
  /\ softBlockCount' = softBlockCount - Len(woken)
  /\ IF currentProcess # NULL
     THEN /\ cpu' = IF cpu = "user" THEN "user" ELSE "lost"
          /\ readyQue' = rq
          /\ UNCHANGED <<currentProcess, waitFlag, timerIRQ>>
     ELSE Scheduler(rq, processCount, softBlockCount', currentProcess)
  /\ UNCHANGED <<procVars, devVars, killStack>>

(* A device completes the operation it was given.                          *)
DeviceDone(u) ==
  /\ unit[u] = "busy"
  /\ SlowDevices => \A p \in Pcbs : op[p] # u
  /\ unit' = [unit EXCEPT ![u] = "done"]
  /\ UNCHANGED <<cpuVars, procVars, semVars, op, killStack>>

IsTerminal(d) == d \in 32..39

(* The devices in use: a terminal is its transmitter n and receiver n + 8. *)
Devices == {u \in Units : u < 40}

StatusOf(u) == IF u \in Units THEN unit[u] ELSE "ready"

Pending(d) == StatusOf(d) = "done" \/ (IsTerminal(d) /\ StatusOf(d + 8) = "done")

(* ackTerminal: the transmitter is acked unless its status is READY.       *)
Acked(d) == IF IsTerminal(d) /\ StatusOf(d) = "ready" THEN d + 8 ELSE d

(* Fault: the index of the semaphore leaves the line number out.           *)
FaultSemOf(d) == d % 8

(* The semaphore the handler does its V on: the receiver's only when the   *)
(* status it got back is READY.                                            *)
SemOf(d) == IF IsTerminal(d) /\ StatusOf(Acked(d)) = "ready" THEN d + 8 ELSE d

(* An ACK puts a unit that is done back to ready; a busy one ignores it.   *)
Ack(u) == IF StatusOf(u) = "done" THEN [unit EXCEPT ![u] = "ready"] ELSE unit

(* Lines 3 to 7, for the lowest pending device.  The V wakes a process and *)
(* returns to the interrupted one, or to the scheduler when nobody was     *)
(* running; it returns to no one when the semaphore is positive, and it    *)
(* traps on a null pointer when the semaphore has no waiter any more.      *)
DeviceInterrupt(d) ==
  LET s == SemOf(d) IN
  /\ Interruptible
  /\ ~timerIRQ
  /\ Pending(d)
  /\ \A e \in Devices : Pending(e) => d <= e
  /\ unit' = Ack(Acked(d))
  /\ semVal' = [semVal EXCEPT ![s] = @ + 1]
  /\ IF OwesWakeup(s) /\ procQ[s] # <<>>
     THEN /\ Wake(s)
          /\ softBlockCount' = softBlockCount - 1
          /\ LET rq == Append(readyQue, Head(procQ[s])) IN
             IF waitFlag = 1
             THEN Scheduler(rq, processCount, softBlockCount', currentProcess)
             ELSE readyQue' = rq /\ UNCHANGED <<cpu, currentProcess, waitFlag, timerIRQ>>
     ELSE /\ cpu' = IF OwesWakeup(s) THEN "trap" ELSE "lost"
          /\ UNCHANGED <<procQ, p_semAdd, softBlockCount, currentProcess, readyQue, waitFlag, timerIRQ>>
  /\ UNCHANGED <<procVars, op, killStack>>
-----------------------------------------------------------------------------
SystemCall ==
  \/ \E p \in Pcbs : CreateProcess(p)
  \/ CreateFails
  \/ TerminateProcess
  \/ \E s \in Sems : Verhogen(s) \/ Passeren(s)
  \/ \E t \in Traps : SpecifyExceptionStateVector(t) \/ Exception(t)
  \/ WaitForClock
  \/ \E u \in Units : StartIO(u)
  \/ WaitForIODevice
  \/ ProgramLDST

Termination == KillChild \/ KillLeaf \/ KillMissing \/ KernelTrap

Interrupt ==
  \/ TimerInterrupt
  \/ ClockInterrupt
  \/ \E u \in Units : DeviceDone(u)
  \/ \E d \in Devices : DeviceInterrupt(d)

Next == SystemCall \/ Termination \/ Interrupt

Spec == Init /\ [][Next]_vars

(* A process that runs with interrupts disabled gives the CPU up by itself.*)
MaskedYield == currentProcess \notin unmasked /\ WaitForClock

(* The nucleus goes on executing; a process that keeps the CPU reaches the *)
(* end of its quantum, which restarts at every dispatch; the pseudo-clock  *)
(* and a device keep their interrupt pending until it is taken, so one     *)
(* that could be taken again and again is; a device completes what it was  *)
(* given.  Nothing makes an unmasked process do anything.                  *)
Fairness ==
  /\ WF_vars(Termination)
  /\ WF_vars(TimerInterrupt)
  /\ SF_vars(ClockInterrupt)
  /\ \A d \in Devices : SF_vars(DeviceInterrupt(d))
  /\ \A u \in Units : WF_vars(DeviceDone(u))
  /\ WF_vars(MaskedYield)

FairSpec == Spec /\ Fairness
-----------------------------------------------------------------------------
(* What the semaphores are to their users.                                 *)
Semas == INSTANCE Semaphores WITH
  Processes <- Pcbs,
  Semas <- AllSems,
  Ticking <- {Clock},
  count <- [s \in AllSems |-> IF semVal[s] > 0 THEN semVal[s] ELSE 0],
  waiting <- procQ

(* Values and queues, which SYS3, SYS4, SYS7, SYS8, the interrupts and the *)
(* scheduler update in pieces, are semaphores: no V is lost or counted     *)
(* twice, and each wakes who has waited longest.                           *)
ImplementsSemaphores == Semas!Spec

(* Types of the nucleus's globals and of the fields of every pcb.          *)
TypeOK ==
  /\ cpu \in {"user", "wait", "kill", "trap", "halt", "panic", "lost"}
  /\ currentProcess \in Pcbs \cup {NULL}
  /\ readyQue \in Seq(Pcbs)
  /\ pcbFree \subseteq Pcbs
  /\ processCount \in Int
  /\ softBlockCount \in Int
  /\ waitFlag \in 0..1
  /\ p_semAdd \in [Pcbs -> AllSems \cup {NULL}]
  /\ p_prnt \in [Pcbs -> Pcbs \cup {NULL}]
  /\ p_child \in [Pcbs -> Seq(Pcbs)]
  /\ vectors \in [Pcbs -> SUBSET TrapTypes]
  /\ unmasked \subseteq Pcbs
  /\ procQ \in [AllSems -> Seq(Pcbs)]
  /\ semVal \in [AllSems -> Int]
  /\ killStack \in Seq(Pcbs)
  /\ timerIRQ \in BOOLEAN
  /\ unit \in [Units -> {"ready", "busy", "done"}]
  /\ op \in [Pcbs -> Units \cup {NULL}]

(* processCount, by which the scheduler tells HALT from PANIC and WAIT, is *)
(* the number of pcbs in use, whatever creations, (nested) terminations    *)
(* and faults in the middle of a termination have happened.                *)
CountAccurate == processCount = Cardinality(Live)

(* The two link fields of a pcb can be in one queue only: a pcb that is    *)
(* ready is in the ready queue once and waits for nothing, a pcb in the    *)
(* queue of a semaphore is in that one only, once, and knows it; no freed  *)
(* pcb is in a queue.                                                      *)
OnePlace ==
  /\ IsInjective(readyQue)
  /\ \A p \in ToSet(readyQue) : p \in Live /\ p_semAdd[p] = NULL
  /\ \A s \in AllSems :
       /\ IsInjective(procQ[s])
       /\ \A p \in ToSet(procQ[s]) : p \in Live /\ p_semAdd[p] = s

(* The current process is in no queue, and a process that has the CPU has  *)
(* not been freed: currentProcess is stale only while nobody runs.         *)
CurrentApart ==
  /\ currentProcess \in Live =>
       currentProcess \notin ToSet(readyQue) /\ p_semAdd[currentProcess] = NULL
  /\ cpu = "user" => currentProcess \in Live

(* No process falls out of the nucleus: one that is alive is the current   *)
(* one, or ready, or blocked.                                              *)
NobodyForgotten ==
  \A p \in Live : p = currentProcess \/ p \in ToSet(readyQue) \/ Blocked(p)

(* "It is important that no previous value persist in a ProcBlk when it    *)
(* gets reallocated" (pcb.c).                                              *)
FreeClean ==
  \A p \in pcbFree : /\ p_semAdd[p] = NULL
                     /\ p_prnt[p] = NULL
                     /\ p_child[p] = <<>>
                     /\ vectors[p] = {}
                     /\ p \notin unmasked

(* Parents and children agree, and both are alive: a termination reaches   *)
(* every descendant, and none that was freed.                              *)
TreeConsistent ==
  /\ \A p \in Pcbs : IsInjective(p_child[p])
  /\ \A p, c \in Pcbs : c \in ToSet(p_child[p]) <=> p_prnt[c] = p
  /\ \A c \in Pcbs : p_prnt[c] # NULL => c \in Live /\ p_prnt[c] \in Live

(* waitFlag, which tells an interrupt whether there is a process to return *)
(* to, is set in every wait, and never while the current process lives.    *)
WaitFlagRight ==
  /\ cpu = "wait" => waitFlag = 1
  /\ waitFlag = 1 => currentProcess \notin Live

(* A termination starts at the current process, and its inner activations  *)
(* kill processes that have left their parents.                            *)
KillFrames ==
  cpu = "kill" =>
    /\ killStack # <<>>
    /\ killStack[1] = currentProcess
    /\ \A i \in 2..Len(killStack) : p_prnt[killStack[i]] = NULL

(* PANIC is called only when no process in a queue will be woken by a      *)
(* device or by the clock, in spite of what terminations, faults and the   *)
(* loss of queues do to softBlockCount.                                    *)
PanicSound ==
  cpu = "panic" => \A s \in DevSems : procQ[s] = <<>>

(* A process waiting for a unit always has an operation under way on it:   *)
(* no interrupt is acked without its waiter being woken.                   *)
IOWaitersPending ==
  \A u \in Units : procQ[u] # <<>> => unit[u] # "ready"

(* No wait is in vain: the scheduler waits only when a process is in the    *)
(* queue of a device semaphore or of the clock ("we know it will become    *)
(* unblocked", scheduler.c).                                               *)
WaitIsAnswered ==
  cpu = "wait" => \E s \in DevSems : procQ[s] # <<>>

(* The value of a semaphore counts its queue: a negative one is minus the  *)
(* number of the processes that wait for it, and nobody waits otherwise.   *)
SemCountsQueue ==
  \A s \in AllSems :
    IF semVal[s] < 0 THEN Len(procQ[s]) = -semVal[s] ELSE procQ[s] = <<>>

(* No handler returns without a state to load.                             *)
HandlersReturn == cpu # "lost"

(* The interrupt handler finds a waiter whenever its V leaves the          *)
(* semaphore at zero or below.                                             *)
InterruptFindsWaiter ==
  [][\A d \in Devices : DeviceInterrupt(d) => cpu' # "trap"]_vars

(* A wait ends in the dispatch of a process.                               *)
WaitEndsInDispatch == [][cpu = "wait" => cpu' \in {"wait", "user"}]_vars

(* A unit's waiter is woken by the end of its own operation only.          *)
WakeMeansDone ==
  [][\A u \in Units : \A p \in ToSet(procQ[u]) :
       p_semAdd'[p] # u => unit[u] = "done" /\ unit'[u] = "ready"]_vars

(* Round robin: every ready process gets the CPU.                          *)
EveryReadyRuns ==
  \A p \in Pcbs : p \in ToSet(readyQue) ~> (cpu = "user" /\ currentProcess = p)

(* Every process blocked on a device or on the clock becomes ready.        *)
SoftBlockedWakes ==
  \A p \in Pcbs : p_semAdd[p] \in DevSems ~> p_semAdd[p] = NULL

(* When the last process dies the machine halts.                           *)
LastDeathHalts ==
  (cpu = "kill" /\ Live = {currentProcess}) ~> cpu = "halt"
=============================================================================
