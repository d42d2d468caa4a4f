------------------------------- MODULE P2Test -------------------------------
(***************************************************************************)
(* The programs of p2test.c on the nucleus: p1 (test), which starts the    *)
(* others, and p2 to p8, which check one service of the nucleus each.      *)
(*                                                                         *)
(* A program is a sequence of instructions; every step is an instruction   *)
(* of the running process and the action of Nucleus it calls, or a step of *)
(* Nucleus that no program takes.                                          *)
(***************************************************************************)
EXTENDS Nucleus

CONSTANTS
  term_mut, sArr, testsem, startp2, endp2, endp3, blkp4, synp4, endp4, endp5,
  endp8, endcreate, blkp8,  \* the semaphores; sArr stands for all of s[]
  Incarnations,             \* bound: of p8root (4 in the code)
  TicksAfterDeath           \* the clock may tick in a WAIT after a termination

ASSUME TestSemaphores ==
  Sems = {term_mut, sArr, testsem, startp2, endp2, endp3, blkp4, synp4, endp4,
          endp5, endp8, endcreate, blkp8}
(* They are different variables.                                           *)
ASSUME SemaphoresApart ==
  IsInjective(<<term_mut, sArr, testsem, startp2, endp2, endp3, blkp4, synp4,
                endp4, endp5, endp8, endcreate, blkp8>>)
ASSUME TestScope ==
  /\ Units = {32} /\ Calls = AllCalls /\ Traps = TrapTypes
  /\ Incarnations \in Nat \ {0} /\ TicksAfterDeath \in BOOLEAN

VARIABLES
  p_s,        \* of each pcb, its processor state: program, instruction, mode
  old,        \* pstat_o, mstat_o and sstat_o: the states saved by exceptions
  p1p2synch,
  ran         \* the process that has the CPU has made a step since its dispatch

testVars == <<p_s, old, p1p2synch>>
p2vars   == <<vars, testVars, ran>>
-----------------------------------------------------------------------------
(* The programs.  "error" is where an error message would be printed, and  *)
(* the place behind a function's last call.                                *)
I(do, arg) == [do |-> do, arg |-> arg]
V(sem)     == I("V", sem)
Wait(sem)  == I("P", sem)
Create(f)  == I("create", f)
Trap(t, c) == [do |-> "trap", arg |-> t, cause |-> c]
SYS(n)     == I(n, NULL)
Error      == <<SYS("error")>>

(* One character stands for the message.                                   *)
print == <<Wait(term_mut), SYS("start"), SYS("SYS8"), V(term_mut)>>

(* p1: it is the root process.                                             *)
test ==
  <<V(testsem)>> \o print \o <<Create("p2")>> \o print
  \o <<V(startp2), Wait(endp2), SYS("synched"), Create("p3")>> \o print
  \o <<Wait(endp3), Create("p4"), Create("p5"), Create("p6"), Create("p7"),
       Wait(endp5)>> \o print \o <<Wait(blkp4)>>
  \o [i \in 1..(2 * Incarnations) |->
        IF i % 2 = 1 THEN Create("p8root") ELSE Wait(endp8)]
  \o print \o <<Trap("Pgm", "address")>> \o Error

(* One V and P stand for those on every s[].  The two SYS6 at the end only  *)
(* choose between two messages; what they return is left to CpuTime.       *)
p2 ==
  <<Wait(startp2)>> \o print \o <<V(sArr), Wait(sArr), SYS("zero")>> \o print
  \o print \o <<SYS("synch"), V(endp2), SYS("SYS2")>> \o Error

(* Waits for the clock until one of them was long enough ("again"), and    *)
(* once more for the ten of CLOCKLOOP.                                     *)
p3 ==
  <<SYS("SYS7"), SYS("again")>> \o print \o <<SYS("SYS7")>> \o print
  \o <<V(endp3), SYS("SYS2")>> \o Error

p4 ==
  print \o <<V(synp4), Wait(blkp4), Wait(synp4), Create("p4"), Wait(synp4)>>
  \o print \o <<V(endp4), SYS("SYS2")>> \o Error

p5 ==
  print \o <<I("SYS5", "Pgm"), I("SYS5", "TLB"), I("SYS5", "Sys"),
             Trap("Pgm", "bus")>> \o Error

p5a == <<Trap("TLB", "tlb")>> \o Error

p5b ==
  <<Trap("Sys", "sys"), Wait(endp4), SYS("SYS7"), SYS("again"), V(blkp4),
    V(endp5), I("SYS5", "Pgm")>> \o Error

(* The trap handlers of p5; LDST ends each.                                *)
p5prog == print \o <<I("LDST", "Pgm")>>
p5mm   == print \o <<I("LDST", "TLB")>>
p5sys  == print \o <<I("LDST", "Sys")>>

p6 == print \o <<Trap("Sys", "sys")>> \o Error
p7 == print \o <<Trap("Pgm", "address")>> \o Error

NOLEAVES == 4

p8root ==
  print \o <<Create("child1"), Create("child2")>>
  \o [i \in 1..NOLEAVES |-> Wait(endcreate)]
  \o <<V(endp8), SYS("SYS2")>> \o Error

child1 == print \o <<Create("p8leaf"), Create("p8leaf"), Wait(blkp8)>> \o Error
child2 == print \o <<Create("p8leaf"), Create("p8leaf"), Wait(blkp8)>> \o Error
p8leaf == print \o <<V(endcreate), Wait(blkp8)>> \o Error

Code ==
  [p1 |-> test, p2 |-> p2, p3 |-> p3, p4 |-> p4, p5 |-> p5, p5a |-> p5a,
   p5b |-> p5b, p5prog |-> p5prog, p5mm |-> p5mm, p5sys |-> p5sys, p6 |-> p6,
   p7 |-> p7, p8root |-> p8root, child1 |-> child1, child2 |-> child2,
   p8leaf |-> p8leaf, none |-> Error]

At(prog, user) == [prog |-> prog, at |-> 1, user |-> user]
Idle == At("none", FALSE)
-----------------------------------------------------------------------------
(* One instruction of the running process.                                 *)

InstrOf(p) == Code[p_s[p].prog][p_s[p].at]
Instr == InstrOf(currentProcess)

Advance == p_s' = [p_s EXCEPT ![currentProcess].at = @ + 1]

(* A check of the program fails: on to its error message.                  *)
Fail == p_s' = [p_s EXCEPT ![currentProcess].at = Len(Code[p_s[currentProcess].prog])]

KernelMode == cpu = "user" /\ ~p_s[currentProcess].user

(* Calls that change nothing but what the nucleus makes of them.           *)
Call ==
  /\ KernelMode
  /\ LET i == Instr IN
       \/ i.do = "V" /\ \E sem \in Sems : sem = i.arg /\ Verhogen(sem)
       \/ i.do = "P" /\ \E sem \in Sems : sem = i.arg /\ Passeren(sem)
       \/ i.do = "SYS2" /\ TerminateProcess
       \/ i.do = "SYS5" /\ \E t \in Traps : t = i.arg /\ SpecifyExceptionStateVector(t)
       \/ i.do = "SYS7" /\ WaitForClock
       \/ i.do = "start" /\ StartIO(32)
       \/ i.do = "SYS8" /\ op[currentProcess] = 32 /\ WaitForIODevice
  /\ Advance
  /\ UNCHANGED <<old, p1p2synch>>

(* SYS1.  Which pcb is at the head of the free list makes no difference.   *)
Start ==
  /\ KernelMode
  /\ Instr.do = "create"
  /\ IF pcbFree # {}
     THEN LET p == CHOOSE q \in pcbFree : TRUE IN
          /\ CreateProcess(p)
          /\ p_s' = [p_s EXCEPT ![p] = At(Instr.arg, FALSE),
                                ![currentProcess].at = @ + 1]
     ELSE CreateFails /\ UNCHANGED p_s
  /\ UNCHANGED <<old, p1p2synch>>

(* What the programs do without the nucleus.                               *)
Compute ==
  /\ cpu = "user"
  /\ \/ Instr.do = "synch" /\ p1p2synch' = 1 /\ Advance
     \/ Instr.do = "synched" /\ UNCHANGED p1p2synch /\ (IF p1p2synch = 0 THEN Fail ELSE Advance)
     \/ Instr.do = "zero" /\ UNCHANGED p1p2synch /\ (IF semVal[sArr] # 0 THEN Fail ELSE Advance)
  /\ UNCHANGED <<vars, old>>

(* Was the wait for the clock at least half of its interval?               *)
LeaveLoop == cpu = "user" /\ Instr.do = "again" /\ Advance /\ UNCHANGED <<vars, old, p1p2synch>>

Again ==
  /\ cpu = "user"
  /\ Instr.do = "again"
  /\ p_s' = [p_s EXCEPT ![currentProcess].at = @ - 1]
  /\ UNCHANGED <<vars, old, p1p2synch>>

(* p5 has handlers: they run in kernel mode with interrupts disabled.      *)
Handled(t, cause) ==
  IF t \in vectors[currentProcess]
  THEN /\ unmasked' = unmasked \ {currentProcess}
       /\ old' = [old EXCEPT ![t] = [state |-> p_s[currentProcess], cause |-> cause,
                                     open |-> currentProcess \in unmasked]]
       /\ p_s' = [p_s EXCEPT ![currentProcess] =
                    At(CASE t = "Pgm" -> "p5prog" [] t = "TLB" -> "p5mm" [] t = "Sys" -> "p5sys", FALSE)]
  ELSE UNCHANGED <<old, p_s>>

(* An exception, or SYS1 to SYS8 in user mode.                             *)
Raise ==
  /\ cpu = "user"
  /\ \E t \in Traps :
       /\ Exception(t)
       /\ IF Instr.do = "trap" THEN t = Instr.arg /\ Handled(t, Instr.cause)
          ELSE /\ p_s[currentProcess].user /\ Instr.do \notin {"again", "error"}
               /\ t = "Pgm" /\ Handled(t, "reserved")
  /\ UNCHANGED p1p2synch

(* The state a handler returns to: p5prog goes on at p5a or p5b, p5mm at   *)
(* p5b in user mode, p5sys behind the call.                                *)
ReturnState(t) ==
  LET o == old[t] IN
  CASE t = "Sys" -> [o.state EXCEPT !.at = @ + 1]
    [] t = "TLB" -> At("p5b", TRUE)
    [] t = "Pgm" -> IF o.cause = "bus" THEN At("p5a", o.state.user) ELSE At("p5b", FALSE)

EndHandler ==
  /\ KernelMode
  /\ Instr.do = "LDST"
  /\ ProgramLDST
  /\ unmasked' = IF old[Instr.arg].open THEN unmasked \cup {currentProcess}
                 ELSE unmasked \ {currentProcess}
  /\ p_s' = [p_s EXCEPT ![currentProcess] = ReturnState(Instr.arg)]
  /\ UNCHANGED <<old, p1p2synch>>

Program ==
  /\ Call \/ Start \/ Compute \/ LeaveLoop \/ Again \/ Raise \/ EndHandler
  /\ ran' = (cpu' = "user" /\ currentProcess' = currentProcess)
-----------------------------------------------------------------------------
(* The steps of the nucleus between instructions.                          *)

Killing ==
  /\ KillChild \/ KillLeaf \/ KillMissing
  /\ p_s' = [p \in Pcbs |-> IF p \in pcbFree' THEN Idle ELSE p_s[p]]
  /\ ran' = FALSE
  /\ UNCHANGED <<old, p1p2synch>>

Faulting ==
  /\ KernelTrap
  /\ Handled("Pgm", "address")
  /\ ran' = FALSE
  /\ UNCHANGED p1p2synch

(* A quantum (5 ms) is long enough for one instruction.                    *)
Quantum ==
  /\ cpu = "user" => ran
  /\ TimerInterrupt
  /\ ran' = FALSE
  /\ UNCHANGED testVars

Tick ==
  /\ TicksAfterDeath \/ cpu = "user" \/ currentProcess = NULL
  /\ ClockInterrupt
  /\ ran' = (ran /\ cpu = "user")
  /\ UNCHANGED testVars

Device ==
  /\ DeviceDone(32) \/ DeviceInterrupt(32)
  /\ ran' = (ran /\ cpu = "user")
  /\ UNCHANGED testVars

P2Init ==
  /\ Init
  /\ semVal = [sem \in AllSems |-> IF sem \in {term_mut, blkp4} THEN 1 ELSE 0]
  /\ currentProcess = CHOOSE p \in Pcbs : TRUE
  /\ p_s = [p \in Pcbs |-> IF p = currentProcess THEN At("p1", FALSE) ELSE Idle]
  /\ old = [t \in TrapTypes |-> [state |-> Idle, cause |-> "none", open |-> FALSE]]
  /\ p1p2synch = 0
  /\ ran = FALSE

P2Next == Program \/ Killing \/ Faulting \/ Quantum \/ Tick \/ Device

P2Spec == P2Init /\ [][P2Next]_p2vars

(* The machine goes on executing, interrupts are taken in the end, and a   *)
(* wait for the clock that begins just after a tick is long enough.        *)
P2Fairness ==
  /\ WF_p2vars(Program)
  /\ WF_p2vars(Killing \/ Faulting)
  /\ SF_p2vars(Program /\ LeaveLoop)
  /\ SF_p2vars(Tick)
  /\ WF_p2vars(Device /\ DeviceDone(32))
  /\ SF_p2vars(Device /\ DeviceInterrupt(32))

P2FairSpec == P2Spec /\ P2Fairness
-----------------------------------------------------------------------------
(* No check of the programs fails, and no process survives the call that   *)
(* should have ended it (the error messages and PANICs of p2test.c).       *)
NoErrorBranch == cpu = "user" => Instr.do # "error"

(* term_mut, "for mutual exclusion on terminal": one process at a time is  *)
(* between its P and its V, and it finds the transmitter ready.            *)
UsesTerminal(p) ==
  /\ p \in Live
  /\ p_semAdd[p] # term_mut
  /\ \/ InstrOf(p).do \in {"start", "SYS8"}
     \/ InstrOf(p) = V(term_mut)

TerminalExclusive ==
  /\ \A p, q \in Pcbs : UsesTerminal(p) /\ UsesTerminal(q) => p = q
  /\ \A p \in Live : InstrOf(p).do = "start" /\ UsesTerminal(p) => unit[32] = "ready"

(* "if p4 and offspring are really dead, this will increment blkp4"        *)
(* (p2test.c): before p5 signals its own end its V on blkp4 has found no   *)
(* incarnation of p4, neither in the semaphore's queue nor in its value.   *)
P4Gone ==
  \A p \in Live : InstrOf(p) = V(endp5) =>
    semVal[blkp4] = 1 /\ \A q \in Live : p_s[q].prog # "p4"

(* A termination reaches the whole subtree: with no p8root alive none of   *)
(* its descendants is.                                                     *)
SubtreeDies ==
  cpu \in {"user", "wait"} /\ (\A p \in Live : p_s[p].prog # "p8root")
    => \A p \in Live : p_s[p].prog \notin {"child1", "child2", "p8leaf"}

(* The test comes to its end: "p1 finishes OK -- TTFN".                    *)
P1Finishes ==
  <>(\E p \in Live : p_s[p].prog = "p1" /\ p_s[p].at = Len(test) - 1)
=============================================================================
