----------------------------- MODULE LiveProofs -----------------------------
(***************************************************************************)
(* What the semaphores of the nucleus are worth to programs that do not    *)
(* die, for any number of pcbs, semaphores and units and whatever the      *)
(* timing of quanta, ticks and devices: values count queues, waiters are   *)
(* served first come first served (the nucleus implements Semaphores), a   *)
(* wait has somebody to wake, and, for devices slower than their starters, *)
(* no handler is left without a state to load.                             *)
(***************************************************************************)
EXTENDS IOProofs

(* The programs end nobody: no SYS2, and nothing that kills its caller.    *)
NobodyDies == Calls \cap {"SYS2", "SYS5", "trap"} = {}

(* Nobody has died: there is no current process when there is none to run, *)
(* and the machine waits for something.                                    *)
Undying ==
  /\ cpu # "kill"
  /\ cpu \in {"wait", "trap"} => currentProcess = NULL
  /\ waitFlag = 1 => currentProcess = NULL
  /\ cpu = "wait" => softBlockCount # 0

(* Nobody is lost: whoever waits is in the queue he waits in.              *)
NobodyLost == \A p \in Pcbs : p_semAdd[p] # NULL => p \in ToSet(procQ[p_semAdd[p]])

SoftWaiting == {p \in Pcbs : p_semAdd[p] \in DevSems}

SoftExact == softBlockCount = Cardinality(SoftWaiting)

LiveInv == IInv /\ Undying /\ SemCountsQueue /\ NobodyLost /\ SoftExact

(* What a step can do to the semaphores.                                   *)
VMove(s) ==
  /\ semVal' = [semVal EXCEPT ![s] = @ + 1]
  /\ IF semVal'[s] <= 0 /\ procQ[s] # <<>>
     THEN /\ Wake(s)
          /\ softBlockCount' = IF s \in DevSems THEN softBlockCount - 1 ELSE softBlockCount
     ELSE UNCHANGED <<procQ, p_semAdd, softBlockCount>>

PMove(s) ==
  /\ cpu = "user"
  /\ semVal' = [semVal EXCEPT ![s] = @ - 1]
  /\ IF semVal'[s] < 0
     THEN /\ procQ' = [procQ EXCEPT ![s] = Append(@, currentProcess)]
          /\ p_semAdd' = [p_semAdd EXCEPT ![currentProcess] = s]
          /\ softBlockCount' = IF s \in DevSems THEN softBlockCount + 1 ELSE softBlockCount
     ELSE UNCHANGED <<procQ, p_semAdd, softBlockCount>>

TickMove ==
  /\ procQ' = [procQ EXCEPT ![Clock] = IF ClockWaiters = <<>> THEN @ ELSE <<>>]
  /\ p_semAdd' = [p \in Pcbs |-> IF p \in ToSet(ClockWaiters) THEN NULL ELSE p_semAdd[p]]
  /\ semVal' = [semVal EXCEPT ![Clock] = @ + Len(ClockWaiters)]
  /\ softBlockCount' = softBlockCount - Len(ClockWaiters)

Moves ==
  \/ \E s \in AllSems : VMove(s) \/ PMove(s)
  \/ TickMove
  \/ UNCHANGED semVars

-----------------------------------------------------------------------------
(* Every step is one of these moves.                                       *)

LEMMA PIsMove ==
  ASSUME NEW s, NEW e, P(s, e), cpu = "user"
  PROVE  PMove(s)
BY DEF P, Block, PMove

LEMMA SystemCallMoves ==
  ASSUME IInv, NobodyDies, SystemCall
  PROVE  Moves
<1>1. CASE \E s \in Sems : Verhogen(s)
  <2>1. PICK s \in Sems : Verhogen(s)
    BY <1>1
  <2>2. s \in AllSems /\ s \notin DevSems
    <3>1. DevSems \subseteq 0..48
      BY SemsAssumption DEF DevSems, Clock
    <3> QED
      BY <3>1, SemsAssumption, NullApart
  <2>3. VMove(s)
    BY <2>1, <2>2 DEF Verhogen, VMove, OwesWakeup
  <2> QED
    BY <2>2, <2>3 DEF Moves
<1>2. CASE \E s \in Sems : Passeren(s)
  BY <1>2, PIsMove, NullApart DEF Passeren, Running, Moves
<1>3. CASE WaitForClock
  BY <1>3, PIsMove, NullApart DEF WaitForClock, Running, Moves
<1>4. CASE WaitForIODevice
  <2>1. op[currentProcess] \in AllSems
    <3>1. TypeOK /\ currentProcess \in Pcbs
      BY <1>4 DEF WaitForIODevice, Running, IInv, CurrentApart, Live
    <3> QED
      BY <3>1, <1>4, NullApart DEF WaitForIODevice, TypeOK
  <2> QED
    BY <2>1, <1>4, PIsMove DEF WaitForIODevice, Running, Moves
<1>5. CASE \/ \E p \in Pcbs : CreateProcess(p)
           \/ CreateFails
           \/ \E u \in Units : StartIO(u)
           \/ ProgramLDST
  BY <1>5 DEF CreateProcess, CreateFails, StartIO, ProgramLDST, LoadState, Moves
<1>6. CASE TerminateProcess \/ \E t \in Traps : SpecifyExceptionStateVector(t) \/ Exception(t)
  BY <1>6 DEF TerminateProcess, SpecifyExceptionStateVector, Exception, Running, NobodyDies
<1> QED
  BY <1>1, <1>2, <1>3, <1>4, <1>5, <1>6 DEF SystemCall

LEMMA InterruptMoves ==
  ASSUME IInv, Interrupt
  PROVE  Moves
<1>1. CASE TimerInterrupt \/ \E u \in Units : DeviceDone(u)
  BY <1>1 DEF TimerInterrupt, DeviceDone, Moves
<1>2. CASE ClockInterrupt
  BY <1>2 DEF ClockInterrupt, TickMove, Moves
<1>3. CASE \E d \in Devices : DeviceInterrupt(d)
  <2>1. PICK d \in Devices : DeviceInterrupt(d)
    BY <1>3
  <2>2. d \in DevSems /\ d \in AllSems /\ SemOf(d) = d
    BY <2>1, NeverTheReceiver, NullApart DEF Devices, DeviceInterrupt
  <2>3. VMove(d)
    BY <2>1, <2>2 DEF DeviceInterrupt, VMove, OwesWakeup
  <2> QED
    BY <2>2, <2>3 DEF Moves
<1> QED
  BY <1>1, <1>2, <1>3 DEF Interrupt

(* Without deaths, no step is one of a termination.                        *)
LEMMA NextMoves ==
  ASSUME IInv, Undying, NobodyDies, [Next]_vars
  PROVE  Moves /\ (SystemCall \/ Interrupt \/ UNCHANGED vars)
<1>1. ~Termination
  BY DEF Termination, KillChild, KillLeaf, KillMissing, KernelTrap, Undying
<1>2. UNCHANGED vars => Moves
  BY DEF vars, Moves
<1> QED
  BY <1>1, <1>2, SystemCallMoves, InterruptMoves DEF Next

-----------------------------------------------------------------------------
(* What a move does to one semaphore, and to the processes.                *)

(* A V: one step up, and the oldest waiter goes, if there is one.          *)
LEMMA VEffect ==
  ASSUME IInv, SemCountsQueue, NEW s \in AllSems, VMove(s)
  PROVE  /\ \A t \in AllSems : t # s => semVal'[t] = semVal[t] /\ procQ'[t] = procQ[t]
         /\ semVal[s] \in Int /\ semVal'[s] = semVal[s] + 1
         /\ semVal[s] >= 0 => /\ procQ[s] = <<>>
                              /\ UNCHANGED <<procQ, p_semAdd, softBlockCount>>
         /\ semVal[s] < 0 =>
              /\ procQ[s] # <<>> /\ procQ[s] \in Seq(Pcbs)
              /\ procQ' = [procQ EXCEPT ![s] = Tail(@)]
              /\ p_semAdd' = [p_semAdd EXCEPT ![Head(procQ[s])] = NULL]
              /\ softBlockCount' = IF s \in DevSems THEN softBlockCount - 1
                                   ELSE softBlockCount
<1>1. /\ procQ \in [AllSems -> Seq(Pcbs)] /\ semVal \in [AllSems -> Int]
      /\ IsInjective(procQ[s])
  BY DEF IInv, TypeOK, OnePlace
<1>2. /\ semVal[s] \in Int /\ semVal'[s] = semVal[s] + 1 /\ procQ[s] \in Seq(Pcbs)
      /\ \A t \in AllSems : t # s => semVal'[t] = semVal[t]
  BY <1>1 DEF VMove
<1>3. CASE semVal[s] >= 0
  <2>1. procQ[s] = <<>>
    BY <1>2, <1>3 DEF SemCountsQueue
  <2>2. UNCHANGED <<procQ, p_semAdd, softBlockCount>>
    BY <2>1 DEF VMove
  <2> QED
    BY <1>2, <1>3, <2>1, <2>2
<1>4. CASE semVal[s] < 0
  <2>1. Len(procQ[s]) = -semVal[s]
    BY <1>4 DEF SemCountsQueue
  <2>2. procQ[s] # <<>>
    <3>1. Len(procQ[s]) # 0
      BY <2>1, <1>2, <1>4
    <3> QED
      BY <3>1, EmptySeq
  <2>3. semVal'[s] <= 0
    BY <1>2, <1>4
  <2>4. QueueAfterOut(procQ[s], Head(procQ[s])) = Tail(procQ[s])
    BY <1>1, <1>2, <2>2, RemoveBlockedIsTail
  <2>5. /\ procQ' = [procQ EXCEPT ![s] = Tail(@)]
        /\ p_semAdd' = [p_semAdd EXCEPT ![Head(procQ[s])] = NULL]
        /\ softBlockCount' = IF s \in DevSems THEN softBlockCount - 1 ELSE softBlockCount
    BY <2>2, <2>3, <2>4 DEF VMove, Wake
  <2> QED
    BY <1>1, <1>2, <1>4, <2>2, <2>5
<1> QED
  BY <1>2, <1>3, <1>4

(* A P: one step down, and its caller joins the queue unless it may pass.  *)
LEMMA PEffect ==
  ASSUME IInv, SemCountsQueue, NEW s \in AllSems, PMove(s)
  PROVE  /\ \A t \in AllSems : t # s => semVal'[t] = semVal[t] /\ procQ'[t] = procQ[t]
         /\ semVal[s] \in Int /\ semVal'[s] = semVal[s] - 1
         /\ currentProcess \in Pcbs /\ p_semAdd[currentProcess] = NULL
         /\ semVal[s] > 0 => /\ procQ[s] = <<>>
                             /\ UNCHANGED <<procQ, p_semAdd, softBlockCount>>
         /\ semVal[s] <= 0 =>
              /\ procQ[s] \in Seq(Pcbs)
              /\ procQ' = [procQ EXCEPT ![s] = Append(@, currentProcess)]
              /\ p_semAdd' = [p_semAdd EXCEPT ![currentProcess] = s]
              /\ softBlockCount' = IF s \in DevSems THEN softBlockCount + 1
                                   ELSE softBlockCount
<1>1. /\ procQ \in [AllSems -> Seq(Pcbs)] /\ semVal \in [AllSems -> Int]
      /\ currentProcess \in Pcbs /\ p_semAdd[currentProcess] = NULL
  BY DEF IInv, TypeOK, CurrentApart, Live, PMove
<1>2. /\ semVal[s] \in Int /\ semVal'[s] = semVal[s] - 1 /\ procQ[s] \in Seq(Pcbs)
      /\ \A t \in AllSems : t # s => semVal'[t] = semVal[t]
  BY <1>1 DEF PMove
<1>3. CASE semVal[s] > 0
  <2>1. procQ[s] = <<>>
    BY <1>2, <1>3 DEF SemCountsQueue
  <2>2. ~(semVal'[s] < 0)
    BY <1>2, <1>3
  <2> QED
    BY <1>1, <1>2, <1>3, <2>1, <2>2 DEF PMove
<1>4. CASE semVal[s] <= 0
  <2>1. semVal'[s] < 0
    BY <1>2, <1>4
  <2>2. /\ procQ' = [procQ EXCEPT ![s] = Append(@, currentProcess)]
        /\ p_semAdd' = [p_semAdd EXCEPT ![currentProcess] = s]
        /\ softBlockCount' = IF s \in DevSems THEN softBlockCount + 1 ELSE softBlockCount
    BY <2>1 DEF PMove
  <2>3. \A t \in AllSems : t # s => procQ'[t] = procQ[t]
    BY <1>1, <2>2
  <2> QED
    BY <1>1, <1>2, <1>4, <2>2, <2>3
<1> QED
  BY <1>2, <1>3, <1>4

(* A tick: all the waiters of the clock go, and pay what they owe.         *)
LEMMA TickEffect ==
  ASSUME IInv, SemCountsQueue, TickMove
  PROVE  /\ \A t \in AllSems : t # Clock => semVal'[t] = semVal[t] /\ procQ'[t] = procQ[t]
         /\ semVal[Clock] \in Int
         /\ semVal[Clock] >= 0 => /\ procQ[Clock] = <<>>
                                  /\ UNCHANGED <<procQ, semVal>>
         /\ semVal[Clock] < 0 => /\ semVal'[Clock] = 0
                                 /\ procQ' = [procQ EXCEPT ![Clock] = <<>>]
         /\ ClockWaiters = procQ[Clock]
<1>1. /\ procQ \in [AllSems -> Seq(Pcbs)] /\ semVal \in [AllSems -> Int] /\ Clock \in AllSems
  BY NullApart DEF IInv, TypeOK
<1>2. ClockWaiters = procQ[Clock]
  <2>1. semVal[Clock] > 0 => procQ[Clock] = <<>>
    BY <1>1 DEF SemCountsQueue
  <2> QED
    BY <1>1, <2>1 DEF ClockWaiters
<1>3. \A t \in AllSems : t # Clock => semVal'[t] = semVal[t] /\ procQ'[t] = procQ[t]
  BY <1>1 DEF TickMove
<1>4. CASE semVal[Clock] >= 0
  <2>1. procQ[Clock] = <<>> /\ Len(<<>>) = 0
    BY <1>1, <1>4, EmptySeq DEF SemCountsQueue
  <2>2. procQ' = procQ /\ semVal' = [semVal EXCEPT ![Clock] = @ + 0]
    BY <1>1, <1>2, <2>1 DEF TickMove
  <2>3. semVal' = semVal
    BY <1>1, <2>2
  <2> QED
    BY <1>1, <1>2, <1>3, <1>4, <2>1, <2>2, <2>3
<1>5. CASE semVal[Clock] < 0
  <2>1. Len(procQ[Clock]) = -semVal[Clock]
    BY <1>1, <1>5 DEF SemCountsQueue
  <2>2. semVal'[Clock] = 0
    BY <1>1, <1>2, <2>1 DEF TickMove
  <2>3. procQ' = [procQ EXCEPT ![Clock] = <<>>]
    BY <1>2 DEF TickMove
  <2> QED
    BY <1>1, <1>2, <1>3, <1>5, <2>2, <2>3
<1> QED
  BY <1>1, <1>4, <1>5

(* A semaphore's value keeps counting its queue.                           *)
LEMMA MovesKeepCount ==
  ASSUME IInv, SemCountsQueue, Moves
  PROVE  SemCountsQueue'
<1>1. /\ procQ \in [AllSems -> Seq(Pcbs)] /\ semVal \in [AllSems -> Int] /\ Clock \in AllSems
  BY NullApart DEF IInv, TypeOK
<1> DEFINE Counts(t) == IF semVal[t] < 0 THEN Len(procQ[t]) = -semVal[t] ELSE procQ[t] = <<>>
<1> SUFFICES ASSUME NEW t \in AllSems PROVE Counts(t)'
  BY DEF SemCountsQueue
<1>2. Counts(t)
  BY DEF SemCountsQueue
<1>3. ASSUME semVal'[t] = semVal[t], procQ'[t] = procQ[t] PROVE Counts(t)'
  BY <1>2, <1>3
<1>4. ASSUME VMove(t) PROVE Counts(t)'
  <2>1. semVal[t] \in Int /\ semVal'[t] = semVal[t] + 1
    BY <1>4, VEffect
  <2>2. CASE semVal[t] >= 0
    <3>1. procQ'[t] = <<>> /\ ~(semVal'[t] < 0)
      BY <2>1, <2>2, <1>4, VEffect
    <3> QED
      BY <3>1
  <2>3. CASE semVal[t] < 0
    <3>1. procQ[t] # <<>> /\ procQ[t] \in Seq(Pcbs) /\ procQ'[t] = Tail(procQ[t])
      BY <2>3, <1>1, <1>4, VEffect
    <3>2. Len(procQ'[t]) = Len(procQ[t]) - 1 /\ procQ'[t] \in Seq(Pcbs)
      BY <3>1, HeadTailProperties
    <3>3. Len(procQ[t]) = -semVal[t]
      BY <1>2, <2>3
    <3>4. Len(procQ'[t]) = -semVal'[t]
      BY <3>2, <3>3, <2>1
    <3>5. CASE semVal'[t] < 0
      BY <3>4, <3>5
    <3>6. CASE ~(semVal'[t] < 0)
      <4>1. Len(procQ'[t]) = 0
        BY <3>4, <3>6, <2>1, <2>3
      <4>2. procQ'[t] = <<>>
        BY <4>1, <3>2, EmptySeq
      <4> QED
        BY <4>2, <3>6
    <3> QED
      BY <3>5, <3>6
  <2> QED
    BY <2>1, <2>2, <2>3
<1>5. ASSUME PMove(t) PROVE Counts(t)'
  <2>1. semVal[t] \in Int /\ semVal'[t] = semVal[t] - 1
    BY <1>5, PEffect
  <2>2. CASE semVal[t] > 0
    <3>1. procQ'[t] = <<>> /\ ~(semVal'[t] < 0)
      BY <2>1, <2>2, <1>5, PEffect
    <3> QED
      BY <3>1
  <2>3. CASE semVal[t] <= 0
    <3>1. /\ procQ[t] \in Seq(Pcbs) /\ currentProcess \in Pcbs
          /\ procQ'[t] = Append(procQ[t], currentProcess)
      BY <2>3, <1>1, <1>5, PEffect
    <3>2. Len(procQ'[t]) = Len(procQ[t]) + 1
      BY <3>1, AppendProperties
    <3>3. Len(procQ[t]) = -semVal[t]
      <4>1. CASE semVal[t] < 0
        BY <4>1, <1>2
      <4>2. CASE semVal[t] = 0
        BY <4>2, <1>2, EmptySeq
      <4> QED
        BY <4>1, <4>2, <2>1, <2>3
    <3>4. semVal'[t] < 0 /\ Len(procQ'[t]) = -semVal'[t]
      BY <3>2, <3>3, <2>1, <2>3
    <3> QED
      BY <3>4
  <2> QED
    BY <2>1, <2>2, <2>3
<1>6. ASSUME TickMove, t = Clock PROVE Counts(t)'
  <2>1. CASE semVal[Clock] >= 0
    BY <2>1, <1>3, <1>6, TickEffect
  <2>2. CASE semVal[Clock] < 0
    <3>1. semVal'[t] = 0 /\ procQ'[t] = <<>>
      BY <2>2, <1>1, <1>6, TickEffect
    <3> QED
      BY <3>1
  <2> QED
    BY <2>1, <2>2, <1>1
<1> HIDE DEF Counts
<1>7. CASE \E s \in AllSems : VMove(s)
  BY <1>3, <1>4, <1>7, VEffect
<1>8. CASE \E s \in AllSems : PMove(s)
  BY <1>3, <1>5, <1>8, PEffect
<1>9. CASE TickMove
  BY <1>3, <1>6, <1>9, TickEffect
<1>10. CASE UNCHANGED semVars
  BY <1>3, <1>10 DEF semVars
<1> QED
  BY <1>7, <1>8, <1>9, <1>10 DEF Moves

(* The move of the nucleus is one of the abstract semaphores.              *)
LEMMA MovesImplement ==
  ASSUME IInv, SemCountsQueue, Moves
  PROVE  Semas!Next \/ UNCHANGED <<semVal, procQ>>
<1> DEFINE Abs(v) == [s \in AllSems |-> IF v[s] > 0 THEN v[s] ELSE 0]
<1>1. /\ procQ \in [AllSems -> Seq(Pcbs)] /\ semVal \in [AllSems -> Int] /\ Clock \in AllSems
      /\ Semas!Next <=> \E s \in AllSems : \/ Semas!Pass(s)
                                           \/ \E p \in Pcbs : Semas!Wait(p, s)
                                           \/ Semas!Signal(s)
                                           \/ Semas!HandOver(s)
                                           \/ Semas!ReleaseAll(s)
  BY NullApart DEF IInv, TypeOK, Semas!Next
<1>2. ASSUME NEW s \in AllSems, VMove(s) PROVE Semas!Signal(s) \/ Semas!HandOver(s)
  <2>1. CASE semVal[s] >= 0
    <3>0. /\ semVal[s] \in Int /\ semVal'[s] = semVal[s] + 1
          /\ \A t \in AllSems : t # s => semVal'[t] = semVal[t]
      BY <1>2, VEffect
    <3>1. Abs(semVal') = [Abs(semVal) EXCEPT ![s] = @ + 1]
      <4>1. \A t \in AllSems : (IF semVal'[t] > 0 THEN semVal'[t] ELSE 0)
              = IF t = s THEN (IF semVal[s] > 0 THEN semVal[s] ELSE 0) + 1
                ELSE IF semVal[t] > 0 THEN semVal[t] ELSE 0
        BY <2>1, <3>0
      <4> QED
        BY <4>1
    <3>2. procQ[s] = <<>> /\ procQ' = procQ
      BY <2>1, <1>2, VEffect
    <3> QED
      BY <3>1, <3>2 DEF Semas!Signal
  <2>2. CASE semVal[s] < 0
    <3>1. \A t \in AllSems : (semVal[t] > 0 \/ semVal'[t] > 0) => semVal'[t] = semVal[t]
      BY <2>2, <1>2, VEffect
    <3>2. Abs(semVal') = Abs(semVal)
      BY <3>1
    <3>3. procQ[s] # <<>> /\ procQ' = [procQ EXCEPT ![s] = Tail(@)]
      BY <2>2, <1>2, VEffect
    <3> QED
      BY <3>2, <3>3 DEF Semas!HandOver
  <2>3. semVal[s] \in Int
    BY <1>1
  <2> QED
    BY <2>1, <2>2, <2>3
<1>3. ASSUME NEW s \in AllSems, PMove(s)
      PROVE  Semas!Pass(s) \/ Semas!Wait(currentProcess, s)
  <2>1. CASE semVal[s] > 0
    <3>0. /\ semVal[s] \in Int /\ semVal'[s] = semVal[s] - 1
          /\ \A t \in AllSems : t # s => semVal'[t] = semVal[t]
      BY <1>3, PEffect
    <3>1. Abs(semVal') = [Abs(semVal) EXCEPT ![s] = @ - 1]
      <4>1. \A t \in AllSems : (IF semVal'[t] > 0 THEN semVal'[t] ELSE 0)
              = IF t = s THEN (IF semVal[s] > 0 THEN semVal[s] ELSE 0) - 1
                ELSE IF semVal[t] > 0 THEN semVal[t] ELSE 0
        BY <2>1, <3>0
      <4> QED
        BY <4>1
    <3>2. procQ' = procQ
      BY <2>1, <1>3, PEffect
    <3> QED
      BY <2>1, <3>1, <3>2 DEF Semas!Pass
  <2>2. CASE semVal[s] <= 0
    <3>1. \A t \in AllSems : (semVal[t] > 0 \/ semVal'[t] > 0) => semVal'[t] = semVal[t]
      BY <2>2, <1>3, PEffect
    <3>2. Abs(semVal') = Abs(semVal)
      BY <3>1
    <3>3. procQ' = [procQ EXCEPT ![s] = Append(@, currentProcess)]
      BY <2>2, <1>3, PEffect
    <3>4. Abs(semVal)[s] = 0
      BY <2>2, <1>1
    <3> QED
      BY <3>2, <3>3, <3>4 DEF Semas!Wait
  <2>3. semVal[s] \in Int
    BY <1>1
  <2> QED
    BY <2>1, <2>2, <2>3
<1>4. ASSUME TickMove PROVE Semas!ReleaseAll(Clock) \/ UNCHANGED <<semVal, procQ>>
  <2>1. CASE semVal[Clock] >= 0
    BY <2>1, <1>4, TickEffect
  <2>2. CASE semVal[Clock] < 0
    <3>1. \A t \in AllSems : (semVal[t] > 0 \/ semVal'[t] > 0) => semVal'[t] = semVal[t]
      BY <2>2, <1>1, <1>4, TickEffect
    <3>2. Abs(semVal') = Abs(semVal)
      BY <3>1
    <3>3. procQ' = [procQ EXCEPT ![Clock] = <<>>]
      BY <2>2, <1>4, TickEffect
    <3> QED
      BY <3>2, <3>3 DEF Semas!ReleaseAll
  <2> QED
    BY <2>1, <2>2, <1>1
<1>5. currentProcess \in Pcbs \/ \A s \in AllSems : ~PMove(s)
  BY PEffect
<1>6. CASE \E s \in AllSems : VMove(s) \/ PMove(s)
  <2>1. PICK s \in AllSems : VMove(s) \/ PMove(s)
    BY <1>6
  <2>2. CASE VMove(s)
    BY <2>1, <2>2, <1>1, <1>2
  <2>3. CASE PMove(s)
    BY <2>1, <2>3, <1>1, <1>3, <1>5
  <2> QED
    BY <2>1, <2>2, <2>3
<1>7. CASE TickMove
  BY <1>1, <1>4, <1>7
<1> QED
  BY <1>6, <1>7 DEF Moves, semVars

-----------------------------------------------------------------------------
(* Who waits, where, and how many there are.                               *)

(* Whoever waits stays in his queue until he is woken.                     *)
LEMMA MovesKeepWaiters ==
  ASSUME IInv, SemCountsQueue, NobodyLost, Moves
  PROVE  NobodyLost'
<1>1. /\ procQ \in [AllSems -> Seq(Pcbs)] /\ p_semAdd \in [Pcbs -> AllSems \cup {NULL}]
      /\ Clock \in AllSems /\ NULL \notin AllSems
      /\ \A s \in AllSems : IsInjective(procQ[s])
      /\ \A s \in AllSems : \A p \in ToSet(procQ[s]) : p \in Pcbs /\ p_semAdd[p] = s
  BY NullApart DEF IInv, TypeOK, OnePlace, Live
<1> SUFFICES ASSUME NEW p \in Pcbs, p_semAdd'[p] # NULL
             PROVE  p \in ToSet(procQ'[p_semAdd'[p]])
  BY DEF NobodyLost
<1>2. p_semAdd[p] # NULL => p_semAdd[p] \in AllSems /\ p \in ToSet(procQ[p_semAdd[p]])
  BY <1>1 DEF NobodyLost
<1>3. ASSUME NEW s \in AllSems, VMove(s) PROVE p \in ToSet(procQ'[p_semAdd'[p]])
  <2>1. CASE semVal[s] >= 0
    BY <2>1, <1>2, <1>3, VEffect
  <2>2. CASE semVal[s] < 0
    <3> DEFINE h == Head(procQ[s])
    <3>1. /\ procQ[s] # <<>> /\ procQ[s] \in Seq(Pcbs)
          /\ procQ' = [procQ EXCEPT ![s] = Tail(@)]
          /\ p_semAdd' = [p_semAdd EXCEPT ![h] = NULL]
      BY <2>2, <1>3, VEffect
    <3>2. ToSet(Tail(procQ[s])) = ToSet(procQ[s]) \ {h}
      BY <3>1, <1>1, RemoveHead
    <3> HIDE DEF h
    <3>3. p # h /\ p_semAdd'[p] = p_semAdd[p]
      BY <3>1, <1>1
    <3> QED
      BY <3>1, <3>2, <3>3, <1>1, <1>2
  <2>3. semVal[s] \in Int
    BY <1>3, VEffect
  <2> QED
    BY <2>1, <2>2, <2>3
<1>4. ASSUME NEW s \in AllSems, PMove(s) PROVE p \in ToSet(procQ'[p_semAdd'[p]])
  <2>1. CASE semVal[s] > 0
    BY <2>1, <1>2, <1>4, PEffect
  <2>2. CASE semVal[s] <= 0
    <3> DEFINE c == currentProcess
    <3>1. /\ procQ[s] \in Seq(Pcbs) /\ c \in Pcbs /\ p_semAdd[c] = NULL
          /\ procQ' = [procQ EXCEPT ![s] = Append(@, c)]
          /\ p_semAdd' = [p_semAdd EXCEPT ![c] = s]
      BY <2>2, <1>4, PEffect
    <3>2. c \notin ToSet(procQ[s])
      BY <3>1, <1>1
    <3>3. ToSet(Append(procQ[s], c)) = ToSet(procQ[s]) \cup {c}
      BY <3>1, <3>2, <1>1, InsertTail
    <3> QED
      BY <3>1, <3>3, <1>1, <1>2
  <2>3. semVal[s] \in Int
    BY <1>4, PEffect
  <2> QED
    BY <2>1, <2>2, <2>3
<1>5. ASSUME TickMove PROVE p \in ToSet(procQ'[p_semAdd'[p]])
  <2>1. p \notin ToSet(procQ[Clock]) /\ p_semAdd'[p] = p_semAdd[p]
    BY <1>5, TickEffect DEF TickMove
  <2>2. p_semAdd[p] # Clock
    BY <2>1, <1>2
  <2>3. procQ'[p_semAdd[p]] = procQ[p_semAdd[p]]
    BY <2>1, <2>2, <1>2, <1>5, TickEffect
  <2> QED
    BY <2>1, <2>3, <1>2
<1> QED
  BY <1>2, <1>3, <1>4, <1>5 DEF Moves, semVars

(* softBlockCount is exact when nobody dies.                               *)
LEMMA MovesKeepSoft ==
  ASSUME IInv, SemCountsQueue, SoftExact, Moves
  PROVE  SoftExact'
<1>1. /\ procQ \in [AllSems -> Seq(Pcbs)] /\ p_semAdd \in [Pcbs -> AllSems \cup {NULL}]
      /\ Clock \in DevSems /\ Clock \in AllSems /\ NULL \notin DevSems
      /\ \A s \in AllSems : IsInjective(procQ[s])
      /\ \A s \in AllSems : \A p \in ToSet(procQ[s]) : p \in Pcbs /\ p_semAdd[p] = s
  BY NullApart DEF IInv, TypeOK, OnePlace, Live
<1>2. /\ IsFiniteSet(SoftWaiting) /\ Cardinality(SoftWaiting) \in Nat
      /\ softBlockCount = Cardinality(SoftWaiting)
  <2>1. IsFiniteSet(SoftWaiting)
    BY PcbsAssumption, FS_Subset DEF SoftWaiting
  <2> QED
    BY <2>1, FS_CardinalityType DEF SoftExact
<1>3. ASSUME NEW s \in AllSems, VMove(s) PROVE SoftExact'
  <2>1. CASE semVal[s] >= 0
    BY <2>1, <1>3, VEffect DEF SoftExact, SoftWaiting
  <2>2. CASE semVal[s] < 0
    <3> DEFINE h == Head(procQ[s])
    <3>1. /\ procQ[s] # <<>> /\ procQ[s] \in Seq(Pcbs)
          /\ p_semAdd' = [p_semAdd EXCEPT ![h] = NULL]
          /\ softBlockCount' = IF s \in DevSems THEN softBlockCount - 1 ELSE softBlockCount
      BY <2>2, <1>3, VEffect
    <3>2. h \in ToSet(procQ[s]) /\ h \in Pcbs
      BY <3>1, <1>1, RemoveHead
    <3> HIDE DEF h
    <3>3. p_semAdd[h] = s
      BY <3>2, <1>1
    <3>4. SoftWaiting' = SoftWaiting \ {h}
      BY <3>1, <3>2, <1>1 DEF SoftWaiting
    <3>5. CASE s \in DevSems
      <4>1. h \in SoftWaiting
        BY <3>2, <3>3, <3>5 DEF SoftWaiting
      <4>2. Cardinality(SoftWaiting \ {h}) = Cardinality(SoftWaiting) - 1
        BY <4>1, <1>2, FS_RemoveElement
      <4> QED
        BY <3>1, <3>4, <3>5, <4>2, <1>2 DEF SoftExact
    <3>6. CASE s \notin DevSems
      <4>1. SoftWaiting \ {h} = SoftWaiting
        BY <3>3, <3>6 DEF SoftWaiting
      <4> QED
        BY <3>1, <3>4, <3>6, <4>1, <1>2 DEF SoftExact
    <3> QED
      BY <3>5, <3>6
  <2>3. semVal[s] \in Int
    BY <1>3, VEffect
  <2> QED
    BY <2>1, <2>2, <2>3
<1>4. ASSUME NEW s \in AllSems, PMove(s) PROVE SoftExact'
  <2>1. CASE semVal[s] > 0
    BY <2>1, <1>4, PEffect DEF SoftExact, SoftWaiting
  <2>2. CASE semVal[s] <= 0
    <3> DEFINE c == currentProcess
    <3>1. /\ c \in Pcbs /\ p_semAdd[c] = NULL
          /\ p_semAdd' = [p_semAdd EXCEPT ![c] = s]
          /\ softBlockCount' = IF s \in DevSems THEN softBlockCount + 1 ELSE softBlockCount
      BY <2>2, <1>4, PEffect
    <3>2. c \notin SoftWaiting
      BY <3>1, <1>1 DEF SoftWaiting
    <3>3. CASE s \in DevSems
      <4>1. SoftWaiting' = SoftWaiting \cup {c}
        BY <3>1, <3>3, <1>1 DEF SoftWaiting
      <4>2. Cardinality(SoftWaiting \cup {c}) = Cardinality(SoftWaiting) + 1
        BY <3>2, <1>2, FS_AddElement
      <4> QED
        BY <3>1, <3>3, <4>1, <4>2, <1>2 DEF SoftExact
    <3>4. CASE s \notin DevSems
      <4>1. SoftWaiting' = SoftWaiting
        BY <3>1, <3>4, <1>1 DEF SoftWaiting
      <4> QED
        BY <3>1, <3>4, <4>1, <1>2 DEF SoftExact
    <3> QED
      BY <3>3, <3>4
  <2>3. semVal[s] \in Int
    BY <1>4, PEffect
  <2> QED
    BY <2>1, <2>2, <2>3
<1>5. ASSUME TickMove PROVE SoftExact'
  <2> DEFINE q == procQ[Clock]
  <2>1. /\ softBlockCount' = softBlockCount - Len(q)
        /\ p_semAdd' = [p \in Pcbs |-> IF p \in ToSet(q) THEN NULL ELSE p_semAdd[p]]
    BY <1>5, TickEffect DEF TickMove
  <2>2. IsFiniteSet(ToSet(q)) /\ Cardinality(ToSet(q)) = Len(q)
    BY <1>1, QueueSize
  <2>3. ToSet(q) \subseteq SoftWaiting
    BY <1>1 DEF SoftWaiting
  <2>4. SoftWaiting' = SoftWaiting \ ToSet(q)
    BY <2>1, <1>1 DEF SoftWaiting
  <2> HIDE DEF q
  <2>5. Cardinality(SoftWaiting \ ToSet(q))
          = Cardinality(SoftWaiting) - Cardinality(SoftWaiting \cap ToSet(q))
    BY <1>2, FS_Difference
  <2>6. SoftWaiting \cap ToSet(q) = ToSet(q)
    BY <2>3
  <2> QED
    BY <2>1, <2>2, <2>4, <2>5, <2>6, <1>2 DEF SoftExact
<1> QED
  BY <1>3, <1>4, <1>5 DEF Moves, semVars, SoftExact, SoftWaiting

-----------------------------------------------------------------------------
(* The CPU of a machine on which nobody dies.                              *)

(* scheduler() for a caller that has put the running process somewhere.    *)
LEMMA SchedulerUndying ==
  ASSUME NEW rq, NEW count, Scheduler(rq, count, softBlockCount', NULL)
  PROVE  Undying' /\ cpu' \in {"user", "wait", "halt", "panic"}
<1>1. CASE rq # <<>>
  BY <1>1 DEF Scheduler, Undying
<1>2. CASE rq = <<>>
  <2>1. /\ cpu' = IF count = 0 THEN "halt" ELSE IF softBlockCount' = 0 THEN "panic" ELSE "wait"
        /\ currentProcess' = NULL
    BY <1>2, Zenon DEF Scheduler
  <2> QED
    BY <2>1 DEF Undying
<1> QED
  BY <1>1, <1>2

LEMMA PUndying ==
  ASSUME Undying, NEW s, NEW e, P(s, e), cpu = "user"
  PROVE  Undying'
<1>1. CASE Block(s)
  BY <1>1, SchedulerUndying DEF Block
<1>2. CASE cpu' \in {"user", "lost"} /\ UNCHANGED <<currentProcess, waitFlag>>
  BY <1>2 DEF Undying
<1> QED
  BY <1>1, <1>2 DEF P

LEMMA SystemCallUndying ==
  ASSUME IInv, Undying, NobodyDies, SystemCall
  PROVE  Undying'
<1>1. CASE (\E s \in Sems : Passeren(s)) \/ WaitForClock \/ WaitForIODevice
  BY <1>1, PUndying DEF Passeren, WaitForClock, WaitForIODevice, Running
<1>2. CASE \/ \E p \in Pcbs : CreateProcess(p)
           \/ CreateFails
           \/ \E s \in Sems : Verhogen(s)
           \/ \E u \in Units : StartIO(u)
           \/ ProgramLDST
  <2>1. cpu' \in {"user", "lost"} /\ UNCHANGED <<currentProcess, waitFlag>>
    BY <1>2 DEF CreateProcess, CreateFails, Verhogen, StartIO, ProgramLDST, LoadState,
                Running, cpuVars
  <2> QED
    BY <2>1 DEF Undying
<1>3. CASE TerminateProcess \/ \E t \in Traps : SpecifyExceptionStateVector(t) \/ Exception(t)
  BY <1>3 DEF TerminateProcess, SpecifyExceptionStateVector, Exception, Running, NobodyDies
<1> QED
  BY <1>1, <1>2, <1>3 DEF SystemCall

LEMMA InterruptUndying ==
  ASSUME IInv, Undying, SemCountsQueue, Interrupt
  PROVE  Undying'
<1>1. CASE TimerInterrupt
  <2>1. CASE cpu = "user"
    <3>1. /\ Scheduler(Append(readyQue, currentProcess), processCount, softBlockCount, NULL)
          /\ softBlockCount' = softBlockCount
      BY <1>1, <2>1 DEF TimerInterrupt, semVars
    <3> QED
      BY <3>1, SchedulerUndying
  <2>2. CASE cpu # "user"
    <3>1. cpu = "wait" /\ currentProcess = NULL
      BY <1>1, <2>2 DEF TimerInterrupt, Interruptible, Undying
    <3>2. cpu' = "trap" /\ UNCHANGED <<currentProcess, waitFlag>>
      BY <1>1, <2>2, <3>1 DEF TimerInterrupt
    <3> QED
      BY <3>1, <3>2 DEF Undying
  <2> QED
    BY <2>1, <2>2
<1>2. CASE ClockInterrupt
  <2>1. CASE currentProcess # NULL
    <3>1. cpu' = "user" /\ UNCHANGED <<currentProcess, waitFlag>>
      BY <1>2, <2>1 DEF ClockInterrupt, Interruptible, Undying
    <3> QED
      BY <3>1 DEF Undying
  <2>2. CASE currentProcess = NULL
    <3>1. Scheduler(readyQue \o ClockWaiters, processCount, softBlockCount', NULL)
      BY <1>2, <2>2 DEF ClockInterrupt
    <3> QED
      BY <3>1, SchedulerUndying
  <2> QED
    BY <2>1, <2>2
<1>3. CASE \E u \in Units : DeviceDone(u)
  BY <1>3 DEF DeviceDone, cpuVars, semVars, Undying
<1>4. CASE \E d \in Devices : DeviceInterrupt(d)
  <2>1. PICK d \in Devices : DeviceInterrupt(d)
    BY <1>4
  <2>2. d \in AllSems /\ SemOf(d) = d
    BY <2>1, NeverTheReceiver, NullApart DEF Devices, DeviceInterrupt
  <2>3. VMove(d)
    <3>1. d \in DevSems
      BY NullApart DEF Devices
    <3> QED
      BY <2>1, <2>2, <3>1 DEF DeviceInterrupt, VMove, OwesWakeup
  <2>4. cpu # "wait" \/ waitFlag = 1
    BY DEF IInv, WaitFlagRight
  <2>5. CASE semVal'[d] <= 0 /\ procQ[d] # <<>>
    <3> DEFINE rq == Append(readyQue, Head(procQ[d]))
    <3>1. \/ waitFlag = 1 /\ Scheduler(rq, processCount, softBlockCount', currentProcess)
          \/ waitFlag # 1 /\ UNCHANGED <<cpu, currentProcess, waitFlag>>
      BY <2>1, <2>2, <2>5 DEF DeviceInterrupt, OwesWakeup
    <3>2. CASE waitFlag = 1 /\ Scheduler(rq, processCount, softBlockCount', currentProcess)
      <4>1. Scheduler(rq, processCount, softBlockCount', NULL)
        BY <3>2 DEF Undying
      <4> QED
        BY <4>1, SchedulerUndying
    <3>3. CASE waitFlag # 1 /\ UNCHANGED <<cpu, currentProcess, waitFlag>>
      BY <3>3, <2>4 DEF Undying
    <3> QED
      BY <3>1, <3>2, <3>3
  <2>6. CASE ~(semVal'[d] <= 0 /\ procQ[d] # <<>>)
    <3>1. ~(semVal'[d] <= 0)
      <4>1. semVal[d] >= 0 \/ procQ[d] # <<>>
        BY <2>2, <2>3, VEffect
      <4>2. semVal[d] \in Int /\ semVal'[d] = semVal[d] + 1
        BY <2>2, <2>3, VEffect
      <4> QED
        BY <4>1, <4>2, <2>6
    <3>2. cpu' = "lost" /\ UNCHANGED <<currentProcess, waitFlag>>
      BY <2>1, <2>2, <2>6, <3>1 DEF DeviceInterrupt, OwesWakeup
    <3> QED
      BY <3>2 DEF Undying
  <2> QED
    BY <2>5, <2>6
<1> QED
  BY <1>1, <1>2, <1>3, <1>4 DEF Interrupt

-----------------------------------------------------------------------------
(* All of it together.                                                     *)

LEMMA InitLiveInv == Init => LiveInv
<1> SUFFICES ASSUME Init PROVE LiveInv
  OBVIOUS
<1>1. /\ cpu = "user" /\ waitFlag = 0 /\ softBlockCount = 0
      /\ p_semAdd = [p \in Pcbs |-> NULL]
      /\ procQ = [s \in AllSems |-> <<>>]
      /\ semVal \in [AllSems -> 0..1]
  BY DEF Init
<1>2. IInv
  BY InitIInv
<1>3. Undying
  BY <1>1 DEF Undying
<1>4. SemCountsQueue
  <2>1. \A s \in AllSems : semVal[s] \in 0..1 /\ procQ[s] = <<>>
    BY <1>1
  <2> QED
    BY <2>1 DEF SemCountsQueue
<1>5. NobodyLost
  BY <1>1 DEF NobodyLost
<1>6. SoftExact
  <2>1. SoftWaiting = {}
    BY <1>1, NullApart DEF SoftWaiting
  <2> QED
    BY <1>1, <2>1, FS_EmptySet DEF SoftExact
<1> QED
  BY <1>2, <1>3, <1>4, <1>5, <1>6 DEF LiveInv

LEMMA NextLiveInv ==
  ASSUME NobodyDies
  PROVE  LiveInv /\ [Next]_vars => LiveInv'
<1> SUFFICES ASSUME LiveInv, [Next]_vars PROVE LiveInv'
  OBVIOUS
<1>1. IInv /\ Undying /\ SemCountsQueue /\ NobodyLost /\ SoftExact
  BY DEF LiveInv
<1>2. IInv'
  BY <1>1, NextIInv
<1>3. Moves /\ (SystemCall \/ Interrupt \/ UNCHANGED vars)
  BY <1>1, NextMoves
<1>4. UNCHANGED vars => Undying'
  BY <1>1 DEF vars, cpuVars, semVars, Undying
<1>5. Undying'
  BY <1>1, <1>3, <1>4, SystemCallUndying, InterruptUndying
<1> QED
  BY <1>1, <1>2, <1>3, <1>5, MovesKeepCount, MovesKeepWaiters, MovesKeepSoft DEF LiveInv

(* LiveInv is an invariant of every nucleus whose processes all live.      *)
THEOREM SpecLiveInv ==
  ASSUME NobodyDies
  PROVE  Spec => []LiveInv
BY InitLiveInv, NextLiveInv, PTL DEF Spec

(* V and P keep value and queue of every semaphore in step, across context *)
(* switches, early interrupts and ticks: only deaths get them out of step. *)
THEOREM SpecSemCountsQueue ==
  ASSUME NobodyDies
  PROVE  Spec => []SemCountsQueue
<1>1. LiveInv => SemCountsQueue
  BY DEF LiveInv
<1> QED
  BY <1>1, SpecLiveInv, PTL

(* Nobody waits for a semaphore without being in its queue, and the wait   *)
(* of the scheduler has somebody to wake.                                  *)
THEOREM SpecWaitIsAnswered ==
  ASSUME NobodyDies
  PROVE  Spec => []WaitIsAnswered
<1>1. LiveInv => WaitIsAnswered
  <2> SUFFICES ASSUME LiveInv, cpu = "wait" PROVE \E s \in DevSems : procQ[s] # <<>>
    BY DEF WaitIsAnswered
  <2>1. Undying /\ NobodyLost /\ SoftExact
    BY DEF LiveInv
  <2>2. SoftWaiting # {}
    BY <2>1, FS_EmptySet DEF Undying, SoftExact
  <2>3. PICK p \in Pcbs : p_semAdd[p] \in DevSems
    BY <2>2 DEF SoftWaiting
  <2>4. p \in ToSet(procQ[p_semAdd[p]])
    BY <2>1, <2>3, NullApart DEF NobodyLost
  <2>5. procQ[p_semAdd[p]] # <<>>
    BY <2>4, EmptyQueue
  <2> QED
    BY <2>3, <2>5
<1> QED
  BY <1>1, SpecLiveInv, PTL

(* A process whose wait is over was waiting longest, or for the clock, and *)
(* no V is lost or counted twice: the nucleus implements its semaphores.   *)
THEOREM SpecImplementsSemaphores ==
  ASSUME NobodyDies
  PROVE  Spec => ImplementsSemaphores
<1>1. Init => Semas!Init
  <2> SUFFICES ASSUME Init PROVE Semas!Init
    OBVIOUS
  <2>1. procQ = [s \in AllSems |-> <<>>] /\ semVal \in [AllSems -> 0..1]
    BY DEF Init
  <2>2. \A s \in AllSems : (IF semVal[s] > 0 THEN semVal[s] ELSE 0) \in Nat
    BY <2>1
  <2>3. [s \in AllSems |-> IF semVal[s] > 0 THEN semVal[s] ELSE 0] \in [AllSems -> Nat]
    BY <2>2
  <2> QED
    BY <2>1, <2>3 DEF Semas!Init
<1>2. LiveInv /\ [Next]_vars => [Semas!Next]_(Semas!vars)
  <2> SUFFICES ASSUME LiveInv, [Next]_vars PROVE Semas!Next \/ UNCHANGED <<semVal, procQ>>
    BY DEF Semas!vars
  <2>1. IInv /\ Undying /\ SemCountsQueue
    BY DEF LiveInv
  <2> QED
    BY <2>1, NextMoves, MovesImplement
<1>3. Spec => []LiveInv
  BY SpecLiveInv
<1> QED
  BY <1>1, <1>2, <1>3, PTL DEF Spec, ImplementsSemaphores, Semas!Spec

(* A V of an interrupt that leaves its semaphore at zero or below finds    *)
(* the waiter: where it does not, somebody has been killed (the finding    *)
(* killed_waiter has no other cause).                                      *)
THEOREM SpecInterruptFindsWaiter ==
  ASSUME NobodyDies
  PROVE  Spec => InterruptFindsWaiter
<1> DEFINE Finds == \A d \in Devices : DeviceInterrupt(d) => cpu' # "trap"
<1>1. LiveInv /\ [Next]_vars => Finds
  <2> SUFFICES ASSUME LiveInv, NEW d \in Devices, DeviceInterrupt(d) PROVE cpu' # "trap"
    OBVIOUS
  <2>1. IInv /\ SemCountsQueue
    BY DEF LiveInv
  <2>2. d \in AllSems /\ d \in DevSems /\ SemOf(d) = d
    BY NeverTheReceiver, NullApart DEF Devices, DeviceInterrupt
  <2>3. VMove(d)
    BY <2>2 DEF DeviceInterrupt, VMove, OwesWakeup
  <2>4. semVal'[d] <= 0 => procQ[d] # <<>>
    <3>1. /\ semVal[d] \in Int /\ semVal'[d] = semVal[d] + 1
          /\ semVal[d] < 0 => procQ[d] # <<>>
      BY <2>1, <2>2, <2>3, VEffect
    <3> QED
      BY <3>1
  <2>5. CASE semVal'[d] <= 0
    <3> DEFINE rq == Append(readyQue, Head(procQ[d]))
    <3>1. \/ Scheduler(rq, processCount, softBlockCount', currentProcess)
          \/ UNCHANGED cpu
      BY <2>2, <2>4, <2>5 DEF DeviceInterrupt, OwesWakeup
    <3>2. CASE Scheduler(rq, processCount, softBlockCount', currentProcess)
      <4>1. cpu' \in {"user", "halt", "panic", "wait"}
        BY <3>2, Zenon DEF Scheduler
      <4> QED
        BY <4>1
    <3>3. CASE UNCHANGED cpu
      BY <3>3 DEF DeviceInterrupt, Interruptible
    <3> QED
      BY <3>1, <3>2, <3>3
  <2>6. CASE ~(semVal'[d] <= 0)
    BY <2>2, <2>6 DEF DeviceInterrupt, OwesWakeup
  <2> QED
    BY <2>5, <2>6
<1>2. Spec => []LiveInv
  BY SpecLiveInv
<1> HIDE DEF Finds
<1>3. Spec => [][Finds]_vars
  BY <1>1, <1>2, PTL DEF Spec
<1> QED
  BY <1>3 DEF InterruptFindsWaiter, Finds

-----------------------------------------------------------------------------
(* Devices: only an interrupt of its own unit wakes a unit's waiter.       *)

(* Without receivers, what is pending is done, and an ACK makes it ready.  *)
LEMMA TransmitterOnly ==
  ASSUME TypeOK, Units \cap (40..47) = {}, NEW d \in Devices, DeviceInterrupt(d)
  PROVE  /\ d \in Units /\ d \in AllSems /\ SemOf(d) = d
         /\ unit[d] = "done"
         /\ unit' = [unit EXCEPT ![d] = "ready"]
<1>1. d \in Units /\ d \in AllSems /\ Pending(d) /\ SemOf(d) = d
  BY NeverTheReceiver, NullApart DEF Devices, DeviceInterrupt
<1>2. IsTerminal(d) => d + 8 \notin Units
  <2>1. \A n \in 32..39 : n + 8 \in 40..47
    OBVIOUS
  <2> QED
    BY <2>1 DEF IsTerminal
<1>3. unit[d] = "done" /\ Acked(d) = d
  BY <1>1, <1>2 DEF Pending, StatusOf, Acked
<1> QED
  BY <1>1, <1>3 DEF DeviceInterrupt, Ack, StatusOf

(* A process that waits for a unit is woken by the end of an operation of  *)
(* that unit - again if no terminal receives, and nobody dies waiting.     *)
THEOREM SpecWakeMeansDone ==
  ASSUME NobodyDies, Units \cap (40..47) = {}
  PROVE  Spec => WakeMeansDone
<1> DEFINE Awaited == \A u \in Units : \A p \in ToSet(procQ[u]) :
                        p_semAdd'[p] # u => unit[u] = "done" /\ unit'[u] = "ready"
<1>1. LiveInv /\ [Next]_vars => Awaited
  <2> SUFFICES ASSUME LiveInv, [Next]_vars,
                      NEW u \in Units, NEW p \in ToSet(procQ[u]), p_semAdd'[p] # u
               PROVE  unit[u] = "done" /\ unit'[u] = "ready"
    OBVIOUS
  <2>1. IInv /\ Undying /\ SemCountsQueue /\ TypeOK /\ OnePlace
    BY DEF LiveInv, IInv
  <2>2. /\ u \in AllSems /\ u # Clock /\ u \notin Sems
        /\ p \in Pcbs /\ p_semAdd[p] = u /\ u # NULL
    BY <2>1, UnitsApart, NullApart DEF OnePlace, Live
  <2>3. p_semAdd'[p] # p_semAdd[p]
    BY <2>2
  <2>4. SystemCall \/ Interrupt
    BY <2>1, <2>3, NextMoves DEF vars, semVars
  <2>5. ASSUME NEW s \in AllSems, s # u, IsInjective(procQ[s]),
               procQ[s] # <<>>,
               p_semAdd' = [p_semAdd EXCEPT ![Head(procQ[s])] = NULL]
        PROVE  FALSE
    <3>1. Head(procQ[s]) \in ToSet(procQ[s])
      BY <2>1, <2>5, RemoveHead DEF TypeOK
    <3>2. p_semAdd[Head(procQ[s])] = s
      BY <2>1, <3>1 DEF OnePlace
    <3>3. Head(procQ[s]) # p
      BY <3>2, <2>2, <2>5
    <3> QED
      BY <3>3, <2>1, <2>2, <2>3, <2>5 DEF TypeOK
  <2>6. ASSUME NEW s \in AllSems, PMove(s) PROVE FALSE
    <3>1. /\ currentProcess # p
          /\ p_semAdd' = p_semAdd \/ p_semAdd' = [p_semAdd EXCEPT ![currentProcess] = s]
      BY <2>1, <2>2, <2>6, PEffect DEF PMove
    <3> QED
      BY <3>1, <2>1, <2>2, <2>3 DEF TypeOK
  <2>7. ~SystemCall
    <3>1. CASE \E s \in Sems : Verhogen(s)
      <4>1. PICK s \in Sems : Verhogen(s)
        BY <3>1
      <4>2. s \in AllSems /\ s # u /\ IsInjective(procQ[s])
        BY <2>1, <2>2, NullApart DEF OnePlace
      <4>3. \/ p_semAdd' = p_semAdd
            \/ procQ[s] # <<>> /\ p_semAdd' = [p_semAdd EXCEPT ![Head(procQ[s])] = NULL]
        BY <4>1 DEF Verhogen, Wake
      <4> QED
        BY <4>2, <4>3, <2>3, <2>5
    <3>2. CASE (\E s \in Sems : Passeren(s)) \/ WaitForClock
      BY <3>2, <2>6, PIsMove, NullApart DEF Passeren, WaitForClock, Running
    <3>3. CASE WaitForIODevice
      <4>1. op[currentProcess] \in AllSems
        <5>1. currentProcess \in Pcbs
          BY <3>3, <2>1 DEF WaitForIODevice, Running, IInv, CurrentApart, Live
        <5> QED
          BY <5>1, <3>3, <2>1, NullApart DEF WaitForIODevice, TypeOK
      <4> QED
        BY <4>1, <3>3, <2>6, PIsMove DEF WaitForIODevice, Running
    <3>4. CASE \/ \E c \in Pcbs : CreateProcess(c)
               \/ CreateFails
               \/ \E w \in Units : StartIO(w)
               \/ ProgramLDST
      BY <3>4, <2>3 DEF CreateProcess, CreateFails, StartIO, ProgramLDST, LoadState, semVars
    <3>5. CASE TerminateProcess \/ \E t \in Traps : SpecifyExceptionStateVector(t) \/ Exception(t)
      BY <3>5 DEF TerminateProcess, SpecifyExceptionStateVector, Exception, Running, NobodyDies
    <3> QED
      BY <3>1, <3>2, <3>3, <3>4, <3>5 DEF SystemCall
  <2>8. ~TimerInterrupt /\ \A w \in Units : ~DeviceDone(w)
    BY <2>3 DEF TimerInterrupt, DeviceDone, semVars
  <2>9. ~ClockInterrupt
    <3> SUFFICES ASSUME ClockInterrupt PROVE FALSE
      OBVIOUS
    <3>1. TickMove
      BY DEF ClockInterrupt, TickMove
    <3>2. p \in ToSet(procQ[Clock])
      BY <2>1, <2>2, <2>3, <3>1, TickEffect DEF TickMove
    <3> QED
      BY <3>2, <2>1, <2>2, NullApart DEF OnePlace
  <2>10. PICK d \in Devices : DeviceInterrupt(d)
    BY <2>4, <2>7, <2>8, <2>9 DEF Interrupt
  <2>11. /\ d \in Units /\ d \in AllSems /\ SemOf(d) = d
         /\ unit[d] = "done"
         /\ unit' = [unit EXCEPT ![d] = "ready"]
    BY <2>1, <2>10, TransmitterOnly
  <2>12. d = u
    <3>1. \/ p_semAdd' = p_semAdd
          \/ procQ[d] # <<>> /\ p_semAdd' = [p_semAdd EXCEPT ![Head(procQ[d])] = NULL]
      BY <2>10, <2>11 DEF DeviceInterrupt, Wake
    <3>2. IsInjective(procQ[d])
      BY <2>1, <2>11 DEF OnePlace
    <3> QED
      BY <3>1, <3>2, <2>3, <2>5, <2>11
  <2> QED
    BY <2>1, <2>11, <2>12 DEF TypeOK
<1>2. Spec => []LiveInv
  BY SpecLiveInv
<1> HIDE DEF Awaited
<1>3. Spec => [][Awaited]_vars
  BY <1>1, <1>2, PTL DEF Spec
<1> QED
  BY <1>3 DEF WakeMeansDone, Awaited

-----------------------------------------------------------------------------
(* Handlers: a device that is slower than its starter finds him waiting.   *)

(* The semaphore of a unit never lets a process pass; it is negative from  *)
(* the SYS8 until the interrupt.                                           *)
Owed(u) ==
  /\ semVal[u] <= 0
  /\ unit[u] = "done" => semVal[u] < 0
  /\ unit[u] = "busy" => semVal[u] < 0 \/ \E p \in Pcbs : op[p] = u

SlowInv == LiveInv /\ (\A u \in Units : Owed(u)) /\ cpu # "lost"

LEMMA OwedKept ==
  ASSUME NEW u \in Units, Owed(u), semVal'[u] = semVal[u], unit'[u] = unit[u],
         \A p \in Pcbs : op[p] = u => op'[p] = u
  PROVE  Owed(u)'
BY DEF Owed

(* SYS8 always waits.                                                      *)
LEMMA WaitForIODeviceOwes ==
  ASSUME SlowInv, WaitForIODevice
  PROVE  (\A u \in Units : Owed(u)') /\ cpu' # "lost"
<1> DEFINE c == currentProcess
<1>1. TypeOK /\ c \in Pcbs /\ IInv
  BY DEF SlowInv, LiveInv, IInv, WaitForIODevice, Running, CurrentApart, Live
<1>2. PICK w \in Units : w = op[c] /\ w \in AllSems
  BY <1>1, NullApart DEF WaitForIODevice, TypeOK
<1>3. /\ P(w, FALSE) /\ semVal[w] <= 0 /\ semVal[w] \in Int
      /\ op' = [op EXCEPT ![c] = NULL] /\ UNCHANGED unit
  BY <1>1, <1>2 DEF WaitForIODevice, SlowInv, Owed, TypeOK
<1>4. /\ semVal' = [semVal EXCEPT ![w] = @ - 1]
      /\ semVal'[w] < 0
  BY <1>1, <1>2, <1>3 DEF P, TypeOK
<1>5. cpu' # "lost"
  BY <1>3, <1>4, SchedulerUndying DEF P, Block
<1>6. ASSUME NEW u \in Units PROVE Owed(u)'
  <2>1. CASE u = w
    BY <2>1, <1>1, <1>2, <1>4 DEF Owed, TypeOK
  <2>2. CASE u # w
    <3>1. semVal'[u] = semVal[u]
      BY <2>2, <1>1, <1>4, NullApart DEF TypeOK
    <3>2. \A p \in Pcbs : op[p] = u => op'[p] = u
      BY <2>2, <1>1, <1>2, <1>3 DEF TypeOK
    <3> QED
      BY <3>1, <3>2, <1>3, OwedKept DEF SlowInv
  <2> QED
    BY <2>1, <2>2
<1> QED
  BY <1>5, <1>6

LEMMA SystemCallOwes ==
  ASSUME SlowInv, NobodyDies, "SYS1full" \notin Calls, SystemCall
  PROVE  (\A u \in Units : Owed(u)') /\ cpu' # "lost"
<1>1. TypeOK /\ \A u \in Units : Owed(u)
  BY DEF SlowInv, LiveInv, IInv
<1>2. ASSUME UNCHANGED devVars, \A u \in Units : semVal'[u] = semVal[u]
      PROVE  \A u \in Units : Owed(u)'
  BY <1>1, <1>2, OwedKept DEF devVars
<1>3. CASE \E s \in Sems : Verhogen(s)
  <2>1. PICK s \in Sems : Verhogen(s)
    BY <1>3
  <2>2. /\ semVal' = [semVal EXCEPT ![s] = @ + 1] /\ UNCHANGED devVars
        /\ cpu' # "lost"
    BY <2>1 DEF Verhogen, Running
  <2>3. \A u \in Units : semVal'[u] = semVal[u]
    BY <2>2, <1>1, UnitsApart, NullApart DEF TypeOK
  <2> QED
    BY <2>2, <2>3, <1>2
<1>4. CASE (\E s \in Sems : Passeren(s)) \/ WaitForClock
  <2>1. PICK s \in AllSems \ Units : P(s, TRUE)
    BY <1>4, UnitsApart DEF Passeren, WaitForClock
  <2>2. semVal' = [semVal EXCEPT ![s] = @ - 1] /\ UNCHANGED devVars
    BY <2>1, <1>4 DEF P, Passeren, WaitForClock
  <2>3. \A u \in Units : semVal'[u] = semVal[u]
    BY <2>1, <2>2, <1>1, NullApart DEF TypeOK
  <2>4. cpu' # "lost"
    BY <2>1, SchedulerUndying DEF P, Block
  <2> QED
    BY <2>2, <2>3, <2>4, <1>2
<1>5. CASE \E w \in Units : StartIO(w)
  <2>1. PICK w \in Units : StartIO(w)
    BY <1>5
  <2>2. /\ cpu' # "lost" /\ UNCHANGED semVal
        /\ unit' = [unit EXCEPT ![w] = "busy"]
        /\ op[currentProcess] = NULL
        /\ op' = [op EXCEPT ![currentProcess] = w]
        /\ currentProcess \in Pcbs
    BY <2>1 DEF StartIO, Running, cpuVars, semVars, SlowInv, LiveInv, IInv, CurrentApart, Live
  <2>3. Owed(w)'
    <3>1. unit'[w] = "busy" /\ op'[currentProcess] = w
      BY <2>2, <1>1 DEF TypeOK
    <3> QED
      BY <3>1, <2>2, <1>1 DEF Owed
  <2>4. ASSUME NEW u \in Units, u # w PROVE Owed(u)'
    <3>1. \A p \in Pcbs : op[p] = u => op'[p] = u
      BY <2>2, <1>1, UnitsApart DEF TypeOK
    <3>2. unit'[u] = unit[u]
      BY <2>2, <2>4, <1>1 DEF TypeOK
    <3> QED
      BY <3>1, <3>2, <2>2, <1>1, OwedKept
  <2> QED
    BY <2>2, <2>3, <2>4
<1>6. CASE WaitForIODevice
  BY <1>6, WaitForIODeviceOwes
<1>7. CASE (\E p \in Pcbs : CreateProcess(p)) \/ ProgramLDST
  <2>1. cpu' # "lost" /\ UNCHANGED <<semVal, devVars>>
    BY <1>7 DEF CreateProcess, ProgramLDST, LoadState, Running, semVars
  <2> QED
    BY <2>1, <1>2
<1>8. CASE \/ CreateFails
           \/ TerminateProcess
           \/ \E t \in Traps : SpecifyExceptionStateVector(t) \/ Exception(t)
  BY <1>8 DEF CreateFails, TerminateProcess, SpecifyExceptionStateVector, Exception, Running,
              NobodyDies
<1> QED
  BY <1>3, <1>4, <1>5, <1>6, <1>7, <1>8 DEF SystemCall

LEMMA InterruptOwes ==
  ASSUME SlowInv, SlowDevices, Units \cap (40..47) = {}, Interrupt
  PROVE  (\A u \in Units : Owed(u)') /\ cpu' # "lost"
<1>1. /\ TypeOK /\ IInv /\ Undying /\ SemCountsQueue
      /\ \A u \in Units : Owed(u)
  BY DEF SlowInv, LiveInv, IInv
<1>2. CASE TimerInterrupt
  <2>1. cpu' # "lost"
    <3>1. CASE cpu = "user"
      <4>1. /\ Scheduler(Append(readyQue, currentProcess), processCount, softBlockCount, NULL)
            /\ softBlockCount' = softBlockCount
        BY <1>2, <3>1 DEF TimerInterrupt, semVars
      <4> QED
        BY <4>1, SchedulerUndying
    <3>2. CASE cpu # "user"
      BY <1>1, <1>2, <3>2 DEF TimerInterrupt, Interruptible, Undying
    <3> QED
      BY <3>1, <3>2
  <2> QED
    BY <2>1, <1>1, <1>2, OwedKept DEF TimerInterrupt, semVars, devVars
<1>3. CASE ClockInterrupt
  <2>1. /\ UNCHANGED devVars
        /\ semVal' = [semVal EXCEPT ![Clock] = @ + Len(ClockWaiters)]
    BY <1>3 DEF ClockInterrupt
  <2>2. \A u \in Units : semVal'[u] = semVal[u]
    BY <2>1, <1>1, UnitsApart, NullApart DEF TypeOK
  <2>3. cpu' # "lost"
    <3>1. CASE currentProcess # NULL
      BY <3>1, <1>1, <1>3 DEF ClockInterrupt, Interruptible, Undying
    <3>2. CASE currentProcess = NULL
      <4>1. Scheduler(readyQue \o ClockWaiters, processCount, softBlockCount', NULL)
        BY <1>3, <3>2 DEF ClockInterrupt
      <4> QED
        BY <4>1, SchedulerUndying
    <3> QED
      BY <3>1, <3>2
  <2> QED
    BY <2>1, <2>2, <2>3, <1>1, OwedKept DEF devVars
<1>4. CASE \E w \in Units : DeviceDone(w)
  <2>1. PICK w \in Units : DeviceDone(w)
    BY <1>4
  <2>2. /\ unit[w] = "busy" /\ \A p \in Pcbs : op[p] # w
        /\ unit' = [unit EXCEPT ![w] = "done"]
        /\ UNCHANGED <<cpu, semVal, op>>
    BY <2>1 DEF DeviceDone, cpuVars, semVars
  <2>3. Owed(w)'
    BY <2>2, <1>1 DEF Owed
  <2>4. ASSUME NEW u \in Units, u # w PROVE Owed(u)'
    BY <2>2, <2>4, <1>1, OwedKept DEF TypeOK
  <2> QED
    BY <2>2, <2>3, <2>4 DEF SlowInv
<1>5. CASE \E d \in Devices : DeviceInterrupt(d)
  <2>1. PICK d \in Devices : DeviceInterrupt(d)
    BY <1>5
  <2>2. /\ d \in Units /\ d \in AllSems /\ SemOf(d) = d
        /\ unit[d] = "done"
        /\ unit' = [unit EXCEPT ![d] = "ready"]
    BY <1>1, <2>1, TransmitterOnly
  <2>3. /\ semVal' = [semVal EXCEPT ![d] = @ + 1] /\ UNCHANGED op
        /\ semVal[d] < 0 /\ semVal[d] \in Int
    BY <1>1, <2>1, <2>2 DEF DeviceInterrupt, Owed, TypeOK
  <2>4. semVal'[d] = semVal[d] + 1 /\ semVal'[d] <= 0
    BY <2>2, <2>3, <1>1 DEF TypeOK
  <2>5. procQ[d] # <<>>
    <3>1. Len(procQ[d]) = -semVal[d]
      BY <2>2, <2>3, <1>1 DEF SemCountsQueue
    <3>2. Len(procQ[d]) # 0
      BY <3>1, <2>3
    <3> QED
      BY <3>2, EmptySeq
  <2>6. cpu' # "lost"
    <3>1. \/ waitFlag = 1 /\ Scheduler(Append(readyQue, Head(procQ[d])), processCount,
                                       softBlockCount', currentProcess)
          \/ UNCHANGED cpu
      BY <2>1, <2>2, <2>4, <2>5 DEF DeviceInterrupt, OwesWakeup
    <3>2. waitFlag = 1 => currentProcess = NULL
      BY <1>1 DEF Undying
    <3> QED
      BY <3>1, <3>2, SchedulerUndying DEF SlowInv
  <2>7. Owed(d)'
    BY <2>2, <2>4, <1>1 DEF Owed, TypeOK
  <2>8. ASSUME NEW u \in Units, u # d PROVE Owed(u)'
    BY <2>2, <2>3, <2>8, <1>1, NullApart, OwedKept DEF TypeOK
  <2> QED
    BY <2>6, <2>7, <2>8
<1> QED
  BY <1>2, <1>3, <1>4, <1>5 DEF Interrupt

(* Every handler ends in a state to load, a halt, a panic or a wait, if    *)
(* pcbs do not run out, nobody dies, terminals do not receive and devices  *)
(* are slower than their starters; whatever the timing of quanta.          *)
THEOREM SpecHandlersReturn ==
  ASSUME NobodyDies, SlowDevices, "SYS1full" \notin Calls, Units \cap (40..47) = {}
  PROVE  Spec => []HandlersReturn
<1>1. Init => SlowInv
  <2> SUFFICES ASSUME Init, NEW u \in Units PROVE Owed(u) /\ cpu # "lost"
    BY InitLiveInv DEF SlowInv, Init
  <2>1. /\ semVal \in {v \in [AllSems -> 0..1] : \A s \in DevSems : v[s] = 0}
        /\ unit = [w \in Units |-> "ready"] /\ cpu = "user"
    BY DEF Init
  <2>2. semVal[u] = 0 /\ unit[u] = "ready"
    BY <2>1, NullApart
  <2> QED
    BY <2>1, <2>2 DEF Owed
<1>2. SlowInv /\ [Next]_vars => SlowInv'
  <2> SUFFICES ASSUME SlowInv, [Next]_vars PROVE SlowInv'
    OBVIOUS
  <2>1. LiveInv' /\ (SystemCall \/ Interrupt \/ UNCHANGED vars)
    BY NextLiveInv, NextMoves DEF SlowInv, LiveInv
  <2>2. CASE UNCHANGED vars
    BY <2>1, <2>2, OwedKept DEF SlowInv, vars, cpuVars, semVars, devVars
  <2> QED
    BY <2>1, <2>2, SystemCallOwes, InterruptOwes DEF SlowInv
<1>3. SlowInv => HandlersReturn
  BY DEF SlowInv, HandlersReturn
<1> QED
  BY <1>1, <1>2, <1>3, PTL DEF Spec
=============================================================================
