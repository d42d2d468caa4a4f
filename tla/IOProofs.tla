------------------------------ MODULE IOProofs -----------------------------
(***************************************************************************)
(* What the nucleus knows of the processes that wait for a device or for   *)
(* the clock, for any number of pcbs, semaphores and units: softBlockCount *)
(* is never too small for the queues of the device semaphores, so that a   *)
(* PANIC strands nobody; and, without receivers, whoever waits for a unit  *)
(* waits for an operation that is under way.                               *)
(***************************************************************************)
EXTENDS NucleusProofs

(* The processes softBlockCount has to account for: those in the queue of  *)
(* a device semaphore, and those a lost queue has left behind, as long as  *)
(* a termination can still find them by the tree and count them down.      *)
Accounted(p) ==
  /\ p \in Live
  /\ p_semAdd[p] \in DevSems
  /\ \/ p \in ToSet(procQ[p_semAdd[p]])
     \/ p_prnt[p] # NULL
     \/ p \in ToSet(killStack)

SoftBlocked == {p \in Pcbs : Accounted(p)}

SoftCounted == softBlockCount >= Cardinality(SoftBlocked)

SoftInv ==
  /\ IInv
  /\ SoftCounted
  /\ cpu = "panic" => softBlockCount = 0

-----------------------------------------------------------------------------
(* Counting.                                                               *)

(* Some are counted down that leave the set.                               *)
LEMMA CountDown ==
  ASSUME NEW A, IsFiniteSet(A), NEW S \in SUBSET A, NEW B \in SUBSET (A \ S),
         NEW n \in Int, n >= Cardinality(A)
  PROVE  n - Cardinality(S) >= Cardinality(B)
<1>1. IsFiniteSet(S) /\ IsFiniteSet(A \ S)
  BY FS_Subset
<1>2. Cardinality(A \ S) = Cardinality(A) - Cardinality(A \cap S)
  BY FS_Difference
<1>3. A \cap S = S
  OBVIOUS
<1>4. Cardinality(B) <= Cardinality(A \ S)
  BY <1>1, FS_Subset
<1>5. /\ Cardinality(A) \in Nat /\ Cardinality(S) \in Nat
      /\ Cardinality(B) \in Nat /\ Cardinality(A \ S) \in Nat
  BY <1>1, FS_Subset, FS_CardinalityType
<1> QED
  BY <1>2, <1>3, <1>4, <1>5

(* One is counted up that joins it.                                        *)
LEMMA CountUp ==
  ASSUME NEW A, IsFiniteSet(A), NEW c, NEW B \in SUBSET (A \cup {c}),
         NEW n \in Int, n >= Cardinality(A)
  PROVE  n + 1 >= Cardinality(B)
<1>0. /\ IsFiniteSet(A \cup {c}) /\ Cardinality(A) \in Nat
      /\ Cardinality(A \cup {c}) = IF c \in A THEN Cardinality(A) ELSE Cardinality(A) + 1
  BY FS_AddElement, FS_CardinalityType
<1>1. /\ IsFiniteSet(A \cup {c})
      /\ Cardinality(A \cup {c}) <= Cardinality(A) + 1
  BY <1>0
<1>2. IsFiniteSet(B) /\ Cardinality(B) <= Cardinality(A \cup {c})
  BY <1>1, FS_Subset
<1>3. /\ Cardinality(A) \in Nat
      /\ Cardinality(B) \in Nat /\ Cardinality(A \cup {c}) \in Nat
  BY <1>1, <1>2, FS_CardinalityType
<1> QED
  BY <1>1, <1>2, <1>3

LEMMA SoftBlockedFinite == IsFiniteSet(SoftBlocked) /\ SoftBlocked \subseteq Pcbs
BY PcbsAssumption, FS_Subset DEF SoftBlocked

(* scheduler() panics only when the count it is given is zero.             *)
LEMMA SchedulerPanics ==
  ASSUME NEW rq, NEW count, NEW soft, NEW cur, Scheduler(rq, count, soft, cur)
  PROVE  cpu' = "panic" => soft = 0
<1>1. CASE rq # <<>>
  BY <1>1 DEF Scheduler
<1>2. CASE rq = <<>>
  BY <1>2, Zenon DEF Scheduler
<1> QED
  BY <1>1, <1>2

(* A step that gives nobody a semaphore to wait for, nor a new place in    *)
(* the queue of one, the tree or the stack of kills, and counts down those *)
(* of whom nothing is known any more.                                      *)
LEMMA SoftShrinks ==
  ASSUME SoftInv, NEW S \in SUBSET SoftBlocked,
         softBlockCount' = softBlockCount - Cardinality(S),
         \A p \in S : p \notin SoftBlocked',
         \A p \in Pcbs : p \in Live' /\ p_semAdd'[p] \in DevSems =>
           /\ p \in Live
           /\ p_semAdd[p] = p_semAdd'[p]
           /\ p \in ToSet(procQ'[p_semAdd[p]]) => p \in ToSet(procQ[p_semAdd[p]])
           /\ p_prnt'[p] # NULL => p_prnt[p] # NULL
           /\ p \in ToSet(killStack') => p_prnt[p] # NULL \/ p \in ToSet(killStack)
  PROVE  SoftCounted'
<1>1. SoftBlocked' \in SUBSET (SoftBlocked \ S)
  BY DEF SoftBlocked, Accounted
<1>2. softBlockCount \in Int
  BY DEF SoftInv, IInv, TypeOK
<1>3. softBlockCount >= Cardinality(SoftBlocked)
  BY DEF SoftInv, SoftCounted
<1>4. softBlockCount - Cardinality(S) >= Cardinality(SoftBlocked')
  BY <1>1, <1>2, <1>3, SoftBlockedFinite, CountDown
<1> QED
  BY <1>4 DEF SoftCounted

(* Most steps count nobody down.                                           *)
LEMMA SoftSteady ==
  ASSUME SoftInv, softBlockCount' = softBlockCount,
         \A p \in Pcbs : p \in Live' /\ p_semAdd'[p] \in DevSems =>
           /\ p \in Live
           /\ p_semAdd[p] = p_semAdd'[p]
           /\ p \in ToSet(procQ'[p_semAdd[p]]) => p \in ToSet(procQ[p_semAdd[p]])
           /\ p_prnt'[p] # NULL => p_prnt[p] # NULL
           /\ p \in ToSet(killStack') => p_prnt[p] # NULL \/ p \in ToSet(killStack)
  PROVE  SoftCounted'
<1>1. softBlockCount \in Int /\ Cardinality({}) = 0 /\ {} \in SUBSET SoftBlocked
  BY FS_EmptySet DEF SoftInv, IInv, TypeOK
<1>2. softBlockCount' = softBlockCount - Cardinality({})
  BY <1>1
<1> QED
  BY <1>1, <1>2, SoftShrinks

(* And many do not touch what it depends on.                               *)
LEMMA SoftUntouched ==
  ASSUME SoftInv, UNCHANGED <<pcbFree, p_semAdd, procQ, p_prnt, killStack, softBlockCount>>
  PROVE  SoftCounted'
BY SoftSteady DEF Live

-----------------------------------------------------------------------------
(* System calls.                                                           *)

(* A termination begins at a process that waits for nothing.               *)
LEMMA StartKillSoft ==
  ASSUME SoftInv, StartKill
  PROVE  SoftCounted' /\ cpu' # "panic"
<1>1. IInv /\ CurrentApart /\ TypeOK
  BY DEF SoftInv, IInv
<1>2. /\ UNCHANGED <<pcbFree, p_semAdd, procQ, p_prnt, softBlockCount>>
      /\ killStack' = <<currentProcess>>
      /\ Live' = Live
      /\ cpu' = "kill"
  BY DEF StartKill, procVars, semVars, Live
<1>3. ToSet(killStack') = {currentProcess}
  BY <1>2 DEF ToSet
<1>4. \A p \in Pcbs : p \in Live' /\ p_semAdd'[p] \in DevSems => p \notin ToSet(killStack')
  BY <1>1, <1>2, <1>3, NullApart DEF CurrentApart
<1> QED
  BY <1>2, <1>4, SoftSteady

(* SYS1: a new process waits for nothing.                                  *)
LEMMA CreateProcessSoft ==
  ASSUME SoftInv, NEW c \in Pcbs, CreateProcess(c)
  PROVE  SoftCounted' /\ cpu' # "panic"
<1>1. FreeClean /\ TypeOK
  BY DEF SoftInv, IInv
<1>2. /\ cpu = "user" /\ cpu' = cpu
      /\ c \in pcbFree
      /\ Live' = Live \cup {c}
      /\ p_prnt' = [p_prnt EXCEPT ![c] = currentProcess]
      /\ UNCHANGED <<p_semAdd, procQ, killStack, softBlockCount>>
  BY DEF CreateProcess, Running, semVars, Live
<1>3. p_semAdd[c] \notin DevSems
  BY <1>1, <1>2, NullApart DEF FreeClean
<1>4. \A p \in Pcbs : p # c => p_prnt'[p] = p_prnt[p]
  BY <1>1, <1>2 DEF TypeOK
<1> QED
  BY <1>2, <1>3, <1>4, SoftSteady

(* A P: softBlockCount counts a waiter of a device semaphore and no other. *)
LEMMA PSoft ==
  ASSUME SoftInv, NEW s \in AllSems, NEW e, P(s, e), cpu = "user",
         UNCHANGED <<procVars, killStack>>
  PROVE  SoftCounted' /\ (cpu' = "panic" => softBlockCount' = 0)
<1>1. TypeOK /\ QueuesApart /\ SoftCounted /\ CurrentApart /\ OnePlace
  BY DEF SoftInv, IInv, OnePlace, QueuesApart
<1>2. UNCHANGED <<pcbFree, p_prnt, killStack>> /\ Live' = Live
  BY DEF procVars, Live
<1> DEFINE c == currentProcess
<1>3. CASE semVal'[s] < 0
  <2>1. /\ procQ' = [procQ EXCEPT ![s] = Append(@, c)]
        /\ p_semAdd' = [p_semAdd EXCEPT ![c] = s]
        /\ softBlockCount' = IF s \in DevSems THEN softBlockCount + 1 ELSE softBlockCount
        /\ Scheduler(readyQue, processCount, softBlockCount', NULL)
    BY <1>3 DEF P, Block
  <2>2. c \in Live /\ c \in Pcbs /\ c \notin ToSet(procQ[s])
    BY <1>1, NullApart DEF CurrentApart, Live, QueuesApart
  <2>3. ToSet(procQ'[s]) = ToSet(procQ[s]) \cup {c}
    BY <1>1, <2>1, <2>2, InsertTail DEF TypeOK, QueuesApart
  <2>4. \A t \in AllSems : t # s => procQ'[t] = procQ[t]
    BY <1>1, <2>1 DEF TypeOK
  <2>5. \A p \in Pcbs : p_semAdd'[p] = IF p = c THEN s ELSE p_semAdd[p]
    BY <1>1, <2>1 DEF TypeOK
  <2>6. \A p \in Pcbs : p # c /\ p_semAdd[p] \in DevSems /\ p \in ToSet(procQ'[p_semAdd[p]])
          => p \in ToSet(procQ[p_semAdd[p]])
    BY <2>3, <2>4, NullApart
  <2>7. CASE s \in DevSems
    <3>1. SoftBlocked' \in SUBSET (SoftBlocked \cup {c})
      BY <1>2, <2>5, <2>6 DEF SoftBlocked, Accounted
    <3>2. softBlockCount \in Int /\ softBlockCount >= Cardinality(SoftBlocked)
      BY <1>1 DEF TypeOK, SoftCounted
    <3>3. softBlockCount + 1 >= Cardinality(SoftBlocked')
      BY <3>1, <3>2, SoftBlockedFinite, CountUp
    <3> QED
      BY <2>1, <2>7, <3>3, SchedulerPanics DEF SoftCounted
  <2>8. CASE s \notin DevSems
    <3>1. softBlockCount' = softBlockCount
      BY <2>1, <2>8
    <3>2. SoftCounted'
      BY <1>2, <2>5, <2>6, <2>8, <3>1, SoftSteady
    <3> QED
      BY <2>1, <3>2, SchedulerPanics
  <2> QED
    BY <2>7, <2>8
<1>4. CASE ~(semVal'[s] < 0)
  <2>1. /\ UNCHANGED <<procQ, p_semAdd, softBlockCount>>
        /\ cpu' = IF e THEN "user" ELSE "lost"
    BY <1>4 DEF P
  <2> QED
    BY <1>2, <2>1, SoftUntouched
<1> QED
  BY <1>3, <1>4

(* SYS3: a V of a program does not concern softBlockCount.                 *)
LEMMA VerhogenSoft ==
  ASSUME SoftInv, NEW s \in Sems, Verhogen(s)
  PROVE  SoftCounted' /\ cpu' # "panic"
<1>1. TypeOK
  BY DEF SoftInv, IInv
<1>2. /\ cpu = "user" /\ cpu' = cpu
      /\ UNCHANGED <<pcbFree, p_prnt, killStack, softBlockCount>>
      /\ Live' = Live
  BY DEF Verhogen, Running, procVars, Live
<1>3. \/ UNCHANGED <<procQ, p_semAdd>>
      \/ /\ procQ' = [procQ EXCEPT ![s] = QueueAfterOut(@, Head(@))]
         /\ p_semAdd' = [p_semAdd EXCEPT ![Head(procQ[s])] = NULL]
  BY DEF Verhogen, Wake
<1>4. s \notin DevSems
  <2>1. DevSems \subseteq 0..48
    BY SemsAssumption DEF DevSems, Clock
  <2> QED
    BY <2>1, SemsAssumption
<1>5. /\ \A t \in DevSems : procQ'[t] = procQ[t]
      /\ \A p \in Pcbs : p_semAdd'[p] \in {p_semAdd[p], NULL}
  BY <1>1, <1>3, <1>4, NullApart DEF TypeOK
<1>6. \A p \in Pcbs : p_semAdd'[p] \in DevSems => p_semAdd[p] = p_semAdd'[p]
  BY <1>5, NullApart
<1> QED
  BY <1>2, <1>5, <1>6, SoftSteady

(* passUpOrDie.                                                            *)
LEMMA PassUpOrDieSoft ==
  ASSUME SoftInv, NEW t, PassUpOrDie(t)
  PROVE  SoftCounted' /\ cpu' # "panic"
<1>1. CASE StartKill
  BY <1>1, StartKillSoft
<1>2. CASE cpu' = "user" /\ LoadState
  <2>1. UNCHANGED <<pcbFree, p_semAdd, procQ, p_prnt, killStack, softBlockCount>>
    BY <1>2 DEF LoadState, semVars
  <2> QED
    BY <1>2, <2>1, SoftUntouched
<1> QED
  BY <1>1, <1>2 DEF PassUpOrDie

LEMMA SystemCallSoft ==
  ASSUME SoftInv, SystemCall
  PROVE  SoftCounted' /\ (cpu' = "panic" => softBlockCount' = 0)
<1>1. CASE \E p \in Pcbs : CreateProcess(p)
  BY <1>1, CreateProcessSoft
<1>2. CASE CreateFails
  <2>1. UNCHANGED <<pcbFree, p_semAdd, procQ, p_prnt, killStack, softBlockCount>> /\ cpu' = "lost"
    BY <1>2 DEF CreateFails, procVars, semVars
  <2> QED
    BY <2>1, SoftUntouched
<1>3. CASE TerminateProcess
  BY <1>3, StartKillSoft DEF TerminateProcess
<1>4. CASE \E s \in Sems : Verhogen(s)
  BY <1>4, VerhogenSoft
<1>5. CASE \E s \in Sems : Passeren(s)
  BY <1>5, PSoft, NullApart DEF Passeren, Running
<1>6. CASE \E t \in Traps : SpecifyExceptionStateVector(t)
  <2>1. PICK t \in Traps : SpecifyExceptionStateVector(t)
    BY <1>6
  <2>2. CASE StartKill
    BY <2>2, StartKillSoft
  <2>3. CASE ~StartKill
    <3>1. /\ UNCHANGED <<pcbFree, p_semAdd, procQ, p_prnt, killStack, softBlockCount, cpu>>
          /\ cpu = "user"
      BY <2>1, <2>3 DEF SpecifyExceptionStateVector, Running, Return, cpuVars, semVars
    <3> QED
      BY <3>1, SoftUntouched
  <2> QED
    BY <2>2, <2>3
<1>7. CASE \E t \in Traps : Exception(t)
  BY <1>7, PassUpOrDieSoft DEF Exception
<1>8. CASE WaitForClock
  BY <1>8, PSoft, NullApart DEF WaitForClock, Running
<1>9. CASE \E u \in Units : StartIO(u)
  <2>1. /\ UNCHANGED <<pcbFree, p_semAdd, procQ, p_prnt, killStack, softBlockCount, cpu>>
        /\ cpu = "user"
    BY <1>9 DEF StartIO, Running, cpuVars, procVars, semVars
  <2> QED
    BY <2>1, SoftUntouched
<1>10. CASE WaitForIODevice
  <2>1. op[currentProcess] \in AllSems
    <3>1. TypeOK /\ currentProcess \in Pcbs
      BY <1>10 DEF WaitForIODevice, Running, SoftInv, IInv, CurrentApart, Live
    <3> QED
      BY <3>1, <1>10, NullApart DEF WaitForIODevice, TypeOK
  <2> QED
    BY <1>10, <2>1, PSoft DEF WaitForIODevice, Running
<1>11. CASE ProgramLDST
  <2>1. /\ UNCHANGED <<pcbFree, p_semAdd, procQ, p_prnt, killStack, softBlockCount, cpu>>
        /\ cpu = "user"
    BY <1>11 DEF ProgramLDST, LoadState, Running, semVars
  <2> QED
    BY <2>1, SoftUntouched
<1> QED
  BY <1>1, <1>2, <1>3, <1>4, <1>5, <1>6, <1>7, <1>8, <1>9, <1>10, <1>11 DEF SystemCall

-----------------------------------------------------------------------------
(* terminateRecursively.                                                   *)

(* An activation begins.                                                   *)
LEMMA PushStack ==
  ASSUME NEW S, NEW q \in Seq(S), NEW c \in S
  PROVE  \A x \in ToSet(Append(q, c)) : x = c \/ x \in ToSet(q)
<1> DEFINE r == Append(q, c)
<1>1. /\ r \in Seq(S)
      /\ Len(r) = Len(q) + 1
      /\ \A i \in 1..Len(q) : r[i] = q[i]
      /\ r[Len(q) + 1] = c
  BY AppendProperties
<1>2. Len(q) \in Nat
  BY LenProperties
<1> HIDE DEF r
<1>3. ASSUME NEW x \in ToSet(r) PROVE x = c \/ x \in ToSet(q)
  BY <1>1, <1>2, MemberPosition
<1> QED
  BY <1>3 DEF r

(* An activation ends.                                                     *)
LEMMA StackMembers ==
  ASSUME NEW S, NEW q \in Seq(S), q # <<>>
  PROVE  ToSet(Front(q)) \subseteq ToSet(q) /\ Last(q) \in ToSet(q)
<1> DEFINE r == Front(q)
<1>1. /\ r \in Seq(S)
      /\ Len(r) = Len(q) - 1
      /\ \A i \in 1..Len(q) - 1 : r[i] = q[i]
      /\ Last(q) = q[Len(q)]
      /\ Len(q) \in Nat /\ Len(q) >= 1
  BY PopStack
<1> HIDE DEF r
<1>2. ASSUME NEW x \in ToSet(r) PROVE x \in ToSet(q)
  <2>1. PICK i \in 1..Len(r) : r[i] = x
    BY <1>1, MemberPosition
  <2>2. i \in 1..Len(q) - 1 /\ i \in 1..Len(q)
    BY <1>1
  <2> QED
    BY <2>1, <2>2, <1>1, MemberPosition
<1>3. Len(q) \in 1..Len(q)
  BY <1>1
<1> QED
  BY <1>1, <1>2, <1>3, MemberPosition DEF r

(* A child that leaves the tree is on the stack from then on.              *)
LEMMA KillChildSoft ==
  ASSUME SoftInv, KillChild
  PROVE  SoftCounted' /\ cpu' # "panic"
<1> DEFINE c == Head(p_child[Victim])
<1>1. IInv /\ TypeOK /\ TreeConsistent /\ KillFrames
  BY DEF SoftInv, IInv
<1>2. /\ cpu = "kill" /\ cpu' = cpu
      /\ p_child[Victim] # <<>>
      /\ p_prnt' = [p_prnt EXCEPT ![c] = NULL]
      /\ killStack' = Append(killStack, c)
      /\ UNCHANGED <<pcbFree, p_semAdd, procQ, softBlockCount>>
  BY DEF KillChild, cpuVars, semVars
<1>3. Victim \in Pcbs
  BY <1>1, <1>2, PopStack DEF TypeOK, KillFrames, Victim
<1>4. c \in ToSet(p_child[Victim]) /\ c \in Pcbs
  BY <1>1, <1>2, <1>3, RemoveHead DEF TypeOK, TreeConsistent
<1>5. p_prnt[c] # NULL
  BY <1>1, <1>3, <1>4, NullApart DEF TreeConsistent
<1> HIDE DEF c
<1>6. \A p \in ToSet(killStack') : p = c \/ p \in ToSet(killStack)
  BY <1>1, <1>2, <1>4, PushStack DEF TypeOK
<1>7. \A p \in Pcbs : p_prnt'[p] # NULL => p_prnt[p] # NULL
  BY <1>1, <1>2 DEF TypeOK
<1> QED
  BY <1>2, <1>5, <1>6, <1>7, SoftSteady DEF Live

(* Not found is not accounted for: its kill counts down a process that     *)
(* neither a queue nor the tree nor the stack knows of any more.           *)
LEMMA KillMissingSoft ==
  ASSUME SoftInv, KillMissing
  PROVE  SoftCounted' /\ cpu' # "panic"
<1> DEFINE v == Victim
           soft == Blocked(v) /\ p_semAdd[v] \in DevSems
<1>1. TypeOK /\ CurrentApart /\ KillFrames /\ FreeClean
  BY DEF SoftInv, IInv
<1>2. /\ cpu = "kill" /\ cpu' = "trap"
      /\ ~Found(v)
      /\ ReleaseSemaphore(v)
      /\ killStack' = <<>>
      /\ UNCHANGED <<pcbFree, p_semAdd, procQ, p_prnt>>
      /\ Live' = Live
  BY DEF KillMissing, procVars, Live
<1>3. /\ killStack \in Seq(Pcbs) /\ killStack # <<>> /\ killStack[1] = currentProcess
      /\ v \in Pcbs /\ v = killStack[Len(killStack)]
      /\ Len(killStack) \in Nat /\ Len(killStack) >= 1
  BY <1>1, <1>2, PopStack DEF TypeOK, KillFrames, Victim
<1>7. v \in ToSet(killStack)
  BY <1>3, StackMembers DEF Victim
<1>4. ToSet(killStack') = {}
  BY <1>2, EmptyQueue
<1> HIDE DEF v
<1>5. CASE ~soft
  <2>1. softBlockCount' = softBlockCount
    BY <1>2, <1>5 DEF ReleaseSemaphore
  <2> QED
    BY <1>2, <1>4, <2>1, SoftSteady
<1>6. CASE soft
  <2>1. v \in Live /\ p_semAdd[v] # NULL /\ v \notin ToSet(procQ[p_semAdd[v]])
    BY <1>1, <1>2, <1>3, <1>6 DEF FreeClean, Found, Blocked, Live
  <2>2. v # currentProcess
    BY <2>1, <1>1 DEF CurrentApart
  <2>3. p_prnt[v] = NULL
    <3>0. \A n \in Nat : n >= 1 /\ n # 1 => n \in 2..n
      OBVIOUS
    <3>1. Len(killStack) # 1
      BY <2>2, <1>3
    <3>2. Len(killStack) \in 2..Len(killStack)
      BY <3>0, <3>1, <1>3
    <3> QED
      BY <3>2, <1>1, <1>2, <1>3 DEF KillFrames
  <2>4. v \notin SoftBlocked'
    BY <2>1, <2>3, <1>2, <1>4 DEF SoftBlocked, Accounted
  <2>5. softBlockCount' = softBlockCount - Cardinality({v})
    BY <1>2, <1>6, FS_Singleton DEF ReleaseSemaphore
  <2>6. {v} \in SUBSET SoftBlocked
    BY <2>1, <1>3, <1>6, <1>7 DEF SoftBlocked, Accounted
  <2> QED
    BY <2>4, <2>5, <2>6, <1>2, <1>4, SoftShrinks
<1> QED
  BY <1>2, <1>5, <1>6

(* The kill of a soft-blocked process counts it down, and whoever outBlocked*)
(* loses with it stays accounted for as long as the tree has him.          *)
LEMMA KillLeafSoft ==
  ASSUME SoftInv, KillLeaf
  PROVE  SoftCounted' /\ (cpu' = "panic" => softBlockCount' = 0)
<1> DEFINE v == Victim
           soft == Blocked(v) /\ p_semAdd[v] \in DevSems
<1>1. IInv /\ TypeOK /\ OnePlace
  BY DEF SoftInv, IInv
<1>2. /\ cpu = "kill" /\ p_child[v] = <<>> /\ Found(v)
      /\ ReleaseSemaphore(v)
      /\ procQ' = QueuesAfter(v)
      /\ p_semAdd' = [p_semAdd EXCEPT ![v] = NULL]
      /\ p_prnt' = [p_prnt EXCEPT ![v] = NULL]
      /\ pcbFree' = pcbFree \cup {v}
      /\ killStack' = Front(killStack)
      /\ \/ Scheduler(ReadyAfter(v), processCount', softBlockCount', currentProcess)
         \/ cpu' = cpu
  BY DEF KillLeaf, Clean
<1>3. /\ killStack \in Seq(Pcbs) /\ killStack # <<>>
      /\ v \in Live /\ v \in Pcbs
      /\ Blocked(v) => p_semAdd[v] \in AllSems /\ v \in ToSet(procQ[p_semAdd[v]])
  BY <1>1, <1>2, VictimPlace
<1>4. ToSet(killStack') \subseteq ToSet(killStack)
  BY <1>2, <1>3, StackMembers
<1> HIDE DEF v
<1>5. v \notin Live' /\ Live' \subseteq Live
  BY <1>2 DEF Live
<1>6. \A t \in AllSems : ToSet(procQ'[t]) \subseteq ToSet(procQ[t])
  <2>1. CASE Blocked(v)
    <3> DEFINE s == p_semAdd[v]
    <3>1. procQ[s] \in Seq(Pcbs) /\ IsInjective(procQ[s])
      BY <2>1, <1>1, <1>3 DEF TypeOK, OnePlace
    <3>2. ToSet(QueueAfterOut(procQ[s], v)) \subseteq ToSet(procQ[s])
      BY <2>1, <3>1, <1>3, LeaveQueue
    <3>3. procQ' = [procQ EXCEPT ![s] = QueueAfterOut(@, v)]
      BY <2>1, <1>2 DEF QueuesAfter
    <3> QED
      BY <3>2, <3>3, <1>1, <1>3 DEF TypeOK
  <2>2. CASE ~Blocked(v)
    BY <2>2, <1>2 DEF QueuesAfter
  <2> QED
    BY <2>1, <2>2
<1>7. \A p \in Pcbs : p # v => p_semAdd'[p] = p_semAdd[p] /\ p_prnt'[p] = p_prnt[p]
  BY <1>1, <1>2 DEF TypeOK
<1>8. SoftCounted'
  <2>1. \A p \in Pcbs : p \in Live' /\ p_semAdd'[p] \in DevSems =>
           /\ p \in Live
           /\ p_semAdd[p] = p_semAdd'[p]
           /\ p \in ToSet(procQ'[p_semAdd[p]]) => p \in ToSet(procQ[p_semAdd[p]])
           /\ p_prnt'[p] # NULL => p_prnt[p] # NULL
           /\ p \in ToSet(killStack') => p_prnt[p] # NULL \/ p \in ToSet(killStack)
    BY <1>4, <1>5, <1>6, <1>7, NullApart
  <2>2. CASE soft
    <3>1. {v} \in SUBSET SoftBlocked
      BY <2>2, <1>3 DEF SoftBlocked, Accounted
    <3>2. softBlockCount' = softBlockCount - Cardinality({v})
      BY <2>2, <1>2, FS_Singleton DEF ReleaseSemaphore
    <3>3. v \notin SoftBlocked'
      BY <1>5 DEF SoftBlocked, Accounted
    <3> QED
      BY <2>1, <3>1, <3>2, <3>3, SoftShrinks
  <2>3. CASE ~soft
    <3>1. softBlockCount' = softBlockCount
      BY <2>3, <1>2 DEF ReleaseSemaphore
    <3> QED
      BY <2>1, <3>1, SoftSteady
  <2> QED
    BY <2>2, <2>3
<1> QED
  BY <1>2, <1>8, SchedulerPanics

-----------------------------------------------------------------------------
(* interruptHandler.                                                       *)

(* The end of a quantum leaves everybody who is blocked alone.             *)
LEMMA TimerInterruptSoft ==
  ASSUME SoftInv, TimerInterrupt
  PROVE  SoftCounted' /\ (cpu' = "panic" => softBlockCount' = 0)
<1>1. UNCHANGED <<pcbFree, p_semAdd, procQ, p_prnt, killStack, softBlockCount>>
  BY DEF TimerInterrupt, procVars, semVars
<1>2. \/ Scheduler(Append(readyQue, currentProcess), processCount, softBlockCount, NULL)
      \/ cpu' \in {"trap", "lost"}
  BY DEF TimerInterrupt
<1> QED
  BY <1>1, <1>2, SoftUntouched, SchedulerPanics

(* A tick counts down those it wakes.                                      *)
LEMMA ClockInterruptSoft ==
  ASSUME SoftInv, ClockInterrupt
  PROVE  SoftCounted' /\ (cpu' = "panic" => softBlockCount' = 0)
<1> DEFINE woken == ClockWaiters
           rq == readyQue \o woken
<1>1. TypeOK /\ OnePlace
  BY DEF SoftInv, IInv
<1>2. /\ procQ' = [procQ EXCEPT ![Clock] = IF woken = <<>> THEN @ ELSE <<>>]
      /\ p_semAdd' = [p \in Pcbs |-> IF p \in ToSet(woken) THEN NULL ELSE p_semAdd[p]]
      /\ softBlockCount' = softBlockCount - Len(woken)
      /\ UNCHANGED <<pcbFree, p_prnt, killStack>>
      /\ Live' = Live
      /\ \/ Scheduler(rq, processCount, softBlockCount', currentProcess)
         \/ cpu' \in {"user", "lost"}
  BY DEF ClockInterrupt, procVars, Live
<1>3. /\ woken \in Seq(Pcbs) /\ IsInjective(woken)
      /\ \A p \in ToSet(woken) : p \in Live /\ p_semAdd[p] = Clock /\ p \in ToSet(procQ[Clock])
  <2>1. /\ procQ[Clock] \in Seq(Pcbs) /\ IsInjective(procQ[Clock])
        /\ \A p \in ToSet(procQ[Clock]) : p \in Live /\ p_semAdd[p] = Clock
    BY <1>1, NullApart DEF TypeOK, OnePlace
  <2> QED
    BY <2>1, EmptyQueue, EmptySeq DEF ClockWaiters
<1> HIDE DEF woken
<1>4. softBlockCount' = softBlockCount - Cardinality(ToSet(woken))
  BY <1>2, <1>3, QueueSize
<1>5. ToSet(woken) \in SUBSET SoftBlocked
  BY <1>3, NullApart DEF SoftBlocked, Accounted, Live
<1>6. \A p \in Pcbs : p_semAdd'[p] = IF p \in ToSet(woken) THEN NULL ELSE p_semAdd[p]
  BY <1>2
<1>7. \A p \in ToSet(woken) : p \notin SoftBlocked'
  BY <1>6, NullApart DEF SoftBlocked, Accounted
<1>8. \A t \in AllSems : ToSet(procQ'[t]) \subseteq ToSet(procQ[t])
  BY <1>1, <1>2, EmptyQueue DEF TypeOK
<1>9. SoftCounted'
  BY <1>2, <1>4, <1>5, <1>6, <1>7, <1>8, NullApart, SoftShrinks
<1> QED
  BY <1>2, <1>9, SchedulerPanics

(* A device interrupt counts down the one it wakes.                        *)
LEMMA DeviceInterruptSoft ==
  ASSUME SoftInv, NEW d \in Devices, DeviceInterrupt(d)
  PROVE  SoftCounted' /\ (cpu' = "panic" => softBlockCount' = 0)
<1> DEFINE h == Head(procQ[d])
           rq == Append(readyQue, h)
<1>1. TypeOK /\ OnePlace
  BY DEF SoftInv, IInv
<1>2. /\ cpu \in {"user", "wait"}
      /\ Pending(d)
      /\ UNCHANGED <<pcbFree, p_prnt, killStack>>
      /\ Live' = Live
  BY DEF DeviceInterrupt, Interruptible, procVars, Live
<1>3. d \in AllSems /\ d \in DevSems /\ SemOf(d) = d
  BY <1>2, NeverTheReceiver, NullApart DEF Devices
<1>4. \/ /\ procQ[d] # <<>>
         /\ procQ' = [procQ EXCEPT ![d] = QueueAfterOut(@, h)]
         /\ p_semAdd' = [p_semAdd EXCEPT ![h] = NULL]
         /\ softBlockCount' = softBlockCount - 1
         /\ \/ Scheduler(rq, processCount, softBlockCount', currentProcess)
            \/ cpu' = cpu
      \/ /\ UNCHANGED <<procQ, p_semAdd, softBlockCount>>
         /\ cpu' \in {"trap", "lost"}
  BY <1>3 DEF DeviceInterrupt, Wake
<1>5. CASE UNCHANGED <<procQ, p_semAdd, softBlockCount>> /\ cpu' \in {"trap", "lost"}
  BY <1>2, <1>5, SoftUntouched
<1>6. CASE /\ procQ[d] # <<>>
           /\ procQ' = [procQ EXCEPT ![d] = QueueAfterOut(@, h)]
           /\ p_semAdd' = [p_semAdd EXCEPT ![h] = NULL]
           /\ softBlockCount' = softBlockCount - 1
           /\ \/ Scheduler(rq, processCount, softBlockCount', currentProcess)
              \/ cpu' = cpu
  <2>1. /\ procQ[d] \in Seq(Pcbs) /\ IsInjective(procQ[d])
        /\ \A p \in ToSet(procQ[d]) : p \in Live /\ p_semAdd[p] = d
    BY <1>1, <1>3 DEF TypeOK, OnePlace
  <2>2. /\ h \in ToSet(procQ[d]) /\ h \in Pcbs
        /\ ToSet(QueueAfterOut(procQ[d], h)) = ToSet(procQ[d]) \ {h}
    BY <2>1, <1>6, RemoveHead, RemoveBlockedHead
  <2>3. \A t \in AllSems : ToSet(procQ'[t]) \subseteq ToSet(procQ[t])
    BY <2>2, <1>1, <1>3, <1>6 DEF TypeOK
  <2> HIDE DEF h
  <2>4. \A p \in Pcbs : p_semAdd'[p] = IF p = h THEN NULL ELSE p_semAdd[p]
    BY <1>1, <1>6 DEF TypeOK
  <2>5. {h} \in SUBSET SoftBlocked
    BY <2>1, <2>2, <1>3 DEF SoftBlocked, Accounted
  <2>6. h \notin SoftBlocked'
    BY <2>2, <2>4, NullApart DEF SoftBlocked, Accounted
  <2>7. softBlockCount' = softBlockCount - Cardinality({h})
    BY <1>6, FS_Singleton
  <2>8. SoftCounted'
    BY <1>2, <2>3, <2>4, <2>5, <2>6, <2>7, NullApart, SoftShrinks
  <2> QED
    BY <1>2, <1>6, <2>8, SchedulerPanics
<1> QED
  BY <1>4, <1>5, <1>6

-----------------------------------------------------------------------------
(* Every step keeps softBlockCount large enough.                           *)
THEOREM NextSoftInv == SoftInv /\ [Next]_vars => SoftInv'
<1> SUFFICES ASSUME SoftInv, [Next]_vars PROVE SoftInv'
  OBVIOUS
<1>1. IInv'
  BY NextIInv DEF SoftInv
<1> SUFFICES SoftCounted' /\ (cpu' = "panic" => softBlockCount' = 0)
  BY <1>1 DEF SoftInv
<1>2. CASE SystemCall
  BY <1>2, SystemCallSoft
<1>3. CASE KillChild
  BY <1>3, KillChildSoft
<1>4. CASE KillLeaf
  BY <1>4, KillLeafSoft
<1>5. CASE KillMissing
  BY <1>5, KillMissingSoft
<1>6. CASE KernelTrap
  BY <1>6, PassUpOrDieSoft DEF KernelTrap
<1>7. CASE TimerInterrupt
  BY <1>7, TimerInterruptSoft
<1>8. CASE ClockInterrupt
  BY <1>8, ClockInterruptSoft
<1>9. CASE UNCHANGED vars \/ \E u \in Units : DeviceDone(u)
  <2>1. UNCHANGED <<pcbFree, p_semAdd, procQ, p_prnt, killStack, softBlockCount, cpu>>
    BY <1>9 DEF DeviceDone, vars, cpuVars, procVars, semVars
  <2> QED
    BY <2>1, SoftUntouched DEF SoftInv
<1>10. CASE \E d \in Devices : DeviceInterrupt(d)
  BY <1>10, DeviceInterruptSoft
<1> QED
  BY <1>2, <1>3, <1>4, <1>5, <1>6, <1>7, <1>8, <1>9, <1>10
     DEF Next, Termination, Interrupt

(* PANIC is called only when no process is in the queue of a device        *)
(* semaphore or of the clock: scheduler() never takes the machine for      *)
(* deadlocked while a device or a tick would wake somebody.                *)
THEOREM SpecPanicSound == Spec => []PanicSound
<1>1. Init => SoftInv
  <2> SUFFICES ASSUME Init PROVE SoftInv
    OBVIOUS
  <2>1. IInv
    BY InitIInv
  <2>2. cpu = "user" /\ softBlockCount = 0 /\ p_semAdd = [p \in Pcbs |-> NULL]
    BY DEF Init
  <2>3. SoftBlocked = {}
    BY <2>2, NullApart DEF SoftBlocked, Accounted
  <2>4. SoftCounted
    BY <2>2, <2>3, FS_EmptySet DEF SoftCounted
  <2> QED
    BY <2>1, <2>2, <2>4 DEF SoftInv
<1>2. SoftInv => PanicSound
  <2> SUFFICES ASSUME SoftInv, cpu = "panic", NEW s \in DevSems PROVE procQ[s] = <<>>
    BY DEF PanicSound
  <2>1. /\ procQ[s] \in Seq(Pcbs)
        /\ \A p \in ToSet(procQ[s]) : p \in Live /\ p_semAdd[p] = s
    BY NullApart DEF SoftInv, IInv, TypeOK, OnePlace
  <2>2. ToSet(procQ[s]) \subseteq SoftBlocked
    BY <2>1 DEF SoftBlocked, Accounted, Live
  <2>3. Cardinality(SoftBlocked) \in Nat /\ 0 >= Cardinality(SoftBlocked)
    BY SoftBlockedFinite, FS_CardinalityType DEF SoftInv, SoftCounted
  <2>4. SoftBlocked = {}
    BY <2>3, SoftBlockedFinite, FS_EmptySet
  <2> QED
    BY <2>1, <2>2, <2>4, MemberPosition
<1> QED
  BY <1>1, <1>2, NextSoftInv, PTL DEF Spec

-----------------------------------------------------------------------------
(* The protocol of a unit: StartIO, SYS8 and the interrupt, in any order   *)
(* of the last two.  A unit has one user at a time, which has either       *)
(* started it (op) or waits in its queue; a semaphore that is not negative *)
(* has no waiter; and a unit that is ready owes nobody an interrupt.       *)
UnitInv(u) ==
  /\ unit[u] = "ready" => semVal[u] >= 0
  /\ unit[u] = "ready" /\ cpu # "lost" => \A p \in Pcbs : op[p] # u
  /\ \A p \in Pcbs : op[p] = u => semVal[u] >= 0
  /\ \A p, q \in Pcbs : op[p] = u /\ op[q] = u => p = q
  /\ semVal[u] >= 0 => procQ[u] = <<>>
  /\ semVal[u] >= -1
  /\ Len(procQ[u]) <= 1

IOInv == IInv /\ \A u \in Units : UnitInv(u)

(* A process that waits alone leaves an empty queue.                       *)
LEMMA SoleWaiter ==
  ASSUME NEW S, NEW q \in Seq(S), Len(q) <= 1, NEW p \in ToSet(q)
  PROVE  QueueAfterOut(q, p) = <<>>
<1>1. PICK i \in 1..Len(q) : q[i] = p
  BY MemberPosition
<1>2. Len(q) \in Nat
  BY MemberPosition
<1>3. Len(q) = 1 /\ i = 1
  BY <1>1, <1>2
<1> QED
  BY <1>1, <1>3 DEF QueueAfterOut, AfterHead

(* A step that leaves unit and semaphore alone, and at most ends the use   *)
(* somebody makes of them.                                                 *)
LEMMA UnitKept ==
  ASSUME NEW u \in Units, UnitInv(u),
         semVal'[u] = semVal[u],
         unit'[u] = unit[u],
         procQ'[u] = procQ[u] \/ procQ'[u] = <<>>,
         \A p \in Pcbs : op'[p] = u => op[p] = u,
         cpu = "lost" => cpu' = "lost"
  PROVE  UnitInv(u)'
<1>1. Len(procQ'[u]) <= 1
  <2>1. Len(<<>>) <= 1
    BY EmptySeq
  <2> QED
    BY <2>1 DEF UnitInv
<1> QED
  BY <1>1 DEF UnitInv

LEMMA UnitsUntouched ==
  ASSUME IOInv, UNCHANGED <<semVal, unit, procQ, op>>, cpu = "lost" => cpu' = "lost"
  PROVE  \A u \in Units : UnitInv(u)'
BY UnitKept DEF IOInv

(* A P on a semaphore of the programs, or on the clock's.                  *)
LEMMA POther ==
  ASSUME IOInv, NEW s \in AllSems \ Units, NEW e, P(s, e), cpu = "user", UNCHANGED devVars
  PROVE  \A u \in Units : UnitInv(u)'
<1>1. TypeOK
  BY DEF IOInv, IInv
<1>2. \A u \in Units : u \in AllSems /\ u # s
  BY NullApart
<1>3. semVal' = [semVal EXCEPT ![s] = @ - 1]
  BY DEF P
<1>4. procQ' = [procQ EXCEPT ![s] = Append(@, currentProcess)] \/ procQ' = procQ
  BY DEF P, Block
<1>5. \A u \in Units : semVal'[u] = semVal[u] /\ procQ'[u] = procQ[u]
  BY <1>1, <1>2, <1>3, <1>4 DEF TypeOK
<1> QED
  BY <1>5, UnitKept DEF IOInv, devVars

(* The names of the units differ from those of all other semaphores.       *)
LEMMA UnitsApart == /\ Sems \subseteq AllSems \ Units
                    /\ Clock \in AllSems \ Units
                    /\ NULL \notin Units
<1>1. Units \subseteq 0..47 /\ 48 \notin 0..47 /\ 0..47 \subseteq 0..48
  BY SemsAssumption
<1> QED
  BY <1>1, SemsAssumption, NullApart DEF Clock

(* SYS8 and the command before it.                                         *)
LEMMA StartIOKeepsUnits ==
  ASSUME IOInv, NEW w \in Units, StartIO(w)
  PROVE  \A u \in Units : UnitInv(u)'
<1> DEFINE c == currentProcess
<1>1. TypeOK /\ c \in Pcbs
  BY DEF IOInv, IInv, StartIO, Running, CurrentApart, Live
<1>2. /\ cpu = "user" /\ cpu' = cpu
      /\ unit[w] = "ready"
      /\ unit' = [unit EXCEPT ![w] = "busy"]
      /\ op' = [op EXCEPT ![c] = w]
      /\ UNCHANGED <<semVal, procQ>>
  BY DEF StartIO, Running, cpuVars, semVars
<1>3. \A p \in Pcbs : op'[p] = IF p = c THEN w ELSE op[p]
  BY <1>1, <1>2 DEF TypeOK
<1>4. \A u \in Units : unit'[u] = IF u = w THEN "busy" ELSE unit[u]
  BY <1>1, <1>2 DEF TypeOK
<1>5. UnitInv(w)'
  <2>1. UnitInv(w)
    BY DEF IOInv
  <2>2. semVal[w] >= 0 /\ \A p \in Pcbs : op[p] # w
    BY <2>1, <1>2 DEF UnitInv
  <2>3. unit'[w] = "busy"
    BY <1>4
  <2> QED
    BY <2>1, <2>2, <2>3, <1>2, <1>3 DEF UnitInv
<1>6. ASSUME NEW u \in Units, u # w PROVE UnitInv(u)'
  BY <1>2, <1>3, <1>4, <1>6, UnitKept DEF IOInv
<1> QED
  BY <1>5, <1>6

LEMMA WaitForIODeviceKeepsUnits ==
  ASSUME IOInv, WaitForIODevice
  PROVE  \A u \in Units : UnitInv(u)'
<1> DEFINE c == currentProcess
<1>1. TypeOK /\ c \in Pcbs /\ op[c] \in Units
  <2>1. TypeOK /\ c \in Pcbs
    BY DEF IOInv, IInv, WaitForIODevice, Running, CurrentApart, Live
  <2> QED
    BY <2>1, NullApart DEF WaitForIODevice, TypeOK
<1>0. PICK w \in Units : w = op[c] /\ w \in AllSems
  BY <1>1, NullApart
<1>2. /\ cpu = "user"
      /\ P(w, FALSE)
      /\ op' = [op EXCEPT ![c] = NULL]
      /\ unit' = unit
  BY <1>0 DEF WaitForIODevice, Running
<1>3. /\ semVal' = [semVal EXCEPT ![w] = @ - 1]
      /\ \/ semVal'[w] < 0 /\ procQ' = [procQ EXCEPT ![w] = Append(@, c)]
         \/ ~(semVal'[w] < 0) /\ procQ' = procQ
  BY <1>2 DEF P, Block
<1>4. \A p \in Pcbs : op'[p] = IF p = c THEN NULL ELSE op[p]
  BY <1>1, <1>2 DEF TypeOK
<1>5. UnitInv(w)'
  <2>1. UnitInv(w) /\ semVal[w] \in Int /\ op[c] = w
    BY <1>0, <1>1 DEF IOInv, TypeOK
  <2>2. /\ semVal[w] >= 0 /\ procQ[w] = <<>> /\ unit[w] # "ready"
        /\ \A p \in Pcbs : op[p] = w => p = c
    BY <2>1, <1>1, <1>2 DEF UnitInv
  <2>3. semVal'[w] = semVal[w] - 1
    BY <1>0, <1>1, <1>3 DEF TypeOK
  <2>4. \A p \in Pcbs : op'[p] # w
    BY <2>2, <1>1, <1>4, UnitsApart
  <2>5. /\ semVal'[w] >= 0 => procQ'[w] = <<>>
        /\ Len(procQ'[w]) <= 1
    <3>1. CASE semVal'[w] < 0 /\ procQ' = [procQ EXCEPT ![w] = Append(@, c)]
      <4>1. procQ'[w] = Append(<<>>, c)
        BY <3>1, <2>2, <1>0, <1>1 DEF TypeOK
      <4>2. Len(procQ'[w]) = 1
        BY <4>1, <1>1, AppendProperties, EmptySeq
      <4>3. semVal'[w] < 0 /\ semVal'[w] \in Int
        BY <3>1, <2>1, <2>3
      <4>4. ~(semVal'[w] >= 0)
        BY <4>3
      <4> QED
        BY <4>2, <4>4
    <3>2. CASE procQ' = procQ
      BY <3>2, <2>2, EmptySeq
    <3> QED
      BY <1>3, <3>1, <3>2
  <2> QED
    BY <2>1, <2>2, <2>3, <2>4, <2>5, <1>2 DEF UnitInv
<1>6. ASSUME NEW u \in Units, u # w PROVE UnitInv(u)'
  <2>1. semVal'[u] = semVal[u] /\ procQ'[u] = procQ[u]
    BY <1>0, <1>1, <1>3, <1>6, NullApart DEF TypeOK
  <2>2. \A p \in Pcbs : op'[p] = u => op[p] = u
    BY <1>4, UnitsApart
  <2> QED
    BY <2>1, <2>2, <1>2, UnitKept DEF IOInv
<1> QED
  BY <1>5, <1>6

LEMMA SystemCallKeepsUnits ==
  ASSUME IOInv, SystemCall
  PROVE  \A u \in Units : UnitInv(u)'
<1>1. TypeOK
  BY DEF IOInv, IInv
<1>2. CASE \E s \in Sems : Verhogen(s)
  <2>1. PICK s \in Sems : Verhogen(s)
    BY <1>2
  <2>2. /\ cpu = "user"
        /\ semVal' = [semVal EXCEPT ![s] = @ + 1]
        /\ procQ' = [procQ EXCEPT ![s] = QueueAfterOut(@, Head(@))] \/ procQ' = procQ
        /\ UNCHANGED <<unit, op>>
    BY <2>1 DEF Verhogen, Running, Wake, devVars
  <2>3. \A u \in Units : semVal'[u] = semVal[u] /\ procQ'[u] = procQ[u]
    BY <1>1, <2>2, UnitsApart, NullApart DEF TypeOK
  <2> QED
    BY <2>2, <2>3, UnitKept DEF IOInv
<1>3. CASE (\E s \in Sems : Passeren(s)) \/ WaitForClock
  BY <1>3, POther, UnitsApart DEF Passeren, WaitForClock, Running
<1>4. CASE \E u \in Units : StartIO(u)
  BY <1>4, StartIOKeepsUnits
<1>5. CASE WaitForIODevice
  BY <1>5, WaitForIODeviceKeepsUnits
<1>6. CASE \/ \E p \in Pcbs : CreateProcess(p)
           \/ CreateFails
           \/ TerminateProcess
           \/ \E t \in Traps : SpecifyExceptionStateVector(t) \/ Exception(t)
           \/ ProgramLDST
  <2>1. cpu = "user" /\ UNCHANGED <<semVal, unit, procQ, op>>
    BY <1>6 DEF CreateProcess, CreateFails, TerminateProcess, SpecifyExceptionStateVector,
                Exception, PassUpOrDie, ProgramLDST, LoadState, StartKill, Running,
                semVars, devVars
  <2> QED
    BY <2>1, UnitsUntouched
<1> QED
  BY <1>2, <1>3, <1>4, <1>5, <1>6 DEF SystemCall

(* A kill takes the victim from the queue of its unit, and does not touch  *)
(* the semaphore: it stays negative until the interrupt.                   *)
LEMMA TerminationKeepsUnits ==
  ASSUME IOInv, Termination
  PROVE  \A u \in Units : UnitInv(u)'
<1>1. IInv /\ TypeOK /\ OnePlace
  BY DEF IOInv, IInv
<1>2. CASE KillChild \/ KernelTrap
  <2>1. cpu # "lost" /\ UNCHANGED <<semVal, unit, procQ, op>>
    BY <1>2 DEF KillChild, KernelTrap, PassUpOrDie, LoadState, StartKill, semVars, devVars
  <2> QED
    BY <2>1, UnitsUntouched
<1>3. ASSUME NEW v, ReleaseSemaphore(v) PROVE \A u \in Units : semVal'[u] = semVal[u]
  <2>1. \/ semVal' = semVal
        \/ p_semAdd[v] \notin DevSems /\ semVal' = [semVal EXCEPT ![p_semAdd[v]] = @ + 1]
    BY <1>3 DEF ReleaseSemaphore
  <2> QED
    BY <2>1, <1>1, NullApart DEF TypeOK
<1>4. CASE KillMissing
  <2>1. cpu # "lost" /\ UNCHANGED <<unit, procQ, op>> /\ ReleaseSemaphore(Victim)
    BY <1>4 DEF KillMissing, devVars
  <2> QED
    BY <2>1, <1>3, UnitKept DEF IOInv
<1>5. CASE KillLeaf
  <2>0. /\ cpu = "kill" /\ p_child[Victim] = <<>> /\ Found(Victim)
    BY <1>5 DEF KillLeaf
  <2>1. PICK v \in Pcbs : v = Victim
    BY <1>1, <2>0, VictimPlace
  <2>2. /\ procQ' = QueuesAfter(v)
        /\ op' = [op EXCEPT ![v] = NULL]
        /\ UNCHANGED unit
        /\ ReleaseSemaphore(v)
    BY <1>5, <2>1 DEF KillLeaf, Clean
  <2>3. Blocked(v) => p_semAdd[v] \in AllSems /\ v \in ToSet(procQ[p_semAdd[v]])
    BY <1>1, <2>0, <2>1, VictimPlace
  <2>4. ASSUME NEW u \in Units PROVE procQ'[u] = procQ[u] \/ procQ'[u] = <<>>
    <3>1. u \in AllSems /\ procQ[u] \in Seq(Pcbs) /\ Len(procQ[u]) <= 1
      BY <1>1, NullApart DEF IOInv, UnitInv, TypeOK
    <3>2. CASE Blocked(v) /\ p_semAdd[v] = u
      <4>1. procQ'[u] = QueueAfterOut(procQ[u], v)
        BY <3>1, <3>2, <1>1, <2>2 DEF QueuesAfter, TypeOK
      <4> QED
        BY <4>1, <3>1, <3>2, <2>3, SoleWaiter
    <3>3. CASE Blocked(v) /\ p_semAdd[v] # u
      BY <3>1, <3>3, <1>1, <2>2 DEF QueuesAfter, TypeOK
    <3>4. CASE ~Blocked(v)
      BY <3>4, <2>2 DEF QueuesAfter
    <3> QED
      BY <3>2, <3>3, <3>4
  <2>5. \A u \in Units : \A p \in Pcbs : op'[p] = u => op[p] = u
    BY <1>1, <2>2, UnitsApart DEF TypeOK
  <2> QED
    BY <1>3, <2>0, <2>2, <2>4, <2>5, UnitKept DEF IOInv
<1> QED
  BY <1>2, <1>4, <1>5 DEF Termination

(* The interrupt of a unit without a receiver beside it acks what is done, *)
(* and wakes its one waiter; where there is none, nobody is left asleep.   *)
LEMMA DeviceInterruptKeepsUnits ==
  ASSUME IOInv, Units \cap (40..47) = {}, NEW d \in Devices, DeviceInterrupt(d)
  PROVE  \A u \in Units : UnitInv(u)'
<1>1. TypeOK /\ d \in Units /\ d \in AllSems
  BY NullApart DEF IOInv, IInv, Devices
<1>2. Pending(d) /\ SemOf(d) = d
  BY NeverTheReceiver DEF DeviceInterrupt
<1>3. unit[d] = "done" /\ Acked(d) = d
  <2>1. IsTerminal(d) => d + 8 \notin Units
    <3>1. \A n \in 32..39 : n + 8 \in 40..47
      OBVIOUS
    <3> QED
      BY <3>1 DEF IsTerminal
  <2> QED
    BY <2>1, <1>1, <1>2 DEF Pending, StatusOf, Acked
<1>4. /\ cpu \in {"user", "wait"}
      /\ unit' = [unit EXCEPT ![d] = "ready"]
      /\ semVal' = [semVal EXCEPT ![d] = @ + 1]
      /\ UNCHANGED op
      /\ \/ /\ semVal'[d] <= 0 /\ procQ[d] # <<>>
            /\ procQ' = [procQ EXCEPT ![d] = QueueAfterOut(@, Head(@))]
         \/ /\ ~(semVal'[d] <= 0 /\ procQ[d] # <<>>)
            /\ cpu' = IF semVal'[d] <= 0 THEN "trap" ELSE "lost"
            /\ procQ' = procQ
  BY <1>1, <1>2, <1>3 DEF DeviceInterrupt, Interruptible, OwesWakeup, Wake, Ack, StatusOf
<1>5. UnitInv(d)'
  <2>1. UnitInv(d) /\ semVal[d] \in Int /\ procQ[d] \in Seq(Pcbs)
    BY <1>1 DEF IOInv, TypeOK
  <2>2. semVal'[d] = semVal[d] + 1 /\ unit'[d] = "ready"
    BY <1>1, <1>4 DEF TypeOK
  <2>3. semVal[d] >= -1 /\ semVal'[d] >= 0
    BY <2>1, <2>2 DEF UnitInv
  <2>4. procQ'[d] = <<>>
    <3>1. CASE semVal'[d] <= 0 /\ procQ[d] # <<>>
      <4>1. procQ'[d] = QueueAfterOut(procQ[d], Head(procQ[d]))
        BY <3>1, <1>1, <1>4 DEF TypeOK
      <4>2. IsInjective(procQ[d])
        BY <1>1 DEF IOInv, IInv, OnePlace
      <4>3. Head(procQ[d]) \in ToSet(procQ[d])
        BY <3>1, <4>2, <2>1, RemoveHead
      <4>4. Len(procQ[d]) <= 1
        BY <2>1 DEF UnitInv
      <4> QED
        BY <4>1, <4>3, <4>4, <2>1, SoleWaiter
    <3>2. CASE procQ[d] = <<>>
      BY <3>2, <1>4
    <3>3. CASE ~(semVal'[d] <= 0)
      <4>1. semVal[d] >= 0
        BY <3>3, <2>1, <2>2
      <4> QED
        BY <4>1, <2>1, <3>2 DEF UnitInv
    <3> QED
      BY <3>1, <3>2, <3>3
  <2>5. ASSUME NEW p \in Pcbs, op'[p] = d PROVE semVal'[d] >= 0 /\ cpu' = "lost"
    <3>1. semVal[d] >= 0
      BY <2>1, <2>5, <1>4 DEF UnitInv
    <3>2. semVal'[d] >= 0 /\ ~(semVal'[d] <= 0)
      BY <3>1, <2>1, <2>2
    <3> QED
      BY <3>2, <1>4
  <2>6. Len(procQ'[d]) <= 1
    BY <2>4, EmptySeq
  <2> QED
    BY <2>1, <2>3, <2>4, <2>5, <2>6, <1>4 DEF UnitInv
<1>6. ASSUME NEW u \in Units, u # d PROVE UnitInv(u)'
  <2>1. semVal'[u] = semVal[u] /\ procQ'[u] = procQ[u] /\ unit'[u] = unit[u]
    BY <1>1, <1>4, <1>6, NullApart DEF TypeOK
  <2> QED
    BY <2>1, <1>4, UnitKept DEF IOInv
<1> QED
  BY <1>5, <1>6

LEMMA InterruptKeepsUnits ==
  ASSUME IOInv, Units \cap (40..47) = {}, Interrupt
  PROVE  \A u \in Units : UnitInv(u)'
<1>1. TypeOK
  BY DEF IOInv, IInv
<1>2. CASE TimerInterrupt
  <2>1. cpu # "lost" /\ UNCHANGED <<semVal, unit, procQ, op>>
    BY <1>2 DEF TimerInterrupt, Interruptible, semVars, devVars
  <2> QED
    BY <2>1, UnitsUntouched
<1>3. CASE ClockInterrupt
  <2>1. /\ cpu # "lost" /\ UNCHANGED <<unit, op>>
        /\ semVal' = [semVal EXCEPT ![Clock] = @ + Len(ClockWaiters)]
        /\ procQ' = [procQ EXCEPT ![Clock] = IF ClockWaiters = <<>> THEN @ ELSE <<>>]
    BY <1>3 DEF ClockInterrupt, Interruptible, devVars
  <2>2. \A u \in Units : semVal'[u] = semVal[u] /\ procQ'[u] = procQ[u]
    BY <1>1, <2>1, UnitsApart, NullApart DEF TypeOK
  <2> QED
    BY <2>1, <2>2, UnitKept DEF IOInv
<1>4. CASE \E w \in Units : DeviceDone(w)
  <2>1. PICK w \in Units : DeviceDone(w)
    BY <1>4
  <2>2. /\ unit' = [unit EXCEPT ![w] = "done"] /\ unit[w] = "busy"
        /\ UNCHANGED <<semVal, procQ, op, cpu>>
    BY <2>1 DEF DeviceDone, cpuVars, semVars
  <2>3. \A u \in Units : unit'[u] = "ready" => unit[u] = "ready"
    BY <1>1, <2>2 DEF TypeOK
  <2> QED
    BY <2>2, <2>3 DEF IOInv, UnitInv
<1>5. CASE \E d \in Devices : DeviceInterrupt(d)
  BY <1>5, DeviceInterruptKeepsUnits
<1> QED
  BY <1>2, <1>3, <1>4, <1>5 DEF Interrupt

(* A process that waits for a unit waits for an operation that is under    *)
(* way, or done and not yet acknowledged, whatever is killed meanwhile and *)
(* however early the interrupt comes - on a machine whose terminals do not *)
(* receive: ackTerminal breaks it for those that do.                       *)
THEOREM SpecIOWaitersPending ==
  ASSUME Units \cap (40..47) = {}
  PROVE  Spec => []IOWaitersPending
<1>1. Init => IOInv
  <2> SUFFICES ASSUME Init, NEW u \in Units PROVE UnitInv(u)
    BY InitIInv DEF IOInv
  <2>1. /\ semVal \in [AllSems -> 0..1]
        /\ procQ = [s \in AllSems |-> <<>>]
        /\ op = [p \in Pcbs |-> NULL]
    BY DEF Init
  <2>2. semVal[u] \in 0..1 /\ procQ[u] = <<>> /\ \A p \in Pcbs : op[p] # u
    BY <2>1, NullApart
  <2>3. Len(procQ[u]) <= 1
    BY <2>2, EmptySeq
  <2> QED
    BY <2>2, <2>3 DEF UnitInv
<1>2. IOInv /\ [Next]_vars => IOInv'
  <2> SUFFICES ASSUME IOInv, [Next]_vars PROVE \A u \in Units : UnitInv(u)'
    BY NextIInv DEF IOInv
  <2>1. CASE UNCHANGED vars
    BY <2>1, UnitsUntouched DEF vars, cpuVars, semVars, devVars
  <2> QED
    BY <2>1, SystemCallKeepsUnits, TerminationKeepsUnits, InterruptKeepsUnits DEF Next
<1>3. IOInv => IOWaitersPending
  <2> SUFFICES ASSUME IOInv, NEW u \in Units, procQ[u] # <<>> PROVE unit[u] # "ready"
    BY DEF IOWaitersPending
  <2> QED
    BY DEF IOInv, UnitInv
<1> QED
  BY <1>1, <1>2, <1>3, PTL DEF Spec
=============================================================================
