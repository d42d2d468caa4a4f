---------------------------- MODULE NucleusProofs ---------------------------
(***************************************************************************)
(* The safety invariants of the nucleus, for any number of pcbs, program   *)
(* semaphores and device units.  They hold together or not at all: a pcb   *)
(* is freed correctly because it was in one place only, it was in one      *)
(* place only because terminateRecursively frees the process it found,     *)
(* and it finds it because no process is forgotten.  IInv is their         *)
(* conjunction, and it is inductive.                                       *)
(***************************************************************************)
EXTENDS Nucleus, QueueProofs

IInv ==
  /\ TypeOK
  /\ CountAccurate
  /\ OnePlace
  /\ CurrentApart
  /\ NobodyForgotten
  /\ FreeClean
  /\ TreeConsistent
  /\ WaitFlagRight
  /\ KillFrames

(* The part of OnePlace about the queues of the semaphores.                *)
QueuesApart ==
  \A s \in AllSems :
    /\ IsInjective(procQ[s])
    /\ \A p \in ToSet(procQ[s]) : p \in Live /\ p_semAdd[p] = s

(* The part of IInv about the CPU and the ready queue.                     *)
CpuInv ==
  /\ cpu \in {"user", "wait", "kill", "trap", "halt", "panic", "lost"}
  /\ currentProcess \in Pcbs \cup {NULL}
  /\ readyQue \in Seq(Pcbs)
  /\ waitFlag \in 0..1
  /\ timerIRQ \in BOOLEAN
  /\ IsInjective(readyQue)
  /\ \A p \in ToSet(readyQue) : p \in Live /\ p_semAdd[p] = NULL
  /\ CurrentApart
  /\ NobodyForgotten
  /\ WaitFlagRight

(* Types of the variables that CpuInv does not speak of.                   *)
OtherTypes ==
  /\ pcbFree \subseteq Pcbs
  /\ processCount \in Int
  /\ softBlockCount \in Int
  /\ p_semAdd \in [Pcbs -> AllSems \cup {NULL}]
  /\ p_prnt \in [Pcbs -> Pcbs \cup {NULL}]
  /\ p_child \in [Pcbs -> Seq(Pcbs)]
  /\ vectors \in [Pcbs -> SUBSET TrapTypes]
  /\ unmasked \subseteq Pcbs
  /\ procQ \in [AllSems -> Seq(Pcbs)]
  /\ semVal \in [AllSems -> Int]
  /\ killStack \in Seq(Pcbs)
  /\ unit \in [Units -> {"ready", "busy", "done"}]
  /\ op \in [Pcbs -> Units \cup {NULL}]

(* The parts make up the whole.                                            *)
LEMMA Parts ==
  IInv <=> /\ CpuInv
           /\ OtherTypes
           /\ QueuesApart
           /\ CountAccurate
           /\ FreeClean
           /\ TreeConsistent
           /\ KillFrames
BY DEF IInv, CpuInv, OtherTypes, QueuesApart, TypeOK, OnePlace

(* The names of the semaphores and the null pointer do not collide.        *)
LEMMA NullApart == /\ NULL \notin Pcbs
                   /\ NULL \notin AllSems
                   /\ DevSems \subseteq AllSems
                   /\ Clock \in AllSems
                   /\ Sems \subseteq AllSems
                   /\ Units \subseteq AllSems
                   /\ Clock \in DevSems
                   /\ Units \subseteq DevSems
<1>1. NULL \notin 0..48 /\ NULL \notin Sems /\ NULL \notin Pcbs /\ Units \subseteq 0..47
  BY PcbsAssumption, SemsAssumption
<1>2. Units \subseteq 0..48 /\ 48 \in 0..48
  BY <1>1
<1> QED
  BY <1>1, <1>2 DEF AllSems, DevSems, Clock

-----------------------------------------------------------------------------
(* scheduler() leaves the CPU as it should be, if the ready queue it is    *)
(* given holds every live process that is not blocked.                     *)
LEMMA SchedulerKeeps ==
  ASSUME NEW rq \in Seq(Pcbs), NEW count, NEW soft, NEW cur \in Pcbs \cup {NULL},
         Scheduler(rq, count, soft, cur),
         waitFlag \in 0..1,
         IsInjective(rq),
         \A p \in ToSet(rq) : p \in Live' /\ p_semAdd'[p] = NULL,
         \A p \in Live' : p \in ToSet(rq) \/ p_semAdd'[p] # NULL,
         cur \notin Live'
  PROVE  CpuInv' /\ cpu' \in {"user", "wait", "halt", "panic"}
<1>1. CASE rq # <<>>
  <2>1. /\ cpu' = "user"
        /\ currentProcess' = Head(rq)
        /\ readyQue' = Tail(rq)
        /\ waitFlag' = 0
        /\ timerIRQ' = FALSE
    BY <1>1 DEF Scheduler
  <2>2. /\ Head(rq) \in Pcbs
        /\ Head(rq) \in ToSet(rq)
        /\ Tail(rq) \in Seq(Pcbs)
        /\ IsInjective(Tail(rq))
        /\ ToSet(Tail(rq)) = ToSet(rq) \ {Head(rq)}
    BY <1>1, RemoveHead
  <2>3. CurrentApart' /\ NobodyForgotten' /\ WaitFlagRight'
    BY <2>1, <2>2 DEF CurrentApart, NobodyForgotten, WaitFlagRight, Blocked
  <2>4. \A p \in ToSet(readyQue') : p \in Live' /\ p_semAdd'[p] = NULL
    BY <2>1, <2>2
  <2>5. waitFlag' \in 0..1
    BY <2>1
  <2> QED
    BY <2>1, <2>2, <2>3, <2>4, <2>5 DEF CpuInv
<1>2. CASE rq = <<>>
  <2>0. /\ cpu' = IF count = 0 THEN "halt" ELSE IF soft = 0 THEN "panic" ELSE "wait"
        /\ currentProcess' = cur
        /\ readyQue' = rq
        /\ waitFlag' = IF cpu' = "wait" THEN 1 ELSE waitFlag
        /\ timerIRQ' \in (IF cpu' = "wait" /\ KernelOverrun THEN BOOLEAN ELSE {FALSE})
    BY <1>2, Zenon DEF Scheduler
  <2>1. /\ cpu' \in {"wait", "halt", "panic"}
        /\ currentProcess' = cur
        /\ readyQue' = rq
        /\ waitFlag' \in 0..1
        /\ cpu' = "wait" => waitFlag' = 1
        /\ timerIRQ' \in BOOLEAN
    <3>1. cpu' \in {"wait", "halt", "panic"}
      BY <2>0
    <3>2. waitFlag' \in 0..1 /\ (cpu' = "wait" => waitFlag' = 1)
      BY <2>0
    <3>3. timerIRQ' \in BOOLEAN
      BY <2>0, Zenon
    <3> QED
      BY <2>0, <3>1, <3>2, <3>3
  <2>2. ToSet(rq) = {}
    BY <1>2, EmptyQueue
  <2> QED
    BY <2>1, <2>2 DEF CpuInv, CurrentApart, NobodyForgotten, WaitFlagRight, Blocked
<1> QED
  BY <1>1, <1>2

(* terminateProcess() only starts something.                               *)
LEMMA StartKillKeeps ==
  ASSUME IInv, StartKill, currentProcess # NULL
  PROVE  IInv'
<1>1. CpuInv /\ OtherTypes /\ QueuesApart /\ CountAccurate /\ FreeClean /\ TreeConsistent
  BY Parts
<1> USE DEF StartKill, procVars, semVars, devVars
<1>2. CpuInv'
  BY <1>1 DEF CpuInv, CurrentApart, NobodyForgotten, WaitFlagRight, Blocked, Live
<1>3. OtherTypes'
  BY <1>1 DEF CpuInv, OtherTypes
<1>4. QueuesApart' /\ CountAccurate' /\ FreeClean' /\ TreeConsistent'
  BY <1>1 DEF QueuesApart, CountAccurate, FreeClean, TreeConsistent, Live
<1>5. KillFrames'
  BY DEF KillFrames
<1> QED
  BY <1>2, <1>3, <1>4, <1>5, Parts, PTL

-----------------------------------------------------------------------------
(* System calls.                                                           *)

(* SYS1: the new pcb gets one parent and one place, the ready queue.       *)
LEMMA CreateProcessKeeps ==
  ASSUME IInv, NEW p \in Pcbs, CreateProcess(p)
  PROVE  IInv'
<1>1. CpuInv /\ OtherTypes /\ QueuesApart /\ CountAccurate /\ FreeClean /\ TreeConsistent
  BY Parts
<1> DEFINE c == currentProcess
<1>2. /\ cpu = "user"
      /\ p \in pcbFree
      /\ pcbFree' = pcbFree \ {p}
      /\ processCount' = processCount + 1
      /\ p_prnt' = [p_prnt EXCEPT ![p] = c]
      /\ p_child' = [p_child EXCEPT ![c] = <<p>> \o @]
      /\ unmasked' = unmasked \cup {p}
      /\ readyQue' = Append(readyQue, p)
      /\ UNCHANGED <<cpu, currentProcess, waitFlag, timerIRQ, vectors, softBlockCount,
                     p_semAdd, procQ, semVal, unit, op, killStack>>
  BY DEF CreateProcess, Running, semVars, devVars
<1>3. /\ c \in Live /\ p \notin Live /\ c \in Pcbs
      /\ Live' = Live \cup {p}
      /\ p_semAdd[p] = NULL /\ p_prnt[p] = NULL /\ p_child[p] = <<>>
      /\ vectors[p] = {}
  BY <1>1, <1>2 DEF CpuInv, CurrentApart, Live, FreeClean
<1>4. /\ readyQue' \in Seq(Pcbs)
      /\ IsInjective(readyQue')
      /\ ToSet(readyQue') = ToSet(readyQue) \cup {p}
  <2>1. p \notin ToSet(readyQue) /\ readyQue \in Seq(Pcbs) /\ IsInjective(readyQue)
    BY <1>1, <1>3 DEF CpuInv
  <2> QED
    BY <2>1, <1>2, InsertTail
<1>5. /\ <<p>> \o p_child[c] \in Seq(Pcbs)
      /\ IsInjective(<<p>> \o p_child[c])
      /\ ToSet(<<p>> \o p_child[c]) = ToSet(p_child[c]) \cup {p}
  <2>1. /\ p_child[c] \in Seq(Pcbs)
        /\ IsInjective(p_child[c])
        /\ p \notin ToSet(p_child[c])
    BY <1>1, <1>3, NullApart DEF OtherTypes, TreeConsistent
  <2> QED
    BY <2>1, InsertHead
<1>6. CpuInv'
  <2>1. CurrentApart' /\ NobodyForgotten' /\ WaitFlagRight'
    BY <1>1, <1>2, <1>3, <1>4 DEF CpuInv, CurrentApart, NobodyForgotten, WaitFlagRight, Blocked
  <2> QED
    BY <1>1, <1>2, <1>3, <1>4, <2>1 DEF CpuInv
<1>7. OtherTypes'
  <2>1. p_prnt' \in [Pcbs -> Pcbs \cup {NULL}]
    BY <1>1, <1>2, <1>3 DEF OtherTypes
  <2>2. p_child' \in [Pcbs -> Seq(Pcbs)]
    BY <1>1, <1>2, <1>3, <1>5 DEF OtherTypes
  <2>3. processCount' \in Int /\ pcbFree' \subseteq Pcbs /\ unmasked' \subseteq Pcbs
    BY <1>1, <1>2 DEF OtherTypes
  <2> QED
    BY <1>1, <1>2, <2>1, <2>2, <2>3 DEF OtherTypes
<1>8. QueuesApart'
  BY <1>1, <1>2, <1>3 DEF QueuesApart
<1>9. CountAccurate'
  <2>1. IsFiniteSet(Live)
    BY PcbsAssumption, FS_Subset DEF Live
  <2>2. Cardinality(Live') = Cardinality(Live) + 1
    BY <2>1, <1>3, FS_AddElement
  <2> QED
    BY <1>1, <1>2, <2>2 DEF CountAccurate
<1>10. FreeClean'
  <2> SUFFICES ASSUME NEW x \in pcbFree'
               PROVE  /\ p_semAdd'[x] = NULL
                      /\ p_prnt'[x] = NULL
                      /\ p_child'[x] = <<>>
                      /\ vectors'[x] = {}
                      /\ x \notin unmasked'
    BY DEF FreeClean
  <2>1. x \in pcbFree /\ x # p /\ x # c /\ x \in Pcbs
    BY <1>1, <1>2, <1>3 DEF Live, OtherTypes
  <2> QED
    BY <2>1, <1>1, <1>2, <1>3 DEF FreeClean, OtherTypes
<1>11. TreeConsistent'
  <2>1. \A x \in Pcbs : IsInjective(p_child'[x])
    BY <1>1, <1>2, <1>3, <1>5 DEF OtherTypes, TreeConsistent
  <2>2. ASSUME NEW x \in Pcbs, NEW y \in Pcbs
        PROVE  y \in ToSet(p_child'[x]) <=> p_prnt'[y] = x
    <3>1. y \in ToSet(p_child[x]) <=> p_prnt[y] = x
      BY <1>1 DEF TreeConsistent
    <3>2. ToSet(p_child'[x]) = IF x = c THEN ToSet(p_child[c]) \cup {p} ELSE ToSet(p_child[x])
      BY <1>1, <1>2, <1>5 DEF OtherTypes
    <3>3. p_prnt'[y] = IF y = p THEN c ELSE p_prnt[y]
      BY <1>1, <1>2 DEF OtherTypes
    <3> QED
      BY <3>1, <3>2, <3>3, <1>3, NullApart
  <2>3. ASSUME NEW y \in Pcbs, p_prnt'[y] # NULL PROVE y \in Live' /\ p_prnt'[y] \in Live'
    BY <2>3, <1>1, <1>2, <1>3 DEF TreeConsistent, OtherTypes
  <2> QED
    BY <2>1, <2>2, <2>3 DEF TreeConsistent
<1>12. KillFrames'
  BY <1>2 DEF KillFrames
<1> QED
  BY <1>6, <1>7, <1>8, <1>9, <1>10, <1>11, <1>12, Parts, PTL

(* A process leaves the CPU for the queue of a semaphore, or goes on.      *)
LEMMA PKeeps ==
  ASSUME IInv, NEW s \in AllSems, NEW e, P(s, e), cpu = "user",
         UNCHANGED <<procVars, killStack>>, op' \in [Pcbs -> Units \cup {NULL}],
         UNCHANGED unit
  PROVE  IInv'
<1>1. CpuInv /\ OtherTypes /\ QueuesApart /\ CountAccurate /\ FreeClean /\ TreeConsistent
  BY Parts
<1> DEFINE c == currentProcess
<1>2. /\ c \in Live /\ c \in Pcbs /\ c \notin ToSet(readyQue) /\ p_semAdd[c] = NULL
      /\ \A t \in AllSems : c \notin ToSet(procQ[t])
  BY <1>1, NullApart DEF CpuInv, CurrentApart, Live, QueuesApart
<1>3. /\ UNCHANGED <<pcbFree, processCount, p_prnt, p_child, vectors, unmasked, killStack>>
      /\ Live' = Live
  BY DEF procVars, Live
<1>4. semVal' \in [AllSems -> Int]
  BY <1>1 DEF OtherTypes, P
<1>5. CASE semVal'[s] < 0
  <2>1. Block(s)
    BY <1>5 DEF P
  <2>2. /\ procQ' = [procQ EXCEPT ![s] = Append(@, c)]
        /\ p_semAdd' = [p_semAdd EXCEPT ![c] = s]
        /\ softBlockCount' = IF s \in DevSems THEN softBlockCount + 1 ELSE softBlockCount
        /\ Scheduler(readyQue, processCount, softBlockCount', NULL)
    BY <2>1 DEF Block
  <2>3. /\ Append(procQ[s], c) \in Seq(Pcbs)
        /\ IsInjective(Append(procQ[s], c))
        /\ ToSet(Append(procQ[s], c)) = ToSet(procQ[s]) \cup {c}
    <3>1. procQ[s] \in Seq(Pcbs) /\ IsInjective(procQ[s])
      BY <1>1 DEF OtherTypes, QueuesApart
    <3> QED
      BY <3>1, <1>2, InsertTail
  <2>4. CpuInv' /\ cpu' # "kill"
    <3>1. /\ readyQue \in Seq(Pcbs)
          /\ IsInjective(readyQue)
          /\ waitFlag \in 0..1
      BY <1>1 DEF CpuInv
    <3>2. \A p \in ToSet(readyQue) : p \in Live' /\ p_semAdd'[p] = NULL
      BY <1>1, <1>2, <1>3, <2>2, MemberPosition DEF CpuInv, OtherTypes
    <3>3. \A p \in Live' : p \in ToSet(readyQue) \/ p_semAdd'[p] # NULL
      BY <1>1, <1>2, <1>3, <2>2, NullApart DEF CpuInv, NobodyForgotten, Blocked, OtherTypes, Live
    <3>4. NULL \notin Live' /\ NULL \in Pcbs \cup {NULL}
      BY NullApart DEF Live
    <3> QED
      BY <3>1, <3>2, <3>3, <3>4, <2>2, SchedulerKeeps
  <2>5. OtherTypes'
    <3>1. softBlockCount' \in Int
      BY <1>1, <2>2 DEF OtherTypes
    <3>2. procQ' \in [AllSems -> Seq(Pcbs)]
      BY <1>1, <2>2, <2>3 DEF OtherTypes
    <3>3. p_semAdd' \in [Pcbs -> AllSems \cup {NULL}]
      BY <1>1, <2>2 DEF OtherTypes
    <3> QED
      BY <1>1, <1>3, <1>4, <3>1, <3>2, <3>3 DEF OtherTypes
  <2>6. QueuesApart'
    <3> SUFFICES ASSUME NEW t \in AllSems
                 PROVE  /\ IsInjective(procQ'[t])
                        /\ \A p \in ToSet(procQ'[t]) : p \in Live' /\ p_semAdd'[p] = t
      BY DEF QueuesApart
    <3>1. CASE t = s
      <4>1. procQ'[t] = Append(procQ[s], c)
        BY <3>1, <1>1, <2>2 DEF OtherTypes
      <4>2. \A p \in ToSet(procQ[s]) : p \in Live /\ p_semAdd[p] = s
        BY <1>1 DEF QueuesApart
      <4> QED
        BY <3>1, <4>1, <4>2, <2>2, <2>3, <1>1, <1>2, <1>3 DEF OtherTypes, Live
    <3>2. CASE t # s
      <4>1. procQ'[t] = procQ[t]
        BY <3>2, <1>1, <2>2 DEF OtherTypes
      <4>2. IsInjective(procQ[t]) /\ \A p \in ToSet(procQ[t]) : p \in Live /\ p_semAdd[p] = t
        BY <1>1 DEF QueuesApart
      <4> QED
        BY <4>1, <4>2, <2>2, <1>1, <1>2, <1>3 DEF OtherTypes, Live
    <3> QED
      BY <3>1, <3>2
  <2>7. CountAccurate' /\ TreeConsistent'
    BY <1>1, <1>3 DEF CountAccurate, TreeConsistent
  <2>8. FreeClean'
    BY <1>1, <1>2, <1>3, <2>2 DEF FreeClean, OtherTypes, Live
  <2>9. KillFrames'
    BY <2>4 DEF KillFrames
  <2> QED
    BY <2>4, <2>5, <2>6, <2>7, <2>8, <2>9, Parts, PTL
<1>6. CASE ~(semVal'[s] < 0)
  <2>1. /\ cpu' \in {"user", "lost"}
        /\ UNCHANGED <<procQ, p_semAdd, softBlockCount, currentProcess, readyQue,
                       waitFlag, timerIRQ>>
    BY <1>6 DEF P
  <2>2. CpuInv'
    <3>1. CurrentApart' /\ NobodyForgotten' /\ WaitFlagRight'
      BY <1>1, <1>2, <1>3, <2>1
         DEF CpuInv, CurrentApart, NobodyForgotten, WaitFlagRight, Blocked
    <3> QED
      BY <1>1, <1>3, <2>1, <3>1 DEF CpuInv
  <2>3. OtherTypes'
    BY <1>1, <1>3, <1>4, <2>1 DEF OtherTypes
  <2>4. QueuesApart' /\ CountAccurate' /\ TreeConsistent' /\ FreeClean'
    BY <1>1, <1>3, <2>1 DEF QueuesApart, CountAccurate, TreeConsistent, FreeClean
  <2>5. KillFrames'
    BY <2>1 DEF KillFrames
  <2> QED
    BY <2>2, <2>3, <2>4, <2>5, Parts, PTL
<1> QED
  BY <1>5, <1>6

(* removeBlocked followed by insertProcQ on the ready queue.               *)
LEMMA WakeMoves ==
  ASSUME CpuInv, OtherTypes, QueuesApart, NEW s \in AllSems, procQ[s] # <<>>,
         Wake(s), Live' = Live, pcbFree' = pcbFree
  PROVE  LET h == Head(procQ[s])
             rq == Append(readyQue, h)
         IN  /\ h \in Live /\ h \in Pcbs /\ h # currentProcess
             /\ procQ' \in [AllSems -> Seq(Pcbs)]
             /\ p_semAdd' = [p_semAdd EXCEPT ![h] = NULL]
             /\ p_semAdd' \in [Pcbs -> AllSems \cup {NULL}]
             /\ QueuesApart'
             /\ rq \in Seq(Pcbs) /\ IsInjective(rq) /\ rq # <<>>
             /\ ToSet(rq) = ToSet(readyQue) \cup {h}
             /\ \A p \in ToSet(rq) : p \in Live' /\ p_semAdd'[p] = NULL
             /\ \A p \in Live : p = currentProcess \/ p \in ToSet(rq) \/ p_semAdd'[p] # NULL
             /\ currentProcess \in Live =>
                  currentProcess \notin ToSet(rq) /\ p_semAdd'[currentProcess] = NULL
             /\ \A p \in pcbFree : p_semAdd[p] = NULL => p_semAdd'[p] = NULL
<1> DEFINE h == Head(procQ[s])
           rq == Append(readyQue, h)
           left == QueueAfterOut(procQ[s], h)
<1>1. /\ procQ' = [procQ EXCEPT ![s] = left]
      /\ p_semAdd' = [p_semAdd EXCEPT ![h] = NULL]
  BY DEF Wake, OtherTypes
<1>2. /\ h \in Pcbs /\ h \in ToSet(procQ[s])
      /\ left \in Seq(Pcbs) /\ IsInjective(left)
      /\ ToSet(left) = ToSet(procQ[s]) \ {h}
  <2>1. procQ[s] \in Seq(Pcbs) /\ IsInjective(procQ[s])
    BY DEF OtherTypes, QueuesApart
  <2> QED
    BY <2>1, RemoveHead, RemoveBlockedHead
<1>3. /\ h \in Live /\ p_semAdd[h] = s
      /\ h \notin ToSet(readyQue) /\ h # currentProcess
  BY <1>2, NullApart DEF QueuesApart, CpuInv, CurrentApart
<1> HIDE DEF h, left
<1>4. /\ procQ' \in [AllSems -> Seq(Pcbs)]
      /\ p_semAdd' \in [Pcbs -> AllSems \cup {NULL}]
  BY <1>1, <1>2 DEF OtherTypes
<1>5. QueuesApart'
  <2> SUFFICES ASSUME NEW t \in AllSems
               PROVE  /\ IsInjective(procQ'[t])
                      /\ \A p \in ToSet(procQ'[t]) : p \in Live' /\ p_semAdd'[p] = t
    BY DEF QueuesApart
  <2>1. IsInjective(procQ[t]) /\ \A p \in ToSet(procQ[t]) : p \in Live /\ p_semAdd[p] = t
    BY DEF QueuesApart
  <2>2. CASE t = s
    <3>1. procQ'[t] = left
      BY <2>2, <1>1 DEF OtherTypes
    <3> QED
      BY <2>1, <2>2, <3>1, <1>1, <1>2 DEF OtherTypes, Live
  <2>3. CASE t # s
    <3>1. procQ'[t] = procQ[t]
      BY <2>3, <1>1 DEF OtherTypes
    <3> QED
      BY <2>1, <2>3, <3>1, <1>1, <1>3 DEF OtherTypes, Live
  <2> QED
    BY <2>2, <2>3
<1>6. /\ rq \in Seq(Pcbs) /\ IsInjective(rq) /\ rq # <<>>
      /\ ToSet(rq) = ToSet(readyQue) \cup {h}
  BY <1>2, <1>3, InsertTail DEF CpuInv
<1> HIDE DEF rq
<1>7. \A p \in Pcbs : p_semAdd'[p] = IF p = h THEN NULL ELSE p_semAdd[p]
  BY <1>1 DEF OtherTypes
<1>8. \A p \in ToSet(rq) : p \in Live' /\ p_semAdd'[p] = NULL
  BY <1>2, <1>3, <1>6, <1>7 DEF CpuInv, Live
<1>9. \A p \in Live : p = currentProcess \/ p \in ToSet(rq) \/ p_semAdd'[p] # NULL
  BY <1>6, <1>7 DEF CpuInv, NobodyForgotten, Blocked, Live
<1>10. currentProcess \in Live =>
         currentProcess \notin ToSet(rq) /\ p_semAdd'[currentProcess] = NULL
  BY <1>3, <1>6, <1>7 DEF CpuInv, CurrentApart, Live
<1>11. \A p \in pcbFree : p_semAdd[p] = NULL => p_semAdd'[p] = NULL
  BY <1>7 DEF OtherTypes
<1> QED
  BY <1>1, <1>2, <1>3, <1>4, <1>5, <1>6, <1>8, <1>9, <1>10, <1>11 DEF h, rq

(* SYS3: the process woken moves from one queue to the other.              *)
LEMMA VerhogenKeeps ==
  ASSUME IInv, NEW s \in Sems, Verhogen(s)
  PROVE  IInv'
<1>1. CpuInv /\ OtherTypes /\ QueuesApart /\ CountAccurate /\ FreeClean /\ TreeConsistent
  BY Parts
<1>2. /\ cpu = "user"
      /\ semVal' = [semVal EXCEPT ![s] = @ + 1]
      /\ UNCHANGED <<cpu, currentProcess, waitFlag, timerIRQ, softBlockCount, pcbFree,
                     processCount, p_prnt, p_child, vectors, unmasked, unit, op, killStack>>
  BY DEF Verhogen, Running, procVars, devVars
<1>3. s \in AllSems /\ Live' = Live
  BY <1>2, NullApart DEF Live
<1>4. semVal' \in [AllSems -> Int]
  BY <1>1, <1>2, <1>3 DEF OtherTypes
<1>5. CASE OwesWakeup(s) /\ procQ[s] # <<>>
  <2> DEFINE rq == Append(readyQue, Head(procQ[s]))
  <2>1. Wake(s) /\ readyQue' = rq
    BY <1>5 DEF Verhogen
  <2>2. /\ procQ' \in [AllSems -> Seq(Pcbs)]
        /\ p_semAdd' \in [Pcbs -> AllSems \cup {NULL}]
        /\ QueuesApart'
        /\ rq \in Seq(Pcbs) /\ IsInjective(rq)
        /\ \A p \in ToSet(rq) : p \in Live' /\ p_semAdd'[p] = NULL
        /\ \A p \in Live : p = currentProcess \/ p \in ToSet(rq) \/ p_semAdd'[p] # NULL
        /\ currentProcess \in Live =>
             currentProcess \notin ToSet(rq) /\ p_semAdd'[currentProcess] = NULL
        /\ \A p \in pcbFree : p_semAdd[p] = NULL => p_semAdd'[p] = NULL
    BY <1>1, <1>2, <1>3, <1>5, <2>1, WakeMoves
  <2> HIDE DEF rq
  <2>3. CpuInv'
    <3>1. CurrentApart' /\ NobodyForgotten' /\ WaitFlagRight'
      BY <1>1, <1>2, <1>3, <2>1, <2>2
         DEF CpuInv, CurrentApart, NobodyForgotten, WaitFlagRight, Blocked
    <3> QED
      BY <1>1, <1>2, <2>1, <2>2, <3>1 DEF CpuInv
  <2>4. OtherTypes'
    BY <1>1, <1>2, <1>4, <2>2 DEF OtherTypes
  <2>5. CountAccurate' /\ TreeConsistent'
    BY <1>1, <1>2, <1>3 DEF CountAccurate, TreeConsistent
  <2>6. FreeClean'
    BY <1>1, <1>2, <2>2 DEF FreeClean
  <2>7. KillFrames'
    BY <1>2 DEF KillFrames
  <2> QED
    BY <2>2, <2>3, <2>4, <2>5, <2>6, <2>7, Parts, PTL
<1>6. CASE ~(OwesWakeup(s) /\ procQ[s] # <<>>)
  <2>1. UNCHANGED <<procQ, p_semAdd, readyQue>>
    BY <1>6 DEF Verhogen
  <2>2. CpuInv'
    BY <1>1, <1>2, <1>3, <2>1
       DEF CpuInv, CurrentApart, NobodyForgotten, WaitFlagRight, Blocked
  <2>3. OtherTypes'
    BY <1>1, <1>2, <1>4, <2>1 DEF OtherTypes
  <2>4. QueuesApart' /\ CountAccurate' /\ TreeConsistent' /\ FreeClean'
    BY <1>1, <1>2, <1>3, <2>1 DEF QueuesApart, CountAccurate, TreeConsistent, FreeClean
  <2>5. KillFrames'
    BY <1>2 DEF KillFrames
  <2> QED
    BY <2>2, <2>3, <2>4, <2>5, Parts, PTL
<1> QED
  BY <1>5, <1>6

(* Steps that touch the devices only.                                      *)
LEMMA DeviceStepKeeps ==
  ASSUME IInv, UNCHANGED <<cpuVars, procVars, semVars, killStack>>,
         unit' \in [Units -> {"ready", "busy", "done"}],
         op' \in [Pcbs -> Units \cup {NULL}]
  PROVE  IInv'
<1>1. CpuInv /\ OtherTypes /\ QueuesApart /\ CountAccurate /\ FreeClean /\ TreeConsistent
      /\ KillFrames
  BY Parts
<1>2. /\ UNCHANGED <<cpu, currentProcess, readyQue, waitFlag, timerIRQ, pcbFree, processCount,
                     p_prnt, p_child, vectors, unmasked, softBlockCount, p_semAdd, procQ,
                     semVal, killStack>>
      /\ Live' = Live
  BY DEF cpuVars, procVars, semVars, Live
<1>3. CpuInv'
  BY <1>1, <1>2 DEF CpuInv, CurrentApart, NobodyForgotten, WaitFlagRight, Blocked
<1>4. OtherTypes'
  BY <1>1, <1>2 DEF OtherTypes
<1>5. QueuesApart' /\ CountAccurate' /\ TreeConsistent' /\ FreeClean' /\ KillFrames'
  BY <1>1, <1>2 DEF QueuesApart, CountAccurate, TreeConsistent, FreeClean, KillFrames
<1> QED
  BY <1>3, <1>4, <1>5, Parts, PTL

(* A step that changes nothing.                                            *)
LEMMA StutterKeeps == IInv /\ UNCHANGED vars => IInv'
<1> SUFFICES ASSUME IInv, UNCHANGED vars PROVE IInv'
  OBVIOUS
<1>1. UNCHANGED <<cpuVars, procVars, semVars, devVars, killStack>>
  BY DEF vars
<1>2. unit' = unit /\ op' = op
  BY <1>1 DEF devVars
<1>3. OtherTypes
  BY Parts
<1> QED
  BY <1>1, <1>2, <1>3, DeviceStepKeeps DEF OtherTypes

(* A process that makes a system call is alive.                            *)
LEMMA UserIsLive ==
  ASSUME IInv, cpu = "user"
  PROVE  currentProcess \in Live /\ currentProcess \in Pcbs /\ currentProcess # NULL
BY NullApart, Parts DEF CpuInv, CurrentApart, Live

(* SYS1 without a free pcb loses the CPU, and nothing else.                *)
LEMMA CreateFailsKeeps == ASSUME IInv, CreateFails PROVE IInv'
<1>1. CpuInv /\ OtherTypes /\ QueuesApart /\ CountAccurate /\ FreeClean /\ TreeConsistent
  BY Parts
<1>2. /\ cpu' = "lost"
      /\ UNCHANGED <<currentProcess, readyQue, waitFlag, timerIRQ, pcbFree, processCount,
                     p_prnt, p_child, vectors, unmasked, softBlockCount, p_semAdd, procQ,
                     semVal, unit, op, killStack>>
      /\ Live' = Live
  BY DEF CreateFails, procVars, semVars, devVars, Live
<1>3. CpuInv'
  BY <1>1, <1>2 DEF CpuInv, CurrentApart, NobodyForgotten, WaitFlagRight, Blocked
<1>4. OtherTypes'
  BY <1>1, <1>2 DEF OtherTypes
<1>5. QueuesApart' /\ CountAccurate' /\ TreeConsistent' /\ FreeClean' /\ KillFrames'
  BY <1>1, <1>2 DEF QueuesApart, CountAccurate, TreeConsistent, FreeClean, KillFrames
<1> QED
  BY <1>3, <1>4, <1>5, Parts, PTL

(* A loaded state changes the interrupt mask of a live process only.       *)
LEMMA LoadStateKeeps ==
  ASSUME IInv, LoadState, currentProcess \in Live, cpu' = "user"
  PROVE  IInv'
<1>1. CpuInv /\ OtherTypes /\ QueuesApart /\ CountAccurate /\ FreeClean /\ TreeConsistent
  BY Parts
<1>2. /\ UNCHANGED <<currentProcess, readyQue, waitFlag, timerIRQ, pcbFree, processCount,
                     p_prnt, p_child, vectors, softBlockCount, p_semAdd, procQ,
                     semVal, unit, op, killStack>>
      /\ unmasked' \in {unmasked \cup {currentProcess}, unmasked \ {currentProcess}}
      /\ Live' = Live
  BY DEF LoadState, semVars, devVars, Live
<1>3. CpuInv'
  BY <1>1, <1>2 DEF CpuInv, CurrentApart, NobodyForgotten, WaitFlagRight, Blocked
<1>4. OtherTypes' /\ FreeClean'
  BY <1>1, <1>2 DEF OtherTypes, FreeClean, Live
<1>5. QueuesApart' /\ CountAccurate' /\ TreeConsistent' /\ KillFrames'
  BY <1>1, <1>2 DEF QueuesApart, CountAccurate, TreeConsistent, KillFrames
<1> QED
  BY <1>3, <1>4, <1>5, Parts, PTL

(* An exception is handled by a live process, or kills one.                *)
LEMMA PassUpOrDieKeeps ==
  ASSUME IInv, NEW t, PassUpOrDie(t), currentProcess # NULL
  PROVE  IInv'
<1>1. CASE t \in vectors[currentProcess]
  <2>1. currentProcess \in Live
    BY <1>1, Parts DEF CpuInv, FreeClean, Live
  <2> QED
    BY <1>1, <2>1, LoadStateKeeps DEF PassUpOrDie
<1>2. CASE t \notin vectors[currentProcess]
  BY <1>2, StartKillKeeps DEF PassUpOrDie
<1> QED
  BY <1>1, <1>2

(* SYS5: a vector is given to a live process, or the process is killed.    *)
LEMMA SpecifyVectorKeeps ==
  ASSUME IInv, NEW t \in Traps, SpecifyExceptionStateVector(t)
  PROVE  IInv'
<1>1. CpuInv /\ OtherTypes /\ QueuesApart /\ CountAccurate /\ FreeClean /\ TreeConsistent
  BY Parts
<1>2. cpu = "user" /\ currentProcess \in Live /\ currentProcess \in Pcbs /\ currentProcess # NULL
  BY UserIsLive DEF SpecifyExceptionStateVector, Running
<1>3. CASE t \in vectors[currentProcess]
  BY <1>2, <1>3, StartKillKeeps DEF SpecifyExceptionStateVector
<1>4. CASE t \notin vectors[currentProcess]
  <2>1. /\ vectors' = [vectors EXCEPT ![currentProcess] = @ \cup {t}]
        /\ UNCHANGED <<cpu, currentProcess, readyQue, waitFlag, timerIRQ, pcbFree,
                       processCount, p_prnt, p_child, unmasked, softBlockCount, p_semAdd,
                       procQ, semVal, unit, op, killStack>>
        /\ Live' = Live
    BY <1>4 DEF SpecifyExceptionStateVector, Return, cpuVars, semVars, devVars, Live
  <2>2. CpuInv'
    BY <1>1, <2>1 DEF CpuInv, CurrentApart, NobodyForgotten, WaitFlagRight, Blocked
  <2>3. OtherTypes'
    <3>1. vectors' \in [Pcbs -> SUBSET TrapTypes]
      BY <1>1, <2>1, KindsAssumption DEF OtherTypes
    <3> QED
      BY <1>1, <2>1, <3>1 DEF OtherTypes
  <2>4. QueuesApart' /\ CountAccurate' /\ TreeConsistent'
    BY <1>1, <2>1 DEF QueuesApart, CountAccurate, TreeConsistent
  <2>5. FreeClean'
    BY <1>1, <1>2, <2>1 DEF FreeClean, Live, OtherTypes
  <2>6. KillFrames'
    BY <1>2, <2>1 DEF KillFrames
  <2> QED
    BY <2>2, <2>3, <2>4, <2>5, <2>6, Parts, PTL
<1> QED
  BY <1>3, <1>4

(* Every system call and trap keeps the invariant.                         *)
LEMMA SystemCallKeeps ==
  ASSUME IInv, SystemCall
  PROVE  IInv'
<1>1. OtherTypes
  BY Parts
<1>2. CASE \E p \in Pcbs : CreateProcess(p)
  BY <1>2, CreateProcessKeeps
<1>3. CASE CreateFails
  BY <1>3, CreateFailsKeeps
<1>4. CASE TerminateProcess
  <2>1. StartKill /\ cpu = "user"
    BY <1>4 DEF TerminateProcess, Running
  <2> QED
    BY <2>1, UserIsLive, StartKillKeeps
<1>5. CASE \E s \in Sems : Verhogen(s)
  BY <1>5, VerhogenKeeps
<1>6. CASE \E s \in Sems : Passeren(s)
  <2>1. PICK s \in Sems : Passeren(s)
    BY <1>6
  <2>2. /\ s \in AllSems /\ P(s, TRUE) /\ cpu = "user"
        /\ UNCHANGED <<procVars, unit, op, killStack>>
    BY <2>1, NullApart DEF Passeren, Running, devVars
  <2> QED
    BY <1>1, <2>2, PKeeps DEF OtherTypes
<1>7. CASE \E t \in Traps : SpecifyExceptionStateVector(t)
  BY <1>7, SpecifyVectorKeeps
<1>8. CASE \E t \in Traps : Exception(t)
  <2>1. PICK t \in Traps : Exception(t)
    BY <1>8
  <2>2. cpu = "user" /\ PassUpOrDie(t)
    BY <2>1 DEF Exception, Running
  <2> QED
    BY <2>2, UserIsLive, PassUpOrDieKeeps
<1>9. CASE WaitForClock
  <2>1. /\ P(Clock, TRUE) /\ cpu = "user"
        /\ UNCHANGED <<procVars, unit, op, killStack>>
    BY <1>9 DEF WaitForClock, Running, devVars
  <2> QED
    BY <1>1, <2>1, NullApart, PKeeps DEF OtherTypes
<1>10. CASE \E u \in Units : StartIO(u)
  <2>1. PICK u \in Units : StartIO(u)
    BY <1>10
  <2>2. cpu = "user"
    BY <2>1 DEF StartIO, Running
  <2>3. /\ unit' \in [Units -> {"ready", "busy", "done"}]
        /\ op' \in [Pcbs -> Units \cup {NULL}]
        /\ UNCHANGED <<cpuVars, procVars, semVars, killStack>>
    BY <1>1, <2>1, <2>2, UserIsLive DEF StartIO, OtherTypes
  <2> QED
    BY <2>3, DeviceStepKeeps
<1>11. CASE WaitForIODevice
  <2>1. /\ P(op[currentProcess], FALSE) /\ cpu = "user"
        /\ op[currentProcess] # NULL
        /\ op' = [op EXCEPT ![currentProcess] = NULL]
        /\ UNCHANGED <<procVars, unit, killStack>>
    BY <1>11 DEF WaitForIODevice, Running
  <2>2. op[currentProcess] \in AllSems /\ op' \in [Pcbs -> Units \cup {NULL}]
    BY <1>1, <2>1, UserIsLive, NullApart DEF OtherTypes
  <2> QED
    BY <2>1, <2>2, PKeeps
<1>12. CASE ProgramLDST
  BY <1>12, UserIsLive, LoadStateKeeps DEF ProgramLDST, Running
<1> QED
  BY <1>2, <1>3, <1>4, <1>5, <1>6, <1>7, <1>8, <1>9, <1>10, <1>11, <1>12 DEF SystemCall

-----------------------------------------------------------------------------
(* terminateRecursively.                                                   *)

(* The loop of an activation: the child that leaves its parent is on the   *)
(* stack, and no other process knows it any more.                          *)
LEMMA KillChildKeeps ==
  ASSUME IInv, KillChild
  PROVE  IInv'
<1>1. CpuInv /\ OtherTypes /\ QueuesApart /\ CountAccurate /\ FreeClean /\ TreeConsistent
      /\ KillFrames
  BY Parts
<1> DEFINE v == Victim
           c == Head(p_child[v])
<1>2. /\ cpu = "kill"
      /\ p_child[v] # <<>>
      /\ p_child' = [p_child EXCEPT ![v] = Tail(@)]
      /\ p_prnt' = [p_prnt EXCEPT ![c] = NULL]
      /\ killStack' = Append(killStack, c)
      /\ UNCHANGED <<cpu, currentProcess, readyQue, waitFlag, timerIRQ, pcbFree, processCount,
                     vectors, unmasked, softBlockCount, p_semAdd, procQ, semVal, unit, op>>
      /\ Live' = Live
  BY DEF KillChild, cpuVars, semVars, devVars, Live
<1>3. killStack \in Seq(Pcbs) /\ killStack # <<>> /\ killStack[1] = currentProcess
  BY <1>1, <1>2 DEF OtherTypes, KillFrames
<1>4. v \in Pcbs /\ Len(killStack) \in Nat /\ Len(killStack) >= 1
  BY <1>3, PopStack DEF Victim
<1>5. /\ c \in Pcbs /\ c \in ToSet(p_child[v])
      /\ Tail(p_child[v]) \in Seq(Pcbs)
      /\ IsInjective(Tail(p_child[v]))
      /\ ToSet(Tail(p_child[v])) = ToSet(p_child[v]) \ {c}
  <2>1. p_child[v] \in Seq(Pcbs) /\ IsInjective(p_child[v])
    BY <1>1, <1>4 DEF OtherTypes, TreeConsistent
  <2> QED
    BY <2>1, <1>2, RemoveHead
<1> HIDE DEF v, c
<1>6. p_prnt[c] = v /\ v \in Live
  BY <1>1, <1>4, <1>5, NullApart DEF TreeConsistent
<1>7. CpuInv'
  BY <1>1, <1>2 DEF CpuInv, CurrentApart, NobodyForgotten, WaitFlagRight, Blocked
<1>8. /\ killStack' \in Seq(Pcbs)
      /\ Len(killStack') = Len(killStack) + 1
      /\ \A i \in 1..Len(killStack) : killStack'[i] = killStack[i]
      /\ killStack'[Len(killStack) + 1] = c
      /\ killStack' # <<>>
  BY <1>2, <1>3, <1>5, AppendProperties
<1>9. OtherTypes'
  <2>1. p_prnt' \in [Pcbs -> Pcbs \cup {NULL}]
    BY <1>1, <1>2 DEF OtherTypes
  <2>2. p_child' \in [Pcbs -> Seq(Pcbs)]
    BY <1>1, <1>2, <1>5 DEF OtherTypes
  <2> QED
    BY <1>1, <1>2, <1>8, <2>1, <2>2 DEF OtherTypes
<1>10. QueuesApart' /\ CountAccurate'
  BY <1>1, <1>2 DEF QueuesApart, CountAccurate
<1>11. FreeClean'
  BY <1>1, <1>2, <1>4, <1>6 DEF FreeClean, OtherTypes, Live
<1>12. TreeConsistent'
  <2>1. \A x \in Pcbs : IsInjective(p_child'[x])
    BY <1>1, <1>2, <1>5 DEF OtherTypes, TreeConsistent
  <2>2. ASSUME NEW x \in Pcbs, NEW y \in Pcbs
        PROVE  y \in ToSet(p_child'[x]) <=> p_prnt'[y] = x
    <3>1. y \in ToSet(p_child[x]) <=> p_prnt[y] = x
      BY <1>1 DEF TreeConsistent
    <3>2. ToSet(p_child'[x]) = IF x = v THEN ToSet(p_child[v]) \ {c} ELSE ToSet(p_child[x])
      BY <1>1, <1>2, <1>5 DEF OtherTypes
    <3>3. p_prnt'[y] = IF y = c THEN NULL ELSE p_prnt[y]
      BY <1>1, <1>2 DEF OtherTypes
    <3> QED
      BY <3>1, <3>2, <3>3, <1>6, NullApart
  <2>3. ASSUME NEW y \in Pcbs, p_prnt'[y] # NULL PROVE y \in Live' /\ p_prnt'[y] \in Live'
    BY <2>3, <1>1, <1>2 DEF TreeConsistent, OtherTypes
  <2> QED
    BY <2>1, <2>2, <2>3 DEF TreeConsistent
<1>13. KillFrames'
  <2>1. ASSUME NEW n \in Nat, n >= 1
        PROVE  1 \in 1..n /\ \A i \in 2..n + 1 : i \in 2..n \/ i = n + 1
    BY <2>1
  <2>2. ASSUME NEW i \in 2..Len(killStack')
        PROVE  p_prnt'[killStack'[i]] = NULL
    <3>1. CASE i \in 2..Len(killStack)
      <4>1. i \in 1..Len(killStack) /\ p_prnt[killStack[i]] = NULL
        BY <3>1, <1>1, <1>2, <1>4 DEF KillFrames
      <4>2. killStack[i] \in Pcbs
        BY <4>1, <1>3, ElementOfSeq
      <4> QED
        BY <4>1, <4>2, <1>1, <1>2, <1>8 DEF OtherTypes
    <3>2. CASE i = Len(killStack) + 1
      BY <3>2, <1>1, <1>2, <1>5, <1>8 DEF OtherTypes
    <3> QED
      BY <3>1, <3>2, <2>1, <1>4, <1>8
  <2>3. killStack'[1] = killStack[1]
    BY <2>1, <1>4, <1>8
  <2> QED
    BY <2>2, <2>3, <1>2, <1>3, <1>8 DEF KillFrames
<1> QED
  BY <1>7, <1>9, <1>10, <1>11, <1>12, <1>13, Parts, PTL

(* A fault of the nucleus in the middle of a termination frees nobody.     *)
LEMMA KillMissingKeeps ==
  ASSUME IInv, KillMissing
  PROVE  IInv'
<1>1. CpuInv /\ OtherTypes /\ QueuesApart /\ CountAccurate /\ FreeClean /\ TreeConsistent
      /\ KillFrames
  BY Parts
<1> DEFINE v == Victim
<1>2. /\ cpu = "kill"
      /\ ReleaseSemaphore(v)
      /\ cpu' = "trap"
      /\ killStack' = <<>>
      /\ UNCHANGED <<currentProcess, readyQue, waitFlag, timerIRQ, p_semAdd, procQ, pcbFree,
                     processCount, p_prnt, p_child, vectors, unmasked, unit, op>>
      /\ Live' = Live
  BY DEF KillMissing, procVars, devVars, Live
<1>3. v \in Pcbs
  BY <1>1, <1>2, PopStack DEF OtherTypes, KillFrames, Victim
<1> HIDE DEF v
<1>4. softBlockCount' \in Int /\ semVal' \in [AllSems -> Int]
  BY <1>1, <1>2, <1>3 DEF ReleaseSemaphore, Blocked, OtherTypes
<1>5. CpuInv'
  BY <1>1, <1>2 DEF CpuInv, CurrentApart, NobodyForgotten, WaitFlagRight, Blocked
<1>6. OtherTypes'
  BY <1>1, <1>2, <1>4, EmptySeq DEF OtherTypes
<1>7. QueuesApart' /\ CountAccurate' /\ TreeConsistent' /\ FreeClean' /\ KillFrames'
  BY <1>1, <1>2 DEF QueuesApart, CountAccurate, TreeConsistent, FreeClean, KillFrames
<1> QED
  BY <1>5, <1>6, <1>7, Parts, PTL

(* The nucleus's own fault is blamed on a process that lives, or starts a  *)
(* termination: a freed pcb has no vectors.                                *)
LEMMA KernelTrapKeeps ==
  ASSUME IInv, KernelTrap
  PROVE  IInv'
BY PassUpOrDieKeeps DEF KernelTrap

(* The victim of a finished activation is where the code looks for it:     *)
(* the outermost is the current process, still in the tree, and an inner   *)
(* one has left the tree and is blocked or ready.                          *)
LEMMA VictimPlace ==
  ASSUME IInv, cpu = "kill", p_child[Victim] = <<>>, Found(Victim)
  PROVE  /\ killStack \in Seq(Pcbs) /\ killStack # <<>> /\ Len(killStack) \in Nat
         /\ Victim \in Live /\ Victim \in Pcbs
         /\ Len(killStack) = 1 => /\ Victim = currentProcess
                                  /\ ~Blocked(Victim)
                                  /\ p_prnt[Victim] \in Live
                                  /\ p_prnt[Victim] # Victim
         /\ Len(killStack) # 1 => /\ Len(killStack) >= 2
                                  /\ Victim # currentProcess
                                  /\ p_prnt[Victim] = NULL
         /\ ~Blocked(Victim) /\ Victim # currentProcess => Victim \in ToSet(readyQue)
         /\ Blocked(Victim) => /\ p_semAdd[Victim] \in AllSems
                               /\ Victim \in ToSet(procQ[p_semAdd[Victim]])
<1>1. CpuInv /\ OtherTypes /\ QueuesApart /\ FreeClean /\ TreeConsistent /\ KillFrames
  BY Parts
<1> DEFINE v == Victim
<1>2. /\ killStack \in Seq(Pcbs) /\ killStack # <<>> /\ killStack[1] = currentProcess
  BY <1>1 DEF OtherTypes, KillFrames
<1>3. /\ v \in Pcbs /\ v = killStack[Len(killStack)]
      /\ Len(killStack) \in Nat /\ Len(killStack) >= 1
  BY <1>2, PopStack DEF Victim
<1>4. ~Blocked(v) /\ v # currentProcess => v \in ToSet(readyQue)
  BY DEF Found
<1>5. Blocked(v) => p_semAdd[v] \in AllSems /\ v \in ToSet(procQ[p_semAdd[v]])
  BY <1>1, <1>3 DEF Found, Blocked, OtherTypes
<1>6. ~Blocked(v) /\ v = currentProcess => p_prnt[v] # NULL
  BY DEF Found
<1> HIDE DEF v
<1>7. v \in Live
  <2>1. CASE Blocked(v)
    BY <2>1, <1>1, <1>5 DEF QueuesApart
  <2>2. CASE ~Blocked(v) /\ v # currentProcess
    BY <2>2, <1>1, <1>4 DEF CpuInv
  <2>3. CASE ~Blocked(v) /\ v = currentProcess
    BY <2>3, <1>1, <1>3, <1>6 DEF TreeConsistent
  <2> QED
    BY <2>1, <2>2, <2>3
<1>8. CASE Len(killStack) = 1
  <2>1. v = currentProcess
    BY <1>2, <1>3, <1>8
  <2>2. ~Blocked(v)
    BY <2>1, <1>1, <1>7 DEF CpuInv, CurrentApart, Blocked
  <2>3. p_prnt[v] \in Live /\ p_prnt[v] \in Pcbs
    BY <2>1, <2>2, <1>1, <1>3, <1>6 DEF TreeConsistent, Live
  <2>4. v \in ToSet(p_child[p_prnt[v]])
    BY <2>3, <1>1, <1>3 DEF TreeConsistent
  <2>5. p_prnt[v] # v
    BY <2>4, EmptyQueue DEF v
  <2> QED
    BY <1>2, <1>3, <1>4, <1>5, <1>7, <1>8, <2>1, <2>2, <2>3, <2>5 DEF v
<1>9. CASE Len(killStack) # 1
  <2>0. \A n \in Nat : n >= 1 /\ n # 1 => n \in 2..n /\ n >= 2
    OBVIOUS
  <2>1. Len(killStack) \in 2..Len(killStack) /\ Len(killStack) >= 2
    BY <2>0, <1>3, <1>9
  <2>2. p_prnt[v] = NULL
    BY <2>1, <1>1, <1>3 DEF KillFrames
  <2>3. v # currentProcess
    <3>1. CASE Blocked(v)
      BY <3>1, <1>1, <1>7 DEF CpuInv, CurrentApart, Blocked
    <3>2. CASE ~Blocked(v)
      BY <3>2, <2>2, <1>6
    <3> QED
      BY <3>1, <3>2
  <2> QED
    BY <1>2, <1>3, <1>4, <1>5, <1>7, <1>9, <2>1, <2>2, <2>3 DEF v
<1> QED
  BY <1>8, <1>9

(* The end of an activation frees exactly its victim.                      *)
LEMMA KillLeafKeeps ==
  ASSUME IInv, KillLeaf
  PROVE  IInv'
<1>1. CpuInv /\ OtherTypes /\ QueuesApart /\ CountAccurate /\ FreeClean /\ TreeConsistent
      /\ KillFrames
  BY Parts
<1> DEFINE v == Victim
           s == p_semAdd[v]
           prnt == p_prnt[v]
<1>2. /\ cpu = "kill"
      /\ p_child[v] = <<>>
      /\ Found(v)
      /\ ReleaseSemaphore(v)
      /\ procQ' = QueuesAfter(v)
      /\ p_child' = ChildrenAfter(v)
      /\ p_semAdd' = [p_semAdd EXCEPT ![v] = NULL]
      /\ p_prnt' = [p_prnt EXCEPT ![v] = NULL]
      /\ vectors' = [vectors EXCEPT ![v] = {}]
      /\ unmasked' = unmasked \ {v}
      /\ op' = [op EXCEPT ![v] = NULL]
      /\ pcbFree' = pcbFree \cup {v}
      /\ processCount' = processCount - 1
      /\ killStack' = Front(killStack)
      /\ UNCHANGED unit
  BY DEF KillLeaf, Clean
<1>3. IF Len(killStack) = 1
      THEN Scheduler(ReadyAfter(v), processCount', softBlockCount', currentProcess)
      ELSE readyQue' = ReadyAfter(v) /\ UNCHANGED <<cpu, currentProcess, waitFlag, timerIRQ>>
  BY DEF KillLeaf
<1>4. /\ killStack \in Seq(Pcbs) /\ killStack # <<>> /\ Len(killStack) \in Nat
      /\ v \in Live /\ v \in Pcbs
      /\ Len(killStack) = 1 => /\ v = currentProcess
                               /\ ~Blocked(v)
                               /\ prnt \in Live
                               /\ prnt # v
      /\ Len(killStack) # 1 => /\ Len(killStack) >= 2
                               /\ v # currentProcess
                               /\ prnt = NULL
      /\ ~Blocked(v) /\ v # currentProcess => v \in ToSet(readyQue)
      /\ Blocked(v) => s \in AllSems /\ v \in ToSet(procQ[s])
  BY <1>2, VictimPlace
<1> HIDE DEF v
<1>5. Live' = Live \ {v} /\ v \notin pcbFree
  BY <1>2, <1>4 DEF Live
<1>6. /\ \A x \in Pcbs : p_semAdd'[x] = IF x = v THEN NULL ELSE p_semAdd[x]
      /\ \A x \in Pcbs : p_prnt'[x] = IF x = v THEN NULL ELSE p_prnt[x]
  BY <1>1, <1>2, <1>4 DEF OtherTypes
<1>7. /\ ReadyAfter(v) \in Seq(Pcbs)
      /\ IsInjective(ReadyAfter(v))
      /\ ToSet(ReadyAfter(v)) = ToSet(readyQue) \ {v}
  <2>1. readyQue \in Seq(Pcbs) /\ IsInjective(readyQue)
    BY <1>1 DEF CpuInv
  <2>2. CASE ~Blocked(v) /\ v # currentProcess
    BY <2>1, <2>2, <1>4, RemoveMember DEF ReadyAfter
  <2>3. CASE Blocked(v) \/ v = currentProcess
    <3>1. v \notin ToSet(readyQue)
      BY <2>3, <1>1, <1>4 DEF CpuInv, CurrentApart, Blocked
    <3> QED
      BY <2>1, <2>3, <3>1 DEF ReadyAfter
  <2> QED
    BY <2>2, <2>3
<1>8. CpuInv'
  <2>1. \A p \in ToSet(ReadyAfter(v)) : p \in Live' /\ p_semAdd'[p] = NULL
    BY <1>1, <1>5, <1>6, <1>7 DEF CpuInv, Live
  <2>2. \A p \in Live' : p = currentProcess \/ p \in ToSet(ReadyAfter(v)) \/ p_semAdd'[p] # NULL
    BY <1>1, <1>5, <1>6, <1>7 DEF CpuInv, NobodyForgotten, Blocked, Live
  <2>3. CASE Len(killStack) = 1
    <3>1. Scheduler(ReadyAfter(v), processCount', softBlockCount', currentProcess)
      BY <1>3, <2>3
    <3>2. currentProcess \notin Live' /\ currentProcess \in Pcbs \cup {NULL} /\ waitFlag \in 0..1
      BY <2>3, <1>1, <1>4, <1>5 DEF CpuInv
    <3>3. \A p \in Live' : p \in ToSet(ReadyAfter(v)) \/ p_semAdd'[p] # NULL
      BY <3>2, <2>2
    <3> QED
      BY <1>7, <2>1, <3>1, <3>2, <3>3, SchedulerKeeps
  <2>4. CASE Len(killStack) # 1
    <3>1. readyQue' = ReadyAfter(v) /\ UNCHANGED <<cpu, currentProcess, waitFlag, timerIRQ>>
      BY <1>3, <2>4
    <3>2. CurrentApart' /\ NobodyForgotten' /\ WaitFlagRight'
      BY <1>1, <1>2, <1>5, <1>6, <1>7, <2>2, <3>1
         DEF CpuInv, CurrentApart, NobodyForgotten, WaitFlagRight, Blocked, Live
    <3> QED
      BY <1>1, <1>7, <2>1, <3>1, <3>2 DEF CpuInv
  <2> QED
    BY <2>3, <2>4
<1>9. QueuesApart' /\ procQ' \in [AllSems -> Seq(Pcbs)]
  <2>1. CASE Blocked(v)
    <3> DEFINE left == QueueAfterOut(procQ[s], v)
    <3>1. s \in AllSems /\ v \in ToSet(procQ[s])
          /\ procQ[s] \in Seq(Pcbs) /\ IsInjective(procQ[s])
      BY <2>1, <1>1, <1>4 DEF OtherTypes, QueuesApart
    <3>2. /\ left \in Seq(Pcbs) /\ IsInjective(left)
          /\ ToSet(left) \subseteq ToSet(procQ[s]) \ {v}
      BY <3>1, LeaveQueue
    <3>3. procQ' = [procQ EXCEPT ![s] = left]
      BY <2>1, <1>1, <1>2, <3>1 DEF QueuesAfter, OtherTypes
    <3> HIDE DEF left
    <3>4. \A t \in AllSems : procQ'[t] = IF t = s THEN left ELSE procQ[t]
      BY <3>3, <1>1 DEF OtherTypes
    <3>5. \A t \in AllSems : t # s => v \notin ToSet(procQ[t])
      BY <1>1 DEF QueuesApart
    <3>6. procQ' \in [AllSems -> Seq(Pcbs)]
      BY <3>2, <3>3, <1>1 DEF OtherTypes
    <3>7. ASSUME NEW t \in AllSems
          PROVE  /\ IsInjective(procQ'[t])
                 /\ \A p \in ToSet(procQ'[t]) : p \in Live' /\ p_semAdd'[p] = t
      <4>1. IsInjective(procQ[t]) /\ \A p \in ToSet(procQ[t]) : p \in Live /\ p_semAdd[p] = t
        BY <1>1 DEF QueuesApart
      <4>2. IsInjective(procQ'[t]) /\ ToSet(procQ'[t]) \subseteq ToSet(procQ[t]) \ {v}
        BY <4>1, <3>2, <3>4, <3>5
      <4> QED
        BY <4>1, <4>2, <1>5, <1>6 DEF Live
    <3> QED
      BY <3>6, <3>7 DEF QueuesApart
  <2>2. CASE ~Blocked(v)
    <3>1. procQ' = procQ
      BY <2>2, <1>2 DEF QueuesAfter
    <3>2. \A t \in AllSems : v \notin ToSet(procQ[t])
      BY <2>2, <1>1, NullApart DEF QueuesApart, Blocked
    <3> QED
      BY <3>1, <3>2, <1>1, <1>5, <1>6 DEF QueuesApart, OtherTypes, Live
  <2> QED
    BY <2>1, <2>2
<1>10. /\ p_child' \in [Pcbs -> Seq(Pcbs)]
       /\ \A x \in Pcbs : IsInjective(p_child'[x])
       /\ \A x \in Pcbs : ToSet(p_child'[x]) = ToSet(p_child[x]) \ {v}
       /\ \A x \in Pcbs : p_prnt[v] # x => p_child'[x] = p_child[x]
  <2>0. \A x \in Pcbs : p_prnt[v] # x => v \notin ToSet(p_child[x])
    BY <1>1, <1>4 DEF TreeConsistent
  <2>1. CASE Len(killStack) = 1
    <3> DEFINE left == TakenOut(p_child[prnt], v)
    <3>1. prnt \in Pcbs /\ prnt \in Live
      BY <2>1, <1>4 DEF Live
    <3>2. p_child[prnt] \in Seq(Pcbs) /\ IsInjective(p_child[prnt]) /\ v \in ToSet(p_child[prnt])
      BY <3>1, <1>1, <1>4 DEF TreeConsistent, OtherTypes
    <3>3. left \in Seq(Pcbs) /\ IsInjective(left) /\ ToSet(left) = ToSet(p_child[prnt]) \ {v}
      BY <3>2, RemoveMember
    <3>4. p_child' = [p_child EXCEPT ![prnt] = left]
      BY <2>1, <1>1, <1>2, <1>4, <3>1 DEF ChildrenAfter, OtherTypes
    <3> HIDE DEF left
    <3>5. \A x \in Pcbs : p_child'[x] = IF x = prnt THEN left ELSE p_child[x]
      BY <3>4, <1>1 DEF OtherTypes
    <3>6. p_child' \in [Pcbs -> Seq(Pcbs)]
      BY <3>3, <3>4, <1>1 DEF OtherTypes
    <3>7. \A x \in Pcbs : IsInjective(p_child[x])
      BY <1>1 DEF TreeConsistent
    <3> QED
      BY <2>0, <3>3, <3>5, <3>6, <3>7
  <2>2. CASE Len(killStack) # 1
    <3>1. p_child' = p_child /\ p_prnt[v] = NULL
      BY <2>2, <1>2, <1>4 DEF ChildrenAfter
    <3>2. \A x \in Pcbs : ToSet(p_child[x]) = ToSet(p_child[x]) \ {v}
      BY <2>0, <3>1, NullApart
    <3> QED
      BY <3>1, <3>2, <1>1 DEF TreeConsistent, OtherTypes
  <2> QED
    BY <2>1, <2>2
<1>11. killStack' \in Seq(Pcbs)
       /\ Len(killStack') = Len(killStack) - 1
       /\ \A i \in 1..Len(killStack) - 1 : killStack'[i] = killStack[i]
  BY <1>2, <1>4, PopStack
<1>12. OtherTypes'
  <2>1. softBlockCount' \in Int /\ semVal' \in [AllSems -> Int]
    BY <1>1, <1>2, <1>4 DEF ReleaseSemaphore, Blocked, OtherTypes
  <2>2. p_semAdd' \in [Pcbs -> AllSems \cup {NULL}]
    BY <1>1, <1>2 DEF OtherTypes
  <2>3. p_prnt' \in [Pcbs -> Pcbs \cup {NULL}] /\ vectors' \in [Pcbs -> SUBSET TrapTypes]
    BY <1>1, <1>2 DEF OtherTypes
  <2>4. op' \in [Pcbs -> Units \cup {NULL}]
    BY <1>1, <1>2 DEF OtherTypes
  <2>6. processCount' \in Int
    BY <1>1, <1>2 DEF OtherTypes
  <2>5. pcbFree' \subseteq Pcbs /\ unmasked' \subseteq Pcbs
    BY <1>1, <1>2, <1>4 DEF OtherTypes
  <2> QED
    BY <1>1, <1>2, <1>9, <1>10, <1>11, <2>1, <2>2, <2>3, <2>4, <2>5, <2>6 DEF OtherTypes
<1>13. CountAccurate'
  <2>1. IsFiniteSet(Live)
    BY PcbsAssumption, FS_Subset DEF Live
  <2>2. Cardinality(Live') = Cardinality(Live) - 1
    BY <2>1, <1>4, <1>5, FS_RemoveElement
  <2> QED
    BY <1>1, <1>2, <2>2 DEF CountAccurate
<1>14. FreeClean'
  <2> SUFFICES ASSUME NEW x \in pcbFree'
               PROVE  /\ p_semAdd'[x] = NULL
                      /\ p_prnt'[x] = NULL
                      /\ p_child'[x] = <<>>
                      /\ vectors'[x] = {}
                      /\ x \notin unmasked'
    BY DEF FreeClean
  <2>1. x \in Pcbs
    BY <1>1, <1>2, <1>4 DEF OtherTypes
  <2>2. vectors'[x] = IF x = v THEN {} ELSE vectors[x]
    BY <2>1, <1>1, <1>2 DEF OtherTypes
  <2>3. CASE x = v
    <3>1. p_prnt[v] # v
      BY <1>4, NullApart
    <3> QED
      BY <2>1, <2>2, <2>3, <3>1, <1>2, <1>6, <1>10
  <2>4. CASE x # v
    <3>1. x \in pcbFree
      BY <2>4, <1>2
    <3>2. p_prnt[v] # x
      BY <2>1, <3>1, <1>4, NullApart DEF Live
    <3> QED
      BY <2>1, <2>2, <2>4, <3>1, <3>2, <1>1, <1>2, <1>6, <1>10 DEF FreeClean
  <2> QED
    BY <2>3, <2>4
<1>15. TreeConsistent'
  <2>1. ASSUME NEW x \in Pcbs, NEW y \in Pcbs
        PROVE  y \in ToSet(p_child'[x]) <=> p_prnt'[y] = x
    <3>1. y \in ToSet(p_child[x]) <=> p_prnt[y] = x
      BY <1>1 DEF TreeConsistent
    <3> QED
      BY <3>1, <1>6, <1>10, NullApart
  <2>2. ASSUME NEW y \in Pcbs, p_prnt'[y] # NULL PROVE y \in Live' /\ p_prnt'[y] \in Live'
    <3>1. y # v /\ p_prnt'[y] = p_prnt[y]
      BY <2>2, <1>6
    <3>2. y \in Live /\ p_prnt[y] \in Live
      BY <2>2, <3>1, <1>1 DEF TreeConsistent
    <3>3. p_prnt[y] # v
      BY <1>1, <1>2, <1>4, EmptyQueue DEF TreeConsistent
    <3> QED
      BY <3>1, <3>2, <3>3, <1>5
  <2> QED
    BY <1>10, <2>1, <2>2 DEF TreeConsistent
<1>16. KillFrames'
  <2>1. CASE Len(killStack) = 1
    <3>1. cpu' # "kill"
      <4>1. /\ readyQue \in Seq(Pcbs)
        BY <1>1 DEF CpuInv
      <4> QED
        BY <2>1, <1>3 DEF Scheduler
    <3> QED
      BY <3>1 DEF KillFrames
  <2>2. CASE Len(killStack) # 1
    <3>1. Len(killStack) >= 2 /\ Len(killStack) \in Nat
      BY <2>2, <1>4
    <3>2. killStack[1] = currentProcess /\ \A i \in 2..Len(killStack) : p_prnt[killStack[i]] = NULL
      BY <1>1, <1>2 DEF KillFrames
    <3>3. killStack'[1] = killStack[1]
      BY <3>1, <1>11
    <3>4. killStack' # <<>>
      BY <3>1, <1>11, EmptySeq
    <3>5. ASSUME NEW i \in 2..Len(killStack') PROVE p_prnt'[killStack'[i]] = NULL
      <4>1. i \in 2..Len(killStack) /\ i \in 1..Len(killStack) - 1 /\ i \in 1..Len(killStack)
        BY <3>1, <1>11
      <4>2. killStack[i] \in Pcbs
        BY <4>1, <1>4, ElementOfSeq
      <4> QED
        BY <4>1, <4>2, <3>2, <1>6, <1>11
    <3>6. currentProcess' = currentProcess
      BY <2>2, <1>3
    <3> QED
      BY <3>2, <3>3, <3>4, <3>5, <3>6 DEF KillFrames
  <2> QED
    BY <2>1, <2>2
<1> QED
  BY <1>8, <1>9, <1>12, <1>13, <1>14, <1>15, <1>16, Parts, PTL

-----------------------------------------------------------------------------
(* interruptHandler.                                                       *)

(* The end of a quantum takes the CPU from one process, and from nobody    *)
(* else.                                                                   *)
LEMMA TimerInterruptKeeps ==
  ASSUME IInv, TimerInterrupt
  PROVE  IInv'
<1>1. CpuInv /\ OtherTypes /\ QueuesApart /\ CountAccurate /\ FreeClean /\ TreeConsistent
      /\ KillFrames
  BY Parts
<1> DEFINE c == currentProcess
           rq == Append(readyQue, c)
<1>2. /\ cpu \in {"user", "wait"}
      /\ UNCHANGED <<pcbFree, processCount, p_prnt, p_child, vectors, unmasked,
                     softBlockCount, p_semAdd, procQ, semVal, unit, op, killStack>>
      /\ Live' = Live
  BY DEF TimerInterrupt, Interruptible, procVars, semVars, devVars, Live
<1>3. CpuInv' /\ cpu' # "kill"
  <2>1. CASE cpu = "user"
    <3>1. Scheduler(rq, processCount, softBlockCount, NULL)
      BY <2>1 DEF TimerInterrupt
    <3>2. c \in Live /\ c \in Pcbs /\ c \notin ToSet(readyQue) /\ p_semAdd[c] = NULL
      BY <2>1, <1>1 DEF CpuInv, CurrentApart, Live
    <3>3. rq \in Seq(Pcbs) /\ IsInjective(rq) /\ ToSet(rq) = ToSet(readyQue) \cup {c}
      BY <3>2, <1>1, InsertTail DEF CpuInv
    <3> HIDE DEF rq
    <3>4. \A p \in ToSet(rq) : p \in Live' /\ p_semAdd'[p] = NULL
      BY <3>2, <3>3, <1>1, <1>2 DEF CpuInv
    <3>5. \A p \in Live' : p \in ToSet(rq) \/ p_semAdd'[p] # NULL
      BY <3>3, <1>1, <1>2 DEF CpuInv, NobodyForgotten, Blocked
    <3>6. NULL \notin Live' /\ NULL \in Pcbs \cup {NULL} /\ waitFlag \in 0..1
      BY <1>1, NullApart DEF Live, CpuInv
    <3> QED
      BY <3>1, <3>3, <3>4, <3>5, <3>6, SchedulerKeeps
  <2>2. CASE cpu = "wait"
    <3>1. /\ cpu' \in {"trap", "lost"}
          /\ timerIRQ' = FALSE
          /\ UNCHANGED <<currentProcess, readyQue, waitFlag>>
      BY <2>2 DEF TimerInterrupt
    <3>2. CurrentApart' /\ NobodyForgotten' /\ WaitFlagRight'
      BY <3>1, <1>1, <1>2 DEF CpuInv, CurrentApart, NobodyForgotten, WaitFlagRight, Blocked
    <3>3. timerIRQ' \in BOOLEAN
      BY <3>1, Zenon
    <3> QED
      BY <3>1, <3>2, <3>3, <1>1, <1>2 DEF CpuInv
  <2> QED
    BY <2>1, <2>2, <1>2
<1>4. OtherTypes'
  BY <1>1, <1>2 DEF OtherTypes
<1>5. QueuesApart' /\ CountAccurate' /\ TreeConsistent' /\ FreeClean'
  BY <1>1, <1>2 DEF QueuesApart, CountAccurate, TreeConsistent, FreeClean
<1>6. KillFrames'
  BY <1>3 DEF KillFrames
<1> QED
  BY <1>3, <1>4, <1>5, <1>6, Parts, PTL

(* A tick moves the whole queue of the clock behind the ready queue.       *)
LEMMA ClockInterruptKeeps ==
  ASSUME IInv, ClockInterrupt
  PROVE  IInv'
<1>1. CpuInv /\ OtherTypes /\ QueuesApart /\ CountAccurate /\ FreeClean /\ TreeConsistent
      /\ KillFrames
  BY Parts
<1> DEFINE woken == ClockWaiters
           rq == readyQue \o woken
           c == currentProcess
<1>2. /\ cpu \in {"user", "wait"}
      /\ procQ' = [procQ EXCEPT ![Clock] = IF woken = <<>> THEN @ ELSE <<>>]
      /\ p_semAdd' = [p \in Pcbs |-> IF p \in ToSet(woken) THEN NULL ELSE p_semAdd[p]]
      /\ semVal' = [semVal EXCEPT ![Clock] = @ + Len(woken)]
      /\ softBlockCount' = softBlockCount - Len(woken)
      /\ UNCHANGED <<pcbFree, processCount, p_prnt, p_child, vectors, unmasked, unit, op,
                     killStack>>
      /\ Live' = Live
  BY DEF ClockInterrupt, Interruptible, procVars, devVars, Live
<1>3. IF currentProcess # NULL
      THEN /\ cpu' = IF cpu = "user" THEN "user" ELSE "lost"
           /\ readyQue' = rq
           /\ UNCHANGED <<currentProcess, waitFlag, timerIRQ>>
      ELSE Scheduler(rq, processCount, softBlockCount', currentProcess)
  BY DEF ClockInterrupt
<1>4. /\ woken \in Seq(Pcbs) /\ IsInjective(woken)
      /\ woken = <<>> \/ woken = procQ[Clock]
      /\ Len(woken) \in Nat
      /\ \A p \in ToSet(woken) : p \in Live /\ p_semAdd[p] = Clock
  <2>1. /\ procQ[Clock] \in Seq(Pcbs) /\ IsInjective(procQ[Clock])
        /\ \A p \in ToSet(procQ[Clock]) : p \in Live /\ p_semAdd[p] = Clock
    BY <1>1, NullApart DEF OtherTypes, QueuesApart
  <2>2. <<>> \in Seq(Pcbs)
    BY EmptySeq
  <2>3. woken = <<>> \/ woken = procQ[Clock]
    BY DEF ClockWaiters
  <2>4. woken \in Seq(Pcbs)
    BY <2>1, <2>2, <2>3
  <2> QED
    BY <2>1, <2>3, <2>4, EmptyQueue, MemberPosition
<1> HIDE DEF woken
<1>5. ToSet(readyQue) \cap ToSet(woken) = {} /\ readyQue \in Seq(Pcbs) /\ IsInjective(readyQue)
  BY <1>1, <1>4, NullApart DEF CpuInv
<1>6. rq \in Seq(Pcbs) /\ IsInjective(rq) /\ ToSet(rq) = ToSet(readyQue) \cup ToSet(woken)
  BY <1>4, <1>5, JoinQueues
<1> HIDE DEF rq
<1>7. \A p \in Pcbs : p_semAdd'[p] = IF p \in ToSet(woken) THEN NULL ELSE p_semAdd[p]
  BY <1>2
<1>8. \A p \in ToSet(rq) : p \in Live' /\ p_semAdd'[p] = NULL
  BY <1>1, <1>2, <1>4, <1>6, <1>7 DEF CpuInv, Live
<1>9. \A p \in Live' : p = c \/ p \in ToSet(rq) \/ p_semAdd'[p] # NULL
  BY <1>1, <1>2, <1>6, <1>7 DEF CpuInv, NobodyForgotten, Blocked, Live
<1>10. c \in Live => c \notin ToSet(rq) /\ p_semAdd'[c] = NULL
  BY <1>1, <1>4, <1>6, <1>7, NullApart DEF CpuInv, CurrentApart, Live
<1>11. CpuInv' /\ cpu' # "kill"
  <2>1. CASE c # NULL
    <3>1. /\ cpu' = IF cpu = "user" THEN "user" ELSE "lost"
          /\ readyQue' = rq
          /\ UNCHANGED <<currentProcess, waitFlag, timerIRQ>>
      BY <2>1, <1>3
    <3>2. CurrentApart' /\ NobodyForgotten' /\ WaitFlagRight'
      BY <3>1, <1>1, <1>2, <1>9, <1>10
         DEF CpuInv, CurrentApart, NobodyForgotten, WaitFlagRight, Blocked
    <3> QED
      BY <3>1, <3>2, <1>1, <1>6, <1>8 DEF CpuInv
  <2>2. CASE c = NULL
    <3>1. Scheduler(rq, processCount, softBlockCount', c)
      BY <2>2, <1>3
    <3>2. c \notin Live' /\ c \in Pcbs \cup {NULL} /\ waitFlag \in 0..1
      BY <2>2, <1>1, NullApart DEF Live, CpuInv
    <3>3. \A p \in Live' : p \in ToSet(rq) \/ p_semAdd'[p] # NULL
      BY <3>2, <1>9
    <3> QED
      BY <3>1, <3>2, <3>3, <1>6, <1>8, SchedulerKeeps
  <2> QED
    BY <2>1, <2>2
<1>12. OtherTypes'
  <2>1. softBlockCount' \in Int
    BY <1>1, <1>2, <1>4 DEF OtherTypes
  <2>2. semVal' \in [AllSems -> Int]
    <3>1. semVal[Clock] + Len(woken) \in Int
      BY <1>1, <1>4, NullApart DEF OtherTypes
    <3> QED
      BY <3>1, <1>1, <1>2 DEF OtherTypes
  <2>3. p_semAdd' \in [Pcbs -> AllSems \cup {NULL}]
    BY <1>1, <1>2 DEF OtherTypes
  <2>4. procQ' \in [AllSems -> Seq(Pcbs)]
    BY <1>1, <1>2, EmptySeq DEF OtherTypes
  <2> QED
    BY <1>1, <1>2, <2>1, <2>2, <2>3, <2>4 DEF OtherTypes
<1>13. QueuesApart'
  <2> SUFFICES ASSUME NEW t \in AllSems
               PROVE  /\ IsInjective(procQ'[t])
                      /\ \A p \in ToSet(procQ'[t]) : p \in Live' /\ p_semAdd'[p] = t
    BY DEF QueuesApart
  <2>1. IsInjective(procQ[t]) /\ \A p \in ToSet(procQ[t]) : p \in Live /\ p_semAdd[p] = t
    BY <1>1 DEF QueuesApart
  <2>2. procQ'[t] = IF t = Clock /\ woken # <<>> THEN <<>> ELSE procQ[t]
    BY <1>1, <1>2, NullApart DEF OtherTypes
  <2>3. CASE t = Clock /\ woken # <<>>
    BY <2>2, <2>3, EmptyQueue
  <2>4. CASE ~(t = Clock /\ woken # <<>>)
    <3>1. \A p \in ToSet(procQ[t]) : p \notin ToSet(woken)
      BY <2>1, <2>4, <1>4, EmptyQueue
    <3> QED
      BY <3>1, <2>1, <2>2, <2>4, <1>2, <1>7 DEF Live
  <2> QED
    BY <2>3, <2>4
<1>14. CountAccurate' /\ TreeConsistent'
  BY <1>1, <1>2 DEF CountAccurate, TreeConsistent
<1>15. FreeClean'
  BY <1>1, <1>2, <1>7 DEF FreeClean, OtherTypes
<1>16. KillFrames'
  BY <1>11 DEF KillFrames
<1> QED
  BY <1>11, <1>12, <1>13, <1>14, <1>15, <1>16, Parts, PTL

(* The handler's V is always on the semaphore of the device itself: the    *)
(* condition under which it would take the one of a terminal's receiver is *)
(* never met.                                                              *)
THEOREM NeverTheReceiver ==
  ASSUME NEW d \in Devices, Pending(d)
  PROVE  SemOf(d) = d
BY DEF Pending, SemOf, Acked, StatusOf

(* The V of a device interrupt moves one waiter to the ready queue.        *)
LEMMA DeviceInterruptKeeps ==
  ASSUME IInv, NEW d \in Devices, DeviceInterrupt(d)
  PROVE  IInv'
<1>1. CpuInv /\ OtherTypes /\ QueuesApart /\ CountAccurate /\ FreeClean /\ TreeConsistent
      /\ KillFrames
  BY Parts
<1> DEFINE rq == Append(readyQue, Head(procQ[d]))
<1>2. /\ cpu \in {"user", "wait"}
      /\ Pending(d)
      /\ unit' = Ack(Acked(d))
      /\ UNCHANGED <<pcbFree, processCount, p_prnt, p_child, vectors, unmasked, op, killStack>>
      /\ Live' = Live
  BY DEF DeviceInterrupt, Interruptible, procVars, Live
<1>3. d \in AllSems /\ SemOf(d) = d
  BY <1>2, NeverTheReceiver, NullApart DEF Devices
<1>4. /\ semVal' = [semVal EXCEPT ![d] = @ + 1]
      /\ IF semVal'[d] <= 0 /\ procQ[d] # <<>>
         THEN /\ Wake(d)
              /\ softBlockCount' = softBlockCount - 1
              /\ IF waitFlag = 1
                 THEN Scheduler(rq, processCount, softBlockCount', currentProcess)
                 ELSE readyQue' = rq /\ UNCHANGED <<cpu, currentProcess, waitFlag, timerIRQ>>
         ELSE /\ cpu' = IF semVal'[d] <= 0 THEN "trap" ELSE "lost"
              /\ UNCHANGED <<procQ, p_semAdd, softBlockCount, currentProcess, readyQue,
                             waitFlag, timerIRQ>>
  BY <1>3 DEF DeviceInterrupt, OwesWakeup
<1>5. unit' \in [Units -> {"ready", "busy", "done"}]
  BY <1>1, <1>2 DEF Ack, OtherTypes
<1>6. semVal' \in [AllSems -> Int]
  BY <1>1, <1>3, <1>4 DEF OtherTypes
<1>7. CASE semVal'[d] <= 0 /\ procQ[d] # <<>>
  <2>1. /\ Wake(d)
        /\ softBlockCount' = softBlockCount - 1
        /\ IF waitFlag = 1
           THEN Scheduler(rq, processCount, softBlockCount', currentProcess)
           ELSE readyQue' = rq /\ UNCHANGED <<cpu, currentProcess, waitFlag, timerIRQ>>
    BY <1>4, <1>7
  <2>2. /\ procQ' \in [AllSems -> Seq(Pcbs)]
        /\ p_semAdd' \in [Pcbs -> AllSems \cup {NULL}]
        /\ QueuesApart'
        /\ rq \in Seq(Pcbs) /\ IsInjective(rq)
        /\ \A p \in ToSet(rq) : p \in Live' /\ p_semAdd'[p] = NULL
        /\ \A p \in Live : p = currentProcess \/ p \in ToSet(rq) \/ p_semAdd'[p] # NULL
        /\ currentProcess \in Live =>
             currentProcess \notin ToSet(rq) /\ p_semAdd'[currentProcess] = NULL
        /\ \A p \in pcbFree : p_semAdd[p] = NULL => p_semAdd'[p] = NULL
    BY <1>1, <1>2, <1>3, <1>7, <2>1, WakeMoves
  <2> HIDE DEF rq
  <2>3. CpuInv' /\ cpu' # "kill"
    <3>1. CASE waitFlag = 1
      <4>1. Scheduler(rq, processCount, softBlockCount', currentProcess)
        BY <2>1, <3>1
      <4>2. /\ currentProcess \notin Live' /\ currentProcess \in Pcbs \cup {NULL}
            /\ waitFlag \in 0..1
        BY <3>1, <1>1, <1>2 DEF CpuInv, WaitFlagRight
      <4>3. \A p \in Live' : p \in ToSet(rq) \/ p_semAdd'[p] # NULL
        BY <4>2, <2>2, <1>2
      <4> QED
        BY <4>1, <4>2, <4>3, <2>2, SchedulerKeeps
    <3>2. CASE waitFlag # 1
      <4>1. readyQue' = rq /\ UNCHANGED <<cpu, currentProcess, waitFlag, timerIRQ>>
        BY <2>1, <3>2
      <4>2. CurrentApart' /\ NobodyForgotten' /\ WaitFlagRight'
        BY <4>1, <1>1, <1>2, <2>2
           DEF CpuInv, CurrentApart, NobodyForgotten, WaitFlagRight, Blocked
      <4> QED
        BY <4>1, <4>2, <1>1, <1>2, <2>2 DEF CpuInv
    <3> QED
      BY <3>1, <3>2
  <2>4. OtherTypes'
    <3>1. softBlockCount' \in Int
      BY <1>1, <2>1 DEF OtherTypes
    <3> QED
      BY <1>1, <1>2, <1>5, <1>6, <2>2, <3>1 DEF OtherTypes
  <2>5. CountAccurate' /\ TreeConsistent'
    BY <1>1, <1>2 DEF CountAccurate, TreeConsistent
  <2>6. FreeClean'
    BY <1>1, <1>2, <2>2 DEF FreeClean
  <2>7. KillFrames'
    BY <2>3 DEF KillFrames
  <2> QED
    BY <2>2, <2>3, <2>4, <2>5, <2>6, <2>7, Parts, PTL
<1>8. CASE ~(semVal'[d] <= 0 /\ procQ[d] # <<>>)
  <2>1. /\ cpu' \in {"trap", "lost"}
        /\ UNCHANGED <<procQ, p_semAdd, softBlockCount, currentProcess, readyQue, waitFlag,
                       timerIRQ>>
    BY <1>4, <1>8
  <2>2. CpuInv'
    BY <1>1, <1>2, <2>1 DEF CpuInv, CurrentApart, NobodyForgotten, WaitFlagRight, Blocked
  <2>3. OtherTypes'
    BY <1>1, <1>2, <1>5, <1>6, <2>1 DEF OtherTypes
  <2>4. QueuesApart' /\ CountAccurate' /\ TreeConsistent' /\ FreeClean'
    BY <1>1, <1>2, <2>1 DEF QueuesApart, CountAccurate, TreeConsistent, FreeClean
  <2>5. KillFrames'
    BY <2>1 DEF KillFrames
  <2> QED
    BY <2>2, <2>3, <2>4, <2>5, Parts, PTL
<1> QED
  BY <1>7, <1>8

-----------------------------------------------------------------------------
(* One step of the nucleus, of a program or of a device keeps IInv.        *)
THEOREM NextIInv == IInv /\ [Next]_vars => IInv'
<1> SUFFICES ASSUME IInv, [Next]_vars PROVE IInv'
  OBVIOUS
<1>1. OtherTypes
  BY Parts
<1>2. CASE SystemCall
  BY <1>2, SystemCallKeeps
<1>3. CASE KillChild
  BY <1>3, KillChildKeeps
<1>4. CASE KillLeaf
  BY <1>4, KillLeafKeeps
<1>5. CASE KillMissing
  BY <1>5, KillMissingKeeps
<1>6. CASE KernelTrap
  BY <1>6, KernelTrapKeeps
<1>7. CASE TimerInterrupt
  BY <1>7, TimerInterruptKeeps
<1>8. CASE ClockInterrupt
  BY <1>8, ClockInterruptKeeps
<1>9. CASE \E u \in Units : DeviceDone(u)
  <2>1. PICK u \in Units : DeviceDone(u)
    BY <1>9
  <2>2. /\ unit' \in [Units -> {"ready", "busy", "done"}]
        /\ op' \in [Pcbs -> Units \cup {NULL}]
        /\ UNCHANGED <<cpuVars, procVars, semVars, killStack>>
    BY <2>1, <1>1 DEF DeviceDone, OtherTypes
  <2> QED
    BY <2>2, DeviceStepKeeps
<1>10. CASE \E d \in Devices : DeviceInterrupt(d)
  BY <1>10, DeviceInterruptKeeps
<1>11. CASE UNCHANGED vars
  BY <1>11, StutterKeeps
<1> QED
  BY <1>2, <1>3, <1>4, <1>5, <1>6, <1>7, <1>8, <1>9, <1>10, <1>11
     DEF Next, Termination, Interrupt

-----------------------------------------------------------------------------
(* main() establishes the invariant.                                       *)
THEOREM InitIInv == Init => IInv
<1> SUFFICES ASSUME Init PROVE IInv
  OBVIOUS
<1>1. PICK root \in Pcbs :
    /\ cpu = "user"
    /\ currentProcess = root
    /\ readyQue = <<>>
    /\ pcbFree = Pcbs \ {root}
    /\ processCount = 1
    /\ softBlockCount = 0
    /\ waitFlag = 0
    /\ p_semAdd = [p \in Pcbs |-> NULL]
    /\ p_prnt = [p \in Pcbs |-> NULL]
    /\ p_child = [p \in Pcbs |-> <<>>]
    /\ vectors = [p \in Pcbs |-> {}]
    /\ unmasked = {}
    /\ procQ = [s \in AllSems |-> <<>>]
    /\ semVal \in {v \in [AllSems -> 0..1] : \A s \in DevSems : v[s] = 0}
    /\ killStack = <<>>
    /\ timerIRQ = FALSE
    /\ unit = [u \in Units |-> "ready"]
    /\ op = [p \in Pcbs |-> NULL]
  BY DEF Init
<1>2. Live = {root}
  BY <1>1 DEF Live
<1>3. CpuInv
  <2>1. CurrentApart /\ NobodyForgotten /\ WaitFlagRight
    BY <1>1, <1>2, EmptyQueue DEF CurrentApart, NobodyForgotten, WaitFlagRight
  <2>2. readyQue \in Seq(Pcbs)
    BY <1>1, EmptySeq, Zenon
  <2>3. waitFlag \in 0..1
    BY <1>1
  <2>4. timerIRQ \in BOOLEAN
    BY <1>1, Zenon
  <2> QED
    BY <1>1, <2>1, <2>2, <2>3, <2>4, EmptyQueue DEF CpuInv
<1>4. OtherTypes
  BY <1>1 DEF OtherTypes
<1>5. QueuesApart
  BY <1>1, EmptyQueue DEF QueuesApart
<1>6. CountAccurate
  BY <1>1, <1>2, FS_Singleton DEF CountAccurate
<1>7. FreeClean
  BY <1>1 DEF FreeClean
<1>8. TreeConsistent
  BY <1>1, EmptyQueue, NullApart DEF TreeConsistent
<1>9. KillFrames
  BY <1>1 DEF KillFrames
<1> QED
  BY <1>3, <1>4, <1>5, <1>6, <1>7, <1>8, <1>9, Parts

(* The conjunction holds in every reachable state.                         *)
THEOREM SpecIInv == Spec => []IInv
BY InitIInv, NextIInv, PTL DEF Spec

(* The nucleus's globals and the fields of every pcb keep their types.     *)
THEOREM SpecTypeOK == Spec => []TypeOK
<1>1. IInv => TypeOK
  BY DEF IInv
<1> QED
  BY <1>1, SpecIInv, PTL

(* processCount is the number of pcbs in use, whatever kills and faults    *)
(* have happened: the scheduler halts when, and only when, nobody is left. *)
THEOREM SpecCountAccurate == Spec => []CountAccurate
<1>1. IInv => CountAccurate
  BY DEF IInv
<1> QED
  BY <1>1, SpecIInv, PTL

(* A pcb's link fields are in one queue at a time, and in one that knows   *)
(* it.                                                                     *)
THEOREM SpecOnePlace == Spec => []OnePlace
<1>1. IInv => OnePlace
  BY DEF IInv
<1> QED
  BY <1>1, SpecIInv, PTL

(* The process that has the CPU is alive and in no queue.                  *)
THEOREM SpecCurrentApart == Spec => []CurrentApart
<1>1. IInv => CurrentApart
  BY DEF IInv
<1> QED
  BY <1>1, SpecIInv, PTL

(* Every process that is alive is the current one, ready or blocked.       *)
THEOREM SpecNobodyForgotten == Spec => []NobodyForgotten
<1>1. IInv => NobodyForgotten
  BY DEF IInv
<1> QED
  BY <1>1, SpecIInv, PTL

(* A pcb on the free list carries nothing of the process it was.           *)
THEOREM SpecFreeClean == Spec => []FreeClean
<1>1. IInv => FreeClean
  BY DEF IInv
<1> QED
  BY <1>1, SpecIInv, PTL

(* The two directions of the process tree agree, in every state of every   *)
(* termination.                                                            *)
THEOREM SpecTreeConsistent == Spec => []TreeConsistent
<1>1. IInv => TreeConsistent
  BY DEF IInv
<1> QED
  BY <1>1, SpecIInv, PTL

(* waitFlag is set in every wait, and never while the current process      *)
(* lives.                                                                  *)
THEOREM SpecWaitFlagRight == Spec => []WaitFlagRight
<1>1. IInv => WaitFlagRight
  BY DEF IInv
<1> QED
  BY <1>1, SpecIInv, PTL

(* The activations of terminateRecursively start at the current process    *)
(* and go on with processes that have left the tree.                       *)
THEOREM SpecKillFrames == Spec => []KillFrames
<1>1. IInv => KillFrames
  BY DEF IInv
<1> QED
  BY <1>1, SpecIInv, PTL
=============================================================================
