---------------------------- MODULE P2TestProofs ----------------------------
(***************************************************************************)
(* The programs of p2test.c do nothing but use the nucleus, so what is     *)
(* proved of the nucleus holds while they run; they use the terminal one   *)
(* at a time; none of their checks fails; and p4 is dead when p5 ends.     *)
(***************************************************************************)
EXTENDS P2Test, NucleusProofs

(* Every instruction of a program is a system call, a trap or a command to *)
(* a device that the nucleus's model knows, or it leaves the nucleus alone.*)
LEMMA ProgramIsNext ==
  ASSUME TypeOK, Program
  PROVE  Next \/ UNCHANGED vars
<1>1. CASE Call
  BY <1>1, TestScope DEF Call, Next, SystemCall
<1>2. CASE Start
  <2>1. CASE pcbFree # {}
    <3>1. (CHOOSE q \in pcbFree : TRUE) \in Pcbs
      BY <2>1 DEF TypeOK
    <3> QED
      BY <1>2, <2>1, <3>1 DEF Start, Next, SystemCall
  <2>2. CASE pcbFree = {}
    BY <1>2, <2>2 DEF Start, Next, SystemCall
  <2> QED
    BY <2>1, <2>2
<1>3. CASE Compute \/ LeaveLoop \/ Again
  BY <1>3 DEF Compute, LeaveLoop, Again
<1>4. CASE Raise
  BY <1>4 DEF Raise, Next, SystemCall
<1>5. CASE EndHandler
  BY <1>5 DEF EndHandler, Next, SystemCall
<1> QED
  BY <1>1, <1>2, <1>3, <1>4, <1>5 DEF Program

(* What happens between two instructions is a step of the nucleus.         *)
LEMMA BetweenIsNext ==
  ASSUME Killing \/ Faulting \/ Quantum \/ Tick \/ Device
  PROVE  Next
<1>1. CASE Killing \/ Faulting
  BY <1>1 DEF Killing, Faulting, Next, Termination
<1>2. CASE Quantum \/ Tick
  BY <1>2 DEF Quantum, Tick, Next, Interrupt
<1>3. CASE Device
  <2>1. 32 \in Units /\ 32 \in Devices
    BY TestScope DEF Devices
  <2> QED
    BY <1>3, <2>1 DEF Device, Next, Interrupt
<1> QED
  BY <1>1, <1>2, <1>3

(* A step of the test is a step of the nucleus or invisible to it.         *)
LEMMA P2NextIsNext ==
  ASSUME TypeOK, [P2Next]_p2vars
  PROVE  [Next]_vars
<1>1. CASE P2Next
  BY <1>1, ProgramIsNext, BetweenIsNext DEF P2Next
<1>2. CASE UNCHANGED p2vars
  BY <1>2 DEF p2vars
<1> QED
  BY <1>1, <1>2

(* The test starts the nucleus as main() does.                             *)
LEMMA P2InitIsInit == P2Init => Init
BY DEF P2Init

(* The programs of p2test.c, whatever their number of processes, drive the *)
(* nucleus through behaviours of its own specification only (refinement).  *)
THEOREM P2Implements == P2Spec => Spec
<1>1. IInv => TypeOK
  BY DEF IInv
<1>2. IInv /\ [P2Next]_p2vars => [Next]_vars
  BY <1>1, P2NextIsNext
<1>3. P2Init => IInv
  BY P2InitIsInit, InitIInv
<1>4. IInv /\ [P2Next]_p2vars => IInv'
  BY <1>2, NextIInv
<1>5. P2Spec => []IInv
  BY <1>3, <1>4, PTL DEF P2Spec
<1> QED
  BY <1>2, <1>5, P2InitIsInit, PTL DEF P2Spec, Spec

(* The invariants of the nucleus hold while the test runs.                 *)
THEOREM P2Safe ==
  P2Spec => [](CountAccurate /\ OnePlace /\ NobodyForgotten /\ TreeConsistent /\ KillFrames)
<1>1. IInv => CountAccurate /\ OnePlace /\ NobodyForgotten /\ TreeConsistent /\ KillFrames
  BY DEF IInv
<1> QED
  BY <1>1, P2Implements, SpecIInv, PTL

-----------------------------------------------------------------------------
(* A semaphore of the programs is not one of a device.                     *)
LEMMA SemsApart == \A s \in Sems : s \notin DevSems
<1>1. Units \subseteq 0..47 /\ Sems \cap (0..48) = {}
  BY SemsAssumption
<1>2. DevSems \subseteq 0..48
  BY <1>1 DEF DevSems, Clock
<1> QED
  BY <1>1, <1>2

(* What the steps of the nucleus do to the semaphores of the programs.     *)

(* The processes a V on s, or a termination, may count as waiting for s:   *)
(* those in its queue, and those the loss of a queue has left blocked, as  *)
(* long as a termination can reach them.                                   *)
Waiting(s) ==
  {p \in Live : /\ p_semAdd[p] = s
                /\ \/ p \in ToSet(procQ[s])
                   \/ p_prnt[p] # NULL
                   \/ p \in ToSet(killStack)}

(* The sum of the value of s and of those who wait for it does not grow.   *)
SumKept(s) ==
  semVal'[s] + Cardinality(Waiting(s)') <= semVal[s] + Cardinality(Waiting(s))

(* A step that is neither a V nor a P on s: nobody begins to wait for it,  *)
(* nobody ceases to but by dying, and it changes by such a death only.     *)
Untouched(s) ==
  /\ SumKept(s)
  /\ \A p \in Live' : p_semAdd[p] = s => p_semAdd'[p] = s
  /\ \A p \in Pcbs : p_semAdd'[p] = s => p_semAdd[p] = s
  /\ semVal'[s] # semVal[s] => \E p \in Live : p_semAdd[p] = s

(* A push adds one member to a stack.                                      *)
LEMMA PushMembers ==
  ASSUME NEW S, NEW q \in Seq(S), NEW x \in S
  PROVE  ToSet(Append(q, x)) = ToSet(q) \cup {x}
<1>1. /\ Append(q, x) \in Seq(S)
      /\ Len(Append(q, x)) = Len(q) + 1 /\ Len(q) \in Nat
      /\ \A i \in 1..Len(q) : Append(q, x)[i] = q[i]
      /\ Append(q, x)[Len(q) + 1] = x
  OBVIOUS
<1> DEFINE r == Append(q, x)
<1>2. /\ \A y \in ToSet(r) : \E i \in 1..Len(r) : r[i] = y
      /\ \A i \in 1..Len(r) : r[i] \in ToSet(r)
  <2>1. r \in Seq(S)
    BY <1>1
  <2> HIDE DEF r
  <2> QED
    BY <2>1, MemberPosition
<1>3. /\ \A y \in ToSet(q) : \E i \in 1..Len(q) : q[i] = y
      /\ \A i \in 1..Len(q) : q[i] \in ToSet(q)
  BY MemberPosition
<1>4. \A i \in 1..Len(r) : i \in 1..Len(q) \/ i = Len(q) + 1
  BY <1>1
<1>5. 1..Len(q) \subseteq 1..Len(r) /\ Len(q) + 1 \in 1..Len(r)
  BY <1>1
<1> HIDE DEF r
<1>6. ToSet(r) \subseteq ToSet(q) \cup {x}
  BY <1>1, <1>2, <1>3, <1>4 DEF r
<1>7. ToSet(q) \cup {x} \subseteq ToSet(r)
  BY <1>1, <1>2, <1>3, <1>5 DEF r
<1> QED
  BY <1>6, <1>7 DEF r

(* The number of the processes that wait is a number.                      *)
LEMMA WaitingFinite ==
  ASSUME NEW s
  PROVE  /\ IsFiniteSet(Waiting(s)) /\ Cardinality(Waiting(s)) \in Nat
         /\ IsFiniteSet(Waiting(s)') /\ Cardinality(Waiting(s)') \in Nat
<1>1. Waiting(s) \subseteq Pcbs /\ Waiting(s)' \subseteq Pcbs
  BY DEF Waiting, Live
<1>2. IsFiniteSet(Waiting(s)) /\ IsFiniteSet(Waiting(s)')
  BY <1>1, PcbsAssumption, FS_Subset
<1> QED
  BY <1>2, FS_CardinalityType

(* Neither the value nor the number of those who wait grows.               *)
LEMMA FewerWait ==
  ASSUME IInv, IInv', NEW s \in AllSems, semVal'[s] = semVal[s],
         Waiting(s)' \subseteq Waiting(s)
  PROVE  SumKept(s)
<1>1. Cardinality(Waiting(s)') <= Cardinality(Waiting(s))
  BY WaitingFinite, FS_Subset
<1>2. semVal[s] \in Int
  BY DEF IInv, TypeOK
<1> QED
  BY <1>1, <1>2, WaitingFinite DEF SumKept

(* An increment makes up for one who does not wait any more.               *)
LEMMA OneLeaves ==
  ASSUME IInv, IInv', NEW s \in AllSems, semVal'[s] = semVal[s] + 1,
         NEW v \in Waiting(s), Waiting(s)' \subseteq Waiting(s) \ {v}
  PROVE  SumKept(s)
<1>1. /\ IsFiniteSet(Waiting(s) \ {v})
      /\ Cardinality(Waiting(s) \ {v}) = Cardinality(Waiting(s)) - 1
  BY WaitingFinite, FS_RemoveElement
<1>2. Cardinality(Waiting(s)') <= Cardinality(Waiting(s) \ {v})
  BY <1>1, FS_Subset
<1>3. semVal[s] \in Int
  BY DEF IInv, TypeOK
<1> QED
  BY <1>1, <1>2, <1>3, WaitingFinite DEF SumKept

(* A decrement makes up for one who begins to wait.                        *)
LEMMA OneJoins ==
  ASSUME IInv, IInv', NEW s \in AllSems, semVal'[s] = semVal[s] - 1,
         NEW v, Waiting(s)' \subseteq Waiting(s) \cup {v}
  PROVE  SumKept(s)
<1>0. IsFiniteSet(Waiting(s)) /\ Cardinality(Waiting(s)) \in Nat
  BY WaitingFinite
<1>1. /\ IsFiniteSet(Waiting(s) \cup {v})
      /\ Cardinality(Waiting(s) \cup {v}) \in Nat
      /\ Cardinality(Waiting(s) \cup {v}) <= Cardinality(Waiting(s)) + 1
  <2>1. CASE v \in Waiting(s)
    <3>1. Waiting(s) \cup {v} = Waiting(s)
      BY <2>1
    <3>2. Cardinality(Waiting(s)) <= Cardinality(Waiting(s)) + 1
      BY <1>0
    <3> QED
      BY <1>0, <3>1, <3>2, Zenon
  <2>2. CASE v \notin Waiting(s)
    <3>1. /\ IsFiniteSet(Waiting(s) \cup {v})
          /\ Cardinality(Waiting(s) \cup {v}) = Cardinality(Waiting(s)) + 1
      BY <2>2, WaitingFinite, FS_AddElement
    <3> QED
      BY <3>1, WaitingFinite
  <2> QED
    BY <2>1, <2>2
<1>2. Cardinality(Waiting(s)') <= Cardinality(Waiting(s) \cup {v})
  BY <1>1, FS_Subset
<1>3. semVal[s] \in Int
  BY DEF IInv, TypeOK
<1> QED
  BY <1>1, <1>2, <1>3, WaitingFinite DEF SumKept

(* A step that changes no semaphore and no queue.                          *)
LEMMA QuietUntouched ==
  ASSUME IInv, IInv', NEW s \in Sems,
         semVal'[s] = semVal[s], procQ'[s] = procQ[s],
         \A p \in Pcbs : p_semAdd'[p] = s <=> p_semAdd[p] = s,
         \A p \in Pcbs : p_semAdd[p] = s =>
           /\ p_prnt'[p] # NULL => p_prnt[p] # NULL
           /\ p \in ToSet(killStack') => p_prnt[p] # NULL \/ p \in ToSet(killStack)
  PROVE  Untouched(s)
<1>1. s \in AllSems /\ s # NULL
  BY NullApart
<1>2. Waiting(s)' \subseteq Waiting(s)
  <2>1. SUFFICES ASSUME NEW p \in Waiting(s)' PROVE p \in Waiting(s)
    OBVIOUS
  <2>2. /\ p \in Pcbs /\ p_semAdd[p] = s
        /\ \/ p \in ToSet(procQ[s])
           \/ p_prnt'[p] # NULL
           \/ p \in ToSet(killStack')
    BY <2>1 DEF Waiting, Live
  <2>3. p \in Live
    BY <1>1, <2>2 DEF Live, IInv, FreeClean
  <2> QED
    BY <2>2, <2>3 DEF Waiting
<1> QED
  BY <1>1, <1>2, FewerWait DEF Untouched, Live

(* A step that changes the queue and the value of one other semaphore.     *)
LEMMA OthersUntouched ==
  ASSUME IInv, IInv', NEW s \in Sems, NEW r \in AllSems \ {s},
         UNCHANGED <<pcbFree, p_prnt, killStack>>,
         \A t \in AllSems \ {r} : semVal'[t] = semVal[t] /\ procQ'[t] = procQ[t],
         \A p \in Pcbs : p_semAdd'[p] # p_semAdd[p] =>
           /\ p_semAdd[p] \in {r, NULL}
           /\ p_semAdd'[p] \in {r, NULL}
  PROVE  Untouched(s)
<1>1. s \in AllSems \ {r} /\ s # NULL
  BY NullApart
<1>2. \A p \in Pcbs : p_semAdd'[p] = s <=> p_semAdd[p] = s
  BY <1>1
<1> QED
  BY <1>1, <1>2, QuietUntouched

(* What a wakeup does to the fields of the processes.                      *)
LEMMA WakeMovesHead ==
  ASSUME IInv, NEW s \in AllSems, procQ[s] # <<>>, Wake(s)
  PROVE  /\ Head(procQ[s]) \in Live /\ p_semAdd[Head(procQ[s])] = s
         /\ Head(procQ[s]) \in ToSet(procQ[s])
         /\ p_semAdd' = [p_semAdd EXCEPT ![Head(procQ[s])] = NULL]
         /\ \A r \in AllSems \ {s} : procQ'[r] = procQ[r]
         /\ ToSet(procQ'[s]) = ToSet(procQ[s]) \ {Head(procQ[s])}
<1>1. /\ procQ \in [AllSems -> Seq(Pcbs)] /\ procQ[s] \in Seq(Pcbs)
      /\ IsInjective(procQ[s])
      /\ \A p \in ToSet(procQ[s]) : p \in Live /\ p_semAdd[p] = s
  BY DEF IInv, TypeOK, OnePlace
<1>2. Head(procQ[s]) \in ToSet(procQ[s])
  BY <1>1, RemoveHead
<1>3. procQ' = [procQ EXCEPT ![s] = QueueAfterOut(@, Head(@))]
  BY DEF Wake
<1>4. procQ'[s] = QueueAfterOut(procQ[s], Head(procQ[s]))
  BY <1>1, <1>3
<1>5. ToSet(procQ'[s]) = ToSet(procQ[s]) \ {Head(procQ[s])}
  BY <1>1, <1>4, RemoveBlockedHead
<1> QED
  BY <1>1, <1>2, <1>3, <1>5 DEF Wake

(* A V on s: it wakes one of those who wait for s, or its value grows.     *)
LEMMA VSteps ==
  ASSUME IInv, IInv', NEW s \in Sems, Verhogen(s)
  PROVE  /\ cpu = "user" /\ cpu' = "user" /\ currentProcess' = currentProcess
         /\ UNCHANGED <<unit, pcbFree, p_prnt, vectors, killStack>>
         /\ semVal' = [semVal EXCEPT ![s] = @ + 1]
         /\ \/ /\ procQ[s] # <<>> /\ Wake(s)
               /\ semVal[s] + 1 <= 0
               /\ p_semAdd' = [p_semAdd EXCEPT ![Head(procQ[s])] = NULL]
               /\ Head(procQ[s]) \in Live /\ p_semAdd[Head(procQ[s])] = s
               /\ SumKept(s)
            \/ UNCHANGED <<procQ, p_semAdd>>
         /\ \A r \in Sems \ {s} : Untouched(r)
<1>1. /\ s \in AllSems /\ s # NULL
      /\ semVal \in [AllSems -> Int] /\ p_semAdd \in [Pcbs -> AllSems \cup {NULL}]
      /\ procQ \in [AllSems -> Seq(Pcbs)]
  BY NullApart DEF IInv, TypeOK
<1>2. /\ cpu = "user" /\ cpu' = "user" /\ currentProcess' = currentProcess
      /\ UNCHANGED <<unit, pcbFree, p_prnt, vectors, killStack>>
      /\ semVal' = [semVal EXCEPT ![s] = @ + 1]
      /\ \/ procQ[s] # <<>> /\ Wake(s) /\ semVal'[s] <= 0
         \/ UNCHANGED <<procQ, p_semAdd>>
  BY DEF Verhogen, OwesWakeup, Running, procVars, devVars
<1>3. semVal'[s] = semVal[s] + 1
  BY <1>1, <1>2
<1>4. CASE procQ[s] # <<>> /\ Wake(s) /\ semVal'[s] <= 0
  <2> DEFINE h == Head(procQ[s])
  <2>1. /\ h \in Live /\ p_semAdd[h] = s /\ h \in ToSet(procQ[s])
        /\ p_semAdd' = [p_semAdd EXCEPT ![h] = NULL]
        /\ \A r \in AllSems \ {s} : procQ'[r] = procQ[r]
        /\ ToSet(procQ'[s]) = ToSet(procQ[s]) \ {h}
    BY <1>1, <1>4, WakeMovesHead
  <2> HIDE DEF h
  <2>2. \A p \in Pcbs : p_semAdd'[p] = IF p = h THEN NULL ELSE p_semAdd[p]
    BY <1>1, <2>1
  <2>3. h \in Waiting(s) /\ Waiting(s)' \subseteq Waiting(s) \ {h}
    BY <1>1, <1>2, <2>1, <2>2 DEF Waiting, Live
  <2>4. SumKept(s)
    BY <1>1, <1>3, <2>3, OneLeaves
  <2>5. \A r \in Sems \ {s} : Untouched(r)
    <3>1. \A t \in AllSems \ {s} : semVal'[t] = semVal[t] /\ procQ'[t] = procQ[t]
      BY <1>1, <1>2, <2>1
    <3>2. \A p \in Pcbs : p_semAdd'[p] # p_semAdd[p] => p_semAdd[p] = s /\ p_semAdd'[p] = NULL
      BY <2>1, <2>2
    <3> QED
      BY <1>1, <1>2, <3>1, <3>2, OthersUntouched
  <2> QED
    BY <1>2, <1>3, <1>4, <2>1, <2>4, <2>5 DEF h
<1>5. CASE UNCHANGED <<procQ, p_semAdd>>
  <2>1. \A t \in AllSems \ {s} : semVal'[t] = semVal[t] /\ procQ'[t] = procQ[t]
    BY <1>1, <1>2, <1>5
  <2>2. \A r \in Sems \ {s} : Untouched(r)
    BY <1>1, <1>2, <1>5, <2>1, OthersUntouched
  <2> QED
    BY <1>2, <1>5, <2>2
<1> QED
  BY <1>2, <1>4, <1>5

(* A P on any semaphore: the current process takes it or waits for it.     *)
LEMMA PSteps ==
  ASSUME IInv, IInv', NEW s \in AllSems, NEW e, P(s, e), cpu = "user",
         UNCHANGED <<procVars, killStack>>
  PROVE  /\ UNCHANGED <<pcbFree, p_prnt, vectors, killStack>>
         /\ semVal' = [semVal EXCEPT ![s] = @ - 1]
         /\ SumKept(s)
         /\ \/ semVal[s] > 0 /\ UNCHANGED <<procQ, p_semAdd>>
            \/ /\ semVal[s] <= 0
               /\ p_semAdd' = [p_semAdd EXCEPT ![currentProcess] = s]
         /\ \A r \in Sems \ {s} : Untouched(r)
<1>1. /\ s # NULL
      /\ semVal \in [AllSems -> Int] /\ p_semAdd \in [Pcbs -> AllSems \cup {NULL}]
      /\ procQ \in [AllSems -> Seq(Pcbs)]
      /\ currentProcess \in Live /\ currentProcess \in Pcbs /\ p_semAdd[currentProcess] = NULL
  BY NullApart, UserIsLive DEF IInv, TypeOK, CurrentApart
<1>2. /\ UNCHANGED <<pcbFree, p_prnt, vectors, killStack>>
      /\ semVal' = [semVal EXCEPT ![s] = @ - 1]
  BY DEF P, procVars
<1>3. semVal'[s] = semVal[s] - 1 /\ semVal[s] \in Int
  BY <1>1, <1>2
<1>4. CASE semVal[s] > 0
  <2>1. UNCHANGED <<procQ, p_semAdd>>
    BY <1>3, <1>4 DEF P
  <2>2. \A t \in AllSems \ {s} : semVal'[t] = semVal[t] /\ procQ'[t] = procQ[t]
    BY <1>1, <1>2, <2>1
  <2>3. \A r \in Sems \ {s} : Untouched(r)
    BY <1>1, <1>2, <2>1, <2>2, OthersUntouched
  <2>4. Waiting(s)' \subseteq Waiting(s) \cup {currentProcess}
    BY <1>2, <2>1 DEF Waiting, Live
  <2> QED
    BY <1>2, <1>3, <1>4, <2>1, <2>3, <2>4, OneJoins
<1>5. CASE semVal[s] <= 0
  <2>1. /\ procQ' = [procQ EXCEPT ![s] = Append(@, currentProcess)]
        /\ p_semAdd' = [p_semAdd EXCEPT ![currentProcess] = s]
    BY <1>3, <1>5 DEF P, Block
  <2>2. \A t \in AllSems \ {s} : semVal'[t] = semVal[t] /\ procQ'[t] = procQ[t]
    BY <1>1, <1>2, <2>1
  <2>3. \A p \in Pcbs \ {currentProcess} : p_semAdd'[p] = p_semAdd[p]
    BY <1>1, <2>1
  <2>4. p_semAdd'[currentProcess] = s
    BY <1>1, <2>1
  <2>5. \A r \in Sems \ {s} : Untouched(r)
    <3>1. \A p \in Pcbs : p_semAdd'[p] # p_semAdd[p] =>
            /\ p_semAdd[p] \in {s, NULL}
            /\ p_semAdd'[p] \in {s, NULL}
      BY <1>1, <2>3, <2>4
    <3>2. UNCHANGED <<pcbFree, p_prnt, killStack>>
      BY <1>2
    <3>3. \A r \in Sems \ {s} : s \in AllSems \ {r}
      BY <1>1
    <3> QED
      BY <2>2, <3>1, <3>2, <3>3, OthersUntouched
  <2>6. Waiting(s)' \subseteq Waiting(s) \cup {currentProcess}
    <3>1. procQ'[s] = Append(procQ[s], currentProcess)
      BY <1>1, <2>1
    <3>2. ToSet(procQ'[s]) = ToSet(procQ[s]) \cup {currentProcess}
      BY <1>1, <3>1, PushMembers
    <3> QED
      BY <1>2, <2>3, <3>2 DEF Waiting, Live
  <2> QED
    BY <1>2, <1>3, <1>5, <2>1, <2>5, <2>6, OneJoins
<1> QED
  BY <1>3, <1>4, <1>5
(* A pop adds no member to a stack.                                        *)
LEMMA PopMembers ==
  ASSUME NEW S, NEW q \in Seq(S), q # <<>>
  PROVE  ToSet(Front(q)) \subseteq ToSet(q)
<1>1. /\ Front(q) \in Seq(S)
      /\ Len(Front(q)) = Len(q) - 1 /\ Len(q) \in Nat
      /\ \A i \in 1..Len(q) - 1 : Front(q)[i] = q[i]
  BY PopStack
<1>2. \A x \in ToSet(Front(q)) : \E i \in 1..Len(Front(q)) : Front(q)[i] = x
  BY <1>1, MemberPosition
<1>3. \A i \in 1..Len(q) : q[i] \in ToSet(q)
  BY MemberPosition
<1>4. \A i \in 1..Len(q) - 1 : i \in 1..Len(q)
  BY <1>1
<1> QED
  BY <1>1, <1>2, <1>3, <1>4

(* A termination: a victim that waited for s is made up for in s, once.    *)
LEMMA KillLeafUntouched ==
  ASSUME IInv, IInv', NEW s \in Sems, KillLeaf
  PROVE  Untouched(s)
<1> DEFINE v == Victim
<1>1. /\ p_semAdd \in [Pcbs -> AllSems \cup {NULL}]
      /\ p_prnt \in [Pcbs -> Pcbs \cup {NULL}]
      /\ procQ \in [AllSems -> Seq(Pcbs)]
      /\ semVal \in [AllSems -> Int]
      /\ killStack \in Seq(Pcbs)
      /\ \A r \in AllSems : IsInjective(procQ[r])
      /\ s \in AllSems /\ s # NULL /\ s \notin DevSems
  <2>1. TypeOK /\ OnePlace
    BY DEF IInv
  <2>2. s \in AllSems /\ s # NULL /\ s \notin DevSems
    BY NullApart, SemsApart
  <2> QED
    BY <2>1, <2>2 DEF TypeOK, OnePlace
<1>2. /\ cpu = "kill" /\ p_child[v] = <<>> /\ Found(v)
      /\ ReleaseSemaphore(v)
      /\ procQ' = QueuesAfter(v)
      /\ p_semAdd' = [p_semAdd EXCEPT ![v] = NULL]
      /\ p_prnt' = [p_prnt EXCEPT ![v] = NULL]
      /\ pcbFree' = pcbFree \cup {v}
      /\ killStack' = Front(killStack)
  BY DEF KillLeaf, Clean
<1>3. /\ v \in Live /\ v \in Pcbs /\ killStack # <<>>
      /\ Blocked(v) => /\ p_semAdd[v] \in AllSems
                       /\ v \in ToSet(procQ[p_semAdd[v]])
  BY <1>2, VictimPlace
<1> HIDE DEF v
<1>4. ToSet(killStack') \subseteq ToSet(killStack)
  BY <1>1, <1>2, <1>3, PopMembers
<1>5. /\ \A p \in Pcbs \ {v} : p_semAdd'[p] = p_semAdd[p] /\ p_prnt'[p] = p_prnt[p]
      /\ p_semAdd'[v] = NULL
      /\ v \notin Live' /\ Live' \subseteq Live
  BY <1>1, <1>2, <1>3 DEF Live
<1>6. /\ \A p \in Live' : p_semAdd[p] = s => p_semAdd'[p] = s
      /\ \A p \in Pcbs : p_semAdd'[p] = s => p_semAdd[p] = s
  BY <1>1, <1>5 DEF Live
<1>7. CASE Blocked(v) /\ p_semAdd[v] = s
  <2>1. /\ semVal' = [semVal EXCEPT ![s] = @ + 1]
        /\ procQ' = [procQ EXCEPT ![s] = QueueAfterOut(@, v)]
    BY <1>1, <1>2, <1>7 DEF ReleaseSemaphore, QueuesAfter
  <2>2. semVal'[s] = semVal[s] + 1
    BY <1>1, <2>1
  <2>3. ToSet(procQ'[s]) \subseteq ToSet(procQ[s])
    <3>1. procQ'[s] = QueueAfterOut(procQ[s], v)
      BY <1>1, <2>1
    <3> QED
      BY <1>1, <1>3, <1>7, <3>1, LeaveQueue
  <2>4. v \in Waiting(s)
    BY <1>3, <1>7 DEF Waiting
  <2>5. Waiting(s)' \subseteq Waiting(s) \ {v}
    BY <1>4, <1>5, <2>3 DEF Waiting, Live
  <2>6. SumKept(s)
    BY <1>1, <2>2, <2>4, <2>5, OneLeaves
  <2> QED
    BY <1>3, <1>6, <1>7, <2>6 DEF Untouched
<1>8. CASE ~(Blocked(v) /\ p_semAdd[v] = s)
  <2>1. semVal'[s] = semVal[s] /\ procQ'[s] = procQ[s]
    BY <1>1, <1>2, <1>3, <1>8 DEF ReleaseSemaphore, QueuesAfter
  <2>2. Waiting(s)' \subseteq Waiting(s)
    BY <1>4, <1>5, <2>1 DEF Waiting, Live
  <2> QED
    BY <1>1, <1>6, <2>1, <2>2, FewerWait DEF Untouched
<1> QED
  BY <1>7, <1>8

(* The same when the victim is not where it should be: it is out of the    *)
(* reach of any further termination.                                       *)
LEMMA KillMissingUntouched ==
  ASSUME IInv, IInv', NEW s \in Sems, KillMissing
  PROVE  Untouched(s)
<1> DEFINE v == Victim
<1>1. /\ p_semAdd \in [Pcbs -> AllSems \cup {NULL}]
      /\ semVal \in [AllSems -> Int]
      /\ killStack \in Seq(Pcbs)
      /\ \A p \in pcbFree : p_semAdd[p] = NULL
      /\ currentProcess \in Live => p_semAdd[currentProcess] = NULL
      /\ currentProcess \in Pcbs \cup {NULL}
      /\ s \in AllSems /\ s # NULL /\ s \notin DevSems
  BY NullApart, SemsApart DEF IInv, TypeOK, FreeClean, CurrentApart
<1>2. /\ cpu = "kill" /\ ~Found(v)
      /\ ReleaseSemaphore(v)
      /\ killStack' = <<>>
      /\ UNCHANGED <<p_semAdd, p_prnt, pcbFree, procQ>>
  BY DEF KillMissing, procVars, devVars
<1>3. /\ killStack # <<>> /\ v \in Pcbs
      /\ v = killStack[Len(killStack)]
      /\ v \in ToSet(killStack)
      /\ Len(killStack) \in Nat /\ Len(killStack) >= 1
  <2>1. killStack # <<>>
    BY <1>2 DEF IInv, KillFrames
  <2>2. /\ Last(killStack) \in Pcbs
        /\ Last(killStack) = killStack[Len(killStack)]
        /\ Len(killStack) \in Nat /\ Len(killStack) >= 1
    BY <1>1, <2>1, PopStack
  <2>3. killStack[Len(killStack)] \in ToSet(killStack)
    BY <1>1, <2>2, MemberPosition
  <2> QED
    BY <2>1, <2>2, <2>3 DEF Victim
<1>4. killStack[1] = currentProcess /\ \A i \in 2..Len(killStack) : p_prnt[killStack[i]] = NULL
  BY <1>2 DEF IInv, KillFrames
<1> HIDE DEF v
<1>5. Waiting(s)' \subseteq Waiting(s)
  BY <1>2, EmptyQueue DEF Waiting, Live
<1>6. CASE Blocked(v) /\ p_semAdd[v] = s
  <2>1. semVal' = [semVal EXCEPT ![s] = @ + 1]
    BY <1>1, <1>2, <1>6 DEF ReleaseSemaphore
  <2>2. semVal'[s] = semVal[s] + 1
    BY <1>1, <2>1
  <2>3. v \in Live /\ v # currentProcess
    BY <1>1, <1>3, <1>6 DEF Live
  <2>4. v \in Waiting(s)
    BY <1>3, <1>6, <2>3 DEF Waiting
  <2>5. p_prnt[v] = NULL
    <3>1. Len(killStack) # 1
      BY <1>3, <1>4, <2>3
    <3>2. \A n \in Nat : n >= 1 /\ n # 1 => n \in 2..n
      OBVIOUS
    <3>3. Len(killStack) \in 2..Len(killStack)
      BY <1>3, <3>1, <3>2
    <3> QED
      BY <1>3, <1>4, <3>3
  <2>6. v \notin ToSet(procQ[s])
    BY <1>2, <1>6 DEF Found
  <2>7. Waiting(s)' \subseteq Waiting(s) \ {v}
    BY <1>2, <1>5, <2>5, <2>6, EmptyQueue DEF Waiting
  <2>8. SumKept(s)
    BY <1>1, <2>2, <2>4, <2>7, OneLeaves
  <2> QED
    BY <1>2, <1>6, <2>3, <2>8 DEF Untouched, Live
<1>7. CASE ~(Blocked(v) /\ p_semAdd[v] = s)
  <2>1. semVal'[s] = semVal[s]
    BY <1>1, <1>2, <1>3, <1>7 DEF ReleaseSemaphore, Blocked
  <2> QED
    BY <1>1, <1>2, <1>5, <2>1, FewerWait DEF Untouched, Live
<1> QED
  BY <1>6, <1>7

(* A device or the clock wakes its own waiters.                            *)
LEMMA InterruptUntouched ==
  ASSUME IInv, IInv', NEW s \in Sems,
         ClockInterrupt \/ \E d \in Devices : DeviceInterrupt(d)
  PROVE  Untouched(s)
<1>1. /\ s \in AllSems /\ s # NULL /\ s \notin DevSems
      /\ semVal \in [AllSems -> Int] /\ p_semAdd \in [Pcbs -> AllSems \cup {NULL}]
      /\ procQ \in [AllSems -> Seq(Pcbs)]
  BY NullApart, SemsApart DEF IInv, TypeOK
<1>2. CASE ClockInterrupt
  <2>0. s # Clock /\ Clock \in AllSems
    BY <1>1, NullApart
  <2>1. UNCHANGED <<pcbFree, p_prnt, killStack>>
    BY <1>2 DEF ClockInterrupt, procVars
  <2>2. \A r \in AllSems \ {Clock} : semVal'[r] = semVal[r] /\ procQ'[r] = procQ[r]
    BY <1>1, <1>2 DEF ClockInterrupt
  <2>3. \A p \in ToSet(ClockWaiters) : p_semAdd[p] = Clock
    <3>1. \A p \in ToSet(procQ[Clock]) : p_semAdd[p] = Clock
      BY NullApart DEF IInv, OnePlace
    <3> QED
      BY <3>1, EmptyQueue DEF ClockWaiters
  <2>4. p_semAdd' = [p \in Pcbs |-> IF p \in ToSet(ClockWaiters) THEN NULL ELSE p_semAdd[p]]
    BY <1>2 DEF ClockInterrupt
  <2>5. \A p \in Pcbs : p_semAdd'[p] # p_semAdd[p] => p_semAdd[p] = Clock /\ p_semAdd'[p] = NULL
    BY <2>3, <2>4
  <2> QED
    BY <2>0, <2>1, <2>2, <2>5, OthersUntouched
<1>3. ASSUME NEW d \in Devices, DeviceInterrupt(d)
      PROVE  Untouched(s)
  <2>1. SemOf(d) = d /\ d \in AllSems /\ d # s
    BY <1>1, <1>3, NeverTheReceiver, NullApart DEF DeviceInterrupt, Devices
  <2>2. /\ UNCHANGED <<pcbFree, p_prnt, killStack>>
        /\ semVal' = [semVal EXCEPT ![d] = @ + 1]
        /\ \/ procQ[d] # <<>> /\ Wake(d)
           \/ UNCHANGED <<procQ, p_semAdd>>
    BY <1>3, <2>1 DEF DeviceInterrupt, procVars
  <2>3. \A t \in AllSems \ {d} : semVal'[t] = semVal[t]
    BY <1>1, <2>2
  <2>4. CASE procQ[d] # <<>> /\ Wake(d)
    <3>1. /\ \A t \in AllSems \ {d} : procQ'[t] = procQ[t]
          /\ \A p \in Pcbs : p_semAdd'[p] # p_semAdd[p] =>
               p_semAdd[p] = d /\ p_semAdd'[p] = NULL
      BY <1>1, <2>1, <2>4, WakeMovesHead
    <3> QED
      BY <2>1, <2>2, <2>3, <3>1, OthersUntouched
  <2>5. CASE UNCHANGED <<procQ, p_semAdd>>
    BY <2>1, <2>2, <2>3, <2>5, OthersUntouched
  <2> QED
    BY <2>2, <2>4, <2>5
<1> QED
  BY <1>2, <1>3

(* The loop of an activation: the child it takes stays within reach.       *)
LEMMA KillChildUntouched ==
  ASSUME IInv, IInv', NEW s \in Sems, KillChild
  PROVE  Untouched(s)
<1> DEFINE c == Head(p_child[Victim])
<1>1. /\ UNCHANGED <<p_semAdd, procQ, semVal>>
      /\ p_child[Victim] # <<>>
      /\ p_prnt' = [p_prnt EXCEPT ![c] = NULL]
      /\ killStack' = Append(killStack, c)
      /\ cpu = "kill"
  BY DEF KillChild, semVars
<1>2. /\ killStack \in Seq(Pcbs) /\ killStack # <<>>
      /\ Victim \in Pcbs /\ Victim # NULL
      /\ p_prnt \in [Pcbs -> Pcbs \cup {NULL}]
  <2>1. killStack \in Seq(Pcbs) /\ killStack # <<>>
    BY <1>1 DEF IInv, TypeOK, KillFrames
  <2>2. Victim \in Pcbs
    BY <2>1, PopStack DEF Victim
  <2>3. p_prnt \in [Pcbs -> Pcbs \cup {NULL}]
    BY DEF IInv, TypeOK
  <2> QED
    BY <2>1, <2>2, <2>3, NullApart
<1>3. c \in Pcbs /\ p_prnt[c] = Victim
  <2>1. p_child[Victim] \in Seq(Pcbs) /\ IsInjective(p_child[Victim])
    BY <1>2 DEF IInv, TypeOK, TreeConsistent
  <2>2. c \in Pcbs /\ c \in ToSet(p_child[Victim])
    BY <1>1, <2>1, RemoveHead
  <2> QED
    BY <1>2, <2>2 DEF IInv, TreeConsistent
<1>4. \A q \in Pcbs : q \in ToSet(killStack') => q = c \/ q \in ToSet(killStack)
  BY <1>1, <1>2, <1>3, PushMembers
<1> QED
  BY <1>1, <1>2, <1>3, <1>4, QuietUntouched

(* Handlers that deal with processes and devices, not with semaphores.     *)
LEMMA QuietHandlersUntouched ==
  ASSUME IInv, IInv', NEW s \in Sems,
         \/ \E p \in Pcbs : CreateProcess(p)
         \/ CreateFails
         \/ TerminateProcess
         \/ \E t \in Traps : SpecifyExceptionStateVector(t)
         \/ \E t \in Traps : Exception(t)
         \/ ProgramLDST
         \/ KernelTrap
         \/ TimerInterrupt
         \/ \E u \in Units : DeviceDone(u) \/ StartIO(u)
         \/ UNCHANGED vars
  PROVE  Untouched(s)
<1>1. /\ s # NULL
      /\ \A p \in pcbFree : p_semAdd[p] = NULL
      /\ p_semAdd[currentProcess] # s \/ currentProcess \notin Pcbs
      /\ p_prnt \in [Pcbs -> Pcbs \cup {NULL}]
  BY NullApart DEF IInv, FreeClean, CurrentApart, Live, TypeOK
<1>2. ASSUME UNCHANGED <<p_semAdd, procQ, semVal, p_prnt>>,
             killStack' = killStack \/ killStack' = <<currentProcess>>
      PROVE  Untouched(s)
  <2>1. ASSUME NEW p \in Pcbs, p_semAdd[p] = s, p \in ToSet(killStack')
        PROVE  p \in ToSet(killStack)
    <3>1. ToSet(<<currentProcess>>) = {currentProcess}
      BY DEF ToSet
    <3> QED
      BY <1>1, <1>2, <2>1, <3>1
  <2> QED
    BY <1>2, <2>1, QuietUntouched
<1>3. CASE \E p \in Pcbs : CreateProcess(p)
  <2>1. PICK p \in pcbFree : CreateProcess(p)
    BY <1>3 DEF CreateProcess
  <2>2. /\ UNCHANGED <<p_semAdd, procQ, semVal, killStack>>
        /\ p_prnt' = [p_prnt EXCEPT ![p] = currentProcess]
    BY <2>1 DEF CreateProcess, semVars
  <2>3. \A q \in Pcbs : p_semAdd[q] = s => p_prnt'[q] = p_prnt[q]
    BY <1>1, <2>1, <2>2
  <2> QED
    BY <2>2, <2>3, QuietUntouched
<1>4. CASE CreateFails
  BY <1>2, <1>4 DEF CreateFails, semVars, procVars
<1>5. CASE TerminateProcess
  BY <1>2, <1>5 DEF TerminateProcess, StartKill, semVars, procVars
<1>6. CASE \E t \in Traps : SpecifyExceptionStateVector(t)
  <2>1. PICK t : SpecifyExceptionStateVector(t)
    BY <1>6
  <2> QED
    BY <1>2, <2>1 DEF SpecifyExceptionStateVector, StartKill, semVars, procVars
<1>7. ASSUME NEW t, PassUpOrDie(t)
      PROVE  Untouched(s)
  BY <1>2, <1>7 DEF PassUpOrDie, LoadState, StartKill, semVars, procVars
<1>8. CASE (\E t \in Traps : Exception(t)) \/ KernelTrap
  BY <1>7, <1>8 DEF Exception, KernelTrap
<1>9. CASE ProgramLDST
  BY <1>2, <1>9 DEF ProgramLDST, LoadState, semVars
<1>10. CASE TimerInterrupt
  BY <1>2, <1>10 DEF TimerInterrupt, procVars, semVars
<1>11. CASE \E u \in Units : DeviceDone(u) \/ StartIO(u)
  BY <1>2, <1>11 DEF DeviceDone, StartIO, procVars, semVars
<1>12. CASE UNCHANGED vars
  BY <1>2, <1>12 DEF vars, procVars, semVars
<1> QED
  BY <1>3, <1>4, <1>5, <1>6, <1>8, <1>9, <1>10, <1>11, <1>12

(* Every step but a V or a P on s itself leaves it alone.                  *)
LEMMA OtherStepsUntouched ==
  ASSUME IInv, IInv', NEW s \in Sems,
         \/ \E r \in Sems \ {s} : Verhogen(r) \/ Passeren(r)
         \/ \E p \in Pcbs : CreateProcess(p)
         \/ CreateFails
         \/ TerminateProcess
         \/ \E t \in Traps : SpecifyExceptionStateVector(t) \/ Exception(t)
         \/ WaitForClock
         \/ \E u \in Units : StartIO(u)
         \/ WaitForIODevice
         \/ ProgramLDST
         \/ Termination
         \/ Interrupt
         \/ UNCHANGED vars
  PROVE  Untouched(s)
<1>1. ASSUME NEW r \in Sems \ {s}, Verhogen(r) \/ Passeren(r)
      PROVE  Untouched(s)
  <2>1. r # s /\ r \in AllSems
    BY NullApart
  <2> QED
    BY <1>1, <2>1, VSteps, PSteps DEF Passeren, Running
<1>2. CASE WaitForClock
  <2>1. Clock \in AllSems /\ Clock # s
    BY NullApart, SemsApart
  <2> QED
    BY <1>2, <2>1, PSteps DEF WaitForClock, Running
<1>3. CASE WaitForIODevice
  <2>1. op[currentProcess] \in AllSems /\ op[currentProcess] # s
    BY <1>3, UserIsLive, NullApart, SemsApart DEF WaitForIODevice, Running, IInv, TypeOK
  <2> QED
    BY <1>3, <2>1, PSteps DEF WaitForIODevice, Running
<1>4. CASE Termination
  BY <1>4, QuietHandlersUntouched, KillChildUntouched, KillLeafUntouched,
     KillMissingUntouched DEF Termination
<1>5. CASE Interrupt
  BY <1>5, QuietHandlersUntouched, InterruptUntouched DEF Interrupt
<1>6. CASE ~WaitForClock /\ ~WaitForIODevice /\ ~Termination /\ ~Interrupt
  BY <1>1, <1>6, QuietHandlersUntouched
<1> QED
  BY <1>2, <1>3, <1>4, <1>5, <1>6

(* Whatever the programs are, the sum of a semaphore's value and of those  *)
(* who wait for it grows by a V on it only, and only a V wakes them: what  *)
(* the terminations do in the semaphores they take processes from.         *)
THEOREM NextUntouched ==
  ASSUME IInv, [Next]_vars, NEW s \in Sems, ~Verhogen(s), ~Passeren(s)
  PROVE  Untouched(s)
<1>1. IInv'
  BY NextIInv
<1>2. CASE SystemCall
  BY <1>1, <1>2, OtherStepsUntouched DEF SystemCall
<1>3. CASE Termination \/ Interrupt \/ UNCHANGED vars
  BY <1>1, <1>3, OtherStepsUntouched
<1> QED
  BY <1>2, <1>3 DEF Next

-----------------------------------------------------------------------------
(* The programs.                                                           *)

(* c is a sequence, whatever its elements are.                             *)
IsSequence(c) == \E S : c \in Seq(S)

(* The instructions that only a process between its P and its V makes.     *)
Terminal(i) == i.do \in {"start", "SYS8"} \/ i = V(term_mut)

(* The programs that are started with SYS1.                                *)
Started == {"p2", "p3", "p4", "p5", "p6", "p7", "p8root", "child1", "child2", "p8leaf"}

(* What the instructions of program f may name, and which are found in one *)
(* program only.                                                           *)
Fits(f, i) ==
  /\ i.do = "create" => i.arg \in Started /\ (i.arg = "p2" => f = "p1")
  /\ i.do = "V" => i = V(i.arg) /\ i.arg # blkp8 /\ (i.arg = sArr => f = "p2")
  /\ i.do = "P" => i = Wait(i.arg) /\ (i.arg = sArr => f = "p2")
  /\ i.do = "zero" => f = "p2"
  /\ i.do = "again" => f \in {"p3", "p5b"}
  /\ i.do = "SYS5" => f \in {"p5", "p5b"}
  /\ i.do = "trap" => \/ i.arg = "Pgm"
                      \/ i.arg = "TLB" /\ f = "p5a"
                      \/ i.arg = "Sys" /\ f \in {"p5b", "p6"}

(* The instructions that f may make anywhere but at its end.               *)
Plain(f, i) ==
  /\ Fits(f, i)
  /\ i.do \notin {"start", "SYS8", "again", "synched", "error", "LDST"}
  /\ i \notin {V(term_mut), V(endp2), V(sArr), Wait(sArr)}

(* What comes before the i-th instruction of c, a part of f.               *)
Follows(f, c, i) ==
  /\ Fits(f, c[i])
  /\ c[i].do = "start" => i > 1 /\ c[i - 1] = Wait(term_mut)
  /\ c[i].do = "SYS8" => i > 1 /\ c[i - 1].do = "start"
  /\ c[i] = V(term_mut) => i > 1 /\ c[i - 1].do = "SYS8"
  /\ c[i].do = "again" => i > 1 /\ c[i - 1].do = "SYS7"
  /\ c[i].do = "synched" => i > 1 /\ c[i - 1] = Wait(endp2)
  /\ c[i] = V(endp2) => i > 1 /\ c[i - 1].do = "synch"
  /\ c[i] = Wait(sArr) => i > 1 /\ c[i - 1] = V(sArr)
  /\ i > 1 /\ c[i - 1] = V(sArr) => c[i] = Wait(sArr)

(* A piece of f: its instructions come in the order they need, and neither *)
(* the end of f nor that of the V and P on s[] is left to another piece.   *)
Piece(f, c) ==
  /\ IsSequence(c)
  /\ \A i \in 1..Len(c) : c[i].do \notin {"error", "LDST"} /\ Follows(f, c, i)
  /\ Len(c) > 0 => c[Len(c)] # V(sArr)

(* The calls that f should not return from.                                *)
Final(f, i) ==
  IF f = "p5b" THEN i = I("SYS5", "Pgm") ELSE i.do \in {"SYS2", "trap"} \/ i = Wait(blkp8)

(* A whole program with its last instruction.                              *)
Orderly(f, c, last) ==
  /\ IsSequence(c)
  /\ Len(c) > 0
  /\ c[Len(c)] = last
  /\ last.do \in {"error", "LDST"}
  /\ \A i \in 1..Len(c) :
       /\ Follows(f, c, i)
       /\ c[i].do \in {"error", "LDST"} => i = Len(c)
  /\ last.do = "error" /\ f # "none" => Len(c) > 1 /\ Final(f, c[Len(c) - 1])

(* A sequence over a set is one over any larger set.                       *)
LEMMA SeqMonotone ==
  ASSUME NEW S, NEW T, NEW c \in Seq(S)
  PROVE  c \in Seq(S \cup T) /\ c \in Seq(T \cup S)
OBVIOUS

(* Pieces can be joined.                                                   *)
LEMMA PiecesJoin ==
  ASSUME NEW f, NEW c, NEW d, Piece(f, c), Piece(f, d)
  PROVE  Piece(f, c \o d)
<1>1. PICK S : c \in Seq(S) /\ d \in Seq(S)
  <2>1. PICK S, T : c \in Seq(S) /\ d \in Seq(T)
    BY DEF Piece, IsSequence
  <2>2. c \in Seq(S \cup T) /\ d \in Seq(S \cup T)
    BY <2>1, SeqMonotone
  <2> QED
    BY <2>2
<1>2. /\ c \o d \in Seq(S)
      /\ Len(c \o d) = Len(c) + Len(d)
      /\ \A i \in 1..Len(c) : (c \o d)[i] = c[i]
      /\ \A i \in 1..Len(d) : (c \o d)[Len(c) + i] = d[i]
      /\ Len(c) \in Nat /\ Len(d) \in Nat
  BY <1>1
<1>3. ASSUME NEW i \in 1..Len(c \o d)
      PROVE  (c \o d)[i].do \notin {"error", "LDST"} /\ Follows(f, c \o d, i)
  <2>1. CASE i <= Len(c)
    <3>1. /\ i \in 1..Len(c)
          /\ (c \o d)[i] = c[i]
          /\ i > 1 => i - 1 \in 1..Len(c) /\ (c \o d)[i - 1] = c[i - 1]
      BY <1>2, <2>1
    <3>2. c[i].do \notin {"error", "LDST"} /\ Follows(f, c, i)
      BY <3>1 DEF Piece
    <3> QED
      BY <3>1, <3>2 DEF Follows
  <2>2. CASE i > Len(c)
    <3> DEFINE j == i - Len(c)
    <3>1. /\ j \in 1..Len(d)
          /\ (c \o d)[i] = d[j]
      BY <1>2, <2>2
    <3>2. j > 1 => i > 1 /\ (c \o d)[i - 1] = d[j - 1]
      <4>1. SUFFICES ASSUME j > 1 PROVE i > 1 /\ (c \o d)[i - 1] = d[j - 1]
        OBVIOUS
      <4>2. j - 1 \in 1..Len(d) /\ i - 1 = Len(c) + (j - 1) /\ i > 1
        BY <1>2, <3>1, <4>1
      <4> QED
        BY <1>2, <4>2
    <3>3. d[j].do \notin {"error", "LDST"} /\ Follows(f, d, j)
      BY <3>1 DEF Piece
    <3>4. j > 1 \/ (i > 1 => (c \o d)[i - 1] # V(sArr))
      <4>1. SUFFICES ASSUME ~(j > 1), i > 1 PROVE (c \o d)[i - 1] # V(sArr)
        OBVIOUS
      <4>2. i - 1 = Len(c) /\ Len(c) > 0 /\ Len(c) \in 1..Len(c)
        BY <1>2, <3>1, <4>1
      <4>3. (c \o d)[i - 1] = c[Len(c)]
        BY <1>2, <4>2
      <4> QED
        BY <4>2, <4>3 DEF Piece
    <3> QED
      BY <3>1, <3>2, <3>3, <3>4 DEF Follows
  <2> QED
    BY <1>2, <2>1, <2>2
<1>4. Len(c \o d) > 0 => (c \o d)[Len(c \o d)] # V(sArr)
  <2>1. CASE Len(d) > 0
    <3>1. Len(d) \in 1..Len(d)
      BY <1>2, <2>1
    <3> QED
      BY <1>2, <2>1, <3>1 DEF Piece
  <2>2. CASE Len(d) = 0 /\ Len(c) > 0
    <3>1. Len(c) \in 1..Len(c) /\ Len(c \o d) = Len(c)
      BY <1>2, <2>2
    <3> QED
      BY <1>2, <2>2, <3>1 DEF Piece
  <2> QED
    BY <1>2, <2>1, <2>2
<1> QED
  BY <1>2, <1>3, <1>4 DEF Piece, IsSequence

(* A program is a piece and its last instruction.                          *)
LEMMA PieceEnds ==
  ASSUME NEW f, NEW c, Piece(f, c), NEW last, last.do \in {"error", "LDST"},
         last.do = "error" => Len(c) > 0 /\ Final(f, c[Len(c)])
  PROVE  Orderly(f, c \o <<last>>, last)
<1> DEFINE d == c \o <<last>>
<1>1. PICK S : c \in Seq(S) /\ last \in S
  <2>1. PICK S : c \in Seq(S)
    BY DEF Piece, IsSequence
  <2>2. c \in Seq(S \cup {last})
    BY <2>1, SeqMonotone
  <2> QED
    BY <2>2
<1>2. /\ d \in Seq(S)
      /\ Len(d) = Len(c) + 1
      /\ \A i \in 1..Len(c) : d[i] = c[i]
      /\ d[Len(c) + 1] = last
      /\ Len(c) \in Nat
  BY <1>1
<1>3. /\ last \notin {V(term_mut), V(endp2), V(sArr), Wait(sArr)}
      /\ Fits(f, last)
  BY DEF Fits, V, Wait, I
<1>4. ASSUME NEW i \in 1..Len(d)
      PROVE  Follows(f, d, i) /\ (d[i].do \in {"error", "LDST"} => i = Len(d))
  <2>1. CASE i <= Len(c)
    <3>1. /\ i \in 1..Len(c)
          /\ d[i] = c[i]
          /\ i > 1 => i - 1 \in 1..Len(c) /\ d[i - 1] = c[i - 1]
      BY <1>2, <2>1
    <3>2. c[i].do \notin {"error", "LDST"} /\ Follows(f, c, i)
      BY <3>1 DEF Piece
    <3> QED
      BY <3>1, <3>2 DEF Follows
  <2>2. CASE i = Len(c) + 1
    <3>1. i > 1 => d[i - 1] # V(sArr)
      <4>1. SUFFICES ASSUME i > 1 PROVE d[i - 1] # V(sArr)
        OBVIOUS
      <4>2. i - 1 = Len(c) /\ Len(c) \in 1..Len(c) /\ Len(c) > 0
        BY <1>2, <2>2, <4>1
      <4> QED
        BY <1>2, <4>2 DEF Piece
    <3> QED
      BY <1>2, <1>3, <2>2, <3>1 DEF Follows
  <2> QED
    BY <1>2, <2>1, <2>2
<1>5. last.do = "error" => Len(d) > 1 /\ Final(f, d[Len(d) - 1])
  <2>1. SUFFICES ASSUME last.do = "error" PROVE Len(d) > 1 /\ Final(f, d[Len(d) - 1])
    OBVIOUS
  <2>2. Len(d) - 1 = Len(c) /\ Len(c) \in 1..Len(c)
    BY <1>2, <2>1
  <2> QED
    BY <1>2, <2>1, <2>2
<1> QED
  BY <1>2, <1>4, <1>5 DEF Orderly, IsSequence

(* It ends in the call that it should not return from and its error.       *)
LEMMA ErrorEnds ==
  ASSUME NEW f, NEW c, NEW d, Piece(f, c), Piece(f, d), Len(d) > 0, Final(f, d[Len(d)])
  PROVE  Orderly(f, (c \o d) \o <<SYS("error")>>, SYS("error"))
<1>1. SYS("error").do = "error"
  BY DEF SYS, I
<1>2. Len(c \o d) > 0 /\ (c \o d)[Len(c \o d)] = d[Len(d)]
  <2>1. PICK S, T : c \in Seq(S) /\ d \in Seq(T)
    BY DEF Piece, IsSequence
  <2>2. c \in Seq(S \cup T) /\ d \in Seq(S \cup T)
    BY <2>1, SeqMonotone
  <2>3. Len(d) \in 1..Len(d)
    BY <2>1
  <2> QED
    BY <2>2, <2>3
<1>3. Piece(f, c \o d)
  BY PiecesJoin
<1> DEFINE e == c \o d
<1>4. Piece(f, e) /\ Len(e) > 0 /\ Final(f, e[Len(e)])
  BY <1>2, <1>3
<1> HIDE DEF e
<1>5. Orderly(f, e \o <<SYS("error")>>, SYS("error"))
  BY <1>1, <1>4, PieceEnds
<1> QED
  BY <1>5 DEF e

(* A piece that is of no program in particular fits them all.              *)
LEMMA PieceFits ==
  ASSUME NEW f, NEW c, Piece("none", c)
  PROVE  Piece(f, c)
BY DEF Piece, Follows, Fits

(* Instructions that stand in no order, in any number.                     *)
LEMMA PlainPiece ==
  ASSUME NEW f, NEW c, IsSequence(c), \A i \in 1..Len(c) : Plain(f, c[i])
  PROVE  Piece(f, c)
<1>1. PICK S : c \in Seq(S)
  BY DEF IsSequence
<1>2. \A i \in 1..Len(c) : i > 1 => i - 1 \in 1..Len(c)
  BY <1>1
<1>3. Len(c) > 0 => Len(c) \in 1..Len(c)
  BY <1>1
<1> QED
  BY <1>2, <1>3 DEF Piece, Follows, Plain

(* The tuples of plain instructions that the programs are put together of. *)
LEMMA PlainTuples ==
  ASSUME NEW p, NEW a, NEW b, NEW c, NEW d, NEW e, NEW f,
         Plain(p, a), Plain(p, b), Plain(p, c), Plain(p, d), Plain(p, e), Plain(p, f)
  PROVE  /\ Piece(p, <<a>>) /\ Piece(p, <<a, b>>) /\ Piece(p, <<a, b, c>>)
         /\ Piece(p, <<a, b, c, d>>) /\ Piece(p, <<a, b, c, d, e>>)
         /\ Piece(p, <<a, b, c, d, e, f>>)
<1>1. Piece(p, <<a>>)
  <2>1. /\ <<a>> \in Seq({a})
        /\ \A i \in 1..Len(<<a>>) : Plain(p, <<a>>[i])
    OBVIOUS
  <2> QED
    BY <2>1, PlainPiece DEF IsSequence
<1>2. Piece(p, <<a, b>>)
  <2>1. /\ <<a, b>> \in Seq({a, b})
        /\ \A i \in 1..Len(<<a, b>>) : Plain(p, <<a, b>>[i])
    OBVIOUS
  <2> QED
    BY <2>1, PlainPiece DEF IsSequence
<1>3. Piece(p, <<a, b, c>>)
  <2>1. /\ <<a, b, c>> \in Seq({a, b, c})
        /\ \A i \in 1..Len(<<a, b, c>>) : Plain(p, <<a, b, c>>[i])
    OBVIOUS
  <2> QED
    BY <2>1, PlainPiece DEF IsSequence
<1>4. Piece(p, <<a, b, c, d>>)
  <2>1. /\ <<a, b, c, d>> \in Seq({a, b, c, d})
        /\ \A i \in 1..Len(<<a, b, c, d>>) : Plain(p, <<a, b, c, d>>[i])
    OBVIOUS
  <2> QED
    BY <2>1, PlainPiece DEF IsSequence
<1>5. Piece(p, <<a, b, c, d, e>>)
  <2>1. /\ <<a, b, c, d, e>> \in Seq({a, b, c, d, e})
        /\ \A i \in 1..Len(<<a, b, c, d, e>>) : Plain(p, <<a, b, c, d, e>>[i])
    OBVIOUS
  <2> QED
    BY <2>1, PlainPiece DEF IsSequence
<1>6. Piece(p, <<a, b, c, d, e, f>>)
  <2>1. /\ <<a, b, c, d, e, f>> \in Seq({a, b, c, d, e, f})
        /\ \A i \in 1..Len(<<a, b, c, d, e, f>>) : Plain(p, <<a, b, c, d, e, f>>[i])
    OBVIOUS
  <2> QED
    BY <2>1, PlainPiece DEF IsSequence
<1> QED
  BY <1>1, <1>2, <1>3, <1>4, <1>5, <1>6

(* As many plain instructions as a program wants.                          *)
LEMMA PlainFunction ==
  ASSUME NEW f, NEW n \in Nat, NEW S, \A i \in S : Plain(f, i), NEW c \in [1..n -> S]
  PROVE  Piece(f, c)
<1>1. c \in Seq(S) /\ Len(c) = n /\ \A i \in 1..n : c[i] \in S
  OBVIOUS
<1> QED
  BY <1>1, PlainPiece DEF IsSequence

(* The semaphores of p2test.c are different variables.                     *)
LEMMA NamesApart ==
  LET names == <<term_mut, sArr, testsem, startp2, endp2, endp3, blkp4, synp4,
                 endp4, endp5, endp8, endcreate, blkp8>> IN
  \A i, j \in 1..13 : names[i] = names[j] => i = j
<1> DEFINE names == <<term_mut, sArr, testsem, startp2, endp2, endp3, blkp4, synp4,
                      endp4, endp5, endp8, endcreate, blkp8>>
<1>1. DOMAIN names = 1..13
  OBVIOUS
<1> QED
  BY <1>1, SemaphoresApart DEF IsInjective

(* Those that have no part in the order of the instructions, or in the end *)
(* of a program.                                                           *)
OtherSems == {testsem, startp2, endp3, blkp4, synp4, endp4, endp5, endp8, endcreate}

(* The semaphores that the proofs are about differ from all the others.    *)
LEMMA SemaphoresDiffer ==
  /\ OtherSems \cup {term_mut, sArr, endp2, blkp8} = Sems
  /\ OtherSems \cap {term_mut, sArr, endp2, blkp8} = {}
  /\ term_mut \notin {sArr, endp2, blkp8}
  /\ sArr \notin {endp2, blkp8}
  /\ endp2 # blkp8
<1>1. OtherSems \cup {term_mut, sArr, endp2, blkp8} = Sems
  BY TestSemaphores DEF OtherSems
<1> QED
  BY <1>1, NamesApart DEF OtherSems

(* Which instructions are plain in every program, and which in one.        *)
LEMMA PlainInstructions ==
  /\ \A f : /\ \A sem \in OtherSems : Plain(f, V(sem))
            /\ \A sem \in Sems \ {sArr} : Plain(f, Wait(sem))
            /\ \A g \in Started \ {"p2"} : Plain(f, Create(g))
            /\ \A c : Plain(f, Trap("Pgm", c))
            /\ \A n \in {"synch", "SYS2", "SYS7"} : Plain(f, SYS(n))
  /\ OtherSems \cup {endp2, blkp8, term_mut} \subseteq Sems \ {sArr}
  /\ {testsem, startp2, endp3, blkp4, synp4, endp4, endp5, endp8, endcreate} \subseteq OtherSems
  /\ {"p3", "p4", "p5", "p6", "p7", "p8root", "child1", "child2", "p8leaf"}
       \subseteq Started \ {"p2"}
  /\ Plain("p1", Create("p2"))
  /\ Plain("p2", SYS("zero"))
  /\ \A f \in {"p5", "p5b"} : \A x : Plain(f, I("SYS5", x))
  /\ \A c : Plain("p5a", Trap("TLB", c)) /\ Plain("p5b", Trap("Sys", c))
            /\ Plain("p6", Trap("Sys", c))
<1>1. ASSUME NEW f
      PROVE  /\ \A sem \in OtherSems : Plain(f, V(sem))
             /\ \A sem \in Sems \ {sArr} : Plain(f, Wait(sem))
  BY SemaphoresDiffer DEF Plain, Fits, V, Wait, I
<1>2. ASSUME NEW f
      PROVE  /\ \A g \in Started \ {"p2"} : Plain(f, Create(g))
             /\ Plain("p1", Create("p2"))
  BY DEF Plain, Fits, V, Wait, Create, I, Started
<1>3. ASSUME NEW f
      PROVE  /\ \A n \in {"synch", "SYS2", "SYS7"} : Plain(f, SYS(n))
             /\ Plain("p2", SYS("zero"))
             /\ \A g \in {"p5", "p5b"} : \A x : Plain(g, I("SYS5", x))
  BY DEF Plain, Fits, V, Wait, SYS, I
<1>4. ASSUME NEW f, NEW c
      PROVE  /\ Plain(f, Trap("Pgm", c))
             /\ Plain("p5a", Trap("TLB", c)) /\ Plain("p5b", Trap("Sys", c))
             /\ Plain("p6", Trap("Sys", c))
  BY DEF Plain, Fits, V, Wait, Trap, I
<1>5. /\ OtherSems \cup {endp2, blkp8, term_mut} \subseteq Sems \ {sArr}
      /\ {testsem, startp2, endp3, blkp4, synp4, endp4, endp5, endp8, endcreate}
           \subseteq OtherSems
      /\ {"p3", "p4", "p5", "p6", "p7", "p8root", "child1", "child2", "p8leaf"}
           \subseteq Started \ {"p2"}
  BY SemaphoresDiffer DEF OtherSems, Started
<1> QED
  BY <1>1, <1>2, <1>3, <1>4, <1>5

(* print is a piece of any program.                                        *)
LEMMA PrintPiece == ASSUME NEW f PROVE Piece(f, print)
<1>1. /\ print \in Seq({Wait(term_mut), SYS("start"), SYS("SYS8"), V(term_mut)})
      /\ Len(print) = 4
      /\ print[1] = Wait(term_mut) /\ print[2] = SYS("start")
      /\ print[3] = SYS("SYS8") /\ print[4] = V(term_mut)
  BY DEF print
<1>2. /\ Wait(term_mut).do = "P" /\ SYS("start").do = "start"
      /\ SYS("SYS8").do = "SYS8" /\ V(term_mut).do = "V"
      /\ \A i \in {Wait(term_mut), SYS("start"), SYS("SYS8"), V(term_mut)} :
           i \notin {V(endp2), V(sArr), Wait(sArr)} /\ Fits(f, i)
      /\ V(term_mut) \notin {Wait(term_mut), SYS("start"), SYS("SYS8")}
  BY SemaphoresDiffer DEF Fits, Wait, SYS, V, I
<1>3. \A i \in 1..4 : print[i].do \notin {"error", "LDST"} /\ Follows(f, print, i)
  <2>1. 1..4 = {1, 2, 3, 4}
    OBVIOUS
  <2>2. SUFFICES ASSUME NEW i \in {1, 2, 3, 4}
                 PROVE  print[i].do \notin {"error", "LDST"} /\ Follows(f, print, i)
    BY <2>1
  <2>3. CASE i = 1
    BY <1>1, <1>2, <2>3 DEF Follows
  <2>4. CASE i = 2
    BY <1>1, <1>2, <2>4 DEF Follows
  <2>5. CASE i = 3
    BY <1>1, <1>2, <2>5 DEF Follows
  <2>6. CASE i = 4
    BY <1>1, <1>2, <2>6 DEF Follows
  <2> QED
    BY <2>2, <2>3, <2>4, <2>5, <2>6
<1>4. print[4] # V(sArr)
  BY <1>1, <1>2
<1> QED
  BY <1>1, <1>3, <1>4 DEF Piece, IsSequence

(* One instruction of a piece needs the one before it, the rest are plain. *)
LEMMA MostlyPlain ==
  ASSUME NEW f, NEW c, IsSequence(c), NEW k \in 2..Len(c),
         \A i \in 1..Len(c) : i # k => Plain(f, c[i]),
         \/ c[k] = SYS("again") /\ c[k - 1] = SYS("SYS7") /\ f \in {"p3", "p5b"}
         \/ c[k] = SYS("synched") /\ c[k - 1] = Wait(endp2)
         \/ c[k] = V(endp2) /\ c[k - 1] = SYS("synch")
  PROVE  Piece(f, c)
<1>1. PICK S : c \in Seq(S)
  BY DEF IsSequence
<1>2. /\ Fits(f, c[k])
      /\ c[k].do \notin {"start", "SYS8", "error", "LDST"}
      /\ c[k] \notin {V(term_mut), V(sArr), Wait(sArr)}
      /\ c[k].do = "again" => c[k - 1].do = "SYS7"
      /\ c[k].do = "synched" => c[k - 1] = Wait(endp2)
      /\ c[k] = V(endp2) => c[k - 1].do = "synch"
  BY SemaphoresDiffer DEF Fits, SYS, V, Wait, I
<1>3. k \in 1..Len(c) /\ k > 1 /\ \A i \in 1..Len(c) : i > 1 => i - 1 \in 1..Len(c)
  BY <1>1
<1>4. \A i \in 1..Len(c) : c[i] # V(sArr)
  BY <1>2 DEF Plain
<1>5. ASSUME NEW i \in 1..Len(c)
      PROVE  c[i].do \notin {"error", "LDST"} /\ Follows(f, c, i)
  <2>1. CASE i = k
    BY <1>2, <1>3, <1>4, <2>1 DEF Follows
  <2>2. CASE i # k
    BY <1>3, <1>4, <2>2 DEF Follows, Plain
  <2> QED
    BY <2>1, <2>2
<1>6. Len(c) > 0 => c[Len(c)] # V(sArr)
  BY <1>1, <1>4
<1> QED
  BY <1>5, <1>6 DEF Piece

(* The pieces whose order matters: the wait for the clock, and how p1 and  *)
(* p2 synchronise and p2 plays with s[].                                   *)
LEMMA OrderedPieces ==
  /\ Piece("p3", <<SYS("SYS7"), SYS("again")>>)
  /\ Piece("p5b", <<Trap("Sys", "sys"), Wait(endp4), SYS("SYS7"), SYS("again"), V(blkp4),
                    V(endp5), I("SYS5", "Pgm")>>)
  /\ Piece("none", <<V(startp2), Wait(endp2), SYS("synched"), Create("p3")>>)
  /\ Piece("p2", <<SYS("synch"), V(endp2), SYS("SYS2")>>)
  /\ Piece("p2", <<V(sArr), Wait(sArr), SYS("zero")>>)
<1>1. Piece("p3", <<SYS("SYS7"), SYS("again")>>)
  <2> DEFINE c == <<SYS("SYS7"), SYS("again")>>
  <2>1. /\ c \in Seq({SYS("SYS7"), SYS("again")})
        /\ Len(c) = 2 /\ c[1] = SYS("SYS7") /\ c[2] = SYS("again")
    OBVIOUS
  <2>2. Plain("p3", c[1])
    BY <2>1, PlainInstructions
  <2> HIDE DEF c
  <2>3. Piece("p3", c)
    BY <2>1, <2>2, MostlyPlain DEF IsSequence
  <2> QED
    BY <2>3 DEF c
<1>2. Piece("p5b", <<Trap("Sys", "sys"), Wait(endp4), SYS("SYS7"), SYS("again"), V(blkp4),
                     V(endp5), I("SYS5", "Pgm")>>)
  <2> DEFINE c == <<Trap("Sys", "sys"), Wait(endp4), SYS("SYS7"), SYS("again"), V(blkp4),
                    V(endp5), I("SYS5", "Pgm")>>
  <2>1. /\ c \in Seq({Trap("Sys", "sys"), Wait(endp4), SYS("SYS7"), SYS("again"), V(blkp4),
                      V(endp5), I("SYS5", "Pgm")})
        /\ Len(c) = 7
        /\ c[1] = Trap("Sys", "sys") /\ c[2] = Wait(endp4) /\ c[3] = SYS("SYS7")
        /\ c[4] = SYS("again") /\ c[5] = V(blkp4) /\ c[6] = V(endp5)
        /\ c[7] = I("SYS5", "Pgm")
    OBVIOUS
  <2> HIDE DEF c
  <2>2. /\ Plain("p5b", c[1]) /\ Plain("p5b", c[2]) /\ Plain("p5b", c[3])
        /\ Plain("p5b", c[5]) /\ Plain("p5b", c[6]) /\ Plain("p5b", c[7])
    BY <2>1, PlainInstructions
  <2>3. \A i \in 1..7 : i # 4 => Plain("p5b", c[i])
    BY <2>2
  <2>4. Piece("p5b", c)
    BY <2>1, <2>3, MostlyPlain DEF IsSequence
  <2> QED
    BY <2>4 DEF c
<1>3. Piece("none", <<V(startp2), Wait(endp2), SYS("synched"), Create("p3")>>)
  <2> DEFINE c == <<V(startp2), Wait(endp2), SYS("synched"), Create("p3")>>
  <2>1. /\ c \in Seq({V(startp2), Wait(endp2), SYS("synched"), Create("p3")})
        /\ Len(c) = 4
        /\ c[1] = V(startp2) /\ c[2] = Wait(endp2) /\ c[3] = SYS("synched")
        /\ c[4] = Create("p3")
    OBVIOUS
  <2> HIDE DEF c
  <2>2. Plain("none", c[1]) /\ Plain("none", c[2]) /\ Plain("none", c[4])
    BY <2>1, PlainInstructions DEF Started
  <2>3. \A i \in 1..4 : i # 3 => Plain("none", c[i])
    BY <2>2
  <2>4. Piece("none", c)
    BY <2>1, <2>3, MostlyPlain DEF IsSequence
  <2> QED
    BY <2>4 DEF c
<1>4. Piece("p2", <<SYS("synch"), V(endp2), SYS("SYS2")>>)
  <2> DEFINE c == <<SYS("synch"), V(endp2), SYS("SYS2")>>
  <2>1. /\ c \in Seq({SYS("synch"), V(endp2), SYS("SYS2")})
        /\ Len(c) = 3 /\ c[1] = SYS("synch") /\ c[2] = V(endp2) /\ c[3] = SYS("SYS2")
    OBVIOUS
  <2> HIDE DEF c
  <2>2. \A i \in 1..3 : i # 2 => Plain("p2", c[i])
    BY <2>1, PlainInstructions
  <2>3. Piece("p2", c)
    BY <2>1, <2>2, MostlyPlain DEF IsSequence
  <2> QED
    BY <2>3 DEF c
<1>5. Piece("p2", <<V(sArr), Wait(sArr), SYS("zero")>>)
  <2> DEFINE c == <<V(sArr), Wait(sArr), SYS("zero")>>
  <2>1. /\ c \in Seq({V(sArr), Wait(sArr), SYS("zero")})
        /\ Len(c) = 3 /\ c[1] = V(sArr) /\ c[2] = Wait(sArr) /\ c[3] = SYS("zero")
        /\ 2 - 1 = 1 /\ 3 - 1 = 2
    OBVIOUS
  <2>2. /\ Fits("p2", V(sArr)) /\ Fits("p2", Wait(sArr)) /\ Plain("p2", SYS("zero"))
        /\ V(sArr).do = "V" /\ V(sArr) \notin {V(term_mut), V(endp2), Wait(sArr)}
        /\ Wait(sArr).do = "P" /\ Wait(sArr) \notin {V(term_mut), V(endp2), V(sArr)}
    BY PlainInstructions, SemaphoresDiffer DEF Fits, V, Wait, I
  <2> HIDE DEF c
  <2>3. Follows("p2", c, 1) /\ Follows("p2", c, 2) /\ Follows("p2", c, 3)
    BY <2>1, <2>2 DEF Follows, Plain
  <2>4. \A i \in 1..3 : i = 1 \/ i = 2 \/ i = 3
    OBVIOUS
  <2>5. Piece("p2", c)
    BY <2>1, <2>2, <2>3, <2>4 DEF Piece, IsSequence, Plain
  <2> QED
    BY <2>5 DEF c
<1> QED
  BY <1>1, <1>2, <1>3, <1>4, <1>5

(* The last instruction of each program.                                   *)
LastOf(f) ==
  CASE f = "p5prog" -> I("LDST", "Pgm")
    [] f = "p5mm" -> I("LDST", "TLB")
    [] f = "p5sys" -> I("LDST", "Sys")
    [] OTHER -> SYS("error")

(* The sixth instruction is the only one that creates p2.                  *)
CreatesOnce(c) == \A i \in 1..Len(c) : c[i].do = "create" /\ c[i].arg = "p2" => i = 6

(* What a concatenation is.                                                *)
LEMMA Joined ==
  ASSUME NEW S, NEW c \in Seq(S), NEW d \in Seq(S)
  PROVE  /\ c \o d \in Seq(S)
         /\ Len(c \o d) = Len(c) + Len(d)
         /\ \A i \in 1..Len(c) : (c \o d)[i] = c[i]
OBVIOUS

(* A piece that is of no program in particular creates no p2.              *)
LEMMA OnceJoins ==
  ASSUME NEW c, NEW d, Piece("p1", c), CreatesOnce(c), Piece("none", d)
  PROVE  Piece("p1", c \o d) /\ CreatesOnce(c \o d)
<1>1. PICK S : c \in Seq(S) /\ d \in Seq(S)
  <2>1. PICK S, T : c \in Seq(S) /\ d \in Seq(T)
    BY DEF Piece, IsSequence
  <2>2. c \in Seq(S \cup T) /\ d \in Seq(S \cup T)
    BY <2>1, SeqMonotone
  <2> QED
    BY <2>2
<1>2. \A i \in 1..Len(c \o d) :
        \/ i \in 1..Len(c) /\ (c \o d)[i] = c[i]
        \/ i - Len(c) \in 1..Len(d) /\ (c \o d)[i] = d[i - Len(c)]
  BY <1>1
<1>3. \A i \in 1..Len(d) : ~(d[i].do = "create" /\ d[i].arg = "p2")
  BY DEF Piece, Follows, Fits
<1>4. CreatesOnce(c \o d)
  BY <1>2, <1>3 DEF CreatesOnce
<1> QED
  BY <1>4, PieceFits, PiecesJoin

(* p1 is an orderly program, and creates p2 once.                          *)
LEMMA TestPiece == Orderly("p1", test, SYS("error")) /\ CreatesOnce(test)
<1> DEFINE roots == [i \in 1..(2 * Incarnations) |->
                       IF i % 2 = 1 THEN Create("p8root") ELSE Wait(endp8)]
           a == <<V(testsem)>> \o print \o <<Create("p2")>>
           b == a \o print \o <<V(startp2), Wait(endp2), SYS("synched"), Create("p3")>> \o print
           c == b \o <<Wait(endp3), Create("p4"), Create("p5"), Create("p6"), Create("p7"),
                       Wait(endp5)>> \o print \o <<Wait(blkp4)>>
           d == c \o roots \o print
           e == <<Trap("Pgm", "address")>>
<1>1. Piece("p1", a) /\ CreatesOnce(a)
  <2> DEFINE v == <<V(testsem)>>
             x == <<Create("p2")>>
  <2>1. Piece("none", v) /\ Piece("p1", x)
    <3>1. Plain("none", V(testsem)) /\ Plain("p1", Create("p2"))
      BY PlainInstructions
    <3> QED
      BY <3>1, PlainTuples
  <2>2. PICK S : v \in Seq(S) /\ x \in Seq(S) /\ print \in Seq(S)
    <3> DEFINE T == {V(testsem), Wait(term_mut), SYS("start"), SYS("SYS8"), V(term_mut),
                     Create("p2")}
    <3>1. v \in Seq(T) /\ x \in Seq(T) /\ print \in Seq(T)
      BY DEF print
    <3> QED
      BY <3>1
  <2>3. Len(v) = 1 /\ Len(x) = 1 /\ Len(print) = 4
    BY DEF print
  <2> HIDE DEF v, x
  <2> DEFINE o == v \o print
  <2>4. o \in Seq(S) /\ Len(o) = Len(v) + Len(print) /\ Piece("none", o)
    BY <2>1, <2>2, Joined, PrintPiece, PiecesJoin
  <2> HIDE DEF o
  <2>5. Piece("p1", o \o x)
    BY <2>1, <2>4, PieceFits, PiecesJoin
  <2>6. \A i \in 1..5 : ~(o[i].do = "create" /\ o[i].arg = "p2")
    BY <2>3, <2>4 DEF Piece, Follows, Fits
  <2>7. Len(o \o x) = 6 /\ \A i \in 1..5 : (o \o x)[i] = o[i]
    <3>1. Len(o \o x) = Len(o) + Len(x) /\ \A i \in 1..Len(o) : (o \o x)[i] = o[i]
      BY <2>2, <2>4, Joined
    <3> QED
      BY <2>3, <2>4, <3>1
  <2>8. \A i \in 1..6 : i = 6 \/ i \in 1..5
    OBVIOUS
  <2>9. CreatesOnce(o \o x)
    BY <2>6, <2>7, <2>8 DEF CreatesOnce
  <2> QED
    BY <2>5, <2>9 DEF o, v, x
<1>2. Piece("p1", b) /\ CreatesOnce(b)
  <2> HIDE DEF a
  <2>1. Piece("none", <<V(startp2), Wait(endp2), SYS("synched"), Create("p3")>>)
    BY OrderedPieces
  <2>2. Piece("p1", a \o print) /\ CreatesOnce(a \o print)
    BY <1>1, PrintPiece, OnceJoins
  <2> DEFINE f == a \o print
             g == <<V(startp2), Wait(endp2), SYS("synched"), Create("p3")>>
  <2> HIDE DEF f, g
  <2>3. Piece("p1", f \o g) /\ CreatesOnce(f \o g)
    BY <2>1, <2>2, OnceJoins DEF f, g
  <2>4. Piece("p1", (f \o g) \o print) /\ CreatesOnce((f \o g) \o print)
    BY <2>3, PrintPiece, OnceJoins
  <2> QED
    BY <2>4 DEF f, g
<1>3. Piece("p1", c) /\ CreatesOnce(c)
  <2> HIDE DEF b
  <2> DEFINE g == <<Wait(endp3), Create("p4"), Create("p5"), Create("p6"), Create("p7"),
                    Wait(endp5)>>
             h == <<Wait(blkp4)>>
  <2>1. Piece("none", g) /\ Piece("none", h)
    <3>1. /\ Plain("none", Wait(endp3)) /\ Plain("none", Create("p4"))
          /\ Plain("none", Create("p5")) /\ Plain("none", Create("p6"))
          /\ Plain("none", Create("p7")) /\ Plain("none", Wait(endp5))
          /\ Plain("none", Wait(blkp4))
      BY PlainInstructions
    <3> QED
      BY <3>1, PlainTuples
  <2> HIDE DEF g, h
  <2>2. Piece("p1", b \o g) /\ CreatesOnce(b \o g)
    BY <1>2, <2>1, OnceJoins
  <2>3. Piece("p1", (b \o g) \o print) /\ CreatesOnce((b \o g) \o print)
    BY <2>2, PrintPiece, OnceJoins
  <2>4. Piece("p1", ((b \o g) \o print) \o h) /\ CreatesOnce(((b \o g) \o print) \o h)
    BY <2>1, <2>3, OnceJoins
  <2> QED
    BY <2>4 DEF g, h
<1>4. Piece("p1", d) /\ CreatesOnce(d)
  <2> HIDE DEF c
  <2>1. Piece("none", roots)
    <3>1. /\ 2 * Incarnations \in Nat
          /\ roots \in [1..(2 * Incarnations) -> {Create("p8root"), Wait(endp8)}]
      BY TestScope
    <3>2. \A i \in {Create("p8root"), Wait(endp8)} : Plain("none", i)
      BY PlainInstructions
    <3> HIDE DEF roots
    <3> QED
      BY <3>1, <3>2, PlainFunction
  <2> HIDE DEF roots
  <2>2. Piece("p1", c \o roots) /\ CreatesOnce(c \o roots)
    BY <1>3, <2>1, OnceJoins
  <2> QED
    BY <2>2, PrintPiece, OnceJoins
<1>5. Piece("none", e) /\ Len(e) = 1 /\ e[1] = Trap("Pgm", "address") /\ Final("p1", e[1])
  BY PlainInstructions, PlainTuples DEF Final, Trap
<1>6. test = (d \o e) \o <<SYS("error")>>
  BY DEF test, Error
<1> HIDE DEF d, e
<1>7. Piece("p1", e)
  BY <1>5, PieceFits
<1>8. Orderly("p1", (d \o e) \o <<SYS("error")>>, SYS("error"))
  BY <1>4, <1>5, <1>7, ErrorEnds
<1>9. CreatesOnce((d \o e) \o <<SYS("error")>>)
  <2>1. CreatesOnce(d \o e) /\ Piece("p1", d \o e)
    BY <1>4, <1>5, OnceJoins
  <2> DEFINE x == d \o e
  <2> HIDE DEF x
  <2>2. PICK S : x \in Seq(S)
    BY <2>1 DEF x, Piece, IsSequence
  <2>3. x \in Seq(S \cup {SYS("error")})
    BY <2>2, SeqMonotone
  <2>4. SYS("error").do # "create"
    BY DEF SYS, I
  <2>5. CreatesOnce(x \o <<SYS("error")>>)
    BY <2>1, <2>3, <2>4 DEF x, CreatesOnce
  <2> QED
    BY <2>5 DEF x
<1> QED
  BY <1>6, <1>8, <1>9

(* The other programs that end in an error.                                *)
LEMMA OtherPrograms ==
  /\ Orderly("p2", p2, SYS("error")) /\ Orderly("p3", p3, SYS("error"))
  /\ Orderly("p4", p4, SYS("error")) /\ Orderly("p5", p5, SYS("error"))
  /\ Orderly("p5a", p5a, SYS("error")) /\ Orderly("p5b", p5b, SYS("error"))
  /\ Orderly("p6", p6, SYS("error")) /\ Orderly("p7", p7, SYS("error"))
  /\ Orderly("p8root", p8root, SYS("error"))
<1>1. SYS("error").do = "error" /\ \A f : Piece(f, print)
  BY PrintPiece DEF SYS, I
<1>2. Orderly("p2", p2, SYS("error"))
  <2> DEFINE w == <<Wait(startp2)>>
             s == <<V(sArr), Wait(sArr), SYS("zero")>>
             d == <<SYS("synch"), V(endp2), SYS("SYS2")>>
             c == w \o print \o s \o print \o print
  <2>1. Piece("p2", w) /\ Piece("p2", s) /\ Piece("p2", d)
    <3>1. Plain("p2", Wait(startp2))
      BY PlainInstructions
    <3> QED
      BY <3>1, PlainTuples, OrderedPieces
  <2>2. Len(d) > 0 /\ Final("p2", d[Len(d)])
    BY DEF Final, SYS, I
  <2>3. p2 = (c \o d) \o <<SYS("error")>>
    BY DEF p2, Error
  <2> HIDE DEF w, s, d
  <2>4. Piece("p2", c)
    BY <1>1, <2>1, PiecesJoin
  <2> HIDE DEF c
  <2> QED
    BY <2>1, <2>2, <2>3, <2>4, ErrorEnds
<1>3. Orderly("p3", p3, SYS("error"))
  <2> DEFINE w == <<SYS("SYS7"), SYS("again")>>
             s == <<SYS("SYS7")>>
             d == <<V(endp3), SYS("SYS2")>>
             c == w \o print \o s \o print
  <2>1. Piece("p3", w) /\ Piece("p3", s) /\ Piece("p3", d)
    <3>1. Plain("p3", SYS("SYS7")) /\ Plain("p3", V(endp3)) /\ Plain("p3", SYS("SYS2"))
      BY PlainInstructions
    <3> QED
      BY <3>1, PlainTuples, OrderedPieces
  <2>2. Len(d) > 0 /\ Final("p3", d[Len(d)])
    BY DEF Final, SYS, I
  <2>3. p3 = (c \o d) \o <<SYS("error")>>
    BY DEF p3, Error
  <2> HIDE DEF w, s, d
  <2>4. Piece("p3", c)
    BY <1>1, <2>1, PiecesJoin
  <2> HIDE DEF c
  <2> QED
    BY <2>1, <2>2, <2>3, <2>4, ErrorEnds
<1>4. Orderly("p4", p4, SYS("error"))
  <2> DEFINE s == <<V(synp4), Wait(blkp4), Wait(synp4), Create("p4"), Wait(synp4)>>
             d == <<V(endp4), SYS("SYS2")>>
             c == print \o s \o print
  <2>1. Piece("p4", s) /\ Piece("p4", d)
    <3>1. /\ Plain("p4", V(synp4)) /\ Plain("p4", Wait(blkp4)) /\ Plain("p4", Wait(synp4))
          /\ Plain("p4", Create("p4")) /\ Plain("p4", V(endp4)) /\ Plain("p4", SYS("SYS2"))
      BY PlainInstructions
    <3> QED
      BY <3>1, PlainTuples
  <2>2. Len(d) > 0 /\ Final("p4", d[Len(d)])
    BY DEF Final, SYS, I
  <2>3. p4 = (c \o d) \o <<SYS("error")>>
    BY DEF p4, Error
  <2> HIDE DEF s, d
  <2>4. Piece("p4", c)
    BY <1>1, <2>1, PiecesJoin
  <2> HIDE DEF c
  <2> QED
    BY <2>1, <2>2, <2>3, <2>4, ErrorEnds
<1>5. Orderly("p5", p5, SYS("error"))
  <2> DEFINE d == <<I("SYS5", "Pgm"), I("SYS5", "TLB"), I("SYS5", "Sys"), Trap("Pgm", "bus")>>
  <2>1. Piece("p5", d)
    <3>1. /\ Plain("p5", I("SYS5", "Pgm")) /\ Plain("p5", I("SYS5", "TLB"))
          /\ Plain("p5", I("SYS5", "Sys")) /\ Plain("p5", Trap("Pgm", "bus"))
      BY PlainInstructions
    <3> QED
      BY <3>1, PlainTuples
  <2>2. Len(d) > 0 /\ Final("p5", d[Len(d)])
    BY DEF Final, Trap
  <2>3. p5 = (print \o d) \o <<SYS("error")>>
    BY DEF p5, Error
  <2> HIDE DEF d
  <2> QED
    BY <1>1, <2>1, <2>2, <2>3, ErrorEnds
<1>6. Orderly("p5a", p5a, SYS("error"))
  <2> DEFINE d == <<Trap("TLB", "tlb")>>
  <2>1. Piece("p5a", d)
    <3>1. Plain("p5a", Trap("TLB", "tlb"))
      BY PlainInstructions
    <3> QED
      BY <3>1, PlainTuples
  <2>2. Len(d) > 0 /\ Final("p5a", d[Len(d)])
    BY DEF Final, Trap
  <2>3. p5a = d \o <<SYS("error")>>
    BY DEF p5a, Error
  <2> HIDE DEF d
  <2> QED
    BY <1>1, <2>1, <2>2, <2>3, PieceEnds
<1>7. Orderly("p5b", p5b, SYS("error"))
  <2> DEFINE d == <<Trap("Sys", "sys"), Wait(endp4), SYS("SYS7"), SYS("again"), V(blkp4),
                    V(endp5), I("SYS5", "Pgm")>>
  <2>1. Piece("p5b", d)
    BY OrderedPieces
  <2>2. Len(d) > 0 /\ Final("p5b", d[Len(d)])
    BY DEF Final
  <2>3. p5b = d \o <<SYS("error")>>
    BY DEF p5b, Error
  <2> HIDE DEF d
  <2> QED
    BY <1>1, <2>1, <2>2, <2>3, PieceEnds
<1>8. Orderly("p6", p6, SYS("error"))
  <2> DEFINE d == <<Trap("Sys", "sys")>>
  <2>1. Piece("p6", d)
    <3>1. Plain("p6", Trap("Sys", "sys"))
      BY PlainInstructions
    <3> QED
      BY <3>1, PlainTuples
  <2>2. Len(d) > 0 /\ Final("p6", d[Len(d)])
    BY DEF Final, Trap
  <2>3. p6 = (print \o d) \o <<SYS("error")>>
    BY DEF p6, Error
  <2> HIDE DEF d
  <2> QED
    BY <1>1, <2>1, <2>2, <2>3, ErrorEnds
<1>9. Orderly("p7", p7, SYS("error"))
  <2> DEFINE d == <<Trap("Pgm", "address")>>
  <2>1. Piece("p7", d)
    <3>1. Plain("p7", Trap("Pgm", "address"))
      BY PlainInstructions
    <3> QED
      BY <3>1, PlainTuples
  <2>2. Len(d) > 0 /\ Final("p7", d[Len(d)])
    BY DEF Final, Trap
  <2>3. p7 = (print \o d) \o <<SYS("error")>>
    BY DEF p7, Error
  <2> HIDE DEF d
  <2> QED
    BY <1>1, <2>1, <2>2, <2>3, ErrorEnds
<1>10. Orderly("p8root", p8root, SYS("error"))
  <2> DEFINE s == <<Create("child1"), Create("child2")>>
             w == [i \in 1..NOLEAVES |-> Wait(endcreate)]
             d == <<V(endp8), SYS("SYS2")>>
             c == print \o s \o w
  <2>1. Piece("p8root", s) /\ Piece("p8root", w) /\ Piece("p8root", d)
    <3>1. /\ Plain("p8root", Create("child1")) /\ Plain("p8root", Create("child2"))
          /\ Plain("p8root", Wait(endcreate))
          /\ Plain("p8root", V(endp8)) /\ Plain("p8root", SYS("SYS2"))
      BY PlainInstructions
    <3>2. w \in [1..4 -> {Wait(endcreate)}]
      BY DEF NOLEAVES
    <3> HIDE DEF w
    <3>3. Piece("p8root", w)
      BY <3>1, <3>2, PlainFunction
    <3> QED
      BY <3>1, <3>3, PlainTuples
  <2>2. Len(d) > 0 /\ Final("p8root", d[Len(d)])
    BY DEF Final, SYS, I
  <2>3. p8root = (c \o d) \o <<SYS("error")>>
    BY DEF p8root, Error
  <2> HIDE DEF s, w, d
  <2>4. Piece("p8root", c)
    BY <1>1, <2>1, PiecesJoin
  <2> HIDE DEF c
  <2> QED
    BY <2>1, <2>2, <2>3, <2>4, ErrorEnds
<1> QED
  BY <1>2, <1>3, <1>4, <1>5, <1>6, <1>7, <1>8, <1>9, <1>10

(* The descendants of p8root: they block for good, or so they hope.        *)
LEMMA ChildPrograms ==
  /\ Orderly("child1", child1, SYS("error")) /\ Orderly("child2", child2, SYS("error"))
  /\ Orderly("p8leaf", p8leaf, SYS("error"))
<1> DEFINE d == <<Create("p8leaf"), Create("p8leaf"), Wait(blkp8)>>
           e == <<V(endcreate), Wait(blkp8)>>
<1>1. /\ \A f \in {"child1", "child2"} : Piece(f, d) /\ Final(f, d[Len(d)])
      /\ Piece("p8leaf", e) /\ Final("p8leaf", e[Len(e)])
      /\ Len(d) > 0 /\ Len(e) > 0
  <2>1. \A f : /\ Plain(f, Create("p8leaf")) /\ Plain(f, Wait(blkp8)) /\ Plain(f, V(endcreate))
               /\ f # "p5b" => Final(f, Wait(blkp8))
    BY PlainInstructions DEF Final
  <2>2. \A f : Piece(f, d) /\ Piece(f, e)
    BY <2>1, PlainTuples
  <2>3. Len(d) = 3 /\ d[3] = Wait(blkp8) /\ Len(e) = 2 /\ e[2] = Wait(blkp8)
    OBVIOUS
  <2> HIDE DEF d, e
  <2> QED
    BY <2>1, <2>2, <2>3
<1>2. /\ child1 = (print \o d) \o <<SYS("error")>>
      /\ child2 = (print \o d) \o <<SYS("error")>>
      /\ p8leaf = (print \o e) \o <<SYS("error")>>
  BY DEF child1, child2, p8leaf, Error
<1> HIDE DEF d, e
<1> QED
  BY <1>1, <1>2, PrintPiece, ErrorEnds

(* The handlers of p5 end in their return.                                 *)
LEMMA HandlerPrograms ==
  /\ Orderly("p5prog", p5prog, I("LDST", "Pgm"))
  /\ Orderly("p5mm", p5mm, I("LDST", "TLB"))
  /\ Orderly("p5sys", p5sys, I("LDST", "Sys"))
<1>1. ASSUME NEW f, NEW x PROVE Orderly(f, print \o <<I("LDST", x)>>, I("LDST", x))
  <2>1. I("LDST", x).do = "LDST"
    BY DEF I
  <2> QED
    BY <2>1, PrintPiece, PieceEnds
<1> QED
  BY <1>1 DEF p5prog, p5mm, p5sys

(* Every program is orderly.                                               *)
LEMMA CodeOrderly == \A f \in DOMAIN Code : Orderly(f, Code[f], LastOf(f))
<1>1. Orderly("none", Code["none"], SYS("error"))
  <2>1. Error \in Seq({SYS("error")}) /\ Len(Error) = 1 /\ Error[1] = SYS("error")
    BY DEF Error
  <2>2. SYS("error").do = "error" /\ SYS("error") \notin {V(term_mut), V(endp2), Wait(sArr)}
    BY DEF SYS, I, V, Wait
  <2>3. IsSequence(Error)
    BY <2>1 DEF IsSequence
  <2>4. Follows("none", Error, 1)
    BY <2>1, <2>2 DEF Follows, Fits
  <2>5. Code["none"] = Error
    BY DEF Code
  <2>6. \A i \in 1..1 : i = 1
    OBVIOUS
  <2>7. Orderly("none", Error, SYS("error"))
    BY <2>1, <2>2, <2>3, <2>4, <2>6 DEF Orderly
  <2> QED
    BY <2>5, <2>7
<1>2. SUFFICES ASSUME NEW f \in DOMAIN Code
               PROVE  Orderly(f, Code[f], LastOf(f))
  OBVIOUS
<1>3. f \in {"p1", "p2", "p3", "p4", "p5", "p5a", "p5b", "p5prog", "p5mm", "p5sys", "p6", "p7",
             "p8root", "child1", "child2", "p8leaf", "none"}
  BY DEF Code
<1> QED
  BY <1>1, <1>3, TestPiece, OtherPrograms, ChildPrograms, HandlerPrograms DEF Code, LastOf

(* The processor states are at an instruction of a program.                *)
States == {s \in [prog : DOMAIN Code, at : Nat, user : BOOLEAN] : s.at \in 1..Len(Code[s.prog])}

(* The instruction at which a processor state is.                          *)
Does(s) == Code[s.prog][s.at]

(* The instructions that need nothing of what comes before them.           *)
Entry(i) ==
  /\ ~Terminal(i)
  /\ i.do \notin {"synched", "error"}
  /\ i \notin {V(endp2), Wait(sArr)}

(* A state is inside an orderly program.                                   *)
LEMMA StatePlace ==
  ASSUME NEW s \in States
  PROVE  /\ s \in [prog : DOMAIN Code, at : Nat, user : BOOLEAN]
         /\ s.prog \in DOMAIN Code /\ s.at \in 1..Len(Code[s.prog])
         /\ Len(Code[s.prog]) \in Nat
         /\ Orderly(s.prog, Code[s.prog], LastOf(s.prog))
         /\ Follows(s.prog, Code[s.prog], s.at)
         /\ Fits(s.prog, Does(s))
<1>1. /\ s \in [prog : DOMAIN Code, at : Nat, user : BOOLEAN]
      /\ s.prog \in DOMAIN Code /\ s.at \in 1..Len(Code[s.prog])
  BY DEF States
<1>2. Orderly(s.prog, Code[s.prog], LastOf(s.prog))
  BY <1>1, CodeOrderly
<1>3. Len(Code[s.prog]) \in Nat /\ Follows(s.prog, Code[s.prog], s.at)
  BY <1>1, <1>2 DEF Orderly, IsSequence
<1> QED
  BY <1>1, <1>2, <1>3 DEF Follows, Does

(* A program and its next instruction.                                     *)
LEMMA NextInstruction ==
  ASSUME NEW s \in States, Does(s).do \notin {"error", "LDST"}
  PROVE  LET n == [s EXCEPT !.at = @ + 1] IN
         /\ n \in States
         /\ n.prog = s.prog /\ n.at = s.at + 1
         /\ Does(n).do = "start" => Does(s) = Wait(term_mut)
         /\ Does(n).do = "SYS8" => Does(s).do = "start"
         /\ Does(n) = V(term_mut) => Does(s).do = "SYS8"
         /\ Does(n).do = "synched" => Does(s) = Wait(endp2)
         /\ Does(n) = V(endp2) => Does(s).do = "synch"
         /\ Does(n) = Wait(sArr) <=> Does(s) = V(sArr)
         /\ Does(n).do = "error" => Final(s.prog, Does(s))
<1> DEFINE n == [s EXCEPT !.at = @ + 1]
           c == Code[s.prog]
<1>1. /\ s.prog \in DOMAIN Code /\ s.at \in 1..Len(c) /\ Len(c) \in Nat
      /\ n \in [prog : DOMAIN Code, at : Nat, user : BOOLEAN]
      /\ n.prog = s.prog /\ n.at = s.at + 1
      /\ Orderly(s.prog, c, LastOf(s.prog))
  BY StatePlace
<1>2. /\ c[Len(c)] = LastOf(s.prog)
      /\ LastOf(s.prog).do \in {"error", "LDST"}
      /\ \A i \in 1..Len(c) : Follows(s.prog, c, i)
      /\ \A i \in 1..Len(c) : c[i].do = "error" => i = Len(c)
      /\ LastOf(s.prog).do = "error" /\ s.prog # "none" => Final(s.prog, c[Len(c) - 1])
  BY <1>1 DEF Orderly
<1>3. n.at \in 1..Len(c)
  BY <1>1, <1>2 DEF Does
<1>4. n.at - 1 = s.at
  BY <1>1
<1>5. n \in States /\ Does(n) = c[n.at] /\ Does(s) = c[n.at - 1]
  BY <1>1, <1>3, <1>4 DEF States, Does
<1>6. Follows(s.prog, c, n.at) /\ n.at > 1
  BY <1>1, <1>2, <1>3
<1>7. s.prog # "none"
  <2>1. Code["none"] = Error /\ Len(Error) = 1 /\ Error[1] = SYS("error")
    BY DEF Code, Error
  <2>2. \A i \in 1..1 : i = 1
    OBVIOUS
  <2>3. s.prog = "none" => Does(s) = SYS("error")
    BY <1>1, <2>1, <2>2 DEF Does
  <2> QED
    BY <2>3 DEF SYS, I
<1>8. Does(n).do = "error" => Final(s.prog, Does(s))
  <2>1. SUFFICES ASSUME Does(n).do = "error" PROVE Final(s.prog, Does(s))
    OBVIOUS
  <2>2. n.at = Len(c) /\ LastOf(s.prog).do = "error"
    BY <1>2, <1>3, <1>5, <2>1
  <2> QED
    BY <1>2, <1>5, <1>7, <2>2
<1> HIDE DEF n, c
<1>9. /\ Does(n).do = "start" => Does(s) = Wait(term_mut)
      /\ Does(n).do = "SYS8" => Does(s).do = "start"
      /\ Does(n) = V(term_mut) => Does(s).do = "SYS8"
      /\ Does(n).do = "synched" => Does(s) = Wait(endp2)
      /\ Does(n) = V(endp2) => Does(s).do = "synch"
      /\ Does(n) = Wait(sArr) <=> Does(s) = V(sArr)
  BY <1>5, <1>6 DEF Follows
<1> QED
  BY <1>1, <1>5, <1>8, <1>9 DEF n

(* The other places a program goes to.                                     *)
LEMMA OtherPlaces ==
  ASSUME NEW s \in States
  PROVE  /\ Does(s).do = "again" =>
              LET b == [s EXCEPT !.at = @ - 1] IN
              b \in States /\ b.prog = s.prog /\ Entry(Does(b)) /\ s.prog \in {"p3", "p5b"}
         /\ LET e == [s EXCEPT !.at = Len(Code[s.prog])] IN
              e \in States /\ e.prog = s.prog /\ ~Terminal(Does(e))
         /\ Does(s).do = "create" =>
              /\ Does(s).arg \in Started
              /\ Does(s).arg = "p2" => s.prog = "p1" /\ s.at = 6
         /\ Does(s).do = "V" => Does(s) = V(Does(s).arg)
         /\ Does(s).do = "LDST" => /\ Does(s).arg \in TrapTypes
                                   /\ Does(s).arg = "Sys" => s.prog = "p5sys"
                                   /\ s.prog \in {"p5prog", "p5mm", "p5sys"}
         /\ \A f \in DOMAIN Code \ {"none"} : \A u \in BOOLEAN :
              At(f, u) \in States /\ At(f, u).prog = f /\ Entry(Does(At(f, u)))
<1> DEFINE c == Code[s.prog]
<1>1. /\ s \in [prog : DOMAIN Code, at : Nat, user : BOOLEAN]
      /\ s.prog \in DOMAIN Code /\ s.at \in 1..Len(c)
      /\ Orderly(s.prog, c, LastOf(s.prog))
      /\ Follows(s.prog, c, s.at)
      /\ Fits(s.prog, Does(s))
      /\ Len(c) \in Nat
  BY StatePlace
<1>3. ASSUME Does(s).do = "again"
      PROVE  LET b == [s EXCEPT !.at = @ - 1] IN
             b \in States /\ b.prog = s.prog /\ Entry(Does(b)) /\ s.prog \in {"p3", "p5b"}
  <2> DEFINE b == [s EXCEPT !.at = @ - 1]
  <2>1. s.at > 1 /\ c[s.at - 1].do = "SYS7" /\ s.prog \in {"p3", "p5b"}
    BY <1>1, <1>3 DEF Follows, Does, Fits
  <2>2. b \in States /\ b.prog = s.prog /\ b.at = s.at - 1
    BY <1>1, <2>1 DEF States
  <2>3. Does(b).do = "SYS7"
    BY <2>1, <2>2 DEF Does
  <2> HIDE DEF b
  <2>4. Entry(Does(b))
    BY <2>3 DEF Entry, Terminal, V, Wait, I
  <2> QED
    BY <2>1, <2>2, <2>4 DEF b
<1>4. LET e == [s EXCEPT !.at = Len(c)] IN
        e \in States /\ e.prog = s.prog /\ ~Terminal(Does(e))
  <2> DEFINE e == [s EXCEPT !.at = Len(c)]
  <2>1. e \in States /\ e.prog = s.prog /\ e.at = Len(c)
    BY <1>1 DEF States, Orderly
  <2>2. Does(e).do \in {"error", "LDST"}
    BY <1>1, <2>1 DEF Does, Orderly
  <2> QED
    BY <2>1, <2>2 DEF Terminal, V, I
<1>5. ASSUME Does(s).do = "create"
      PROVE  Does(s).arg \in Started /\ (Does(s).arg = "p2" => s.prog = "p1" /\ s.at = 6)
  <2>1. Does(s).arg \in Started /\ (Does(s).arg = "p2" => s.prog = "p1")
    BY <1>1, <1>5 DEF Fits
  <2>2. Code["p1"] = test /\ CreatesOnce(test)
    BY TestPiece DEF Code
  <2> QED
    BY <1>1, <1>5, <2>1, <2>2 DEF CreatesOnce, Does
<1>6. ASSUME Does(s).do = "LDST"
      PROVE  /\ Does(s).arg \in TrapTypes /\ (Does(s).arg = "Sys" => s.prog = "p5sys")
             /\ s.prog \in {"p5prog", "p5mm", "p5sys"}
  <2>1. Does(s) = LastOf(s.prog)
    BY <1>1, <1>6 DEF Orderly, Does
  <2> QED
    BY <1>6, <2>1 DEF LastOf, SYS, I, TrapTypes
<1>7. ASSUME NEW f \in DOMAIN Code \ {"none"}, NEW u \in BOOLEAN
      PROVE  At(f, u) \in States /\ At(f, u).prog = f /\ Entry(Does(At(f, u)))
  <2>1. Orderly(f, Code[f], LastOf(f))
    BY CodeOrderly
  <2>2. Len(Code[f]) \in Nat /\ 1 \in 1..Len(Code[f]) /\ Follows(f, Code[f], 1)
    BY <2>1 DEF Orderly, IsSequence
  <2>3. At(f, u) \in States /\ At(f, u).prog = f /\ Does(At(f, u)) = Code[f][1]
    BY <2>2 DEF At, States, Does
  <2>4. Code[f][1].do # "error"
    BY <2>1, <2>2 DEF Orderly
  <2> QED
    BY <2>2, <2>3, <2>4 DEF Follows, Entry, Terminal
<1> QED
  BY <1>1, <1>3, <1>4, <1>5, <1>6, <1>7 DEF Fits

-----------------------------------------------------------------------------
(* Where p1, p4 and p5b have the calls by which they depend on each other, *)
(* and p1 the one that kills it.                                           *)
Placed(f, i, x) ==
  /\ x = V(synp4) <=> f = "p4" /\ i = 5
  /\ x = Wait(blkp4) <=> (f = "p4" /\ i = 6) \/ (f = "p1" /\ i = 29)
  /\ x = Wait(synp4) <=> f = "p4" /\ i \in {7, 9}
  /\ x.do = "create" /\ x.arg = "p4" <=> (f = "p4" /\ i = 8) \/ (f = "p1" /\ i = 20)
  /\ x = V(endp4) <=> f = "p4" /\ i = 14
  /\ f = "p4" => (x.do = "SYS2" <=> i = 15) /\ x.do # "trap" /\ (x.do = "create" => i = 8)
  /\ x = Wait(endp4) <=> f = "p5b" /\ i = 2
  /\ f = "p5b" => (x.do = "SYS7" <=> i = 3) /\ (x.do = "again" <=> i = 4)
                  /\ (x.do = "trap" => i = 1)
  /\ x = V(blkp4) <=> f = "p5b" /\ i = 5
  /\ x = V(endp5) <=> f = "p5b" /\ i = 6
  /\ x = Wait(endp5) <=> f = "p1" /\ i = 24
  /\ x.do = "create" /\ x.arg = "p5" <=> f = "p1" /\ i = 21
  /\ x.do = "create" => /\ f \in {"p1", "p4", "p8root", "child1", "child2"}
                        /\ x.arg = "p8root" => f = "p1" /\ i > 29
                        /\ x.arg \in {"child1", "child2"} => f = "p8root"
  /\ f = "p1" => x.do # "SYS2" /\ (x.do = "trap" => i > 29)

(* The n instructions of c are in place behind k others of f.              *)
InPlace(f, k, c, n) ==
  IsSequence(c) /\ Len(c) = n /\ \A i \in 1..n : Placed(f, k + i, c[i])

(* What is in place can be joined.                                         *)
LEMMA InPlaceJoins ==
  ASSUME NEW f, NEW k \in Nat, NEW c, NEW m \in Nat, InPlace(f, k, c, m),
         NEW j \in Nat, NEW d, NEW n \in Nat, InPlace(f, j, d, n), j = k + m,
         NEW l \in Nat, l = m + n
  PROVE  InPlace(f, k, c \o d, l)
<1>1. PICK S : c \in Seq(S) /\ d \in Seq(S)
  <2>1. PICK S, T : c \in Seq(S) /\ d \in Seq(T)
    BY DEF InPlace, IsSequence
  <2>2. c \in Seq(S \cup T) /\ d \in Seq(S \cup T)
    BY <2>1, SeqMonotone
  <2> QED
    BY <2>2
<1>2. Len(c) = m /\ Len(d) = n
  BY DEF InPlace
<1>3. c \o d \in Seq(S) /\ Len(c \o d) = l
  BY <1>1, <1>2
<1>4. ASSUME NEW i \in 1..l
      PROVE  Placed(f, k + i, (c \o d)[i])
  <2>1. CASE i <= m
    <3>1. i \in 1..m /\ (c \o d)[i] = c[i]
      BY <1>1, <1>2, <2>1
    <3> QED
      BY <3>1 DEF InPlace
  <2>2. CASE i > m
    <3> DEFINE e == i - m
    <3>1. e \in 1..n /\ (c \o d)[i] = d[e] /\ j + e = k + i
      BY <1>1, <1>2, <2>2
    <3>2. Placed(f, j + e, d[e])
      BY <3>1 DEF InPlace
    <3> QED
      BY <3>1, <3>2
  <2>3. i <= m \/ i > m
    OBVIOUS
  <2> QED
    BY <2>1, <2>2, <2>3
<1> QED
  BY <1>3, <1>4 DEF InPlace, IsSequence

(* The places that ask for a call.                                         *)
Asked(f, i) ==
  \/ f = "p4" /\ i \in {5, 6, 7, 8, 9, 14, 15}
  \/ f = "p1" /\ i \in {20, 21, 24, 29}
  \/ f = "p5b" /\ i \in {2, 3, 4, 5, 6}

(* The semaphores of p4 and p5.                                            *)
LEMMA FourApart ==
  /\ {synp4, blkp4, endp4, endp5} \cap {term_mut, sArr, testsem, startp2, endp2, endp3,
                                         endp8, endcreate, blkp8} = {}
  /\ synp4 \notin {blkp4, endp4, endp5} /\ blkp4 \notin {endp4, endp5} /\ endp4 # endp5
  /\ {synp4, blkp4, endp4, endp5} \subseteq Sems
<1>1. {synp4, blkp4, endp4, endp5} \subseteq Sems
  BY TestSemaphores
<1> QED
  BY <1>1, NamesApart

(* The calls that may be at any other place.                               *)
LEMMA AnyPlace ==
  ASSUME NEW f, NEW i, ~Asked(f, i)
  PROVE  /\ \A s \in {term_mut, sArr, testsem, startp2, endp2, endp3, endp8, endcreate, blkp8} :
              Placed(f, i, V(s)) /\ Placed(f, i, Wait(s))
         /\ \A n \in {"start", "SYS8", "synch", "synched", "zero", "error"} : Placed(f, i, SYS(n))
         /\ \A x : Placed(f, i, I("SYS5", x)) /\ Placed(f, i, I("LDST", x))
         /\ f \notin {"p1", "p4"} => Placed(f, i, SYS("SYS2"))
         /\ f # "p5b" => Placed(f, i, SYS("SYS7")) /\ Placed(f, i, SYS("again"))
         /\ f \notin {"p1", "p4", "p5b"} => \A t, c : Placed(f, i, Trap(t, c))
         /\ f = "p1" => \A g \in {"p2", "p3", "p6", "p7"} : Placed(f, i, Create(g))
         /\ f = "p8root" => \A g \in {"child1", "child2"} : Placed(f, i, Create(g))
         /\ f \in {"child1", "child2"} => Placed(f, i, Create("p8leaf"))
<1>1. ASSUME NEW s \in {term_mut, sArr, testsem, startp2, endp2, endp3, endp8, endcreate, blkp8}
      PROVE  Placed(f, i, V(s)) /\ Placed(f, i, Wait(s))
  <2>1. s \notin {synp4, blkp4, endp4, endp5}
    BY <1>1, FourApart
  <2> QED
    BY <2>1 DEF Placed, Asked, V, Wait, I
<1>2. /\ \A n \in {"start", "SYS8", "synch", "synched", "zero", "error"} : Placed(f, i, SYS(n))
      /\ f \notin {"p1", "p4"} => Placed(f, i, SYS("SYS2"))
      /\ f # "p5b" => Placed(f, i, SYS("SYS7")) /\ Placed(f, i, SYS("again"))
  BY DEF Placed, Asked, V, Wait, I, SYS
<1>3. \A x : Placed(f, i, I("SYS5", x)) /\ Placed(f, i, I("LDST", x))
  BY DEF Placed, Asked, V, Wait, I
<1>4. f \notin {"p1", "p4", "p5b"} => \A t, c : Placed(f, i, Trap(t, c))
  BY DEF Placed, Asked, V, Wait, I, Trap
<1>5. /\ f = "p1" => \A g \in {"p2", "p3", "p6", "p7"} : Placed(f, i, Create(g))
      /\ f = "p8root" => \A g \in {"child1", "child2"} : Placed(f, i, Create(g))
      /\ f \in {"child1", "child2"} => Placed(f, i, Create("p8leaf"))
  BY DEF Placed, Asked, V, Wait, I, Create
<1> QED
  BY <1>1, <1>2, <1>3, <1>4, <1>5

(* print, wherever no call is asked for.                                   *)
LEMMA PrintInPlace ==
  ASSUME NEW f, NEW k \in Nat, \A i \in 1..4 : ~Asked(f, k + i)
  PROVE  InPlace(f, k, print, 4)
<1>1. /\ print \in Seq({Wait(term_mut), SYS("start"), SYS("SYS8"), V(term_mut)})
      /\ Len(print) = 4
      /\ print[1] = Wait(term_mut) /\ print[2] = SYS("start")
      /\ print[3] = SYS("SYS8") /\ print[4] = V(term_mut)
  BY DEF print
<1>2. ASSUME NEW i \in 1..4
      PROVE  /\ Placed(f, k + i, Wait(term_mut)) /\ Placed(f, k + i, SYS("start"))
             /\ Placed(f, k + i, SYS("SYS8")) /\ Placed(f, k + i, V(term_mut))
  BY AnyPlace
<1>3. \A i \in 1..4 : i = 1 \/ i = 2 \/ i = 3 \/ i = 4
  OBVIOUS
<1>4. \A i \in 1..4 : Placed(f, k + i, print[i])
  BY <1>1, <1>2, <1>3
<1> QED
  BY <1>1, <1>4 DEF InPlace, IsSequence

(* The last place of a program.                                            *)
LEMMA ErrorInPlace ==
  ASSUME NEW f, NEW k \in Nat, ~Asked(f, k + 1)
  PROVE  InPlace(f, k, Error, 1)
<1>1. Error \in Seq({SYS("error")}) /\ Len(Error) = 1 /\ Error[1] = SYS("error")
  BY DEF Error
<1>2. Placed(f, k + 1, SYS("error"))
  BY AnyPlace
<1>3. \A i \in 1..1 : i = 1
  OBVIOUS
<1> QED
  BY <1>1, <1>2, <1>3 DEF InPlace, IsSequence


(* The calls of p4.                                                        *)
LEMMA FourInPlace == InPlace("p4", 0, p4, 16)
<1> DEFINE c == <<V(synp4), Wait(blkp4), Wait(synp4), Create("p4"), Wait(synp4)>>
           d == <<V(endp4), SYS("SYS2")>>
<1>1. /\ Placed("p4", 5, V(synp4)) /\ Placed("p4", 6, Wait(blkp4))
      /\ Placed("p4", 7, Wait(synp4)) /\ Placed("p4", 9, Wait(synp4))
      /\ Placed("p4", 14, V(endp4))
  BY FourApart DEF Placed, V, Wait, I
<1>2. Placed("p4", 8, Create("p4")) /\ Placed("p4", 15, SYS("SYS2"))
  BY FourApart DEF Placed, V, Wait, I, SYS, Create
<1>3. InPlace("p4", 4, c, 5)
  <2>1. /\ c \in Seq({V(synp4), Wait(blkp4), Wait(synp4), Create("p4")}) /\ Len(c) = 5
        /\ c[1] = V(synp4) /\ c[2] = Wait(blkp4) /\ c[3] = Wait(synp4)
        /\ c[4] = Create("p4") /\ c[5] = Wait(synp4)
    OBVIOUS
  <2> HIDE DEF c
  <2>2. \A i \in 1..5 : i = 1 \/ i = 2 \/ i = 3 \/ i = 4 \/ i = 5
    OBVIOUS
  <2>3. 4 + 1 = 5 /\ 4 + 2 = 6 /\ 4 + 3 = 7 /\ 4 + 4 = 8 /\ 4 + 5 = 9
    OBVIOUS
  <2>4. \A i \in 1..5 : Placed("p4", 4 + i, c[i])
    BY <1>1, <1>2, <2>1, <2>2, <2>3
  <2> QED
    BY <2>1, <2>4 DEF InPlace, IsSequence
<1>4. InPlace("p4", 13, d, 2)
  <2>1. d \in Seq({V(endp4), SYS("SYS2")}) /\ Len(d) = 2 /\ d[1] = V(endp4) /\ d[2] = SYS("SYS2")
    OBVIOUS
  <2> HIDE DEF d
  <2>2. \A i \in 1..2 : i = 1 \/ i = 2
    OBVIOUS
  <2>3. 13 + 1 = 14 /\ 13 + 2 = 15
    OBVIOUS
  <2>4. \A i \in 1..2 : Placed("p4", 13 + i, d[i])
    BY <1>1, <1>2, <2>1, <2>2, <2>3
  <2> QED
    BY <2>1, <2>4 DEF InPlace, IsSequence
<1>5. p4 = print \o c \o print \o d \o Error
  BY DEF p4
<1> HIDE DEF c, d
<1>6. InPlace("p4", 0, print, 4) /\ InPlace("p4", 9, print, 4) /\ InPlace("p4", 15, Error, 1)
  <2>1. /\ \A i \in 1..4 : ~Asked("p4", 0 + i) /\ ~Asked("p4", 9 + i)
        /\ ~Asked("p4", 15 + 1)
    BY DEF Asked
  <2> QED
    BY <2>1, PrintInPlace, ErrorInPlace
<1>7. InPlace("p4", 0, print \o c, 9)
  BY <1>3, <1>6, InPlaceJoins
<1>8. InPlace("p4", 0, print \o c \o print, 13)
  BY <1>6, <1>7, InPlaceJoins
<1>9. InPlace("p4", 0, print \o c \o print \o d, 15)
  BY <1>4, <1>8, InPlaceJoins
<1>10. InPlace("p4", 0, print \o c \o print \o d \o Error, 16)
  BY <1>6, <1>9, InPlaceJoins
<1> QED
  BY <1>5, <1>10

(* The calls of p5b.                                                       *)
LEMMA FifthInPlace == InPlace("p5b", 0, p5b, 8)
<1> DEFINE c == <<Trap("Sys", "sys"), Wait(endp4), SYS("SYS7"), SYS("again"), V(blkp4),
                  V(endp5), I("SYS5", "Pgm")>>
<1>1. Placed("p5b", 2, Wait(endp4)) /\ Placed("p5b", 5, V(blkp4)) /\ Placed("p5b", 6, V(endp5))
  BY FourApart DEF Placed, V, Wait, I
<1>2. /\ Placed("p5b", 3, SYS("SYS7")) /\ Placed("p5b", 4, SYS("again"))
      /\ Placed("p5b", 1, Trap("Sys", "sys")) /\ Placed("p5b", 7, I("SYS5", "Pgm"))
  BY DEF Placed, V, Wait, I, SYS, Trap
<1>3. InPlace("p5b", 0, c, 7)
  <2>1. /\ c \in Seq({Trap("Sys", "sys"), Wait(endp4), SYS("SYS7"), SYS("again"), V(blkp4),
                      V(endp5), I("SYS5", "Pgm")})
        /\ Len(c) = 7
        /\ c[1] = Trap("Sys", "sys") /\ c[2] = Wait(endp4) /\ c[3] = SYS("SYS7")
        /\ c[4] = SYS("again") /\ c[5] = V(blkp4) /\ c[6] = V(endp5)
        /\ c[7] = I("SYS5", "Pgm")
    OBVIOUS
  <2> HIDE DEF c
  <2>2. \A i \in 1..7 : i = 1 \/ i = 2 \/ i = 3 \/ i = 4 \/ i = 5 \/ i = 6 \/ i = 7
    OBVIOUS
  <2>3. \A i \in 1..7 : 0 + i = i
    OBVIOUS
  <2>4. \A i \in 1..7 : Placed("p5b", i, c[i])
    BY <1>1, <1>2, <2>1, <2>2
  <2>5. \A i \in 1..7 : Placed("p5b", 0 + i, c[i])
    BY <2>3, <2>4
  <2> QED
    BY <2>1, <2>5 DEF InPlace, IsSequence
<1>4. p5b = c \o Error
  BY DEF p5b
<1> HIDE DEF c
<1>5. InPlace("p5b", 7, Error, 1)
  <2>1. ~Asked("p5b", 7 + 1)
    BY DEF Asked
  <2> QED
    BY <2>1, ErrorInPlace
<1>6. InPlace("p5b", 0, c \o Error, 8)
  BY <1>3, <1>5, InPlaceJoins
<1> QED
  BY <1>4, <1>6

(* The calls of the programs that neither p4 nor p5 depends on.            *)
Quiet ==
  {V(s) : s \in {term_mut, sArr, startp2, endp2, endp3, endp8, endcreate}}
  \cup {Wait(s) : s \in {term_mut, sArr, startp2, endcreate, blkp8}}
  \cup {SYS(n) : n \in {"start", "SYS8", "synch", "zero", "error", "SYS2", "SYS7", "again"}}
  \cup {I(n, t) : n \in {"SYS5", "LDST"}, t \in TrapTypes}
  \cup {Trap(t, c) : t \in TrapTypes, c \in {"bus", "tlb", "sys", "address"}}

(* They may be anywhere in them.                                           *)
LEMMA QuietInPlace ==
  ASSUME NEW f \in DOMAIN Code \ {"p1", "p4", "p5b"}, NEW i, NEW x,
         \/ x \in Quiet
         \/ f = "p8root" /\ x \in {Create("child1"), Create("child2")}
         \/ f \in {"child1", "child2"} /\ x = Create("p8leaf")
  PROVE  Placed(f, i, x)
<1>1. ~Asked(f, i)
  BY DEF Asked
<1>2. CASE x \in Quiet
  BY <1>1, <1>2, AnyPlace DEF Quiet
<1>3. CASE \/ f = "p8root" /\ x \in {Create("child1"), Create("child2")}
           \/ f \in {"child1", "child2"} /\ x = Create("p8leaf")
  BY <1>1, <1>3, AnyPlace
<1> QED
  BY <1>2, <1>3

(* The calls that are quiet.                                               *)
LEMMA QuietCalls ==
  /\ \A s \in {term_mut, sArr, startp2, endp2, endp3, endp8, endcreate} : V(s) \in Quiet
  /\ \A s \in {term_mut, sArr, startp2, endcreate, blkp8} : Wait(s) \in Quiet
  /\ \A n \in {"start", "SYS8", "synch", "zero", "error", "SYS2", "SYS7", "again"} :
       SYS(n) \in Quiet
  /\ \A t \in TrapTypes : /\ I("SYS5", t) \in Quiet /\ I("LDST", t) \in Quiet
                          /\ \A c \in {"bus", "tlb", "sys", "address"} : Trap(t, c) \in Quiet
  /\ TrapTypes = {"Pgm", "TLB", "Sys"}
BY DEF Quiet, TrapTypes


(* What is not quiet of a program is what it creates.                      *)
LEMMA QuietPrograms ==
  /\ \A f \in DOMAIN Code \ {"p1", "p4", "p5b", "p8root", "child1", "child2"} :
       Code[f] \in Seq(Quiet)
  /\ p8root \in Seq(Quiet \cup {Create("child1"), Create("child2")})
  /\ child1 \in Seq(Quiet \cup {Create("p8leaf")})
  /\ child2 \in Seq(Quiet \cup {Create("p8leaf")})
<1>1. ASSUME NEW S, Quiet \subseteq S
      PROVE  /\ print \in Seq(S) /\ Error \in Seq(S)
             /\ \A c, d \in Seq(S) : c \o d \in Seq(S)
  <2>1. /\ Wait(term_mut) \in S /\ SYS("start") \in S /\ SYS("SYS8") \in S
        /\ V(term_mut) \in S /\ SYS("error") \in S
    BY <1>1, QuietCalls
  <2>2. print \in Seq(S) /\ Error \in Seq(S)
    BY <2>1 DEF print, Error
  <2> QED
    BY <2>2
<1>2. ASSUME NEW S, Quiet \subseteq S, NEW c \in Seq(S), NEW d \in Seq(S), NEW e \in Seq(S)
      PROVE  /\ c \o Error \in Seq(S) /\ print \o c \in Seq(S)
             /\ print \o c \o Error \in Seq(S)
             /\ print \o c \o d \o Error \in Seq(S)
             /\ c \o print \o d \o print \o e \o Error \in Seq(S)
             /\ c \o print \o d \o print \o print \o e \o Error \in Seq(S)
  BY <1>1, <1>2
<1>3. p2 \in Seq(Quiet)
  <2> DEFINE c == <<Wait(startp2)>>
             d == <<V(sArr), Wait(sArr), SYS("zero")>>
             e == <<SYS("synch"), V(endp2), SYS("SYS2")>>
  <2>1. c \in Seq(Quiet) /\ d \in Seq(Quiet) /\ e \in Seq(Quiet)
    BY QuietCalls
  <2>2. p2 = c \o print \o d \o print \o print \o e \o Error
    BY DEF p2
  <2> HIDE DEF c, d, e
  <2> QED
    BY <1>2, <2>1, <2>2
<1>4. p3 \in Seq(Quiet)
  <2> DEFINE c == <<SYS("SYS7"), SYS("again")>>
             d == <<SYS("SYS7")>>
             e == <<V(endp3), SYS("SYS2")>>
  <2>1. c \in Seq(Quiet) /\ d \in Seq(Quiet) /\ e \in Seq(Quiet)
    BY QuietCalls
  <2>2. p3 = c \o print \o d \o print \o e \o Error
    BY DEF p3
  <2> HIDE DEF c, d, e
  <2> QED
    BY <1>2, <2>1, <2>2
<1>5. p5 \in Seq(Quiet)
  <2> DEFINE c == <<I("SYS5", "Pgm"), I("SYS5", "TLB"), I("SYS5", "Sys"), Trap("Pgm", "bus")>>
  <2>1. c \in Seq(Quiet)
    BY QuietCalls
  <2>2. p5 = print \o c \o Error
    BY DEF p5
  <2> HIDE DEF c
  <2> QED
    BY <1>2, <2>1, <2>2
<1>6. p5a \in Seq(Quiet)
  <2>1. <<Trap("TLB", "tlb")>> \in Seq(Quiet)
    BY QuietCalls
  <2> QED
    BY <1>2, <2>1 DEF p5a
<1>7. p5prog \in Seq(Quiet) /\ p5mm \in Seq(Quiet) /\ p5sys \in Seq(Quiet)
  <2>1. ASSUME NEW t \in TrapTypes PROVE print \o <<I("LDST", t)>> \in Seq(Quiet)
    <3>1. <<I("LDST", t)>> \in Seq(Quiet)
      BY QuietCalls
    <3> QED
      BY <1>1, <3>1
  <2> QED
    BY <2>1, QuietCalls DEF p5prog, p5mm, p5sys
<1>8. p6 \in Seq(Quiet) /\ p7 \in Seq(Quiet)
  <2>1. <<Trap("Sys", "sys")>> \in Seq(Quiet) /\ <<Trap("Pgm", "address")>> \in Seq(Quiet)
    BY QuietCalls
  <2> QED
    BY <1>2, <2>1 DEF p6, p7
<1>9. p8leaf \in Seq(Quiet)
  <2>1. <<V(endcreate), Wait(blkp8)>> \in Seq(Quiet)
    BY QuietCalls
  <2> QED
    BY <1>2, <2>1 DEF p8leaf
<1>10. p8root \in Seq(Quiet \cup {Create("child1"), Create("child2")})
  <2> DEFINE S == Quiet \cup {Create("child1"), Create("child2")}
             c == <<Create("child1"), Create("child2")>>
             w == [i \in 1..NOLEAVES |-> Wait(endcreate)]
             d == <<V(endp8), SYS("SYS2")>>
  <2>1. c \in Seq(S) /\ d \in Seq(S)
    BY QuietCalls
  <2>2. w \in Seq(S)
    <3>1. Wait(endcreate) \in S /\ NOLEAVES \in Nat
      BY QuietCalls DEF NOLEAVES
    <3> QED
      BY <3>1
  <2>3. p8root = print \o c \o w \o d \o Error
    BY DEF p8root
  <2>4. Quiet \subseteq S
    OBVIOUS
  <2> HIDE DEF S, c, d, w
  <2>5. print \o c \in Seq(S) /\ Error \in Seq(S) /\ \A x, y \in Seq(S) : x \o y \in Seq(S)
    BY <1>1, <2>1, <2>4
  <2>6. print \o c \o w \o d \o Error \in Seq(S)
    BY <2>1, <2>2, <2>5
  <2> QED
    BY <2>3, <2>6 DEF S
<1>11. /\ child1 \in Seq(Quiet \cup {Create("p8leaf")})
       /\ child2 \in Seq(Quiet \cup {Create("p8leaf")})
  <2> DEFINE S == Quiet \cup {Create("p8leaf")}
             c == <<Create("p8leaf"), Create("p8leaf"), Wait(blkp8)>>
  <2>1. c \in Seq(S)
    BY QuietCalls
  <2>2. child1 = print \o c \o Error /\ child2 = print \o c \o Error /\ Quiet \subseteq S
    BY DEF child1, child2
  <2> HIDE DEF S, c
  <2>3. child1 \in Seq(S) /\ child2 \in Seq(S)
    BY <1>2, <2>1, <2>2
  <2> QED
    BY <2>3 DEF S
<1>12. Error \in Seq(Quiet)
  BY <1>1
<1>13. SUFFICES ASSUME NEW f \in DOMAIN Code \ {"p1", "p4", "p5b", "p8root", "child1", "child2"}
                PROVE  Code[f] \in Seq(Quiet)
  BY <1>10, <1>11
<1>14. f \in {"p2", "p3", "p5", "p5a", "p5prog", "p5mm", "p5sys", "p6", "p7", "p8leaf", "none"}
  BY DEF Code
<1> QED
  BY <1>3, <1>4, <1>5, <1>6, <1>7, <1>8, <1>9, <1>12, <1>14 DEF Code

(* The calls of p1.                                                        *)
LEMMA OneInPlace == InPlace("p1", 0, test, Len(test))
<1> DEFINE n == 2 * Incarnations
           roots == [i \in 1..n |-> IF i % 2 = 1 THEN Create("p8root") ELSE Wait(endp8)]
           a == <<V(testsem)>>
           b == <<Create("p2")>>
           c == <<V(startp2), Wait(endp2), SYS("synched"), Create("p3")>>
           d == <<Wait(endp3), Create("p4"), Create("p5"), Create("p6"), Create("p7"),
                  Wait(endp5)>>
           e == <<Wait(blkp4)>>
           g == <<Trap("Pgm", "address")>>
<1>1. n \in Nat
  BY TestScope
<1>2. test = a \o print \o b \o print \o c \o print \o d \o print \o e \o roots \o print
             \o g \o Error
  BY DEF test
<1>3. \A i \in Nat : i \notin {20, 21, 24, 29} => ~Asked("p1", i)
  BY DEF Asked
<1>4. InPlace("p1", 0, a, 1) /\ InPlace("p1", 5, b, 1)
  <2>1. Placed("p1", 0 + 1, V(testsem)) /\ Placed("p1", 5 + 1, Create("p2"))
    BY <1>3, AnyPlace
  <2>2. /\ a \in Seq({V(testsem)}) /\ Len(a) = 1 /\ a[1] = V(testsem)
        /\ b \in Seq({Create("p2")}) /\ Len(b) = 1 /\ b[1] = Create("p2")
        /\ \A i \in 1..1 : i = 1
    OBVIOUS
  <2> HIDE DEF a, b
  <2> QED
    BY <2>1, <2>2 DEF InPlace, IsSequence
<1>5. InPlace("p1", 10, c, 4)
  <2>1. /\ Placed("p1", 10 + 1, V(startp2)) /\ Placed("p1", 10 + 2, Wait(endp2))
        /\ Placed("p1", 10 + 3, SYS("synched")) /\ Placed("p1", 10 + 4, Create("p3"))
    BY <1>3, AnyPlace
  <2>2. /\ c \in Seq({V(startp2), Wait(endp2), SYS("synched"), Create("p3")})
        /\ Len(c) = 4 /\ c[1] = V(startp2) /\ c[2] = Wait(endp2)
        /\ c[3] = SYS("synched") /\ c[4] = Create("p3")
    OBVIOUS
  <2> HIDE DEF c
  <2>3. \A i \in 1..4 : i = 1 \/ i = 2 \/ i = 3 \/ i = 4
    OBVIOUS
  <2>4. \A i \in 1..4 : Placed("p1", 10 + i, c[i])
    BY <2>1, <2>2, <2>3
  <2> QED
    BY <2>2, <2>4 DEF InPlace, IsSequence
<1>6. InPlace("p1", 18, d, 6)
  <2>1. /\ Placed("p1", 18 + 1, Wait(endp3)) /\ Placed("p1", 18 + 4, Create("p6"))
        /\ Placed("p1", 18 + 5, Create("p7"))
    BY <1>3, AnyPlace
  <2>2. /\ Placed("p1", 18 + 2, Create("p4")) /\ Placed("p1", 18 + 3, Create("p5"))
        /\ Placed("p1", 18 + 6, Wait(endp5))
    BY FourApart DEF Placed, V, Wait, I, Create
  <2>3. /\ d \in Seq({Wait(endp3), Create("p4"), Create("p5"), Create("p6"), Create("p7"),
                      Wait(endp5)})
        /\ Len(d) = 6 /\ d[1] = Wait(endp3) /\ d[2] = Create("p4") /\ d[3] = Create("p5")
        /\ d[4] = Create("p6") /\ d[5] = Create("p7") /\ d[6] = Wait(endp5)
    OBVIOUS
  <2> HIDE DEF d
  <2>4. \A i \in 1..6 : i = 1 \/ i = 2 \/ i = 3 \/ i = 4 \/ i = 5 \/ i = 6
    OBVIOUS
  <2>5. \A i \in 1..6 : Placed("p1", 18 + i, d[i])
    BY <2>1, <2>2, <2>3, <2>4
  <2> QED
    BY <2>3, <2>5 DEF InPlace, IsSequence
<1>7. InPlace("p1", 28, e, 1)
  <2>1. Placed("p1", 28 + 1, Wait(blkp4))
    BY FourApart DEF Placed, V, Wait, I
  <2>2. e \in Seq({Wait(blkp4)}) /\ Len(e) = 1 /\ e[1] = Wait(blkp4) /\ \A i \in 1..1 : i = 1
    OBVIOUS
  <2> HIDE DEF e
  <2> QED
    BY <2>1, <2>2 DEF InPlace, IsSequence
<1>8. InPlace("p1", 29, roots, n)
  <2>1. ASSUME NEW i \in 1..n
        PROVE  Placed("p1", 29 + i, Create("p8root")) /\ Placed("p1", 29 + i, Wait(endp8))
    <3>1. 29 + i \in Nat /\ 29 + i > 29 /\ 29 + i \notin {20, 21, 24, 29}
      BY <1>1
    <3>2. Placed("p1", 29 + i, Wait(endp8))
      BY <1>3, <3>1, AnyPlace
    <3>3. Placed("p1", 29 + i, Create("p8root"))
      BY <3>1 DEF Placed, V, Wait, I, Create
    <3> QED
      BY <3>2, <3>3
  <2>2. roots \in Seq({Create("p8root"), Wait(endp8)}) /\ Len(roots) = n
    BY <1>1
  <2>3. \A i \in 1..n : roots[i] = Create("p8root") \/ roots[i] = Wait(endp8)
    OBVIOUS
  <2> HIDE DEF roots
  <2> QED
    BY <2>1, <2>2, <2>3 DEF InPlace, IsSequence
<1>9. InPlace("p1", 33 + n, g, 1)
  <2>1. Placed("p1", (33 + n) + 1, Trap("Pgm", "address"))
    BY <1>1 DEF Placed, V, Wait, I, Trap
  <2>2. /\ g \in Seq({Trap("Pgm", "address")}) /\ Len(g) = 1 /\ g[1] = Trap("Pgm", "address")
        /\ \A i \in 1..1 : i = 1
    OBVIOUS
  <2> HIDE DEF g
  <2> QED
    BY <2>1, <2>2 DEF InPlace, IsSequence
<1> HIDE DEF n, roots, a, b, c, d, e, g
<1>10. /\ InPlace("p1", 1, print, 4) /\ InPlace("p1", 6, print, 4) /\ InPlace("p1", 14, print, 4)
       /\ InPlace("p1", 24, print, 4) /\ InPlace("p1", 29 + n, print, 4)
       /\ InPlace("p1", 34 + n, Error, 1)
  <2>1. ASSUME NEW k \in Nat, \A i \in 1..4 : k + i \notin {20, 21, 24, 29}
        PROVE  InPlace("p1", k, print, 4)
    BY <1>3, <2>1, PrintInPlace
  <2>2. ~Asked("p1", (34 + n) + 1)
    BY <1>1, <1>3
  <2> QED
    BY <1>1, <2>1, <2>2, ErrorInPlace
<1> DEFINE c1 == a \o print
           c2 == c1 \o b
           c3 == c2 \o print
           c4 == c3 \o c
           c5 == c4 \o print
           c6 == c5 \o d
           c7 == c6 \o print
           c8 == c7 \o e
           c9 == c8 \o roots
           c10 == c9 \o print
           c11 == c10 \o g
           c12 == c11 \o Error
<1>11. test = c12
  BY <1>2
<1>12. InPlace("p1", 0, c1, 5)
  BY <1>4, <1>10, InPlaceJoins
<1> HIDE DEF c1
<1>13. InPlace("p1", 0, c2, 6)
  BY <1>4, <1>12, InPlaceJoins
<1> HIDE DEF c2
<1>14. InPlace("p1", 0, c3, 10)
  BY <1>10, <1>13, InPlaceJoins
<1> HIDE DEF c3
<1>15. InPlace("p1", 0, c4, 14)
  BY <1>5, <1>14, InPlaceJoins
<1> HIDE DEF c4
<1>16. InPlace("p1", 0, c5, 18)
  BY <1>10, <1>15, InPlaceJoins
<1> HIDE DEF c5
<1>17. InPlace("p1", 0, c6, 24)
  BY <1>6, <1>16, InPlaceJoins
<1> HIDE DEF c6
<1>18. InPlace("p1", 0, c7, 28)
  BY <1>10, <1>17, InPlaceJoins
<1> HIDE DEF c7
<1>19. InPlace("p1", 0, c8, 29)
  BY <1>7, <1>18, InPlaceJoins
<1> HIDE DEF c8
<1>20. InPlace("p1", 0, c9, 29 + n)
  BY <1>1, <1>8, <1>19, InPlaceJoins
<1> HIDE DEF c9
<1>21. InPlace("p1", 0, c10, 33 + n)
  <2>1. 29 + n \in Nat /\ 29 + n = 0 + (29 + n) /\ 33 + n \in Nat /\ 33 + n = (29 + n) + 4
    BY <1>1
  <2> QED
    BY <1>10, <1>20, <2>1, InPlaceJoins
<1> HIDE DEF c10
<1>22. InPlace("p1", 0, c11, 34 + n)
  <2>1. 33 + n \in Nat /\ 33 + n = 0 + (33 + n) /\ 34 + n \in Nat /\ 34 + n = (33 + n) + 1
    BY <1>1
  <2> QED
    BY <1>9, <1>21, <2>1, InPlaceJoins
<1> HIDE DEF c11
<1>23. InPlace("p1", 0, c12, 35 + n)
  <2>1. 34 + n \in Nat /\ 34 + n = 0 + (34 + n) /\ 35 + n \in Nat /\ 35 + n = (34 + n) + 1
    BY <1>1
  <2> QED
    BY <1>10, <1>22, <2>1, InPlaceJoins
<1> QED
  BY <1>11, <1>23 DEF InPlace

(* Every processor state is at a call that belongs there.                  *)
LEMMA StateInPlace == ASSUME NEW s \in States PROVE Placed(s.prog, s.at, Does(s))
<1>1. s.prog \in DOMAIN Code /\ s.at \in 1..Len(Code[s.prog]) /\ s.at \in Nat
  BY StatePlace
<1>2. ASSUME NEW f, NEW c, NEW n, InPlace(f, 0, c, n), s.prog = f, Code[f] = c
      PROVE  Placed(s.prog, s.at, Does(s))
  <2>1. Placed(f, 0 + s.at, c[s.at]) /\ 0 + s.at = s.at
    BY <1>1, <1>2 DEF InPlace
  <2> QED
    BY <1>2, <2>1 DEF Does
<1>3. Code["p1"] = test /\ Code["p4"] = p4 /\ Code["p5b"] = p5b
  BY DEF Code
<1>4. ASSUME NEW S, Code[s.prog] \in Seq(S)
      PROVE  Does(s) \in S
  BY <1>1, <1>4 DEF Does
<1>5. CASE s.prog \in {"p8root", "child1", "child2"}
  <2>1. \/ s.prog = "p8root" /\ Does(s) \in Quiet \cup {Create("child1"), Create("child2")}
        \/ s.prog \in {"child1", "child2"} /\ Does(s) \in Quiet \cup {Create("p8leaf")}
    BY <1>4, <1>5, QuietPrograms DEF Code
  <2> QED
    BY <1>1, <1>5, <2>1, QuietInPlace
<1>6. CASE s.prog \notin {"p1", "p4", "p5b", "p8root", "child1", "child2"}
  <2>1. Does(s) \in Quiet
    BY <1>1, <1>4, <1>6, QuietPrograms
  <2> QED
    BY <1>1, <1>6, <2>1, QuietInPlace
<1> QED
  BY <1>2, <1>3, <1>5, <1>6, OneInPlace, FourInPlace, FifthInPlace

(* p4 has 16 places, of which the last is its error.                       *)
LEMMA FourEnds ==
  ASSUME NEW s \in States, s.prog = "p4", s.at >= 15
  PROVE  s.at = 15 \/ Does(s).do = "error"
<1>1. Len(p4) = 16 /\ Code["p4"] = p4
  BY FourInPlace DEF InPlace, Code
<1>2. s.at \in 1..16 /\ s.at \in Nat
  BY <1>1, StatePlace
<1>3. Orderly("p4", p4, SYS("error"))
  BY OtherPrograms
<1>4. p4[16].do = "error"
  BY <1>1, <1>3 DEF Orderly, SYS, I
<1> QED
  BY <1>1, <1>2, <1>4 DEF Does

-----------------------------------------------------------------------------
(* The mutual exclusion of the programs on the terminal.                   *)

(* A program has a process in the terminal, or the terminal is at work.    *)
Occupied == (\E p \in Pcbs : UsesTerminal(p)) \/ unit[32] # "ready"

(* p5sys runs only when there is a call to go back to.                     *)
Saved ==
  /\ DOMAIN old = TrapTypes
  /\ \A t \in TrapTypes : old[t].state \in States
  /\ (\E p \in Pcbs : p_s[p].prog = "p5sys") =>
       Code[old["Sys"].state.prog][old["Sys"].state.at].do = "trap"

(* A process that may start an operation, or has ended its own, has the    *)
(* transmitter ready.                                                      *)
FindsReady ==
  \A p \in Pcbs :
    /\ UsesTerminal(p)
    /\ \/ InstrOf(p).do = "start"
       \/ InstrOf(p) = V(term_mut) /\ p_semAdd[p] # 32 /\ cpu # "lost"
    => unit[32] = "ready"

(* One process in the terminal, and the value of term_mut with those who   *)
(* wait for it never exceeds what is left of 1.                            *)
Exclusion ==
  /\ \A p, q \in Pcbs : UsesTerminal(p) /\ UsesTerminal(q) => p = q
  /\ FindsReady
  /\ semVal[32] > 0 => cpu = "lost"
  /\ semVal[term_mut] + Cardinality(Waiting(term_mut)) + (IF Occupied THEN 1 ELSE 0) <= 1

(* The invariant of the terminal.                                          *)
TermInv ==
  /\ p_s \in [Pcbs -> States]
  /\ Saved
  /\ Exclusion

(* The two semaphores of the terminal are different, and not the clock's.  *)
LEMMA TerminalNames ==
  /\ term_mut \in Sems /\ term_mut \in AllSems /\ term_mut \notin DevSems
  /\ 32 \in Units /\ 32 \in DevSems /\ 32 \in AllSems /\ 32 \notin Sems
  /\ term_mut # 32 /\ term_mut # Clock /\ term_mut # NULL /\ 32 # NULL /\ 32 # Clock
<1>1. /\ term_mut \in Sems
      /\ Units = {32}
      /\ Sems \cap (0..48) = {}
      /\ NULL \notin Sems \cup 0..48
  BY TestSemaphores, TestScope, SemsAssumption
<1>2. 32 \in 0..48 /\ 48 \in 0..48
  OBVIOUS
<1> QED
  BY <1>1, <1>2 DEF AllSems, DevSems, Clock

(* Who uses the terminal, before and after a step.                         *)
LEMMA UsesUnfolded ==
  ASSUME NEW p \in Pcbs
  PROVE  /\ UsesTerminal(p) <=>
              p \in Live /\ p_semAdd[p] # term_mut /\ Terminal(Does(p_s[p]))
         /\ UsesTerminal(p)' <=>
              p \in Live' /\ p_semAdd'[p] # term_mut /\ Terminal(Does(p_s'[p]))
         /\ InstrOf(p) = Does(p_s[p])
         /\ InstrOf(p)' = Does(p_s'[p])
BY DEF UsesTerminal, InstrOf, Does, Terminal

(* A step of the nucleus that lets nobody into the terminal.               *)
Aside ==
  /\ SumKept(term_mut)
  /\ unit[32] = "ready" => unit'[32] = "ready"
  /\ cpu = "lost" => cpu' = "lost"
  /\ semVal'[32] > 0 => cpu' = "lost"
  /\ \A p \in Live' : p_semAdd'[p] # term_mut => p \in pcbFree \/ p_semAdd[p] # term_mut
  /\ \A p \in Live' : p_semAdd[p] = 32 => p_semAdd'[p] = 32 \/ unit'[32] = "ready"

(* The programs that go on in it have been there before.                   *)
NobodyEnters ==
  \A p \in Live' : p_semAdd'[p] # term_mut /\ Terminal(Does(p_s'[p])) =>
    p \in Live /\ p_s'[p] = p_s[p]

(* Such a step keeps the terminal exclusive.                               *)
LEMMA AsideKeeps ==
  ASSUME IInv, IInv', Exclusion, Aside, NobodyEnters
  PROVE  Exclusion'
<1>1. ASSUME NEW p \in Pcbs, UsesTerminal(p)'
      PROVE  /\ UsesTerminal(p)
             /\ InstrOf(p)' = InstrOf(p)
             /\ p_semAdd[p] = 32 => p_semAdd'[p] = 32 \/ unit'[32] = "ready"
  <2>1. p \in Live' /\ p_semAdd'[p] # term_mut /\ Terminal(Does(p_s'[p]))
    BY <1>1, UsesUnfolded
  <2>2. p \in Live /\ p_s'[p] = p_s[p]
    BY <2>1 DEF NobodyEnters
  <2>3. p_semAdd[p] # term_mut
    BY <2>1, <2>2 DEF Aside, Live
  <2> QED
    BY <2>1, <2>2, <2>3, UsesUnfolded DEF Aside
<1>2. \A p, q \in Pcbs : UsesTerminal(p)' /\ UsesTerminal(q)' => p = q
  BY <1>1 DEF Exclusion
<1>3. FindsReady'
  <2>1. SUFFICES ASSUME NEW p \in Pcbs, UsesTerminal(p)',
                        \/ InstrOf(p)'.do = "start"
                        \/ InstrOf(p)' = V(term_mut) /\ p_semAdd'[p] # 32 /\ cpu' # "lost"
                 PROVE  unit'[32] = "ready"
    BY DEF FindsReady, V, I
  <2>2. UsesTerminal(p) /\ InstrOf(p)' = InstrOf(p)
    BY <1>1, <2>1
  <2>3. CASE InstrOf(p).do = "start"
    BY <2>2, <2>3 DEF Exclusion, FindsReady, Aside
  <2>4. CASE InstrOf(p) = V(term_mut) /\ p_semAdd'[p] # 32 /\ cpu' # "lost"
    <3>1. p_semAdd[p] # 32 \/ unit'[32] = "ready"
      BY <1>1, <2>1, <2>4
    <3> QED
      BY <2>2, <2>4, <3>1 DEF Exclusion, FindsReady, Aside
  <2> QED
    BY <2>1, <2>2, <2>3, <2>4
<1>4. Occupied' => Occupied
  BY <1>1 DEF Occupied, Aside
<1>5. semVal[term_mut] \in Int /\ semVal'[term_mut] \in Int
  BY TerminalNames DEF IInv, TypeOK
<1>6. semVal'[term_mut] + Cardinality(Waiting(term_mut)') + (IF Occupied' THEN 1 ELSE 0) <= 1
  <2>1. (IF Occupied' THEN 1 ELSE 0) <= (IF Occupied THEN 1 ELSE 0)
    BY <1>4
  <2>2. semVal[term_mut] + Cardinality(Waiting(term_mut)) + (IF Occupied THEN 1 ELSE 0) <= 1
    BY DEF Exclusion
  <2>3. semVal'[term_mut] + Cardinality(Waiting(term_mut)')
          <= semVal[term_mut] + Cardinality(Waiting(term_mut))
    BY DEF Aside, SumKept
  <2> QED
    BY <1>5, <2>1, <2>2, <2>3, WaitingFinite
<1> QED
  BY <1>2, <1>3, <1>6 DEF Exclusion, Aside

(* A step that leaves the semaphores of the terminal alone is aside.       *)
LEMMA UntouchedAside ==
  ASSUME Exclusion, Untouched(term_mut), semVal'[32] = semVal[32],
         cpu = "lost" => cpu' = "lost",
         unit[32] = "ready" => unit'[32] = "ready",
         \A p \in Live' : p_semAdd[p] = 32 => p_semAdd'[p] = 32
  PROVE  Aside
BY DEF Aside, Untouched, Exclusion

(* Handlers that deal with processes and not with semaphores or devices.   *)
LEMMA QuietHandlers ==
  ASSUME IInv, IInv', Exclusion,
         \/ \E p \in Pcbs : CreateProcess(p)
         \/ CreateFails
         \/ TerminateProcess
         \/ \E t \in TrapTypes : SpecifyExceptionStateVector(t)
         \/ \E t \in TrapTypes : Exception(t)
         \/ ProgramLDST
         \/ KernelTrap
         \/ KillChild
         \/ TimerInterrupt
         \/ DeviceDone(32)
         \/ UNCHANGED vars
  PROVE  Aside
<1>1. Untouched(term_mut)
  <2>1. Traps = TrapTypes /\ 32 \in Units /\ term_mut \in Sems
    BY TestScope, TerminalNames
  <2>2. CASE KillChild
    BY <2>1, <2>2, KillChildUntouched
  <2>3. CASE ~KillChild
    BY <2>1, <2>3, QuietHandlersUntouched
  <2> QED
    BY <2>2, <2>3
<1>2. ASSUME UNCHANGED <<p_semAdd, semVal>>, unit' = unit \/ unit[32] = "busy",
             cpu = "lost" => cpu' = "lost"
      PROVE  Aside
  BY <1>1, <1>2, UntouchedAside
<1>3. CASE \E p \in Pcbs : CreateProcess(p)
  BY <1>2, <1>3 DEF CreateProcess, semVars, devVars
<1>4. CASE CreateFails
  BY <1>2, <1>4 DEF CreateFails, semVars, devVars
<1>5. CASE TerminateProcess
  BY <1>2, <1>5 DEF TerminateProcess, StartKill, Running, semVars, devVars
<1>6. CASE \E t \in TrapTypes : SpecifyExceptionStateVector(t)
  BY <1>2, <1>6 DEF SpecifyExceptionStateVector, StartKill, Running, semVars, devVars
<1>7. ASSUME NEW t, PassUpOrDie(t), cpu # "lost"
      PROVE  Aside
  BY <1>2, <1>7 DEF PassUpOrDie, LoadState, StartKill, semVars, devVars
<1>8. CASE (\E t \in TrapTypes : Exception(t)) \/ KernelTrap
  BY <1>7, <1>8 DEF Exception, KernelTrap, Running
<1>9. CASE ProgramLDST
  BY <1>2, <1>9 DEF ProgramLDST, LoadState, semVars, devVars
<1>10. CASE KillChild
  BY <1>2, <1>10 DEF KillChild, semVars, devVars
<1>11. CASE TimerInterrupt
  BY <1>2, <1>11 DEF TimerInterrupt, Interruptible, semVars, devVars
<1>12. CASE DeviceDone(32)
  BY <1>2, <1>12 DEF DeviceDone, semVars, cpuVars
<1>13. CASE UNCHANGED vars
  BY <1>2, <1>13 DEF vars, semVars, cpuVars, devVars
<1> QED
  BY <1>3, <1>4, <1>5, <1>6, <1>8, <1>9, <1>10, <1>11, <1>12, <1>13

(* SYS3, SYS4, SYS7 and the clock, on semaphores other than term_mut.      *)
LEMMA OtherSemaphoreHandlers ==
  ASSUME IInv, IInv', Exclusion,
         \/ \E s \in Sems \ {term_mut} : Verhogen(s) \/ Passeren(s)
         \/ WaitForClock
         \/ ClockInterrupt
  PROVE  Aside
<1>1. /\ p_semAdd \in [Pcbs -> AllSems \cup {NULL}]
      /\ semVal \in [AllSems -> Int]
      /\ term_mut \in Sems
      /\ Clock \in AllSems \ {term_mut, 32}
      /\ \A s \in Sems : s \in AllSems \ {32}
  BY TerminalNames, NullApart DEF IInv, TypeOK, Clock
<1>2. ASSUME NEW s \in Sems \ {term_mut}, Verhogen(s)
      PROVE  Aside
  <2>1. /\ semVal' = [semVal EXCEPT ![s] = @ + 1]
        /\ Untouched(term_mut)
        /\ unit' = unit /\ cpu = "user"
        /\ \A p \in Pcbs : p_semAdd[p] = 32 => p_semAdd'[p] = 32
    BY <1>1, <1>2, VSteps DEF Live
  <2> QED
    BY <1>1, <2>1, UntouchedAside DEF Live
<1>3. ASSUME NEW s \in AllSems \ {term_mut, 32}, P(s, TRUE), cpu = "user",
             UNCHANGED <<procVars, devVars, killStack>>
      PROVE  Aside
  <2>1. /\ semVal' = [semVal EXCEPT ![s] = @ - 1]
        /\ Untouched(term_mut)
        /\ \/ p_semAdd' = p_semAdd
           \/ p_semAdd' = [p_semAdd EXCEPT ![currentProcess] = s]
    BY <1>1, <1>3, PSteps
  <2>2. p_semAdd[currentProcess] = NULL /\ currentProcess \in Pcbs /\ NULL # 32 /\ unit' = unit
    BY <1>3, UserIsLive, TerminalNames DEF IInv, CurrentApart, devVars
  <2>3. \A p \in Pcbs : p_semAdd[p] = 32 => p_semAdd'[p] = 32
    BY <1>1, <2>1, <2>2
  <2> QED
    BY <1>1, <1>3, <2>1, <2>2, <2>3, UntouchedAside DEF Live
<1>4. ASSUME NEW s \in Sems \ {term_mut}, Passeren(s)
      PROVE  Aside
  BY <1>1, <1>3, <1>4 DEF Passeren, Running
<1>5. CASE WaitForClock
  BY <1>1, <1>3, <1>5 DEF WaitForClock, Running
<1>6. CASE ClockInterrupt
  <2>1. cpu \in {"user", "wait"} /\ unit' = unit
    BY <1>6 DEF ClockInterrupt, Interruptible, devVars
  <2>2. semVal'[32] = semVal[32]
    BY <1>1, <1>6, TerminalNames DEF ClockInterrupt
  <2>3. \A p \in ToSet(ClockWaiters) : p_semAdd[p] = Clock
    <3>1. \A p \in ToSet(procQ[Clock]) : p_semAdd[p] = Clock
      BY NullApart DEF IInv, OnePlace
    <3> QED
      BY <3>1, EmptyQueue DEF ClockWaiters
  <2>4. p_semAdd' = [p \in Pcbs |-> IF p \in ToSet(ClockWaiters) THEN NULL ELSE p_semAdd[p]]
    BY <1>6 DEF ClockInterrupt
  <2>5. \A p \in Pcbs : p_semAdd[p] = 32 => p_semAdd'[p] = 32
    BY <1>1, <2>3, <2>4
  <2>6. Untouched(term_mut)
    BY <1>1, <1>6, InterruptUntouched
  <2> QED
    BY <2>1, <2>2, <2>5, <2>6, UntouchedAside DEF Live
<1> QED
  BY <1>2, <1>4, <1>5, <1>6

(* A P that blocks on term_mut: one more waits, as its value says.         *)
LEMMA BlockedOutside ==
  ASSUME IInv, IInv', Exclusion, Passeren(term_mut), semVal[term_mut] <= 0
  PROVE  Aside
<1>1. /\ p_semAdd \in [Pcbs -> AllSems \cup {NULL}]
      /\ semVal \in [AllSems -> Int]
      /\ cpu = "user" /\ unit' = unit
      /\ currentProcess \in Pcbs /\ p_semAdd[currentProcess] = NULL
  BY UserIsLive DEF Passeren, Running, IInv, TypeOK, CurrentApart, devVars
<1>2. /\ semVal' = [semVal EXCEPT ![term_mut] = @ - 1]
      /\ SumKept(term_mut)
      /\ p_semAdd' = [p_semAdd EXCEPT ![currentProcess] = term_mut]
  <2>1. P(term_mut, TRUE) /\ UNCHANGED <<procVars, killStack>>
    BY DEF Passeren
  <2>2. semVal[term_mut] \in Int /\ ~(semVal[term_mut] > 0)
    BY <1>1, TerminalNames
  <2> QED
    BY <1>1, <2>1, <2>2, PSteps, TerminalNames
<1>3. ~(semVal'[32] > 0)
  BY <1>1, <1>2, TerminalNames DEF Exclusion
<1>4. \A p \in Pcbs : /\ p_semAdd'[p] # term_mut => p_semAdd[p] # term_mut
                      /\ p_semAdd[p] = 32 => p_semAdd'[p] = 32
  BY <1>1, <1>2, TerminalNames
<1> QED
  BY <1>1, <1>2, <1>3, <1>4 DEF Aside, Live

(* The interrupt handler leaves the transmitter ready, and its process may *)
(* go on; when there is none to wake the V is lost with the CPU.           *)
LEMMA TransmitterAside ==
  ASSUME IInv, IInv', Exclusion, DeviceInterrupt(32)
  PROVE  Aside
<1>1. /\ semVal \in [AllSems -> Int]
      /\ unit \in [Units -> {"ready", "busy", "done"}]
  BY DEF IInv, TypeOK
<1>2. unit[32] = "done" /\ SemOf(32) = 32 /\ Acked(32) = 32
  <2>1. 40 \notin Units /\ 32 \in Units /\ "ready" # "done"
    BY TestScope
  <2>2. StatusOf(40) = "ready" /\ StatusOf(32) = unit[32] /\ 32 + 8 = 40
    BY <2>1 DEF StatusOf
  <2>3. unit[32] = "done"
    BY <2>1, <2>2 DEF DeviceInterrupt, Pending
  <2>4. Acked(32) = 32
    BY <2>2, <2>3 DEF Acked
  <2> QED
    BY <2>2, <2>3, <2>4 DEF SemOf
<1>3. unit'[32] = "ready"
  BY <1>1, <1>2, TerminalNames DEF DeviceInterrupt, Ack, StatusOf
<1>4. /\ cpu \in {"user", "wait"}
      /\ semVal' = [semVal EXCEPT ![32] = @ + 1]
      /\ OwesWakeup(32) \/ cpu' = "lost"
  BY <1>2 DEF DeviceInterrupt, Interruptible
<1>5. semVal'[32] > 0 => cpu' = "lost"
  BY <1>1, <1>4, TerminalNames DEF OwesWakeup
<1>6. Untouched(term_mut)
  <2>1. 32 \in Devices
    BY TerminalNames DEF Devices
  <2> QED
    BY <2>1, InterruptUntouched, TerminalNames
<1> QED
  BY <1>3, <1>4, <1>5, <1>6 DEF Aside, Untouched

(* A termination takes nobody into the terminal.                           *)
LEMMA KillAside ==
  ASSUME IInv, IInv', Exclusion, KillLeaf \/ KillMissing
  PROVE  Aside
<1>1. Untouched(term_mut)
  BY KillLeafUntouched, KillMissingUntouched, TerminalNames
<1>2. cpu = "kill" /\ unit' = unit
  BY DEF KillLeaf, KillMissing, devVars
<1>3. semVal'[32] = semVal[32]
  BY TerminalNames DEF KillLeaf, KillMissing, ReleaseSemaphore, IInv, TypeOK
<1>4. \A p \in Live' : p_semAdd'[p] = p_semAdd[p]
  <2>1. CASE KillLeaf
    BY <2>1 DEF KillLeaf, Clean, Live, IInv, TypeOK
  <2>2. CASE KillMissing
    BY <2>2 DEF KillMissing
  <2> QED
    BY <2>1, <2>2
<1> QED
  BY <1>1, <1>2, <1>3, <1>4, UntouchedAside

(* The current process goes on at n, and nobody else moves.                *)
Goes(n) == p_s' = [p_s EXCEPT ![currentProcess] = n]

(* The states stay states when one process goes on.                        *)
LEMMA GoesKeeps ==
  ASSUME p_s \in [Pcbs -> States], Saved, NEW n \in States, Goes(n), old' = old,
         currentProcess \in Pcbs,
         n.prog = "p5sys" => \E q \in Pcbs : p_s[q].prog = "p5sys"
  PROVE  /\ p_s' \in [Pcbs -> States]
         /\ Saved'
         /\ p_s'[currentProcess] = n
         /\ \A p \in Pcbs \ {currentProcess} : p_s'[p] = p_s[p]
<1>1. /\ p_s' \in [Pcbs -> States]
      /\ p_s'[currentProcess] = n
      /\ \A p \in Pcbs \ {currentProcess} : p_s'[p] = p_s[p]
  BY DEF Goes
<1>2. (\E p \in Pcbs : p_s'[p].prog = "p5sys") => \E p \in Pcbs : p_s[p].prog = "p5sys"
  BY <1>1
<1> QED
  BY <1>1, <1>2 DEF Saved

(* Advance, from an instruction that is not a program's last.              *)
LEMMA AdvanceKeeps ==
  ASSUME p_s \in [Pcbs -> States], Saved, Advance, old' = old, currentProcess \in Pcbs,
         Instr.do \notin {"error", "LDST"}
  PROVE  LET n == p_s'[currentProcess] IN
         /\ p_s' \in [Pcbs -> States]
         /\ Saved'
         /\ \A p \in Pcbs \ {currentProcess} : p_s'[p] = p_s[p]
         /\ Does(n).do = "start" => Instr = Wait(term_mut)
         /\ Does(n).do = "SYS8" => Instr.do = "start"
         /\ Does(n) = V(term_mut) => Instr.do = "SYS8"
<1> DEFINE s == p_s[currentProcess]
           n == [s EXCEPT !.at = @ + 1]
<1>1. s \in States /\ Instr = Does(s)
  BY DEF Instr, InstrOf, Does
<1>2. /\ n \in States /\ n.prog = s.prog
      /\ Does(n).do = "start" => Does(s) = Wait(term_mut)
      /\ Does(n).do = "SYS8" => Does(s).do = "start"
      /\ Does(n) = V(term_mut) => Does(s).do = "SYS8"
  BY <1>1, NextInstruction
<1>3. Goes(n)
  BY DEF Advance, Goes
<1> HIDE DEF n
<1> QED
  BY <1>1, <1>2, <1>3, GoesKeeps

(* From most instructions it does not lead to the terminal.                *)
LEMMA AdvanceOutside ==
  ASSUME p_s \in [Pcbs -> States], Saved, Advance, old' = old, currentProcess \in Pcbs,
         Instr.do \notin {"error", "LDST", "start", "SYS8"}, Instr # Wait(term_mut),
         Live' \subseteq Live
  PROVE  p_s' \in [Pcbs -> States] /\ Saved' /\ NobodyEnters
<1>1. /\ p_s' \in [Pcbs -> States] /\ Saved'
      /\ \A p \in Pcbs \ {currentProcess} : p_s'[p] = p_s[p]
      /\ ~Terminal(Does(p_s'[currentProcess]))
  BY AdvanceKeeps DEF Terminal
<1> QED
  BY <1>1 DEF NobodyEnters, Live

(* P on a free term_mut: the process enters, and finds the terminal ready. *)
LEMMA Enters ==
  ASSUME IInv, IInv', TermInv, Passeren(term_mut), semVal[term_mut] > 0,
         Advance, old' = old, Instr.do = "P"
  PROVE  TermInv'
<1>1. /\ semVal \in [AllSems -> Int] /\ semVal[term_mut] \in Int
      /\ cpu = "user" /\ currentProcess \in Pcbs
  BY UserIsLive, TerminalNames DEF Passeren, Running, IInv, TypeOK
<1>2. /\ semVal[term_mut] = 1 /\ Cardinality(Waiting(term_mut)) = 0
      /\ ~Occupied
  <2>1. semVal[term_mut] + Cardinality(Waiting(term_mut)) + (IF Occupied THEN 1 ELSE 0) <= 1
    BY DEF TermInv, Exclusion
  <2> QED
    BY <1>1, <2>1, WaitingFinite
<1>3. unit[32] = "ready" /\ \A p \in Pcbs : ~UsesTerminal(p)
  BY <1>2 DEF Occupied
<1>4. /\ semVal' = [semVal EXCEPT ![term_mut] = @ - 1]
      /\ semVal'[term_mut] = 0 /\ semVal'[32] = semVal[32]
  BY <1>1, <1>2, TerminalNames DEF Passeren, P
<1>5. /\ cpu' = "user"
      /\ UNCHANGED <<procQ, p_semAdd, unit, pcbFree, p_prnt, killStack>>
  <2>1. ~(semVal'[term_mut] < 0)
    BY <1>4
  <2> QED
    BY <2>1 DEF Passeren, P, procVars, devVars
<1>6. /\ p_s' \in [Pcbs -> States] /\ Saved'
      /\ \A p \in Pcbs \ {currentProcess} : p_s'[p] = p_s[p]
  BY <1>1, AdvanceKeeps DEF TermInv
<1>7. \A p \in Pcbs \ {currentProcess} : ~UsesTerminal(p)'
  BY <1>3, <1>5, <1>6, UsesUnfolded DEF Live
<1>8. FindsReady'
  BY <1>3, <1>5 DEF FindsReady
<1>9. semVal'[term_mut] + Cardinality(Waiting(term_mut)') + (IF Occupied' THEN 1 ELSE 0) <= 1
  <2>1. Waiting(term_mut)' = Waiting(term_mut)
    BY <1>5 DEF Waiting, Live
  <2> QED
    BY <1>2, <1>4, <2>1
<1>10. semVal'[32] > 0 => cpu' = "lost"
  BY <1>1, <1>4 DEF TermInv, Exclusion
<1> QED
  BY <1>6, <1>7, <1>8, <1>9, <1>10 DEF TermInv, Exclusion

(* V on term_mut: the process leaves, and lets at most one other in.       *)
LEMMA Leaves ==
  ASSUME IInv, IInv', TermInv, Verhogen(term_mut), Advance, old' = old,
         Instr = V(term_mut)
  PROVE  TermInv'
<1>1. /\ semVal \in [AllSems -> Int] /\ semVal[term_mut] \in Int
      /\ procQ \in [AllSems -> Seq(Pcbs)]
      /\ p_semAdd \in [Pcbs -> AllSems \cup {NULL}]
      /\ cpu = "user" /\ currentProcess \in Pcbs /\ currentProcess \in Live
      /\ p_semAdd[currentProcess] = NULL
  BY UserIsLive, TerminalNames DEF Verhogen, Running, IInv, TypeOK, CurrentApart
<1>2. UsesTerminal(currentProcess)
  BY <1>1, TerminalNames DEF UsesTerminal, Instr
<1>3. /\ \A p \in Pcbs : UsesTerminal(p) => p = currentProcess
      /\ unit[32] = "ready"
      /\ semVal[term_mut] + Cardinality(Waiting(term_mut)) <= 0
  <2>1. InstrOf(currentProcess) = V(term_mut) /\ p_semAdd[currentProcess] # 32 /\ cpu # "lost"
    BY <1>1, TerminalNames DEF Instr
  <2>2. unit[32] = "ready"
    BY <1>1, <1>2, <2>1 DEF TermInv, Exclusion, FindsReady
  <2>3. Occupied
    BY <1>1, <1>2 DEF Occupied
  <2>4. semVal[term_mut] + Cardinality(Waiting(term_mut)) + 1 <= 1
    BY <2>3 DEF TermInv, Exclusion
  <2> QED
    BY <1>1, <1>2, <2>2, <2>4, WaitingFinite DEF TermInv, Exclusion
<1>4. /\ semVal' = [semVal EXCEPT ![term_mut] = @ + 1]
      /\ cpu' = "user"
      /\ UNCHANGED <<unit, pcbFree, p_prnt, killStack>>
      /\ \/ procQ[term_mut] # <<>> /\ Wake(term_mut)
         \/ UNCHANGED <<procQ, p_semAdd>>
  BY <1>1 DEF Verhogen, procVars, devVars
<1>5. semVal'[term_mut] = semVal[term_mut] + 1 /\ semVal'[32] = semVal[32]
  BY <1>1, <1>4, TerminalNames
<1>6. /\ p_s' \in [Pcbs -> States] /\ Saved'
      /\ \A p \in Pcbs \ {currentProcess} : p_s'[p] = p_s[p]
      /\ ~Terminal(Does(p_s'[currentProcess]))
  <2>1. Instr.do = "V" /\ Instr # Wait(term_mut)
    BY DEF V, Wait, I
  <2> QED
    BY <1>1, <2>1, AdvanceKeeps DEF TermInv, Terminal
<1>7. FindsReady' /\ unit'[32] = "ready"
  BY <1>3, <1>4 DEF FindsReady
<1>8. semVal'[32] > 0 => cpu' = "lost"
  BY <1>1, <1>5 DEF TermInv, Exclusion
<1>9. CASE procQ[term_mut] # <<>> /\ Wake(term_mut)
  <2> DEFINE h == Head(procQ[term_mut])
  <2>1. /\ h \in Live /\ p_semAdd[h] = term_mut /\ h \in ToSet(procQ[term_mut])
        /\ p_semAdd' = [p_semAdd EXCEPT ![h] = NULL]
        /\ ToSet(procQ'[term_mut]) = ToSet(procQ[term_mut]) \ {h}
    BY <1>9, TerminalNames, WakeMovesHead
  <2> HIDE DEF h
  <2>2. \A p \in Pcbs : UsesTerminal(p)' => p = h
    <3>1. SUFFICES ASSUME NEW p \in Pcbs, UsesTerminal(p)', p # h PROVE FALSE
      OBVIOUS
    <3>2. p \in Live' /\ p_semAdd'[p] # term_mut /\ Terminal(Does(p_s'[p]))
      BY <3>1, UsesUnfolded
    <3>3. p # currentProcess
      BY <1>6, <3>2
    <3>4. p_s'[p] = p_s[p] /\ p_semAdd'[p] = p_semAdd[p]
      BY <1>1, <1>6, <2>1, <3>1, <3>3
    <3>5. UsesTerminal(p)
      BY <1>4, <3>2, <3>4, UsesUnfolded DEF Live
    <3> QED
      BY <1>3, <3>3, <3>5
  <2>3. SumKept(term_mut)
    <3>1. p_semAdd'[h] # p_semAdd[h]
      BY <1>1, <2>1, TerminalNames DEF Live
    <3> QED
      BY <3>1, VSteps, TerminalNames
  <2>4. semVal'[term_mut] + Cardinality(Waiting(term_mut)') + (IF Occupied' THEN 1 ELSE 0) <= 1
    BY <1>1, <1>3, <1>5, <2>3, WaitingFinite DEF SumKept
  <2> QED
    BY <1>6, <1>7, <1>8, <2>2, <2>4 DEF TermInv, Exclusion
<1>10. CASE UNCHANGED <<procQ, p_semAdd>>
  <2>1. \A p \in Pcbs : ~UsesTerminal(p)'
    BY <1>3, <1>4, <1>6, <1>10, UsesUnfolded DEF Live
  <2>2. ~Occupied'
    BY <1>7, <2>1 DEF Occupied
  <2>3. Waiting(term_mut)' = Waiting(term_mut)
    BY <1>4, <1>10 DEF Waiting, Live
  <2>4. semVal'[term_mut] + Cardinality(Waiting(term_mut)') + (IF Occupied' THEN 1 ELSE 0) <= 1
    BY <1>1, <1>3, <1>5, <2>2, <2>3, WaitingFinite
  <2> QED
    BY <1>6, <1>7, <1>8, <2>1, <2>4 DEF TermInv, Exclusion
<1> QED
  BY <1>4, <1>9, <1>10

(* Inside, the process gives its command and waits for its end.            *)
LEMMA Operates ==
  ASSUME IInv, IInv', TermInv, Advance, old' = old,
         \/ Instr.do = "start" /\ StartIO(32)
         \/ Instr.do = "SYS8" /\ op[currentProcess] = 32 /\ WaitForIODevice
  PROVE  TermInv'
<1>1. /\ semVal \in [AllSems -> Int] /\ semVal[term_mut] \in Int /\ semVal[32] \in Int
      /\ p_semAdd \in [Pcbs -> AllSems \cup {NULL}]
      /\ procQ \in [AllSems -> Seq(Pcbs)]
      /\ cpu = "user" /\ currentProcess \in Pcbs /\ currentProcess \in Live
      /\ p_semAdd[currentProcess] = NULL
  BY UserIsLive, TerminalNames
  DEF StartIO, WaitForIODevice, Running, IInv, TypeOK, CurrentApart
<1>2. UsesTerminal(currentProcess)
  BY <1>1, TerminalNames DEF UsesTerminal, Instr
<1>3. /\ \A p \in Pcbs : UsesTerminal(p) => p = currentProcess
      /\ semVal[term_mut] + Cardinality(Waiting(term_mut)) <= 0
      /\ semVal[32] <= 0
  <2>1. Occupied
    BY <1>1, <1>2 DEF Occupied
  <2>2. semVal[term_mut] + Cardinality(Waiting(term_mut)) + 1 <= 1
    BY <2>1 DEF TermInv, Exclusion
  <2> QED
    BY <1>1, <1>2, <2>2, WaitingFinite DEF TermInv, Exclusion
<1>4. /\ p_s' \in [Pcbs -> States] /\ Saved'
      /\ \A p \in Pcbs \ {currentProcess} : p_s'[p] = p_s[p]
      /\ Does(p_s'[currentProcess]).do # "start"
      /\ Does(p_s'[currentProcess]) = V(term_mut) => Instr.do = "SYS8"
  <2>1. Instr.do \in {"start", "SYS8"} /\ Instr # Wait(term_mut)
    BY DEF Wait, I
  <2> QED
    BY <1>1, <2>1, AdvanceKeeps DEF TermInv
<1>5. /\ UNCHANGED <<pcbFree, p_prnt, killStack>>
      /\ semVal'[term_mut] = semVal[term_mut] /\ procQ'[term_mut] = procQ[term_mut]
      /\ semVal'[32] <= 0
      /\ \A p \in Pcbs \ {currentProcess} : p_semAdd'[p] = p_semAdd[p]
      /\ p_semAdd'[currentProcess] # term_mut
      /\ Instr.do = "SYS8" => p_semAdd'[currentProcess] = 32
  <2>1. CASE Instr.do = "start" /\ StartIO(32)
    BY <1>1, <1>3, <2>1, TerminalNames DEF StartIO, procVars, semVars
  <2>2. CASE Instr.do = "SYS8" /\ op[currentProcess] = 32 /\ WaitForIODevice
    <3>1. semVal' = [semVal EXCEPT ![32] = @ - 1] /\ UNCHANGED <<pcbFree, p_prnt, killStack>>
      BY <2>2 DEF WaitForIODevice, P, procVars
    <3>2. semVal'[32] = semVal[32] - 1 /\ semVal'[term_mut] = semVal[term_mut]
      BY <1>1, <3>1, TerminalNames
    <3>3. Block(32)
      BY <1>1, <1>3, <2>2, <3>2 DEF WaitForIODevice, P
    <3>4. /\ procQ' = [procQ EXCEPT ![32] = Append(@, currentProcess)]
          /\ p_semAdd' = [p_semAdd EXCEPT ![currentProcess] = 32]
      BY <3>3 DEF Block
    <3> QED
      BY <1>1, <1>3, <2>2, <3>1, <3>2, <3>4, TerminalNames
  <2> QED
    BY <2>1, <2>2
<1>6. \A p \in Pcbs : UsesTerminal(p)' => p = currentProcess
  BY <1>3, <1>4, <1>5, UsesUnfolded DEF Live
<1>7. FindsReady'
  BY <1>1, <1>4, <1>5, <1>6, UsesUnfolded DEF FindsReady
<1>8. Waiting(term_mut)' \subseteq Waiting(term_mut)
  BY <1>5 DEF Waiting, Live
<1>9. semVal'[term_mut] + Cardinality(Waiting(term_mut)') + (IF Occupied' THEN 1 ELSE 0) <= 1
  <2>1. SumKept(term_mut)
    BY <1>5, <1>8, FewerWait, TerminalNames
  <2> QED
    BY <1>1, <1>3, <1>5, <2>1, WaitingFinite DEF SumKept
<1>10. ~(semVal'[32] > 0)
  <2>1. semVal'[32] \in Int
    BY TerminalNames DEF IInv, TypeOK
  <2> QED
    BY <1>5, <2>1
<1> QED
  BY <1>4, <1>6, <1>7, <1>9, <1>10 DEF TermInv, Exclusion

(* A system call, with what it leads to in the program.                    *)
LEMMA CallKeeps == ASSUME IInv, IInv', TermInv, Call PROVE TermInv'
<1>1. /\ p_s \in [Pcbs -> States] /\ Saved /\ Exclusion
      /\ Advance /\ old' = old
      /\ cpu = "user" /\ currentProcess \in Pcbs
  BY UserIsLive DEF TermInv, Call, KernelMode
<1>2. ASSUME Aside, Instr.do \notin {"error", "LDST", "start", "SYS8"},
             Instr # Wait(term_mut), pcbFree' = pcbFree
      PROVE  TermInv'
  <2>1. p_s' \in [Pcbs -> States] /\ Saved' /\ NobodyEnters
    BY <1>1, <1>2, AdvanceOutside DEF Live
  <2> QED
    BY <1>1, <1>2, <2>1, AsideKeeps DEF TermInv
<1>3. ASSUME NEW sem \in Sems, Instr.do = "V", sem = Instr.arg, Verhogen(sem)
      PROVE  TermInv'
  <2>1. Instr = V(sem)
    BY <1>1, <1>3, OtherPlaces DEF Instr, InstrOf, Does
  <2>2. CASE sem = term_mut
    BY <1>1, <1>3, <2>1, <2>2, Leaves
  <2>3. CASE sem # term_mut
    <3>1. Instr # Wait(term_mut) /\ pcbFree' = pcbFree
      BY <1>3 DEF Wait, I, Verhogen, procVars
    <3> QED
      BY <1>1, <1>2, <1>3, <2>3, <3>1, OtherSemaphoreHandlers
  <2> QED
    BY <2>2, <2>3
<1>4. ASSUME NEW sem \in Sems, Instr.do = "P", sem = Instr.arg, Passeren(sem)
      PROVE  TermInv'
  <2>1. pcbFree' = pcbFree
    BY <1>4 DEF Passeren, procVars
  <2>2. CASE sem # term_mut
    <3>1. Instr # Wait(term_mut)
      BY <1>4, <2>2 DEF Wait, I
    <3> QED
      BY <1>1, <1>2, <1>4, <2>1, <2>2, <3>1, OtherSemaphoreHandlers
  <2>3. CASE sem = term_mut /\ semVal[term_mut] > 0
    BY <1>1, <1>4, <2>3, Enters
  <2>4. CASE sem = term_mut /\ semVal[term_mut] <= 0
    <3>1. Aside
      BY <1>1, <1>4, <2>4, BlockedOutside
    <3>2. p_s' \in [Pcbs -> States] /\ Saved'
          /\ \A p \in Pcbs \ {currentProcess} : p_s'[p] = p_s[p]
      BY <1>1, <1>4, AdvanceKeeps
    <3>3. p_semAdd'[currentProcess] = term_mut
      <4>1. /\ p_semAdd \in [Pcbs -> AllSems \cup {NULL}]
            /\ semVal \in [AllSems -> Int] /\ term_mut \in AllSems
        BY TerminalNames DEF IInv, TypeOK
      <4>2. semVal' = [semVal EXCEPT ![term_mut] = @ - 1]
        BY <1>4, <2>4 DEF Passeren, P
      <4>3. semVal'[term_mut] < 0
        BY <2>4, <4>1, <4>2
      <4> QED
        BY <1>1, <1>4, <2>4, <4>1, <4>3 DEF Passeren, P, Block
    <3>4. NobodyEnters
      BY <2>1, <3>2, <3>3 DEF NobodyEnters, Live
    <3> QED
      BY <1>1, <3>1, <3>2, <3>4, AsideKeeps DEF TermInv
  <2>5. semVal[term_mut] \in Int
    BY TerminalNames DEF IInv, TypeOK
  <2> QED
    BY <2>2, <2>3, <2>4, <2>5
<1>5. CASE Instr.do = "SYS2" /\ TerminateProcess
  <2>1. Aside
    BY <1>1, <1>5, QuietHandlers
  <2>2. pcbFree' = pcbFree /\ Instr # Wait(term_mut)
    BY <1>5 DEF TerminateProcess, StartKill, procVars, Wait, I
  <2> QED
    BY <1>2, <1>5, <2>1, <2>2
<1>6. CASE Instr.do = "SYS5" /\ \E t \in Traps : t = Instr.arg /\ SpecifyExceptionStateVector(t)
  <2>1. PICK t \in TrapTypes : SpecifyExceptionStateVector(t)
    BY <1>6, KindsAssumption
  <2>2. Aside
    BY <1>1, <2>1, QuietHandlers
  <2>3. pcbFree' = pcbFree /\ Instr # Wait(term_mut)
    BY <1>6, <2>1 DEF SpecifyExceptionStateVector, StartKill, procVars, Wait, I
  <2> QED
    BY <1>2, <1>6, <2>2, <2>3
<1>7. CASE Instr.do = "SYS7" /\ WaitForClock
  <2>1. Aside
    BY <1>1, <1>7, OtherSemaphoreHandlers
  <2>2. pcbFree' = pcbFree /\ Instr # Wait(term_mut)
    BY <1>7 DEF WaitForClock, procVars, Wait, I
  <2> QED
    BY <1>2, <1>7, <2>1, <2>2
<1>8. CASE \/ Instr.do = "start" /\ StartIO(32)
           \/ Instr.do = "SYS8" /\ op[currentProcess] = 32 /\ WaitForIODevice
  BY <1>1, <1>8, Operates
<1> QED
  BY <1>3, <1>4, <1>5, <1>6, <1>7, <1>8 DEF Call

(* SYS1: the new process begins outside.                                   *)
LEMMA StartKeeps == ASSUME IInv, IInv', TermInv, Start PROVE TermInv'
<1>1. /\ p_s \in [Pcbs -> States] /\ Saved /\ Exclusion
      /\ old' = old /\ Instr.do = "create"
      /\ cpu = "user" /\ currentProcess \in Pcbs /\ currentProcess \in Live
      /\ pcbFree \subseteq Pcbs
  BY UserIsLive DEF TermInv, Start, KernelMode, IInv, TypeOK
<1>2. CASE pcbFree # {}
  <2> DEFINE p == CHOOSE q \in pcbFree : TRUE
             s == p_s[currentProcess]
             n == [s EXCEPT !.at = @ + 1]
             b == At(Instr.arg, FALSE)
  <2>1. /\ p \in pcbFree /\ p \in Pcbs /\ p # currentProcess
    BY <1>1, <1>2 DEF Live
  <2>2. /\ CreateProcess(p)
        /\ p_s' = [p_s EXCEPT ![p] = b, ![currentProcess].at = @ + 1]
    BY <1>2 DEF Start
  <2>3. s \in States /\ Instr = Does(s)
    BY <1>1 DEF Instr, InstrOf, Does
  <2>4. /\ n \in States /\ n.prog = s.prog /\ ~Terminal(Does(n))
    <3>1. Does(s) # Wait(term_mut)
      BY <1>1, <2>3 DEF Wait, I
    <3> QED
      BY <1>1, <2>3, <3>1, NextInstruction DEF Terminal
  <2>5. b \in States /\ ~Terminal(Does(b)) /\ b.prog # "p5sys"
    <3>1. Instr.arg \in Started /\ Started \subseteq DOMAIN Code \ {"none", "p5sys"}
      BY <1>1, <2>3, OtherPlaces DEF Started, Code
    <3> QED
      BY <2>3, <3>1, OtherPlaces DEF Entry
  <2> HIDE DEF p, b
  <2>6. /\ p_s' \in [Pcbs -> States]
        /\ p_s'[p] = b /\ p_s'[currentProcess] = n
        /\ \A q \in Pcbs \ {p, currentProcess} : p_s'[q] = p_s[q]
    BY <1>1, <2>1, <2>2, <2>4, <2>5
  <2> HIDE DEF n
  <2>7. Saved'
    <3>1. (\E q \in Pcbs : p_s'[q].prog = "p5sys") => \E q \in Pcbs : p_s[q].prog = "p5sys"
      BY <1>1, <2>4, <2>5, <2>6
    <3> QED
      BY <1>1, <3>1 DEF Saved
  <2>8. Aside
    BY <1>1, <2>1, <2>2, QuietHandlers
  <2>9. NobodyEnters
    <3>1. pcbFree' = pcbFree \ {p}
      BY <2>2 DEF CreateProcess
    <3> QED
      BY <2>4, <2>5, <2>6, <3>1 DEF NobodyEnters, Live
  <2> QED
    BY <1>1, <2>6, <2>7, <2>8, <2>9, AsideKeeps DEF TermInv
<1>3. CASE pcbFree = {}
  <2>1. CreateFails /\ p_s' = p_s
    BY <1>3 DEF Start
  <2>2. Aside
    BY <1>1, <2>1, QuietHandlers
  <2>3. NobodyEnters
    BY <2>1 DEF NobodyEnters, CreateFails, procVars, Live
  <2> QED
    BY <1>1, <2>1, <2>2, <2>3, AsideKeeps DEF TermInv, Saved
<1> QED
  BY <1>2, <1>3

(* What a program does by itself.                                          *)
LEMMA ComputeKeeps ==
  ASSUME IInv, IInv', TermInv, Compute \/ LeaveLoop \/ Again
  PROVE  TermInv'
<1> DEFINE s == p_s[currentProcess]
<1>1. /\ p_s \in [Pcbs -> States] /\ Saved /\ Exclusion
      /\ old' = old /\ UNCHANGED vars
      /\ cpu = "user" /\ currentProcess \in Pcbs
  BY UserIsLive DEF TermInv, Compute, LeaveLoop, Again
<1>2. Aside /\ Live' = Live
  BY <1>1, QuietHandlers DEF vars, procVars, Live
<1>3. s \in States /\ Instr = Does(s)
  BY <1>1 DEF Instr, InstrOf, Does
<1>4. ASSUME Advance, Instr.do \in {"synch", "synched", "zero", "again"}
      PROVE  p_s' \in [Pcbs -> States] /\ Saved' /\ NobodyEnters
  <2>1. Instr # Wait(term_mut)
    BY <1>4 DEF Wait, I
  <2> QED
    BY <1>1, <1>2, <1>4, <2>1, AdvanceOutside
<1>5. ASSUME NEW n \in States, n.prog = s.prog, ~Terminal(Does(n)), Goes(n)
      PROVE  p_s' \in [Pcbs -> States] /\ Saved' /\ NobodyEnters
  <2>1. /\ p_s' \in [Pcbs -> States] /\ Saved' /\ p_s'[currentProcess] = n
        /\ \A p \in Pcbs \ {currentProcess} : p_s'[p] = p_s[p]
    BY <1>1, <1>5, GoesKeeps
  <2> QED
    BY <1>2, <1>5, <2>1 DEF NobodyEnters, Live
<1>6. CASE Fail
  <2> DEFINE e == [s EXCEPT !.at = Len(Code[s.prog])]
  <2>1. e \in States /\ e.prog = s.prog /\ ~Terminal(Does(e))
    BY <1>3, OtherPlaces
  <2>2. Goes(e)
    BY <1>6 DEF Fail, Goes
  <2> HIDE DEF e
  <2>3. p_s' \in [Pcbs -> States] /\ Saved' /\ NobodyEnters
    BY <1>5, <2>1, <2>2
  <2> QED
    BY <1>1, <1>2, <2>3, AsideKeeps DEF TermInv
<1>7. CASE Again
  <2> DEFINE b == [s EXCEPT !.at = @ - 1]
  <2>1. Does(s).do = "again"
    BY <1>3, <1>7 DEF Again
  <2>2. b \in States /\ ~Terminal(Does(b)) /\ b.prog = s.prog
    BY <1>3, <2>1, OtherPlaces DEF Entry
  <2>3. Goes(b)
    BY <1>7 DEF Again, Goes
  <2> HIDE DEF b
  <2>4. p_s' \in [Pcbs -> States] /\ Saved' /\ NobodyEnters
    BY <1>5, <2>2, <2>3
  <2> QED
    BY <1>1, <1>2, <2>4, AsideKeeps DEF TermInv
<1>8. CASE Advance /\ Instr.do \in {"synch", "synched", "zero", "again"}
  BY <1>1, <1>2, <1>4, <1>8, AsideKeeps DEF TermInv
<1> QED
  BY <1>6, <1>7, <1>8 DEF Compute, LeaveLoop

(* A process goes to its handler, or stays where it was.                   *)
LEMMA HandledKeeps ==
  ASSUME IInv, IInv', TermInv, Aside, Live' = Live, NEW t \in TrapTypes, NEW cause,
         currentProcess \in Pcbs, Handled(t, cause), t = "Sys" => Instr.do = "trap"
  PROVE  TermInv'
<1>1. p_s \in [Pcbs -> States] /\ Saved /\ Exclusion
  BY DEF TermInv
<1>2. CASE t \notin vectors[currentProcess]
  BY <1>1, <1>2, AsideKeeps DEF Handled, NobodyEnters, TermInv, Saved
<1>3. CASE t \in vectors[currentProcess]
  <2> DEFINE f == CASE t = "Pgm" -> "p5prog" [] t = "TLB" -> "p5mm" [] t = "Sys" -> "p5sys"
             o == [state |-> p_s[currentProcess], cause |-> cause,
                   open |-> currentProcess \in unmasked]
  <2>1. p_s' = [p_s EXCEPT ![currentProcess] = At(f, FALSE)] /\ old' = [old EXCEPT ![t] = o]
    BY <1>3 DEF Handled
  <2>2. f \in DOMAIN Code \ {"none"} /\ (f = "p5sys" => t = "Sys")
    BY DEF Code, TrapTypes
  <2>3. /\ At(f, FALSE) \in States /\ ~Terminal(Does(At(f, FALSE)))
        /\ At(f, FALSE).prog = f
    BY <1>1, <2>2, OtherPlaces DEF Entry
  <2> HIDE DEF f
  <2>4. /\ p_s' \in [Pcbs -> States] /\ p_s'[currentProcess] = At(f, FALSE)
        /\ \A p \in Pcbs \ {currentProcess} : p_s'[p] = p_s[p]
    BY <1>1, <2>1, <2>3
  <2>5. NobodyEnters
    BY <2>3, <2>4 DEF NobodyEnters, Live
  <2>6. /\ DOMAIN old' = TrapTypes
        /\ old'[t] = o /\ o.state = p_s[currentProcess]
        /\ \A u \in TrapTypes \ {t} : old'[u] = old[u]
    BY <1>1, <2>1 DEF Saved
  <2> HIDE DEF o
  <2>7. Saved'
    <3>1. \A u \in TrapTypes : old'[u].state \in States
      BY <1>1, <2>6 DEF Saved
    <3>2. CASE t = "Sys"
      <4>1. Does(p_s[currentProcess]).do = "trap"
        BY <3>2 DEF Instr, InstrOf, Does
      <4> QED
        BY <2>6, <3>1, <3>2, <4>1 DEF Saved, Does
    <3>3. CASE t # "Sys"
      <4>1. (\E q \in Pcbs : p_s'[q].prog = "p5sys") => \E q \in Pcbs : p_s[q].prog = "p5sys"
        BY <2>2, <2>3, <2>4, <3>3
      <4>2. old'["Sys"] = old["Sys"]
        BY <2>6, <3>3 DEF TrapTypes
      <4> QED
        BY <1>1, <2>6, <3>1, <4>1, <4>2 DEF Saved
    <3> QED
      BY <3>2, <3>3
  <2> QED
    BY <1>1, <2>4, <2>5, <2>7, AsideKeeps DEF TermInv
<1> QED
  BY <1>2, <1>3

(* Exceptions, of programs and of the nucleus.                             *)
LEMMA ExceptionKeeps ==
  ASSUME IInv, IInv', TermInv, Raise \/ Faulting
  PROVE  TermInv'
<1>1. ASSUME NEW t, PassUpOrDie(t)
      PROVE  Live' = Live
  BY <1>1 DEF PassUpOrDie, LoadState, StartKill, procVars, Live
<1>2. currentProcess \in Pcbs \cup {NULL}
  BY DEF IInv, TypeOK
<1>3. CASE Raise
  <2>1. PICK t \in Traps :
          /\ Exception(t)
          /\ IF Instr.do = "trap" THEN t = Instr.arg /\ Handled(t, Instr.cause)
             ELSE /\ p_s[currentProcess].user /\ Instr.do \notin {"again", "error"}
                  /\ t = "Pgm" /\ Handled(t, "reserved")
    BY <1>3 DEF Raise
  <2>2. t \in TrapTypes
    BY KindsAssumption
  <2>3. currentProcess \in Pcbs
    BY <1>3, UserIsLive DEF Raise
  <2>4. Aside
    BY <2>1, <2>2, QuietHandlers DEF TermInv
  <2>5. Live' = Live
    BY <1>1, <2>1 DEF Exception
  <2> QED
    BY <2>1, <2>2, <2>3, <2>4, <2>5, HandledKeeps
<1>4. CASE Faulting
  <2>1. KernelTrap /\ Handled("Pgm", "address") /\ currentProcess \in Pcbs
    BY <1>2, <1>4 DEF Faulting, KernelTrap
  <2>2. Aside
    BY <2>1, QuietHandlers DEF TermInv
  <2>3. Live' = Live
    BY <1>1, <2>1 DEF KernelTrap
  <2>4. "Pgm" \in TrapTypes
    BY DEF TrapTypes
  <2> QED
    BY <2>1, <2>2, <2>3, <2>4, HandledKeeps
<1> QED
  BY <1>3, <1>4

(* A handler of p5 ends: what it returns to is outside the terminal.       *)
LEMMA EndHandlerKeeps == ASSUME IInv, IInv', TermInv, EndHandler PROVE TermInv'
<1> DEFINE s == p_s[currentProcess]
           t == Instr.arg
           n == ReturnState(t)
<1>1. /\ p_s \in [Pcbs -> States] /\ Saved /\ Exclusion
      /\ old' = old /\ ProgramLDST /\ Instr.do = "LDST" /\ Goes(n)
      /\ currentProcess \in Pcbs
  BY UserIsLive DEF TermInv, EndHandler, KernelMode, Goes
<1>2. s \in States /\ Instr = Does(s)
  BY <1>1 DEF Instr, InstrOf, Does
<1>3. t \in TrapTypes /\ (t = "Sys" => s.prog = "p5sys")
  BY <1>1, <1>2, OtherPlaces
<1> HIDE DEF t
<1>4. /\ \A f \in {"p5a", "p5b"}, u \in BOOLEAN :
           At(f, u) \in States /\ ~Terminal(Does(At(f, u))) /\ At(f, u).prog = f
  <2>1. {"p5a", "p5b"} \subseteq DOMAIN Code \ {"none"}
    BY DEF Code
  <2> QED
    BY <1>2, <2>1, OtherPlaces DEF Entry
<1>5. /\ n \in States /\ ~Terminal(Does(n))
      /\ n.prog = "p5sys" => s.prog = "p5sys"
  <2>1. old[t].state \in States /\ old[t].state.user \in BOOLEAN
    BY <1>1, <1>3 DEF Saved, States
  <2>2. CASE t = "Sys"
    <3> DEFINE o == old[t].state
    <3>1. Does(o).do = "trap"
      BY <1>1, <1>3, <2>2 DEF Saved, Does
    <3>2. Does(o) # Wait(term_mut)
      BY <3>1 DEF Wait, I
    <3>3. n = [o EXCEPT !.at = @ + 1]
      BY <2>2 DEF ReturnState
    <3> QED
      BY <1>3, <2>1, <2>2, <3>1, <3>2, <3>3, NextInstruction DEF Terminal
  <2>3. CASE t = "TLB"
    <3>1. n = At("p5b", TRUE)
      BY <2>3 DEF ReturnState
    <3> QED
      BY <1>4, <3>1
  <2>4. CASE t = "Pgm"
    <3>1. n = At("p5a", old[t].state.user) \/ n = At("p5b", FALSE)
      BY <2>4 DEF ReturnState
    <3> QED
      BY <1>4, <2>1, <3>1
  <2> QED
    BY <1>3, <2>2, <2>3, <2>4 DEF TrapTypes
<1> HIDE DEF n
<1>6. /\ p_s' \in [Pcbs -> States] /\ Saved' /\ p_s'[currentProcess] = n
      /\ \A p \in Pcbs \ {currentProcess} : p_s'[p] = p_s[p]
  BY <1>1, <1>5, GoesKeeps
<1>7. Aside /\ Live' = Live
  BY <1>1, QuietHandlers DEF ProgramLDST, LoadState, Live
<1>8. NobodyEnters
  BY <1>5, <1>6, <1>7 DEF NobodyEnters, Live
<1> QED
  BY <1>1, <1>6, <1>7, <1>8, AsideKeeps DEF TermInv

(* Where a pcb that is not in use stands.                                  *)
LEMMA IdlePlace == Idle \in States /\ Idle.prog = "none"
<1>1. "none" \in DOMAIN Code /\ Len(Code["none"]) = 1
  BY DEF Code, Error
<1> QED
  BY <1>1 DEF Idle, At, States

(* A termination moves no process but the one it frees.                    *)
LEMMA KillingKeeps == ASSUME IInv, IInv', TermInv, Killing PROVE TermInv'
<1>1. /\ p_s \in [Pcbs -> States] /\ Saved /\ Exclusion
      /\ p_s' = [p \in Pcbs |-> IF p \in pcbFree' THEN Idle ELSE p_s[p]]
      /\ old' = old
  BY DEF TermInv, Killing
<1>2. Aside
  BY <1>1, QuietHandlers, KillAside DEF Killing
<1>3. pcbFree \subseteq pcbFree'
  BY DEF Killing, KillChild, KillLeaf, KillMissing, procVars
<1>4. Idle \in States /\ Idle.prog = "none"
  BY IdlePlace
<1>5. p_s' \in [Pcbs -> States]
  BY <1>1, <1>4
<1>6. Saved'
  <2>1. (\E q \in Pcbs : p_s'[q].prog = "p5sys") => \E q \in Pcbs : p_s[q].prog = "p5sys"
    BY <1>1, <1>4
  <2> QED
    BY <1>1, <2>1 DEF Saved
<1>7. NobodyEnters
  BY <1>1, <1>3 DEF NobodyEnters, Live
<1> QED
  BY <1>1, <1>2, <1>5, <1>6, <1>7, AsideKeeps DEF TermInv

(* Interrupts move no process.                                             *)
LEMMA InterruptKeeps ==
  ASSUME IInv, IInv', TermInv, Quantum \/ Tick \/ Device
  PROVE  TermInv'
<1>1. p_s' = p_s /\ old' = old /\ Exclusion
  BY DEF TermInv, Quantum, Tick, Device, testVars
<1>2. Aside
  BY <1>1, QuietHandlers, OtherSemaphoreHandlers, TransmitterAside DEF Quantum, Tick, Device
<1>3. Live' = Live
  BY DEF Quantum, TimerInterrupt, Tick, ClockInterrupt, Device, DeviceDone, DeviceInterrupt,
         procVars, Live
<1> QED
  BY <1>1, <1>2, <1>3, AsideKeeps DEF TermInv, Saved, NobodyEnters

(* Every step of the test keeps its invariant.                             *)
THEOREM NextTermInv == IInv /\ TermInv /\ [P2Next]_p2vars => TermInv'
<1> SUFFICES ASSUME IInv, TermInv, [P2Next]_p2vars PROVE TermInv'
  OBVIOUS
<1>1. IInv'
  BY P2NextIsNext, NextIInv DEF IInv
<1>2. CASE Program
  BY <1>1, <1>2, CallKeeps, StartKeeps, ComputeKeeps, ExceptionKeeps, EndHandlerKeeps
  DEF Program
<1>3. CASE Killing \/ Faulting \/ Quantum \/ Tick \/ Device
  BY <1>1, <1>3, KillingKeeps, ExceptionKeeps, InterruptKeeps
<1>4. CASE UNCHANGED p2vars
  <2>1. UNCHANGED vars /\ p_s' = p_s /\ old' = old
    BY <1>4 DEF p2vars, testVars
  <2>2. Aside /\ Live' = Live
    BY <1>1, <2>1, QuietHandlers DEF TermInv, vars, procVars, Live
  <2> QED
    BY <1>1, <2>1, <2>2, AsideKeeps DEF TermInv, Saved, NobodyEnters
<1> QED
  BY <1>2, <1>3, <1>4 DEF P2Next

(* main() starts p1 outside the terminal, which is free and ready.         *)
THEOREM InitTermInv == P2Init => TermInv
<1> SUFFICES ASSUME P2Init PROVE TermInv
  OBVIOUS
<1>1. /\ Init /\ currentProcess \in Pcbs
      /\ semVal = [sem \in AllSems |-> IF sem \in {term_mut, blkp4} THEN 1 ELSE 0]
      /\ p_s = [p \in Pcbs |-> IF p = currentProcess THEN At("p1", FALSE) ELSE Idle]
      /\ old = [t \in TrapTypes |-> [state |-> Idle, cause |-> "none", open |-> FALSE]]
  BY DEF P2Init, Init
<1>2. /\ p_semAdd = [p \in Pcbs |-> NULL]
      /\ unit = [u \in Units |-> "ready"]
      /\ Live = {currentProcess}
  BY <1>1 DEF Init, Live
<1>3. /\ Idle \in States /\ Idle.prog = "none"
      /\ At("p1", FALSE) \in States /\ At("p1", FALSE).prog = "p1"
      /\ ~Terminal(Does(At("p1", FALSE)))
  <2>1. "p1" \in DOMAIN Code \ {"none"}
    BY DEF Code
  <2> QED
    BY <2>1, IdlePlace, OtherPlaces DEF Entry
<1>4. p_s \in [Pcbs -> States] /\ Saved
  BY <1>1, <1>3 DEF Saved
<1>5. \A p \in Pcbs : ~UsesTerminal(p)
  BY <1>1, <1>2, <1>3, UsesUnfolded
<1>6. /\ ~Occupied
      /\ semVal[term_mut] = 1 /\ semVal[32] = 0
  <2>1. 32 # blkp4 /\ 32 # term_mut
    BY TerminalNames, TestSemaphores
  <2> QED
    BY <1>1, <1>2, <1>5, <2>1, TerminalNames DEF Occupied
<1>7. Cardinality(Waiting(term_mut)) = 0
  <2>1. Waiting(term_mut) = {}
    BY <1>2, TerminalNames DEF Waiting, Live
  <2> QED
    BY <2>1, FS_EmptySet
<1>8. semVal[term_mut] + Cardinality(Waiting(term_mut)) + (IF Occupied THEN 1 ELSE 0) <= 1
  BY <1>6, <1>7
<1>9. FindsReady /\ ~(semVal[32] > 0)
  BY <1>5, <1>6 DEF FindsReady
<1> QED
  BY <1>4, <1>5, <1>8, <1>9 DEF TermInv, Exclusion

(* The terminal of p2test.c is used by one process at a time, which finds  *)
(* the transmitter ready, for any number of pcbs and of incarnations of    *)
(* p8root, and whatever is killed while it prints or waits to print.       *)
THEOREM P2TerminalExclusive == P2Spec => []TerminalExclusive
<1>1. TermInv => TerminalExclusive
  BY DEF TermInv, Exclusion, FindsReady, TerminalExclusive, Live
<1>2. P2Init => IInv
  BY P2InitIsInit, InitIInv
<1>3. IInv /\ [P2Next]_p2vars => IInv'
  BY P2NextIsNext, NextIInv DEF IInv
<1> QED
  BY <1>1, <1>2, <1>3, InitTermInv, NextTermInv, PTL DEF P2Spec

-----------------------------------------------------------------------------
(* No check of the programs fails.                                         *)

(* p5, its handlers and what they return to.                               *)
P5s == {"p5", "p5a", "p5b", "p5prog", "p5mm", "p5sys"}

(* Whoever stands at its error is blocked on blkp8, where no V comes, or   *)
(* is being killed.                                                        *)
Doomed ==
  \A p \in Live : Does(p_s[p]).do = "error" =>
    p_semAdd[p] = blkp8 \/ (p = currentProcess /\ cpu \in {"kill", "trap"})

(* blkp8 lets nobody through.                                              *)
Blocks == semVal[blkp8] + Cardinality(Waiting(blkp8)) <= 0

(* p2 sets p1p2synch before its V on endp2, and until then endp2 lets      *)
(* nobody through, so that p1 finds it set.                                *)
Synchronised ==
  /\ p1p2synch = 1 \/ semVal[endp2] + Cardinality(Waiting(endp2)) <= 0
  /\ \A p \in Live :
       /\ Does(p_s[p]) = V(endp2) => p1p2synch = 1
       /\ Does(p_s[p]).do = "synched" => p1p2synch = 1 \/ p_semAdd[p] = endp2

(* There is one p1, which starts one p2, and nobody else uses s[]: p2      *)
(* finds it at zero after its V and P.                                     *)
Zeroed ==
  /\ \A p, q \in Live : p_s[p].prog = p_s[q].prog /\ p_s[p].prog \in {"p1", "p2"} => p = q
  /\ \A p \in Live : p_s[p].prog = "p1" /\ p_s[p].at <= 6 =>
       semVal[sArr] = 0 /\ \A q \in Live : p_s[q].prog # "p2"
  /\ \A p \in Live : p_s[p].prog = "p2" =>
       semVal[sArr] = IF Does(p_s[p]) = Wait(sArr) THEN 1 ELSE 0
  /\ \A p \in Pcbs : p_semAdd[p] # sArr

(* Only p5 has handlers, for program traps before anything else, and the   *)
(* call that p5sys returns from was made by p5b.                           *)
Vectored ==
  /\ \A p \in Live : vectors[p] # {} => p_s[p].prog \in P5s
  /\ \A p \in Live : p_s[p].prog \in P5s \ {"p5"} => "Pgm" \in vectors[p]
  /\ (\E p \in Live : p_s[p].prog = "p5sys") => old["Sys"].state.prog = "p5b"

(* The invariant of the checks.                                            *)
ErrInv == Doomed /\ Blocks /\ Synchronised /\ Zeroed /\ Vectored

(* What the invariants say of the process that has the CPU.                *)
LEMMA Runs ==
  ASSUME IInv, TermInv, cpu = "user"
  PROVE  /\ currentProcess \in Live /\ currentProcess \in Pcbs
         /\ p_semAdd[currentProcess] = NULL
         /\ p_s[currentProcess] \in States
         /\ Instr = Does(p_s[currentProcess])
         /\ Fits(p_s[currentProcess].prog, Instr)
<1>1. currentProcess \in Live /\ currentProcess \in Pcbs /\ p_semAdd[currentProcess] = NULL
  BY UserIsLive DEF IInv, CurrentApart
<1>2. p_s[currentProcess] \in States /\ Instr = Does(p_s[currentProcess])
  BY <1>1 DEF TermInv, Instr, InstrOf, Does
<1> QED
  BY <1>1, <1>2, StatePlace

(* A semaphore of the programs is left alone, or it is the argument of a V *)
(* or a P that the running program makes.                                  *)
LEMMA StepOnSemaphore ==
  ASSUME IInv, TermInv, [P2Next]_p2vars, NEW s \in Sems
  PROVE  \/ Untouched(s)
         \/ /\ cpu = "user" /\ Advance
            /\ \/ Instr = V(s) /\ Verhogen(s)
               \/ Instr = Wait(s) /\ Passeren(s)
<1>1. IInv'
  BY P2NextIsNext, NextIInv DEF IInv
<1>2. CASE Call
  <2>1. cpu = "user" /\ Advance /\ Fits(p_s[currentProcess].prog, Instr)
    BY <1>2, Runs DEF Call, KernelMode
  <2>2. CASE Instr.do = "V" /\ \E r \in Sems : r = Instr.arg /\ Verhogen(r)
    <3>1. Instr = V(Instr.arg) /\ Instr.arg \in Sems /\ Verhogen(Instr.arg)
      BY <2>1, <2>2 DEF Fits
    <3> QED
      BY <1>1, <2>1, <3>1, OtherStepsUntouched
  <2>3. CASE Instr.do = "P" /\ \E r \in Sems : r = Instr.arg /\ Passeren(r)
    <3>1. Instr = Wait(Instr.arg) /\ Instr.arg \in Sems /\ Passeren(Instr.arg)
      BY <2>1, <2>3 DEF Fits
    <3> QED
      BY <1>1, <2>1, <3>1, OtherStepsUntouched
  <2>4. CASE \/ TerminateProcess
             \/ \E t \in Traps : SpecifyExceptionStateVector(t)
             \/ WaitForClock
             \/ StartIO(32)
             \/ WaitForIODevice
    BY <1>1, <2>4, OtherStepsUntouched, TerminalNames
  <2> QED
    BY <1>2, <2>2, <2>3, <2>4 DEF Call
<1>3. CASE Start
  <2>1. CASE pcbFree # {}
    <3>1. (CHOOSE q \in pcbFree : TRUE) \in Pcbs
      BY <2>1 DEF IInv, TypeOK
    <3> QED
      BY <1>1, <1>3, <2>1, <3>1, OtherStepsUntouched DEF Start
  <2>2. CASE pcbFree = {}
    BY <1>1, <1>3, <2>2, OtherStepsUntouched DEF Start
  <2> QED
    BY <2>1, <2>2
<1>4. CASE Compute \/ LeaveLoop \/ Again
  BY <1>1, <1>4, OtherStepsUntouched DEF Compute, LeaveLoop, Again
<1>5. CASE Raise \/ EndHandler
  BY <1>1, <1>5, OtherStepsUntouched DEF Raise, EndHandler
<1>6. CASE Killing \/ Faulting
  BY <1>1, <1>6, OtherStepsUntouched DEF Killing, Faulting, Termination
<1>7. CASE Quantum \/ Tick
  BY <1>1, <1>7, OtherStepsUntouched DEF Quantum, Tick, Interrupt
<1>8. CASE Device
  <2>1. 32 \in Devices
    BY TerminalNames DEF Devices
  <2> QED
    BY <1>1, <1>8, <2>1, OtherStepsUntouched, TerminalNames DEF Device, Interrupt
<1>9. CASE UNCHANGED p2vars
  BY <1>1, <1>9, OtherStepsUntouched DEF p2vars
<1> QED
  BY <1>2, <1>3, <1>4, <1>5, <1>6, <1>7, <1>8, <1>9 DEF P2Next, Program

-----------------------------------------------------------------------------
(* Where the processes go in a step.                                       *)

(* A process stays where it is.                                            *)
StaysAt(p) == p \in Live /\ p_s'[p] = p_s[p] /\ vectors'[p] = vectors[p]

(* It goes on behind an instruction that does not end it.                  *)
Advances(p) ==
  /\ p = currentProcess /\ p \in Live /\ cpu = "user"
  /\ p_s'[p] = [p_s[p] EXCEPT !.at = @ + 1]
  /\ Instr.do \notin {"error", "LDST", "trap"}
  /\ vectors[p] \subseteq vectors'[p]
  /\ vectors'[p] # vectors[p] => Instr.do = "SYS5"
  /\ Instr.do = "synch" => p1p2synch' = 1
  /\ Instr.do = "V" => Verhogen(Instr.arg)
  /\ Instr.do = "P" => Passeren(Instr.arg)
  /\ Instr.do = "SYS2" => StartKill
  /\ Instr.do = "SYS5" => SpecifyExceptionStateVector(Instr.arg)

(* It is created by the running process, which goes on.                    *)
Begins(p) ==
  /\ p \in pcbFree /\ Live' = Live \cup {p}
  /\ cpu = "user" /\ Instr.do = "create"
  /\ p_s'[p] = At(Instr.arg, FALSE)
  /\ p_s'[currentProcess] = [p_s[currentProcess] EXCEPT !.at = @ + 1]
  /\ vectors'[p] = {}

(* It goes back to wait for the clock, or to or from a handler of p5.      *)
Jumps(p) ==
  /\ p = currentProcess /\ p \in Live
  /\ Entry(Does(p_s'[p]))
  /\ vectors'[p] = vectors[p]
  /\ \/ /\ p_s'[p].prog = p_s[p].prog /\ p_s[p].prog \in {"p3", "p5b"}
        /\ p_s'[p] = [p_s[p] EXCEPT !.at = @ - 1]
        /\ cpu = "user" /\ Instr.do = "again"
     \/ /\ p_s'[p].prog \in P5s \ {"p5"} /\ "Pgm" \in vectors[p]
        /\ p_s'[p].prog = "p5b" => p_s'[p].at \in {1, 2}
        /\ p_s'[p].prog = "p5sys" => old'["Sys"].state.prog = "p5b"

(* Every process does one of these.                                        *)
Moves == \A p \in Live' : StaysAt(p) \/ Advances(p) \/ Begins(p) \/ Jumps(p)

(* The variables that several programs use.                                *)
Shares ==
  /\ p1p2synch' \in {p1p2synch, 1}
  /\ old'["Sys"] = old["Sys"] \/ old'["Sys"].state.prog = "p5b"

(* A call, or a computation, that goes on.                                 *)
LEMMA AdvanceMoves ==
  ASSUME IInv, TermInv, cpu = "user", Advance, Live' \subseteq Live,
         Instr.do \notin {"error", "LDST", "trap"},
         UNCHANGED vectors \/ SpecifyExceptionStateVector(Instr.arg),
         vectors' # vectors => Instr.do = "SYS5",
         Instr.do = "synch" => p1p2synch' = 1,
         Instr.do = "V" => Verhogen(Instr.arg),
         Instr.do = "P" => Passeren(Instr.arg),
         Instr.do = "SYS2" => StartKill,
         Instr.do = "SYS5" => SpecifyExceptionStateVector(Instr.arg)
  PROVE  Moves /\ Advances(currentProcess)
<1>1. /\ p_s'[currentProcess] = [p_s[currentProcess] EXCEPT !.at = @ + 1]
      /\ \A p \in Pcbs \ {currentProcess} : p_s'[p] = p_s[p]
  BY Runs DEF TermInv, Advance
<1>2. /\ \A p \in Pcbs \ {currentProcess} : vectors'[p] = vectors[p]
      /\ vectors[currentProcess] \subseteq vectors'[currentProcess]
  BY Runs DEF SpecifyExceptionStateVector, StartKill, procVars, IInv, TypeOK
<1>3. Advances(currentProcess)
  BY <1>1, <1>2, Runs DEF Advances
<1> QED
  BY <1>1, <1>2, <1>3 DEF Moves, StaysAt, Live

(* Calls.                                                                  *)
LEMMA CallMoves ==
  ASSUME IInv, TermInv, Call
  PROVE  Moves /\ Shares /\ Advances(currentProcess)
<1>1. /\ cpu = "user" /\ Advance /\ old' = old /\ p1p2synch' = p1p2synch
      /\ Instr.do \in {"V", "P", "SYS2", "SYS5", "SYS7", "start", "SYS8"}
  BY DEF Call, KernelMode
<1>2. ASSUME NEW t, SpecifyExceptionStateVector(t)
      PROVE  Live' = Live
  BY <1>2 DEF SpecifyExceptionStateVector, StartKill, procVars, Live
<1>3. CASE \/ Instr.do = "V" /\ Verhogen(Instr.arg)
           \/ Instr.do = "P" /\ Passeren(Instr.arg)
           \/ Instr.do = "SYS7" /\ WaitForClock
           \/ Instr.do = "start" /\ StartIO(32)
           \/ Instr.do = "SYS8" /\ WaitForIODevice
  <2>1. UNCHANGED procVars
    BY <1>3 DEF Verhogen, Passeren, WaitForClock, StartIO, WaitForIODevice
  <2>2. Live' = Live /\ vectors' = vectors
    BY <2>1 DEF procVars, Live
  <2> QED
    BY <1>1, <1>3, <2>2, AdvanceMoves DEF Shares
<1>4. CASE Instr.do = "SYS2" /\ TerminateProcess
  <2>1. StartKill /\ Live' = Live /\ vectors' = vectors
    BY <1>4 DEF TerminateProcess, StartKill, procVars, Live
  <2> QED
    BY <1>1, <1>4, <2>1, AdvanceMoves DEF Shares
<1>5. CASE Instr.do = "SYS5" /\ \E t \in Traps : t = Instr.arg /\ SpecifyExceptionStateVector(t)
  BY <1>1, <1>2, <1>5, AdvanceMoves DEF Shares
<1> QED
  BY <1>3, <1>4, <1>5 DEF Call

(* SYS1.                                                                   *)
LEMMA StartMoves == ASSUME IInv, TermInv, Start PROVE Moves /\ Shares
<1>1. /\ cpu = "user" /\ Instr.do = "create" /\ old' = old /\ p1p2synch' = p1p2synch
      /\ currentProcess \in Live /\ currentProcess \in Pcbs
      /\ p_s \in [Pcbs -> States] /\ pcbFree \subseteq Pcbs
  BY Runs DEF Start, KernelMode, TermInv, IInv, TypeOK
<1>2. CASE pcbFree # {}
  <2> DEFINE q == CHOOSE q \in pcbFree : TRUE
             s == p_s[currentProcess]
             n == [s EXCEPT !.at = @ + 1]
             b == At(Instr.arg, FALSE)
  <2>1. q \in pcbFree /\ q \in Pcbs /\ q # currentProcess
    BY <1>1, <1>2 DEF Live
  <2>2. CreateProcess(q) /\ p_s' = [p_s EXCEPT ![q] = b, ![currentProcess].at = @ + 1]
    BY <1>2 DEF Start
  <2>3. pcbFree' = pcbFree \ {q} /\ vectors' = vectors /\ vectors[q] = {}
    BY <2>1, <2>2 DEF CreateProcess, IInv, FreeClean
  <2> HIDE DEF q, b
  <2>4. /\ p_s'[q] = b /\ p_s'[currentProcess] = n
        /\ \A p \in Pcbs \ {q, currentProcess} : p_s'[p] = p_s[p]
    BY <1>1, <2>1, <2>2
  <2>5. Begins(q) /\ Advances(currentProcess)
    BY <1>1, <2>1, <2>3, <2>4 DEF Begins, Advances, b, Live
  <2>6. \A p \in Live' : p = q \/ p = currentProcess \/ StaysAt(p)
    BY <2>1, <2>3, <2>4 DEF StaysAt, Live
  <2> QED
    BY <1>1, <2>5, <2>6 DEF Moves, Shares
<1>3. CASE pcbFree = {}
  BY <1>1, <1>3 DEF Start, CreateFails, procVars, Moves, StaysAt, Shares, Live
<1> QED
  BY <1>2, <1>3

(* The checks of p1 and p2 do not fail.                                    *)
LEMMA ComputeMoves ==
  ASSUME IInv, TermInv, ErrInv, Compute \/ LeaveLoop \/ Again
  PROVE  Moves /\ Shares
<1>1. /\ cpu = "user" /\ old' = old /\ UNCHANGED vars
      /\ p_s \in [Pcbs -> States]
  BY DEF TermInv, Compute, LeaveLoop, Again
<1>2. Live' = Live /\ vectors' = vectors
  BY <1>1 DEF vars, procVars, Live
<1>3. Instr.do = "synched" => p1p2synch = 1
  <2>1. endp2 # NULL
    BY NullApart, TestSemaphores
  <2> QED
    BY <1>1, <2>1, Runs DEF ErrInv, Synchronised
<1>4. Instr.do = "zero" => semVal[sArr] = 0
  <2>1. SUFFICES ASSUME Instr.do = "zero" PROVE semVal[sArr] = 0
    OBVIOUS
  <2>2. p_s[currentProcess].prog = "p2" /\ Instr # Wait(sArr)
    BY <1>1, <2>1, Runs DEF Fits, Wait, I
  <2> QED
    BY <1>1, <2>2, Runs DEF ErrInv, Zeroed
<1>5. CASE Compute \/ LeaveLoop
  <2>1. /\ Advance
        /\ Instr.do \in {"synch", "synched", "zero", "again"}
        /\ Instr.do = "synch" => p1p2synch' = 1
        /\ p1p2synch' \in {p1p2synch, 1}
    BY <1>3, <1>4, <1>5 DEF Compute, LeaveLoop
  <2> QED
    BY <1>1, <1>2, <2>1, AdvanceMoves DEF Shares
<1>6. CASE Again
  <2> DEFINE s == p_s[currentProcess]
             b == [s EXCEPT !.at = @ - 1]
  <2>1. b \in States /\ b.prog = s.prog /\ Entry(Does(b)) /\ s.prog \in {"p3", "p5b"}
    BY <1>1, <1>6, Runs, OtherPlaces DEF Again
  <2>2. p_s'[currentProcess] = b /\ \A p \in Pcbs \ {currentProcess} : p_s'[p] = p_s[p]
    BY <1>1, <1>6, Runs DEF Again
  <2> HIDE DEF b
  <2>3. Jumps(currentProcess)
    BY <1>1, <1>2, <1>6, <2>1, <2>2, Runs DEF Jumps, Again, b
  <2> QED
    BY <1>1, <1>2, <1>6, <2>2, <2>3 DEF Moves, StaysAt, Live, Shares, Again
<1> QED
  BY <1>5, <1>6

(* A process goes to its handler, which is one of p5, or stays.            *)
LEMMA HandledMoves ==
  ASSUME IInv, TermInv, ErrInv, Live' = Live, vectors' = vectors, p1p2synch' = p1p2synch,
         NEW t \in TrapTypes, NEW cause, Handled(t, cause),
         \/ t = "Pgm"
         \/ cpu = "user" /\ Instr.do = "trap" /\ Instr.arg = t
  PROVE  Moves /\ Shares
<1>1. p_s \in [Pcbs -> States] /\ DOMAIN old = TrapTypes
  BY DEF TermInv, Saved
<1>2. CASE t \notin vectors[currentProcess]
  BY <1>2 DEF Handled, Moves, StaysAt, Shares
<1>3. CASE t \in vectors[currentProcess] /\ currentProcess \notin Live
  <2>1. currentProcess \notin Pcbs
    BY <1>3 DEF Live, IInv, FreeClean
  <2>2. \A p \in Pcbs : p_s'[p] = p_s[p]
    BY <1>1, <1>3, <2>1 DEF Handled
  <2>3. t = "Pgm"
    BY <1>3, UserIsLive DEF Live
  <2>4. old'["Sys"] = old["Sys"]
    BY <1>1, <1>3, <2>3 DEF Handled, TrapTypes
  <2> QED
    BY <2>2, <2>4 DEF Moves, StaysAt, Shares, Live
<1>4. CASE t \in vectors[currentProcess] /\ currentProcess \in Live
  <2> DEFINE f == CASE t = "Pgm" -> "p5prog" [] t = "TLB" -> "p5mm" [] t = "Sys" -> "p5sys"
             o == [state |-> p_s[currentProcess], cause |-> cause,
                   open |-> currentProcess \in unmasked]
  <2>1. p_s' = [p_s EXCEPT ![currentProcess] = At(f, FALSE)] /\ old' = [old EXCEPT ![t] = o]
    BY <1>4 DEF Handled
  <2>2. /\ f \in DOMAIN Code \ {"none"} /\ f \in P5s \ {"p5", "p5b"}
        /\ f = "p5sys" => t = "Sys"
    BY DEF Code, TrapTypes, P5s
  <2>3. currentProcess \in Pcbs /\ p_s[currentProcess] \in States
    BY <1>1, <1>4 DEF Live
  <2>4. Entry(Does(At(f, FALSE))) /\ At(f, FALSE).prog = f
    BY <2>2, <2>3, OtherPlaces
  <2> HIDE DEF f
  <2>5. /\ p_s'[currentProcess] = At(f, FALSE)
        /\ \A p \in Pcbs \ {currentProcess} : p_s'[p] = p_s[p]
        /\ old'[t].state = p_s[currentProcess]
        /\ \A u \in TrapTypes \ {t} : old'[u] = old[u]
    BY <1>1, <2>1, <2>3
  <2>6. t # "Pgm" => \/ t = "TLB" /\ p_s[currentProcess].prog = "p5a"
                     \/ t = "Sys" /\ p_s[currentProcess].prog = "p5b"
    <3>1. SUFFICES ASSUME t # "Pgm"
                   PROVE  \/ t = "TLB" /\ p_s[currentProcess].prog = "p5a"
                          \/ t = "Sys" /\ p_s[currentProcess].prog = "p5b"
      OBVIOUS
    <3>2. cpu = "user" /\ Instr.do = "trap" /\ Instr.arg = t
      BY <3>1
    <3>3. Fits(p_s[currentProcess].prog, Instr)
      BY <3>2, Runs
    <3>4. p_s[currentProcess].prog \in P5s
      BY <1>4 DEF ErrInv, Vectored
    <3> QED
      BY <3>1, <3>2, <3>3, <3>4 DEF Fits, P5s
  <2>7. "Pgm" \in vectors[currentProcess]
    BY <1>4, <2>6 DEF ErrInv, Vectored, P5s
  <2>8. t = "Sys" => old'["Sys"].state.prog = "p5b"
    BY <2>5, <2>6
  <2>9. Jumps(currentProcess)
    BY <1>4, <2>2, <2>4, <2>5, <2>7, <2>8 DEF Jumps
  <2>10. Shares
    BY <2>5, <2>8 DEF Shares, TrapTypes
  <2> QED
    BY <2>5, <2>9, <2>10 DEF Moves, StaysAt, Live
<1> QED
  BY <1>2, <1>3, <1>4

(* Exceptions.                                                             *)
LEMMA ExceptionMoves ==
  ASSUME IInv, TermInv, ErrInv, Raise \/ Faulting
  PROVE  Moves /\ Shares
<1>1. ASSUME NEW t, PassUpOrDie(t)
      PROVE  Live' = Live /\ vectors' = vectors
  BY <1>1 DEF PassUpOrDie, LoadState, StartKill, procVars, Live
<1>2. CASE Raise
  <2>1. PICK t \in Traps :
          /\ Exception(t)
          /\ IF Instr.do = "trap" THEN t = Instr.arg /\ Handled(t, Instr.cause)
             ELSE /\ p_s[currentProcess].user /\ Instr.do \notin {"again", "error"}
                  /\ t = "Pgm" /\ Handled(t, "reserved")
    BY <1>2 DEF Raise
  <2>2. t \in TrapTypes /\ cpu = "user" /\ p1p2synch' = p1p2synch
    BY <1>2, KindsAssumption DEF Raise
  <2>3. Live' = Live /\ vectors' = vectors
    BY <1>1, <2>1 DEF Exception
  <2> QED
    BY <2>1, <2>2, <2>3, HandledMoves
<1>3. CASE Faulting
  <2>1. /\ Live' = Live /\ vectors' = vectors /\ p1p2synch' = p1p2synch
        /\ Handled("Pgm", "address") /\ "Pgm" \in TrapTypes
    BY <1>1, <1>3 DEF Faulting, KernelTrap, TrapTypes
  <2> QED
    BY <2>1, HandledMoves
<1> QED
  BY <1>2, <1>3

(* A handler of p5 ends.                                                   *)
LEMMA EndHandlerMoves ==
  ASSUME IInv, TermInv, ErrInv, EndHandler
  PROVE  Moves /\ Shares
<1> DEFINE s == p_s[currentProcess]
           t == Instr.arg
           n == ReturnState(t)
<1>1. /\ p_s \in [Pcbs -> States] /\ Saved
      /\ old' = old /\ p1p2synch' = p1p2synch
      /\ cpu = "user" /\ Instr.do = "LDST"
      /\ p_s' = [p_s EXCEPT ![currentProcess] = n]
  BY DEF TermInv, EndHandler, KernelMode
<1>2. /\ s \in States /\ Instr = Does(s)
      /\ currentProcess \in Live /\ currentProcess \in Pcbs
  BY <1>1, Runs
<1>3. t \in TrapTypes /\ (t = "Sys" => s.prog = "p5sys") /\ s.prog \in {"p5prog", "p5mm", "p5sys"}
  BY <1>1, <1>2, OtherPlaces
<1> HIDE DEF t
<1>4. \A f \in {"p5a", "p5b"}, u \in BOOLEAN :
        Entry(Does(At(f, u))) /\ At(f, u).prog = f /\ At(f, u).at = 1
  <2>1. {"p5a", "p5b"} \subseteq DOMAIN Code \ {"none"}
    BY DEF Code
  <2> QED
    BY <1>2, <2>1, OtherPlaces DEF At
<1>5. Entry(Does(n)) /\ n.prog \in {"p5a", "p5b"} /\ n.at \in {1, 2}
  <2>1. old[t].state \in States /\ old[t].state.user \in BOOLEAN
    BY <1>1, <1>3 DEF Saved, States
  <2>2. CASE t = "Sys"
    <3> DEFINE o == old[t].state
               m == [o EXCEPT !.at = @ + 1]
    <3>1. Does(o).do = "trap" /\ o.prog = "p5b"
      BY <1>1, <1>2, <1>3, <2>2 DEF Saved, Does, ErrInv, Vectored, Live
    <3>2. n = m
      BY <2>2 DEF ReturnState
    <3>3. /\ ~Final(o.prog, Does(o))
          /\ Does(o) \notin {Wait(term_mut), Wait(endp2), V(sArr)}
          /\ Does(o).do \notin {"error", "LDST", "start", "SYS8", "synch"}
      BY <3>1 DEF Final, Wait, V, I
    <3>4. o \in States
      BY <2>1
    <3>6. o.at = 1
      BY <3>1, <3>4, StateInPlace DEF Placed
    <3>7. m.at = 2
      BY <3>4, <3>6 DEF States
    <3> HIDE DEF o
    <3>5. /\ m.prog = o.prog
          /\ Does(m).do \notin {"start", "SYS8", "synched", "error"}
          /\ Does(m) \notin {V(term_mut), V(endp2), Wait(sArr)}
      BY <3>3, <3>4, NextInstruction
    <3> QED
      BY <3>1, <3>2, <3>5, <3>7 DEF Entry, Terminal
  <2>3. CASE t = "TLB"
    <3>1. n = At("p5b", TRUE)
      BY <2>3 DEF ReturnState
    <3> QED
      BY <1>4, <3>1
  <2>4. CASE t = "Pgm"
    <3>1. n = At("p5a", old[t].state.user) \/ n = At("p5b", FALSE)
      BY <2>4 DEF ReturnState
    <3> QED
      BY <1>4, <2>1, <3>1
  <2> QED
    BY <1>3, <2>2, <2>3, <2>4 DEF TrapTypes
<1> HIDE DEF n
<1>6. /\ p_s'[currentProcess] = n
      /\ \A p \in Pcbs \ {currentProcess} : p_s'[p] = p_s[p]
  BY <1>1, <1>2
<1>7. Live' = Live /\ vectors' = vectors
  BY DEF EndHandler, ProgramLDST, LoadState, Live
<1>8. "Pgm" \in vectors[currentProcess]
  BY <1>2, <1>3 DEF ErrInv, Vectored, P5s
<1>9. Jumps(currentProcess)
  BY <1>2, <1>5, <1>6, <1>7, <1>8 DEF Jumps, P5s
<1> QED
  BY <1>1, <1>6, <1>7, <1>9 DEF Moves, StaysAt, Live, Shares

(* Terminations and interrupts.                                            *)
LEMMA NucleusMoves ==
  ASSUME IInv, TermInv, Killing \/ Quantum \/ Tick \/ Device \/ UNCHANGED p2vars
  PROVE  Moves /\ Shares
<1>1. CASE Killing
  <2>1. /\ p_s' = [p \in Pcbs |-> IF p \in pcbFree' THEN Idle ELSE p_s[p]]
        /\ old' = old /\ p1p2synch' = p1p2synch
    BY <1>1 DEF Killing
  <2>2. \A p \in Live' : p \in Live /\ vectors'[p] = vectors[p]
    <3>1. CASE KillLeaf
      <4>1. pcbFree' = pcbFree \cup {Victim} /\ vectors' = [vectors EXCEPT ![Victim] = {}]
        BY <3>1 DEF KillLeaf, Clean
      <4> QED
        BY <4>1 DEF Live, IInv, TypeOK
    <3>2. CASE KillChild \/ KillMissing
      BY <3>2 DEF KillChild, KillMissing, procVars, Live
    <3> QED
      BY <1>1, <3>1, <3>2 DEF Killing
  <2>3. \A p \in Live' : p_s'[p] = p_s[p]
    BY <2>1 DEF Live
  <2> QED
    BY <2>1, <2>2, <2>3 DEF Moves, StaysAt, Shares
<1>2. CASE Quantum \/ Tick \/ Device \/ UNCHANGED p2vars
  <2>1. UNCHANGED testVars
    BY <1>2 DEF Quantum, Tick, Device, p2vars
  <2>2. Live' = Live /\ vectors' = vectors
    BY <1>2 DEF Quantum, TimerInterrupt, Tick, ClockInterrupt, Device, DeviceDone,
       DeviceInterrupt, p2vars, vars, procVars, Live
  <2> QED
    BY <2>1, <2>2 DEF testVars, Moves, StaysAt, Shares
<1> QED
  BY <1>1, <1>2

(* Every step of the test moves the processes so.                          *)
LEMMA StepMoves ==
  ASSUME IInv, TermInv, ErrInv, [P2Next]_p2vars
  PROVE  Moves /\ Shares
BY CallMoves, StartMoves, ComputeMoves, ExceptionMoves, EndHandlerMoves, NucleusMoves
DEF P2Next, Program

-----------------------------------------------------------------------------
(* What a step leaves true.                                                *)

(* The semaphores that the checks depend on.                               *)
LEMMA CheckSemaphores ==
  /\ blkp8 \in Sems /\ endp2 \in Sems /\ sArr \in Sems
  /\ NULL \notin Sems /\ Sems \subseteq AllSems
BY TestSemaphores, NullApart DEF AllSems

(* A semaphore that lets nobody through.                                   *)
Shut(s) == semVal[s] + Cardinality(Waiting(s)) <= 0

(* It remains so without a V,                                              *)
LEMMA StaysShut ==
  ASSUME IInv, IInv', TermInv, [P2Next]_p2vars, NEW s \in Sems, Shut(s),
         ~(cpu = "user" /\ Instr = V(s) /\ Verhogen(s) /\ Advance)
  PROVE  Shut(s)'
<1>1. SumKept(s)
  <2>1. CASE Untouched(s)
    BY <2>1 DEF Untouched
  <2>2. CASE cpu = "user" /\ Passeren(s)
    BY <2>2, CheckSemaphores, PSteps DEF Passeren
  <2> QED
    BY <2>1, <2>2, StepOnSemaphore
<1>2. semVal[s] \in Int /\ semVal'[s] \in Int
  BY CheckSemaphores DEF IInv, TypeOK
<1> QED
  BY <1>1, <1>2, WaitingFinite DEF Shut, SumKept

(* whoever waits for it waits on,                                          *)
LEMMA WaitsOn ==
  ASSUME IInv, IInv', TermInv, [P2Next]_p2vars, NEW s \in Sems,
         ~(cpu = "user" /\ Instr = V(s) /\ Verhogen(s) /\ Advance), NEW p \in Live', p_semAdd[p] = s
  PROVE  p_semAdd'[p] = s
<1>1. CASE Untouched(s)
  BY <1>1 DEF Untouched
<1>2. CASE cpu = "user" /\ Passeren(s)
  <2>1. \/ UNCHANGED p_semAdd
        \/ p_semAdd' = [p_semAdd EXCEPT ![currentProcess] = s]
    BY <1>2, CheckSemaphores, PSteps DEF Passeren
  <2> QED
    BY <2>1 DEF IInv, TypeOK, Live
<1> QED
  BY <1>1, <1>2, StepOnSemaphore

(* and a P on it blocks.                                                   *)
LEMMA BlocksAll ==
  ASSUME IInv, IInv', NEW s \in Sems, Shut(s), cpu = "user", Passeren(s)
  PROVE  p_semAdd'[currentProcess] = s
<1>1. semVal[s] \in Int
  BY CheckSemaphores DEF IInv, TypeOK
<1>0. ~(semVal[s] > 0)
  BY <1>1, WaitingFinite DEF Shut
<1>2. p_semAdd' = [p_semAdd EXCEPT ![currentProcess] = s]
  BY <1>0, CheckSemaphores, PSteps DEF Passeren
<1> QED
  BY <1>2, UserIsLive DEF IInv, TypeOK

(* Where a process that advances arrives.                                  *)
LEMMA AdvancesTo ==
  ASSUME IInv, TermInv, NEW p, Advances(p)
  PROVE  /\ p_s[p] \in States /\ Instr = Does(p_s[p]) /\ Fits(p_s[p].prog, Instr)
         /\ p_s'[p].prog = p_s[p].prog /\ p_s'[p].at = p_s[p].at + 1
         /\ Does(p_s'[p]).do = "synched" => Instr = Wait(endp2)
         /\ Does(p_s'[p]) = V(endp2) => Instr.do = "synch"
         /\ Does(p_s'[p]) = Wait(sArr) <=> Instr = V(sArr)
         /\ Does(p_s'[p]).do = "error" => Final(p_s[p].prog, Instr)
<1>1. /\ p_s[p] \in States /\ Instr = Does(p_s[p]) /\ Fits(p_s[p].prog, Instr)
      /\ Does(p_s[p]).do \notin {"error", "LDST"}
      /\ p_s'[p] = [p_s[p] EXCEPT !.at = @ + 1]
  BY Runs DEF Advances
<1> QED
  BY <1>1, NextInstruction

(* Where a process begins or jumps to.                                     *)
LEMMA BeginsAt ==
  ASSUME IInv, TermInv, NEW p, Begins(p)
  PROVE  /\ Entry(Does(p_s'[p])) /\ p_s'[p].prog = Instr.arg /\ Instr.arg \in Started
         /\ Instr.do = "create" /\ Fits(p_s[currentProcess].prog, Instr)
         /\ currentProcess \in Live /\ p_s[currentProcess] \in States
         /\ Instr.arg = "p2" =>
              p_s[currentProcess].prog = "p1" /\ p_s[currentProcess].at = 6
<1>1. /\ cpu = "user" /\ Instr.do = "create" /\ p_s'[p] = At(Instr.arg, FALSE)
      /\ currentProcess \in Live /\ p_s[currentProcess] \in States
      /\ Instr = Does(p_s[currentProcess]) /\ Fits(p_s[currentProcess].prog, Instr)
  BY Runs DEF Begins
<1>2. /\ Instr.arg \in Started
      /\ Instr.arg = "p2" => p_s[currentProcess].prog = "p1" /\ p_s[currentProcess].at = 6
  BY <1>1, OtherPlaces
<1>3. Instr.arg \in DOMAIN Code \ {"none"}
  BY <1>2 DEF Started, Code
<1>4. p_s[currentProcess] \in States
  BY <1>1
<1>5. \A f \in DOMAIN Code \ {"none"} : Entry(Does(At(f, FALSE))) /\ At(f, FALSE).prog = f
  BY <1>4, OtherPlaces
<1>6. Entry(Does(At(Instr.arg, FALSE))) /\ At(Instr.arg, FALSE).prog = Instr.arg
  BY <1>3, <1>5
<1>7. Entry(Does(p_s'[p])) /\ p_s'[p].prog = Instr.arg
  BY <1>1, <1>6
<1> QED
  BY <1>1, <1>2, <1>7

(* Nobody makes a V on blkp8.                                              *)
LEMMA NoVOnBlkp8 == ASSUME IInv, TermInv PROVE ~(cpu = "user" /\ Instr = V(blkp8))
BY Runs DEF Fits, V, I

(* A termination, or the fault of one, lasts as long as its process stays. *)
LEMMA KilledStays ==
  ASSUME IInv, TermInv, [P2Next]_p2vars, cpu \in {"kill", "trap"},
         currentProcess \in Live', currentProcess \in Live,
         Does(p_s'[currentProcess]).do = "error"
  PROVE  currentProcess' = currentProcess /\ cpu' \in {"kill", "trap"}
<1>1. CASE Killing
  <2>1. CASE KillLeaf
    <3>1. pcbFree' = pcbFree \cup {Victim}
      BY <2>1 DEF KillLeaf
    <3>2. CASE Len(killStack) = 1
      <4>1. Victim = currentProcess
        BY <2>1, <3>2 DEF KillLeaf, Victim, Last, IInv, KillFrames
      <4> QED
        BY <3>1, <4>1 DEF Live
    <3>3. CASE Len(killStack) # 1
      BY <2>1, <3>3 DEF KillLeaf
    <3> QED
      BY <3>2, <3>3
  <2>2. CASE KillChild \/ KillMissing
    BY <2>2 DEF KillChild, KillMissing, cpuVars
  <2> QED
    BY <1>1, <2>1, <2>2 DEF Killing
<1>2. CASE Faulting
  <2>1. CASE "Pgm" \in vectors[currentProcess]
    <3>1. p_s' = [p_s EXCEPT ![currentProcess] = At("p5prog", FALSE)]
      BY <1>2, <2>1 DEF Faulting, Handled
    <3>2. p_s'[currentProcess] = At("p5prog", FALSE)
      BY <3>1 DEF TermInv, Live
    <3>3. "p5prog" \in DOMAIN Code \ {"none"}
      BY DEF Code
    <3>4. Entry(Does(At("p5prog", FALSE)))
      BY <3>3, IdlePlace, OtherPlaces
    <3> QED
      BY <3>2, <3>4 DEF Entry
  <2>2. CASE "Pgm" \notin vectors[currentProcess]
    BY <1>2, <2>2 DEF Faulting, KernelTrap, PassUpOrDie, StartKill
  <2> QED
    BY <2>1, <2>2
<1>3. CASE Device
  BY <1>3 DEF Device, DeviceDone, DeviceInterrupt, Interruptible, cpuVars
<1>4. CASE UNCHANGED p2vars
  BY <1>4 DEF p2vars, vars, cpuVars
<1>5. ~Quantum /\ ~Tick /\ ~Program
  BY DEF Quantum, TimerInterrupt, Tick, ClockInterrupt, Interruptible, Program, Call, Start,
     KernelMode, Compute, LeaveLoop, Again, Raise, EndHandler
<1> QED
  BY <1>1, <1>2, <1>3, <1>4, <1>5 DEF P2Next

(* Whoever comes to its error is blocked or being killed.                  *)
LEMMA DoomedKept ==
  ASSUME IInv, IInv', TermInv, ErrInv, [P2Next]_p2vars
  PROVE  Doomed'
<1>1. SUFFICES ASSUME NEW p \in Live', Does(p_s'[p]).do = "error"
               PROVE  \/ p_semAdd'[p] = blkp8
                      \/ p = currentProcess' /\ cpu' \in {"kill", "trap"}
  BY DEF Doomed
<1>2. CASE StaysAt(p)
  <2>1. CASE p_semAdd[p] = blkp8
    BY <2>1, CheckSemaphores, NoVOnBlkp8, WaitsOn
  <2>2. CASE p = currentProcess /\ cpu \in {"kill", "trap"}
    BY <1>1, <1>2, <2>2, KilledStays DEF StaysAt
  <2> QED
    BY <1>1, <1>2, <2>1, <2>2 DEF StaysAt, ErrInv, Doomed
<1>3. CASE Advances(p)
  <2>1. Final(p_s[p].prog, Instr) /\ p = currentProcess /\ cpu = "user"
    BY <1>1, <1>3, AdvancesTo DEF Advances
  <2>2. CASE p_s[p].prog = "p5b"
    <3>1. Instr.do = "SYS5" /\ Instr.arg = "Pgm"
      BY <2>1, <2>2 DEF Final, I
    <3>2. "Pgm" \in vectors[p]
      BY <1>3, <2>2 DEF Advances, ErrInv, Vectored, P5s
    <3>3. StartKill
      BY <1>3, <2>1, <3>1, <3>2 DEF Advances, SpecifyExceptionStateVector
    <3> QED
      BY <2>1, <3>3 DEF StartKill
  <2>3. CASE Instr.do = "SYS2"
    BY <1>3, <2>1, <2>3 DEF Advances, StartKill
  <2>4. CASE Instr = Wait(blkp8)
    <3>1. Passeren(blkp8)
      BY <1>3, <2>4 DEF Advances, Wait, I
    <3> QED
      BY <2>1, <3>1, CheckSemaphores, BlocksAll DEF ErrInv, Blocks, Shut
  <2>5. Instr.do # "trap"
    BY <1>3 DEF Advances
  <2> QED
    BY <2>1, <2>2, <2>3, <2>4, <2>5 DEF Final
<1>4. CASE Begins(p) \/ Jumps(p)
  <2>1. Entry(Does(p_s'[p]))
    BY <1>4, BeginsAt DEF Jumps
  <2> QED
    BY <1>1, <2>1 DEF Entry
<1> QED
  BY <1>2, <1>3, <1>4, StepMoves DEF Moves

(* blkp8 remains shut.                                                     *)
LEMMA BlocksKept ==
  ASSUME IInv, IInv', TermInv, ErrInv, [P2Next]_p2vars
  PROVE  Blocks'
BY CheckSemaphores, NoVOnBlkp8, StaysShut DEF ErrInv, Blocks, Shut

(* p1 finds p1p2synch set.                                                 *)
LEMMA SynchronisedKept ==
  ASSUME IInv, IInv', TermInv, ErrInv, [P2Next]_p2vars
  PROVE  Synchronised'
<1>1. /\ Moves /\ Synchronised
      /\ p1p2synch = 1 => p1p2synch' = 1
  BY StepMoves DEF ErrInv, Shares
<1>2. ASSUME p1p2synch # 1
      PROVE  Shut(endp2) /\ ~(cpu = "user" /\ Instr = V(endp2))
  <2>1. Shut(endp2)
    BY <1>1, <1>2 DEF Synchronised, Shut
  <2>2. \A p \in Live : Does(p_s[p]) # V(endp2)
    BY <1>1, <1>2 DEF Synchronised
  <2> QED
    BY <2>1, <2>2, Runs
<1>3. p1p2synch' = 1 \/ Shut(endp2)'
  BY <1>1, <1>2, CheckSemaphores, StaysShut
<1>4. ASSUME NEW p \in Live'
      PROVE  /\ Does(p_s'[p]) = V(endp2) => p1p2synch' = 1
             /\ Does(p_s'[p]).do = "synched" => p1p2synch' = 1 \/ p_semAdd'[p] = endp2
  <2>1. CASE StaysAt(p)
    <3>1. CASE p1p2synch = 1
      BY <1>1, <3>1
    <3>2. CASE p1p2synch # 1
      <4>1. /\ Does(p_s[p]) # V(endp2)
            /\ Does(p_s[p]).do = "synched" => p_semAdd[p] = endp2
        BY <1>1, <2>1, <3>2 DEF Synchronised, StaysAt
      <4>2. p_semAdd[p] = endp2 => p_semAdd'[p] = endp2
        BY <1>2, <3>2, CheckSemaphores, WaitsOn
      <4> QED
        BY <2>1, <4>1, <4>2 DEF StaysAt
    <3> QED
      BY <3>1, <3>2
  <2>2. CASE Advances(p)
    <3>1. Does(p_s'[p]) = V(endp2) => p1p2synch' = 1
      BY <2>2, AdvancesTo DEF Advances
    <3>2. ASSUME Does(p_s'[p]).do = "synched", p1p2synch # 1
          PROVE  p_semAdd'[p] = endp2
      <4>1. Instr = Wait(endp2)
        BY <2>2, <3>2, AdvancesTo
      <4>2. Passeren(endp2) /\ p = currentProcess /\ cpu = "user"
        BY <2>2, <4>1 DEF Advances, Wait, I
      <4> QED
        BY <1>2, <3>2, <4>2, CheckSemaphores, BlocksAll
    <3> QED
      BY <1>1, <3>1, <3>2
  <2>3. CASE Begins(p) \/ Jumps(p)
    <3>1. Entry(Does(p_s'[p]))
      BY <2>3, BeginsAt DEF Jumps
    <3> QED
      BY <3>1 DEF Entry
  <2> QED
    BY <1>1, <2>1, <2>2, <2>3 DEF Moves
<1> QED
  BY <1>3, <1>4 DEF Synchronised, Shut

(* Who runs p1 or p2 after a step ran it before or has just begun.         *)
LEMMA OnesBefore ==
  ASSUME IInv, TermInv, ErrInv, Moves, NEW p \in Live', p_s'[p].prog \in {"p1", "p2"}
  PROVE  \/ /\ p \in Live /\ p_s[p].prog = p_s'[p].prog
            /\ \/ StaysAt(p) /\ p_s'[p] = p_s[p]
               \/ Advances(p) /\ p_s'[p].at = p_s[p].at + 1 /\ p_s[p].at \in Nat
         \/ /\ Begins(p) /\ p_s'[p].prog = "p2" /\ Live' = Live \cup {p} /\ p \notin Live
            /\ currentProcess \in Live /\ p_s[currentProcess].prog = "p1"
            /\ p_s[currentProcess].at = 6 /\ p_s'[currentProcess].at = 7
<1>1. CASE StaysAt(p)
  BY <1>1 DEF StaysAt
<1>2. CASE Advances(p)
  <2>1. p_s[p].at \in Nat
    BY <1>2, AdvancesTo DEF States
  <2> QED
    BY <1>2, <2>1, AdvancesTo DEF Advances
<1>3. CASE Begins(p)
  <2>1. /\ p_s'[p].prog = Instr.arg /\ Instr.arg \in Started
        /\ currentProcess \in Live /\ p_s[currentProcess] \in States
        /\ Instr.arg = "p2" => p_s[currentProcess].prog = "p1" /\ p_s[currentProcess].at = 6
    BY <1>3, BeginsAt
  <2>2. p_s'[p].prog = "p2" /\ Instr.arg = "p2"
    BY <2>1 DEF Started
  <2>3. p_s'[currentProcess] = [p_s[currentProcess] EXCEPT !.at = @ + 1]
    BY <1>3 DEF Begins
  <2>4. p_s'[currentProcess].at = 7
    BY <2>1, <2>2, <2>3 DEF States
  <2>5. Live' = Live \cup {p} /\ p \notin Live
    BY <1>3 DEF Begins, Live
  <2> QED
    BY <1>3, <2>1, <2>2, <2>4, <2>5
<1>4. ~Jumps(p)
  BY DEF Jumps, P5s
<1> QED
  BY <1>1, <1>2, <1>3, <1>4 DEF Moves

(* s[] is changed by a V or a P of the only p2, and nobody waits for it.   *)
LEMMA OnArr ==
  ASSUME IInv, IInv', TermInv, ErrInv, [P2Next]_p2vars
  PROVE  /\ \A p \in Pcbs : p_semAdd'[p] # sArr
         /\ \/ semVal'[sArr] = semVal[sArr]
            \/ /\ cpu = "user" /\ Instr \in {V(sArr), Wait(sArr)}
               /\ currentProcess \in Live /\ p_s[currentProcess].prog = "p2"
               /\ p_s'[currentProcess].at # p_s[currentProcess].at
<1>1. \A p \in Pcbs : p_semAdd[p] # sArr
  BY DEF ErrInv, Zeroed
<1>2. CASE Untouched(sArr)
  BY <1>1, <1>2 DEF Untouched, Live
<1>3. CASE /\ cpu = "user" /\ Advance
           /\ \/ Instr = V(sArr) /\ Verhogen(sArr)
              \/ Instr = Wait(sArr) /\ Passeren(sArr)
  <2>1. V(sArr).do = "V" /\ V(sArr).arg = sArr /\ Wait(sArr).do = "P" /\ Wait(sArr).arg = sArr
    BY DEF V, Wait, I
  <2>2. /\ currentProcess \in Live /\ p_s[currentProcess] \in States
        /\ Instr = Does(p_s[currentProcess]) /\ p_s[currentProcess].prog = "p2"
    BY <1>3, <2>1, Runs DEF Fits
  <2>3. p_s'[currentProcess] = [p_s[currentProcess] EXCEPT !.at = @ + 1]
    BY <1>3, Runs DEF Advance, TermInv
  <2>4. p_s'[currentProcess].at # p_s[currentProcess].at
    <3>1. p_s[currentProcess].at \in Nat /\ p_s[currentProcess].at + 1 # p_s[currentProcess].at
      BY <2>2 DEF States
    <3> QED
      BY <2>2, <2>3, <3>1 DEF States
  <2>5. CASE Instr = V(sArr) /\ Verhogen(sArr)
    <3>1. UNCHANGED p_semAdd
      BY <1>1, <2>5, CheckSemaphores, VSteps DEF Live
    <3> QED
      BY <1>1, <1>3, <2>2, <2>4, <2>5, <3>1
  <2>6. CASE Instr = Wait(sArr) /\ Passeren(sArr)
    <3>1. semVal[sArr] = 1
      BY <2>2, <2>6 DEF ErrInv, Zeroed
    <3>2. ~(semVal[sArr] <= 0)
      BY <3>1
    <3>3. UNCHANGED p_semAdd
      BY <1>3, <2>6, <3>2, CheckSemaphores, PSteps DEF Passeren
    <3> QED
      BY <1>1, <1>3, <2>2, <2>4, <2>6, <3>3
  <2> QED
    BY <1>3, <2>5, <2>6
<1> QED
  BY <1>2, <1>3, CheckSemaphores, StepOnSemaphore

(* One p1 and one p2, which finds s[] at zero.                             *)
LEMMA ZeroedKept ==
  ASSUME IInv, IInv', TermInv, ErrInv, [P2Next]_p2vars
  PROVE  Zeroed'
<1>1. Moves /\ Zeroed
  BY StepMoves DEF ErrInv
<1>2. ASSUME NEW p \in Live', NEW q \in Live', p_s'[p].prog = p_s'[q].prog,
             p_s'[p].prog \in {"p1", "p2"}
      PROVE  p = q
  <2>1. CASE p \in Live /\ q \in Live
    <3>1. p_s[p].prog = p_s'[p].prog /\ p_s[q].prog = p_s'[q].prog
      BY <1>1, <1>2, <2>1, OnesBefore
    <3> QED
      BY <1>1, <1>2, <2>1, <3>1 DEF Zeroed
  <2>2. ASSUME NEW a \in Live', NEW b \in Live', a \notin Live, p_s'[a].prog = p_s'[b].prog,
               p_s'[a].prog \in {"p1", "p2"}
        PROVE  a = b
    <3>1. /\ p_s'[a].prog = "p2" /\ Live' = Live \cup {a}
          /\ currentProcess \in Live /\ p_s[currentProcess].prog = "p1"
          /\ p_s[currentProcess].at = 6
      BY <1>1, <2>2, OnesBefore
    <3>2. \A r \in Live : p_s[r].prog # "p2"
      BY <1>1, <3>1 DEF Zeroed
    <3>3. b \in Live => p_s[b].prog = "p2"
      BY <1>1, <2>2, <3>1, OnesBefore
    <3> QED
      BY <3>1, <3>2, <3>3
  <2> QED
    BY <1>2, <2>1, <2>2
<1>3. ASSUME NEW p \in Live', p_s'[p].prog = "p1", p_s'[p].at <= 6
      PROVE  semVal'[sArr] = 0 /\ \A q \in Live' : p_s'[q].prog # "p2"
  <2>1. p \in Live /\ p_s[p].prog = "p1" /\ p_s[p].at <= 6
    BY <1>1, <1>3, OnesBefore
  <2>2. semVal[sArr] = 0 /\ \A q \in Live : p_s[q].prog # "p2"
    BY <1>1, <2>1 DEF Zeroed
  <2>3. semVal'[sArr] = 0
    BY <2>2, OnArr
  <2>4. ASSUME NEW q \in Live', p_s'[q].prog = "p2"
        PROVE  FALSE
    <3>1. /\ currentProcess \in Live /\ p_s[currentProcess].prog = "p1"
          /\ p_s'[currentProcess].at = 7
      BY <1>1, <2>2, <2>4, OnesBefore
    <3>2. p = currentProcess
      BY <1>1, <2>1, <3>1 DEF Zeroed
    <3> QED
      BY <1>3, <3>1, <3>2
  <2> QED
    BY <2>3, <2>4
<1>4. ASSUME NEW p \in Live', p_s'[p].prog = "p2"
      PROVE  semVal'[sArr] = IF Does(p_s'[p]) = Wait(sArr) THEN 1 ELSE 0
  <2>1. CASE p \in Live /\ p_s[p].prog = "p2" /\ p_s'[p] = p_s[p]
    <3>1. semVal[sArr] = IF Does(p_s[p]) = Wait(sArr) THEN 1 ELSE 0
      BY <1>1, <2>1 DEF Zeroed
    <3>2. currentProcess \in Live /\ p_s[currentProcess].prog = "p2" => p = currentProcess
      BY <1>1, <2>1 DEF Zeroed
    <3> QED
      BY <2>1, <3>1, <3>2, OnArr
  <2>2. CASE p \in Live /\ p_s[p].prog = "p2" /\ Advances(p)
    <3>1. semVal[sArr] = IF Instr = Wait(sArr) THEN 1 ELSE 0
      BY <1>1, <2>2, AdvancesTo DEF Zeroed
    <3>2. Does(p_s'[p]) = Wait(sArr) <=> Instr = V(sArr)
      BY <2>2, AdvancesTo
    <3>3. /\ V(sArr).do = "V" /\ V(sArr).arg = sArr /\ Wait(sArr).do = "P"
          /\ Wait(sArr).arg = sArr
      BY DEF V, Wait, I
    <3>4. semVal \in [AllSems -> Int] /\ sArr \in AllSems
      BY CheckSemaphores DEF IInv, TypeOK
    <3>5. CASE Instr = V(sArr)
      <4>1. Verhogen(sArr) /\ Instr # Wait(sArr)
        BY <2>2, <3>3, <3>5 DEF Advances
      <4>2. semVal' = [semVal EXCEPT ![sArr] = @ + 1]
        BY <4>1, CheckSemaphores, VSteps
      <4> QED
        BY <3>1, <3>2, <3>4, <3>5, <4>1, <4>2
    <3>6. CASE Instr = Wait(sArr)
      <4>1. Passeren(sArr) /\ Instr # V(sArr) /\ cpu = "user"
        BY <2>2, <3>3, <3>6 DEF Advances
      <4>2. semVal' = [semVal EXCEPT ![sArr] = @ - 1]
        BY <4>1, CheckSemaphores, PSteps DEF Passeren
      <4> QED
        BY <3>1, <3>2, <3>4, <3>6, <4>1, <4>2
    <3>7. CASE Instr \notin {V(sArr), Wait(sArr)}
      BY <3>1, <3>2, <3>7, OnArr
    <3> QED
      BY <3>5, <3>6, <3>7
  <2>3. CASE /\ Begins(p) /\ currentProcess \in Live /\ p_s[currentProcess].prog = "p1"
             /\ p_s[currentProcess].at = 6
    <3>1. semVal[sArr] = 0 /\ p_s[currentProcess].prog # "p2"
      BY <1>1, <2>3 DEF Zeroed
    <3>2. Does(p_s'[p]) # Wait(sArr)
      BY <2>3, BeginsAt DEF Entry
    <3> QED
      BY <3>1, <3>2, OnArr
  <2> QED
    BY <1>1, <1>4, <2>1, <2>2, <2>3, OnesBefore
<1> QED
  BY <1>2, <1>3, <1>4, OnArr DEF Zeroed

(* The handlers of p5.                                                     *)
LEMMA VectoredKept ==
  ASSUME IInv, IInv', TermInv, ErrInv, [P2Next]_p2vars
  PROVE  Vectored'
<1>1. Moves /\ Shares /\ Vectored
  BY StepMoves DEF ErrInv
<1>2. ASSUME NEW p \in Live'
      PROVE  /\ vectors'[p] # {} => p_s'[p].prog \in P5s
             /\ p_s'[p].prog \in P5s \ {"p5"} => "Pgm" \in vectors'[p]
             /\ p_s'[p].prog = "p5sys" => old'["Sys"].state.prog = "p5b"
  <2>1. CASE StaysAt(p)
    BY <1>1, <2>1 DEF StaysAt, Vectored, Shares
  <2>2. CASE Advances(p)
    <3>1. /\ p \in Live /\ p_s'[p].prog = p_s[p].prog
          /\ vectors[p] \subseteq vectors'[p]
          /\ vectors'[p] # vectors[p] => p_s[p].prog \in {"p5", "p5b"}
      BY <2>2, AdvancesTo DEF Advances, Fits
    <3> QED
      BY <1>1, <3>1 DEF Vectored, Shares, P5s
  <2>3. CASE Begins(p)
    <3>1. p_s'[p].prog \in Started /\ vectors'[p] = {}
      BY <2>3, BeginsAt DEF Begins
    <3> QED
      BY <3>1 DEF Started, P5s
  <2>4. CASE Jumps(p)
    BY <1>1, <2>4 DEF Jumps, Vectored, P5s
  <2> QED
    BY <1>1, <2>1, <2>2, <2>3, <2>4 DEF Moves
<1> QED
  BY <1>2 DEF Vectored

(* Every step of the test keeps the invariant of its checks.               *)
THEOREM NextErrInv == IInv /\ TermInv /\ ErrInv /\ [P2Next]_p2vars => ErrInv'
<1> SUFFICES ASSUME IInv, TermInv, ErrInv, [P2Next]_p2vars PROVE ErrInv'
  OBVIOUS
<1>1. IInv'
  BY P2NextIsNext, NextIInv DEF IInv
<1> QED
  BY <1>1, DoomedKept, BlocksKept, SynchronisedKept, ZeroedKept, VectoredKept DEF ErrInv

(* main() starts p1 with nobody waiting, and no handler.                   *)
THEOREM InitErrInv == P2Init => ErrInv
<1> SUFFICES ASSUME P2Init PROVE ErrInv
  OBVIOUS
<1>1. /\ Init /\ currentProcess \in Pcbs
      /\ semVal = [sem \in AllSems |-> IF sem \in {term_mut, blkp4} THEN 1 ELSE 0]
      /\ p_s = [p \in Pcbs |-> IF p = currentProcess THEN At("p1", FALSE) ELSE Idle]
  BY DEF P2Init, Init
<1>2. /\ p_semAdd = [p \in Pcbs |-> NULL]
      /\ vectors = [p \in Pcbs |-> {}]
      /\ Live = {currentProcess}
  BY <1>1 DEF Init, Live
<1>3. /\ p_s[currentProcess] = At("p1", FALSE) /\ At("p1", FALSE).prog = "p1"
      /\ Entry(Does(At("p1", FALSE)))
  <2>1. "p1" \in DOMAIN Code \ {"none"}
    BY DEF Code
  <2> QED
    BY <1>1, <2>1, IdlePlace, OtherPlaces
<1>4. Shut(blkp8) /\ Shut(endp2) /\ semVal[sArr] = 0
  <2>1. /\ blkp8 \notin {term_mut, blkp4} /\ endp2 \notin {term_mut, blkp4}
        /\ sArr \notin {term_mut, blkp4}
    BY NamesApart
  <2>2. semVal[blkp8] = 0 /\ semVal[endp2] = 0 /\ semVal[sArr] = 0
    BY <1>1, <2>1, CheckSemaphores
  <2>3. ASSUME NEW s \in Sems
        PROVE  Cardinality(Waiting(s)) = 0
    <3>1. Waiting(s) = {}
      BY <1>2, CheckSemaphores DEF Waiting, Live
    <3> QED
      BY <3>1, FS_EmptySet
  <2> QED
    BY <2>2, <2>3, CheckSemaphores DEF Shut
<1>5. Doomed /\ Vectored
  <2>1. \A p \in Live : p_s[p].prog = "p1" /\ Does(p_s[p]).do # "error" /\ vectors[p] = {}
    BY <1>1, <1>2, <1>3 DEF Entry
  <2> QED
    BY <2>1 DEF Doomed, Vectored, P5s
<1>6. Synchronised
  BY <1>2, <1>3, <1>4 DEF Synchronised, Entry, Shut
<1>7. Zeroed
  BY <1>2, <1>3, <1>4, CheckSemaphores DEF Zeroed
<1> QED
  BY <1>4, <1>5, <1>6, <1>7 DEF ErrInv, Blocks, Shut

(* No error message of p2test.c is printed, and no call that should end a  *)
(* process returns to it, for any number of pcbs and of incarnations of    *)
(* p8root.                                                                 *)
THEOREM P2NoErrorBranch == P2Spec => []NoErrorBranch
<1>1. IInv /\ TermInv /\ ErrInv => NoErrorBranch
  <2>1. SUFFICES ASSUME IInv, TermInv, ErrInv, cpu = "user", Instr.do = "error"
                 PROVE  FALSE
    BY DEF NoErrorBranch
  <2>2. /\ currentProcess \in Live /\ p_semAdd[currentProcess] = NULL
        /\ Does(p_s[currentProcess]).do = "error"
    BY <2>1, Runs
  <2> QED
    BY <2>1, <2>2, CheckSemaphores DEF ErrInv, Doomed
<1>2. P2Init => IInv
  BY P2InitIsInit, InitIInv
<1>3. IInv /\ [P2Next]_p2vars => IInv'
  BY P2NextIsNext, NextIInv DEF IInv
<1> QED
  BY <1>1, <1>2, <1>3, InitTermInv, NextTermInv, InitErrInv, NextErrInv, PTL DEF P2Spec

-----------------------------------------------------------------------------
(* p4 and its offspring are gone before p5 ends.                           *)

(* The processes that run p1, p4, and p5 or one of its handlers.           *)
Of(f) == {p \in Live : p_s[p].prog = f}
Ones == Of("p1")
Fours == Of("p4")
Fives == {p \in Live : p_s[p].prog \in P5s}

(* The instruction before the one at which a processor state is.           *)
Before(s) == Code[s.prog][s.at - 1]

(* Only p5 runs in user mode.                                              *)
Kernel == \A p \in Live : p_s[p].prog \notin P5s => ~p_s[p].user

(* Whoever is blocked stands behind the call that blocked it.              *)
Stands ==
  \A p \in Live : p_semAdd[p] # NULL =>
    /\ p_s[p].at > 1
    /\ \/ Before(p_s[p]) = Wait(p_semAdd[p]) /\ p_semAdd[p] \in Sems
       \/ Before(p_s[p]).do = "SYS7" /\ p_semAdd[p] = Clock
       \/ Before(p_s[p]).do = "SYS8" /\ p_semAdd[p] = 32

(* No P on the clock goes through.                                         *)
Timed == semVal[Clock] + Len(procQ[Clock]) <= 0

(* The waiters that the value of s counts are in its queue.                *)
Kept(s) == semVal[s] + Len(procQ[s]) >= 0

(* At most one P on s goes through.                                        *)
Single(s) == semVal[s] + Cardinality(Waiting(s)) <= 1

(* An incarnation of p4 has made its P on blkp4, and its V on endp4.       *)
Passed(q) == q \in Fours /\ p_s[q].at >= 7 /\ p_semAdd[q] # blkp4
Ended(q) == Passed(q) /\ p_s[q].at >= 15

(* Those that end, and nobody else that will not go with one of them.      *)
Done == Fours = {} \/ \E r \in Pcbs : Ended(r)

(* p5 between its P on endp4 and its V on endp5.                           *)
Mid(p) ==
  /\ p \in Live /\ p_s[p].prog = "p5b" /\ p_s[p].at \in 3..6
  /\ p_semAdd[p] # endp4

(* r is the child of q, or has just left it to be killed with it.          *)
Child(q, r) == p_prnt[r] = q \/ (cpu = "kill" /\ killStack = <<q, r>>)

(* p4 is over for good.                                                    *)
Over ==
  /\ Fours = {}
  /\ Shut(endp4)
  /\ \A p \in Pcbs : ~Mid(p)
  /\ \A p \in Ones : p_s[p].at >= 22

(* Before that p1 waits for p5 at the latest, which runs once.             *)
Main ==
  /\ \A p \in Ones :
       /\ p_s[p].at <= 25 /\ (p_s[p].at = 25 => p_semAdd[p] = endp5)
       /\ p_s[p].at <= 20 => Fours = {} /\ Shut(synp4) /\ Shut(endp4)
       /\ p_s[p].at <= 21 => Fives = {}
  /\ Shut(endp5)
  /\ \A p, q \in Fives : p = q
  /\ \A p \in Live : p_s[p].prog \notin {"p8root", "child1", "child2"}

(* A process whose child p may be.                                         *)
Fosters(a, p) == p_s[a].prog = "p1" \/ (Passed(a) /\ p \in Fours /\ p # a)

(* Nobody has children but p1 and an incarnation of p4 that has passed.    *)
Tree ==
  /\ \A p \in Live : p_prnt[p] = NULL =>
       p_s[p].prog = "p1" \/ (cpu = "kill" /\ killStack = <<currentProcess, p>>)
  /\ \A p \in Pcbs : p_prnt[p] # NULL => Fosters(p_prnt[p], p)

(* The nucleus faults in a WAIT at most, where it stops for good; no waiter *)
(* of the transmitter or of blkp4 is lost.                                 *)
Sound ==
  /\ cpu = "trap" => currentProcess = NULL
  /\ Kept(32) /\ Kept(blkp4)
  /\ \A p \in Live : p_semAdd[p] = blkp4 => p \in Fours /\ p \in ToSet(procQ[blkp4])

(* A termination kills one process, or an ended p4 with its only child.    *)
Kills ==
  cpu = "kill" =>
    /\ currentProcess \in Live /\ p_s[currentProcess].prog # "p1"
    /\ currentProcess \in Fours => p_s[currentProcess].at >= 15
    /\ \/ killStack = <<currentProcess>>
       \/ \E c \in Fours : /\ killStack = <<currentProcess, c>>
                           /\ Passed(currentProcess) /\ c # currentProcess

(* r is the child of q, and blkp4 is between them.                         *)
Apart(q, r) == Passed(q) /\ ~Passed(r) /\ p_s[q].at >= 9 /\ Child(q, r)
(* There are at most two of them.                                          *)
Pair == \A q, r \in Fours : q # r => Apart(q, r) \/ Apart(r, q)

(* The first of them starts the second with synp4 shut, and waits there    *)
(* until the second is about to wait for blkp4.                            *)
Syn ==
  \A q \in Fours :
    /\ p_s[q].at <= 5 => Shut(synp4)
    /\ p_s[q].at \in {6, 7} /\ Fours = {q} => Single(synp4)
    /\ p_s[q].at = 8 /\ p_semAdd[q] # synp4 => Shut(synp4)
    /\ \A r \in Fours : r # q /\ Passed(q) /\ p_s[r].at <= 5 =>
         p_s[q].at = 9 \/ (p_s[q].at = 10 /\ p_semAdd[q] = synp4)

(* blkp4 lets one of them through, and after it nobody before p5's V.      *)
Blk ==
  /\ Single(blkp4)
  /\ \/ \E q \in Pcbs : Passed(q)
     \/ ~Shut(endp4)
     \/ \E p \in Pcbs : Mid(p) /\ p_s[p].at <= 5
     => Shut(blkp4)

(* p5 comes through endp4 when the first has ended.                        *)
End ==
  /\ Single(endp4)
  /\ ~Shut(endp4) => Done /\ \A p \in Pcbs : ~Mid(p)
  /\ (\E p \in Pcbs : Mid(p)) => Done

(* x stands before y in s.                                                 *)
Precedes(s, x, y) == \E i, j \in 1..Len(s) : i < j /\ s[i] = x /\ s[j] = y

(* q stands before p in the ready queue.                                   *)
Ahead(q, p) == Precedes(readyQue, q, p)

(* q will run before p, which waits for the clock, does.                   *)
First(q, p) ==
  \/ q \in ToSet(readyQue) /\ (p_semAdd[p] = Clock \/ Ahead(q, p))
  \/ q = currentProcess /\ (cpu = "user" => ~ran)

(* What has ended is dead when p5 has waited for the clock.                *)
Order ==
  \A p \in Pcbs : Mid(p) =>
    /\ p_s[p].at = 4 => \A q \in Pcbs : Passed(q) => First(q, p)
    /\ p_s[p].at \in {5, 6} => Fours = {}
    /\ p_s[p].at = 6 => semVal[blkp4] = 1

(* p4 or p5 may still run.                                                 *)
Going == Main /\ Tree /\ Sound /\ Kills /\ Pair /\ Syn /\ Blk /\ End /\ Order

(* The invariant of p4 and p5.                                             *)
FourInv == Kernel /\ Stands /\ Timed /\ (Over \/ Going)

(* The constants that p4 and p5 depend on.                                 *)
LEMMA FourNames ==
  /\ synp4 \in Sems /\ blkp4 \in Sems /\ endp4 \in Sems /\ endp5 \in Sems
  /\ synp4 \in AllSems /\ blkp4 \in AllSems /\ endp4 \in AllSems /\ endp5 \in AllSems
  /\ 32 \notin Sems /\ Clock \notin Sems /\ NULL \notin Sems
  /\ blkp4 \notin {NULL, Clock, 32} /\ endp4 \notin {NULL, Clock, 32}
BY FourApart, TerminalNames, SemsApart, NullApart, CheckSemaphores

(* A process goes back to the wait for the clock,                          *)
Loops(p) ==
  /\ p = currentProcess /\ p \in Live /\ cpu = "user" /\ Instr.do = "again"
  /\ p_s'[p] = [p_s[p] EXCEPT !.at = @ - 1]
  /\ p_s[p].prog \in {"p3", "p5b"}

(* or p5 goes to or from one of its handlers.                              *)
Turns(p) ==
  /\ p = currentProcess /\ p \in Live
  /\ p_s[p].prog \in P5s /\ p_s'[p].prog \in P5s
  /\ p_s'[p].prog = "p5b" => p_s'[p].at \in {1, 2}

(* What a process does in a step, with the places it may come to.          *)
LEMMA Steps ==
  ASSUME IInv, TermInv, ErrInv, [P2Next]_p2vars, NEW p \in Live'
  PROVE  \/ p \in Live /\ p_s'[p] = p_s[p]
         \/ Advances(p)
         \/ Begins(p)
         \/ Loops(p)
         \/ Turns(p)
<1>1. StaysAt(p) \/ Advances(p) \/ Begins(p) \/ Jumps(p)
  BY StepMoves DEF Moves
<1>2. ASSUME Jumps(p)
      PROVE  Loops(p) \/ Turns(p)
  <2>1. "Pgm" \in vectors[p] => p_s[p].prog \in P5s
    BY <1>2 DEF Jumps, ErrInv, Vectored
  <2> QED
    BY <1>2, <2>1 DEF Jumps, Loops, Turns
<1> QED
  BY <1>1, <1>2 DEF StaysAt

(* Where the running process is.                                           *)
LEMMA RunsPlaced ==
  ASSUME IInv, TermInv, cpu = "user"
  PROVE  /\ currentProcess \in Live /\ p_semAdd[currentProcess] = NULL
         /\ p_s[currentProcess] \in States
         /\ p_s[currentProcess].at \in Nat
         /\ Instr = Does(p_s[currentProcess])
         /\ Placed(p_s[currentProcess].prog, p_s[currentProcess].at, Instr)
BY Runs, StateInPlace DEF States

(* Where any process is.                                                   *)
LEMMA AllPlaced ==
  ASSUME TermInv, NEW p \in Pcbs
  PROVE  /\ p_s[p] \in States /\ p_s[p].at \in Nat \ {0}
         /\ Placed(p_s[p].prog, p_s[p].at, Does(p_s[p]))
<1>1. p_s[p] \in States
  BY DEF TermInv
<1> QED
  BY <1>1, StateInPlace DEF States

(* What an advance does to a place.                                        *)
LEMMA Advanced ==
  ASSUME IInv, TermInv, NEW p, Advances(p)
  PROVE  /\ p \in Live /\ p = currentProcess /\ cpu = "user" /\ p_semAdd[p] = NULL
         /\ p_s'[p].prog = p_s[p].prog /\ p_s'[p].at = p_s[p].at + 1
         /\ p_s'[p].user = p_s[p].user
         /\ Instr = Does(p_s[p])
         /\ Placed(p_s[p].prog, p_s[p].at, Instr)
<1>1. /\ p \in Live /\ p = currentProcess /\ cpu = "user"
      /\ p_s'[p] = [p_s[p] EXCEPT !.at = @ + 1]
  BY DEF Advances
<1>2. p_s[p] \in [prog : DOMAIN Code, at : Nat, user : BOOLEAN]
  BY <1>1, RunsPlaced DEF States
<1> QED
  BY <1>1, <1>2, RunsPlaced

(* What a creation does: it begins in kernel mode, at the first call of    *)
(* its program, and its creator goes on.                                   *)
LEMMA Begun ==
  ASSUME IInv, TermInv, NEW p, Begins(p)
  PROVE  /\ p \notin Live /\ p \in Pcbs /\ Live' = Live \cup {p} /\ cpu = "user"
         /\ p_s'[p].at = 1 /\ ~p_s'[p].user
         /\ Instr.do = "create" /\ p_s'[p].prog = Instr.arg
         /\ Instr.arg \notin P5s \ {"p5"} /\ Instr.arg # "p1"
         /\ p_s'[currentProcess].at = p_s[currentProcess].at + 1
         /\ p_s'[currentProcess].prog = p_s[currentProcess].prog
<1>1. /\ p \in pcbFree /\ Live' = Live \cup {p} /\ cpu = "user" /\ Instr.do = "create"
      /\ p_s'[p] = At(Instr.arg, FALSE)
      /\ p_s'[currentProcess] = [p_s[currentProcess] EXCEPT !.at = @ + 1]
  BY DEF Begins
<1>2. p_s[currentProcess] \in [prog : DOMAIN Code, at : Nat, user : BOOLEAN]
  BY <1>1, RunsPlaced DEF States
<1>3. Instr.arg \in Started
  BY BeginsAt
<1> QED
  BY <1>1, <1>2, <1>3 DEF At, Live, IInv, TypeOK, Started, P5s

(* Going back.                                                             *)
LEMMA Looped ==
  ASSUME IInv, TermInv, NEW p, Loops(p)
  PROVE  /\ p_s'[p].prog = p_s[p].prog /\ p_s'[p].at = p_s[p].at - 1
         /\ p_s'[p].user = p_s[p].user /\ p_s[p].prog \in {"p3", "p5b"}
         /\ p_s[p].prog = "p5b" => p_s[p].at = 4
<1>1. /\ p = currentProcess /\ cpu = "user" /\ Instr.do = "again"
      /\ p_s'[p] = [p_s[p] EXCEPT !.at = @ - 1] /\ p_s[p].prog \in {"p3", "p5b"}
  BY DEF Loops
<1>2. p_s[p] \in [prog : DOMAIN Code, at : Nat, user : BOOLEAN]
  BY <1>1, RunsPlaced DEF States
<1> QED
  BY <1>1, <1>2, RunsPlaced DEF Placed

(* The programs of the processes that live on.                             *)
LEMMA ProgramKept ==
  ASSUME IInv, TermInv, ErrInv, [P2Next]_p2vars, NEW p \in Live', p \in Live
  PROVE  IF p_s[p].prog \in P5s THEN p_s'[p].prog \in P5s ELSE p_s'[p].prog = p_s[p].prog
BY Steps, Advanced, Begun, Looped DEF Turns

(* Who runs p1 did so before.                                              *)
LEMMA OnesWere ==
  ASSUME IInv, TermInv, ErrInv, [P2Next]_p2vars, NEW p \in Ones'
  PROVE  /\ p \in Ones /\ p \in Live' /\ p \in Pcbs
         /\ p_s'[p] = p_s[p] \/ (Advances(p) /\ p_s'[p].at = p_s[p].at + 1)
<1>1. p \in Live' /\ p_s'[p].prog = "p1" /\ p \in Pcbs
  BY DEF Ones, Of, Live
<1> QED
  BY <1>1, Steps, Advanced, Begun, Looped DEF Turns, P5s, Ones, Of

(* Who runs p4 did so before, or p1 or another p4 creates it.              *)
LEMMA FoursWere ==
  ASSUME IInv, TermInv, ErrInv, [P2Next]_p2vars, NEW q \in Fours'
  PROVE  /\ q \in Live' /\ q \in Pcbs
         /\ \/ /\ q \in Fours
               /\ p_s'[q] = p_s[q] \/ (Advances(q) /\ p_s'[q].at = p_s[q].at + 1)
            \/ /\ Begins(q) /\ q \notin Live /\ p_s'[q].at = 1
               /\ \/ currentProcess \in Fours /\ p_s[currentProcess].at = 8
                  \/ currentProcess \in Ones /\ p_s[currentProcess].at = 20
<1>1. q \in Live' /\ p_s'[q].prog = "p4" /\ q \in Pcbs
  BY DEF Fours, Of, Live
<1>2. CASE q \in Live /\ p_s'[q] = p_s[q]
  BY <1>1, <1>2 DEF Fours, Of
<1>3. CASE Advances(q)
  BY <1>1, <1>3, Advanced DEF Fours, Of
<1>4. CASE Begins(q)
  BY <1>1, <1>4, Begun, RunsPlaced DEF Placed, Fours, Ones, Of
<1> QED
  BY <1>1, <1>2, <1>3, <1>4, Steps, Looped DEF Turns, P5s

(* Who runs p5 did so before, or p1 creates it.                            *)
LEMMA FivesWere ==
  ASSUME IInv, TermInv, ErrInv, [P2Next]_p2vars, NEW p \in Fives'
  PROVE  /\ p \in Live' /\ p \in Pcbs
         /\ \/ p \in Fives
            \/ /\ Begins(p) /\ p \notin Live
               /\ currentProcess \in Ones /\ p_s[currentProcess].at = 21
<1>1. p \in Live' /\ p_s'[p].prog \in P5s /\ p \in Pcbs
  BY DEF Fives, Live
<1>2. CASE Begins(p)
  <2>1. Instr.arg = "p5" /\ Instr.do = "create" /\ p \notin Live /\ cpu = "user"
    BY <1>1, <1>2, Begun
  <2> QED
    BY <1>1, <1>2, <2>1, RunsPlaced DEF Placed, Ones, Of
<1>3. CASE p \in Live /\ ~Begins(p)
  BY <1>1, <1>3, Steps, Advanced, Looped DEF Turns, Fives, P5s
<1> QED
  BY <1>1, <1>2, <1>3, Steps DEF Advances, Loops, Turns

(* p5b between its calls comes from p5b.                                   *)
LEMMA FifthWas ==
  ASSUME IInv, TermInv, ErrInv, [P2Next]_p2vars, NEW p \in Live',
         p_s'[p].prog = "p5b", p_s'[p].at >= 3
  PROVE  /\ p \in Live /\ p \in Pcbs /\ p_s[p].prog = "p5b"
         /\ \/ p_s'[p] = p_s[p]
            \/ Advances(p) /\ p_s'[p].at = p_s[p].at + 1
            \/ Loops(p) /\ p_s[p].at = 4 /\ p_s'[p].at = 3
<1>1. p \in Pcbs /\ ~(p_s'[p].at \in {1, 2})
  BY DEF Live
<1>2. ~Begins(p)
  <2>1. "p5b" \in P5s \ {"p5"}
    BY DEF P5s
  <2> QED
    BY <2>1, Begun
<1>3. CASE Loops(p)
  BY <1>1, <1>3, Looped DEF Loops
<1>4. CASE Advances(p)
  BY <1>1, <1>4, Advanced
<1> QED
  BY <1>1, <1>2, <1>3, <1>4, Steps DEF Turns

(* The semaphores of the devices.                                          *)
LEMMA DeviceSems == DevSems = {32, Clock} /\ AllSems = Sems \cup {32, Clock} /\ Devices = {32}
BY TestScope DEF DevSems, AllSems, Devices

(* A process begins to wait by its own call only.                          *)
LEMMA BeginsToWait ==
  ASSUME IInv, TermInv, [P2Next]_p2vars, NEW p \in Pcbs,
         p_semAdd'[p] # p_semAdd[p], p_semAdd'[p] # NULL
  PROVE  /\ p = currentProcess /\ cpu = "user" /\ Call
         /\ \/ Instr = Wait(p_semAdd'[p]) /\ p_semAdd'[p] \in Sems /\ Passeren(p_semAdd'[p])
            \/ Instr.do = "SYS7" /\ p_semAdd'[p] = Clock
            \/ Instr.do = "SYS8" /\ p_semAdd'[p] = 32
<1>1. p_semAdd \in [Pcbs -> AllSems \cup {NULL}]
  BY DEF IInv, TypeOK
<1>2. ASSUME NEW s, Wake(s)
      PROVE  p_semAdd'[p] \in {p_semAdd[p], NULL}
  BY <1>1, <1>2 DEF Wake
<1>3. ASSUME NEW s, NEW e, P(s, e), p_semAdd'[p] # p_semAdd[p]
      PROVE  p = currentProcess /\ p_semAdd'[p] = s
  BY <1>1, <1>3 DEF P, Block
<1>4. CASE Call
  <2>1. cpu = "user"
    BY <1>4 DEF Call, KernelMode
  <2>2. CASE Instr.do = "V" /\ \E s \in Sems : s = Instr.arg /\ Verhogen(s)
    BY <1>2, <2>2 DEF Verhogen
  <2>3. CASE Instr.do = "P" /\ \E s \in Sems : s = Instr.arg /\ Passeren(s)
    <3>1. PICK s \in Sems : s = Instr.arg /\ Passeren(s)
      BY <2>3
    <3>2. p = currentProcess /\ p_semAdd'[p] = s
      BY <1>3, <3>1 DEF Passeren
    <3>3. Instr = Wait(s)
      BY <2>1, <2>3, <3>1, Runs DEF Fits
    <3> QED
      BY <1>4, <2>1, <3>1, <3>2, <3>3
  <2>4. CASE Instr.do = "SYS7" /\ WaitForClock
    <3>1. p = currentProcess /\ p_semAdd'[p] = Clock
      BY <1>3, <2>4 DEF WaitForClock
    <3> QED
      BY <1>4, <2>1, <2>4, <3>1
  <2>5. CASE Instr.do = "SYS8" /\ op[currentProcess] = 32 /\ WaitForIODevice
    <3>1. p = currentProcess /\ p_semAdd'[p] = 32
      BY <1>3, <2>5 DEF WaitForIODevice
    <3> QED
      BY <1>4, <2>1, <2>5, <3>1
  <2>6. CASE \/ Instr.do = "SYS2" /\ TerminateProcess
             \/ Instr.do = "SYS5" /\ \E t \in Traps : SpecifyExceptionStateVector(t)
             \/ Instr.do = "start" /\ StartIO(32)
    BY <2>6 DEF TerminateProcess, SpecifyExceptionStateVector, StartIO, StartKill, semVars
  <2> QED
    BY <1>4, <2>2, <2>3, <2>4, <2>5, <2>6 DEF Call
<1>5. CASE Start
  BY <1>5 DEF Start, CreateProcess, CreateFails, semVars
<1>6. CASE Compute \/ LeaveLoop \/ Again
  BY <1>6 DEF Compute, LeaveLoop, Again, vars, semVars
<1>7. CASE Raise \/ EndHandler \/ Faulting
  BY <1>7 DEF Raise, Exception, Faulting, KernelTrap, PassUpOrDie, StartKill, EndHandler,
       ProgramLDST, LoadState, semVars
<1>8. CASE Killing
  BY <1>1, <1>8 DEF Killing, KillChild, KillLeaf, KillMissing, Clean, semVars
<1>9. CASE Quantum \/ UNCHANGED p2vars
  BY <1>9 DEF Quantum, TimerInterrupt, semVars, p2vars, vars
<1>10. CASE Tick
  BY <1>1, <1>10 DEF Tick, ClockInterrupt
<1>11. CASE Device
  <2>1. CASE DeviceDone(32)
    BY <2>1 DEF DeviceDone, semVars
  <2>2. CASE DeviceInterrupt(32)
    BY <1>2, <2>2 DEF DeviceInterrupt
  <2> QED
    BY <1>11, <2>1, <2>2 DEF Device
<1> QED
  BY <1>4, <1>5, <1>6, <1>7, <1>8, <1>9, <1>10, <1>11 DEF P2Next, Program

(* A process that waits waited before and did not move, or it has just     *)
(* made the call.                                                          *)
LEMMA WaitersWere ==
  ASSUME IInv, IInv', TermInv, ErrInv, [P2Next]_p2vars, NEW p \in Live', p_semAdd'[p] # NULL
  PROVE  \/ /\ p \in Live /\ p_s'[p] = p_s[p]
            /\ p_semAdd'[p] = p_semAdd[p] /\ p # currentProcess
         \/ /\ Advances(p)
            /\ \/ Instr = Wait(p_semAdd'[p]) /\ p_semAdd'[p] \in Sems /\ Passeren(p_semAdd'[p])
               \/ Instr.do = "SYS7" /\ p_semAdd'[p] = Clock
               \/ Instr.do = "SYS8" /\ p_semAdd'[p] = 32
<1>1. p \in Pcbs /\ pcbFree \subseteq Pcbs
  BY DEF Live, IInv, TypeOK
<1>2. CASE p_semAdd'[p] # p_semAdd[p]
  <2>1. /\ p = currentProcess /\ cpu = "user" /\ Call
        /\ \/ Instr = Wait(p_semAdd'[p]) /\ p_semAdd'[p] \in Sems /\ Passeren(p_semAdd'[p])
           \/ Instr.do = "SYS7" /\ p_semAdd'[p] = Clock
           \/ Instr.do = "SYS8" /\ p_semAdd'[p] = 32
    BY <1>1, <1>2, BeginsToWait
  <2>2. Advances(p)
    BY <2>1, CallMoves
  <2> QED
    BY <2>1, <2>2
<1>3. CASE p_semAdd'[p] = p_semAdd[p]
  <2>1. p \in Live
    BY <1>1, <1>3 DEF Live, IInv, FreeClean
  <2>2. p # currentProcess
    BY <1>3, <2>1 DEF IInv, CurrentApart
  <2> QED
    BY <1>3, <2>1, <2>2, Steps, Begun DEF Advances, Loops, Turns
<1> QED
  BY <1>2, <1>3

(* What happens to the value and the queue of a semaphore.                 *)
LEMMA QueueSteps ==
  ASSUME IInv, TermInv, [P2Next]_p2vars, NEW s \in AllSems
  PROVE  \/ procQ'[s] = procQ[s] /\ semVal'[s] = semVal[s]
         \/ cpu = "user" /\ s \in Sems /\ Instr = V(s) /\ Verhogen(s)
         \/ /\ cpu = "user" /\ (\E e : P(s, e)) /\ UNCHANGED <<procVars, killStack>>
            /\ Call
         \/ s = Clock /\ ClockInterrupt
         \/ s = 32 /\ DeviceInterrupt(32)
         \/ (KillLeaf \/ KillMissing) /\ p_semAdd[Victim] = s
<1>1. procQ \in [AllSems -> Seq(Pcbs)] /\ semVal \in [AllSems -> Int] /\ NULL \notin AllSems
  BY NullApart DEF IInv, TypeOK
<1>2. ASSUME NEW r \in AllSems, r # s, NEW e, P(r, e)
      PROVE  procQ'[s] = procQ[s] /\ semVal'[s] = semVal[s]
  BY <1>1, <1>2 DEF P, Block
<1>3. ASSUME NEW r \in AllSems, r # s, Wake(r)
      PROVE  procQ'[s] = procQ[s]
  BY <1>1, <1>3 DEF Wake
<1>4. CASE Call
  <2>1. cpu = "user"
    BY <1>4 DEF Call, KernelMode
  <2>2. CASE Instr.do = "V" /\ \E r \in Sems : r = Instr.arg /\ Verhogen(r)
    <3>1. PICK r \in Sems : r = Instr.arg /\ Verhogen(r)
      BY <2>2
    <3>2. Instr = V(r)
      BY <2>1, <2>2, <3>1, Runs DEF Fits
    <3>3. r \in AllSems
      BY <3>1 DEF AllSems
    <3>4. CASE r # s
      BY <1>1, <1>3, <3>1, <3>3, <3>4 DEF Verhogen
    <3> QED
      BY <2>1, <3>1, <3>2, <3>4
  <2>3. CASE Instr.do = "P" /\ \E r \in Sems : r = Instr.arg /\ Passeren(r)
    <3>1. PICK r \in Sems : Passeren(r)
      BY <2>3
    <3>2. /\ r \in AllSems /\ P(r, TRUE)
          /\ UNCHANGED <<procVars, killStack>>
      BY <3>1 DEF AllSems, Passeren
    <3> QED
      BY <1>2, <1>4, <2>1, <3>2
  <2>4. CASE Instr.do = "SYS7" /\ WaitForClock
    <3>1. /\ Clock \in AllSems /\ P(Clock, TRUE)
          /\ UNCHANGED <<procVars, killStack>>
      BY <2>4, DeviceSems DEF WaitForClock
    <3> QED
      BY <1>2, <1>4, <2>1, <3>1
  <2>5. CASE Instr.do = "SYS8" /\ op[currentProcess] = 32 /\ WaitForIODevice
    <3>1. /\ 32 \in AllSems /\ P(32, FALSE)
          /\ UNCHANGED <<procVars, killStack>>
      BY <2>5, DeviceSems DEF WaitForIODevice
    <3> QED
      BY <1>2, <1>4, <2>1, <3>1
  <2>6. CASE \/ Instr.do = "SYS2" /\ TerminateProcess
             \/ Instr.do = "SYS5" /\ \E t \in Traps : SpecifyExceptionStateVector(t)
             \/ Instr.do = "start" /\ StartIO(32)
    BY <2>6 DEF TerminateProcess, SpecifyExceptionStateVector, StartIO, StartKill, semVars
  <2> QED
    BY <1>4, <2>2, <2>3, <2>4, <2>5, <2>6 DEF Call
<1>5. CASE Start
  BY <1>5 DEF Start, CreateProcess, CreateFails, semVars
<1>6. CASE Compute \/ LeaveLoop \/ Again
  BY <1>6 DEF Compute, LeaveLoop, Again, vars, semVars
<1>7. CASE Raise \/ EndHandler \/ Faulting
  BY <1>7 DEF Raise, Exception, Faulting, KernelTrap, PassUpOrDie, StartKill, EndHandler,
       ProgramLDST, LoadState, semVars
<1>8. CASE Killing
  <2>1. CASE KillChild
    BY <2>1 DEF KillChild, semVars
  <2>2. CASE (KillLeaf \/ KillMissing) /\ p_semAdd[Victim] # s
    BY <1>1, <2>2 DEF KillLeaf, KillMissing, ReleaseSemaphore, QueuesAfter, Blocked
  <2> QED
    BY <1>8, <2>1, <2>2 DEF Killing
<1>9. CASE Quantum \/ UNCHANGED p2vars
  BY <1>9 DEF Quantum, TimerInterrupt, semVars, p2vars, vars
<1>10. CASE Tick
  <2>1. CASE s # Clock
    BY <1>1, <1>10, <2>1 DEF Tick, ClockInterrupt
  <2> QED
    BY <1>10, <2>1 DEF Tick
<1>11. CASE Device
  <2>1. CASE DeviceDone(32)
    BY <2>1 DEF DeviceDone, semVars
  <2>2. CASE DeviceInterrupt(32) /\ s # 32
    <3>1. SemOf(32) = 32 /\ 32 \in AllSems
      BY <2>2, DeviceSems, NeverTheReceiver DEF DeviceInterrupt
    <3> QED
      BY <1>1, <1>3, <2>2, <3>1 DEF DeviceInterrupt
  <2> QED
    BY <1>11, <2>1, <2>2 DEF Device
<1> QED
  BY <1>4, <1>5, <1>6, <1>7, <1>8, <1>9, <1>10, <1>11 DEF P2Next, Program

(* Only p5 is ever in user mode.                                           *)
LEMMA KernelKept ==
  ASSUME IInv, TermInv, ErrInv, [P2Next]_p2vars, Kernel
  PROVE  Kernel'
<1> SUFFICES ASSUME NEW p \in Live', p_s'[p].prog \notin P5s
             PROVE  ~p_s'[p].user
  BY DEF Kernel
<1> QED
  BY Steps, Advanced, Begun, Looped DEF Turns, Loops, Kernel

(* Who blocks goes on behind its call, and stays there.                    *)
LEMMA StandsKept ==
  ASSUME IInv, IInv', TermInv, ErrInv, [P2Next]_p2vars, Stands
  PROVE  Stands'
<1> SUFFICES ASSUME NEW p \in Live', p_semAdd'[p] # NULL
             PROVE  /\ p_s'[p].at > 1
                    /\ \/ Before(p_s'[p]) = Wait(p_semAdd'[p]) /\ p_semAdd'[p] \in Sems
                       \/ Before(p_s'[p]).do = "SYS7" /\ p_semAdd'[p] = Clock
                       \/ Before(p_s'[p]).do = "SYS8" /\ p_semAdd'[p] = 32
  BY DEF Stands, Before
<1>1. CASE p \in Live /\ p_s'[p] = p_s[p] /\ p_semAdd'[p] = p_semAdd[p]
  BY <1>1 DEF Stands
<1>2. CASE /\ Advances(p)
           /\ \/ Instr = Wait(p_semAdd'[p]) /\ p_semAdd'[p] \in Sems /\ Passeren(p_semAdd'[p])
              \/ Instr.do = "SYS7" /\ p_semAdd'[p] = Clock
              \/ Instr.do = "SYS8" /\ p_semAdd'[p] = 32
  <2>1. p_s[p].at \in Nat \ {0}
    BY <1>2, AllPlaced DEF Advances, Live
  <2>2. Before(p_s'[p]) = Instr
    <3>1. Instr = Does(p_s[p]) /\ p_s'[p].prog = p_s[p].prog /\ p_s'[p].at - 1 = p_s[p].at
      BY <1>2, <2>1, Advanced
    <3> QED
      BY <3>1 DEF Before, Does
  <2> QED
    BY <1>2, <2>1, <2>2, Advanced
<1> QED
  BY <1>1, <1>2, WaitersWere

(* No P on the clock goes through.                                         *)
LEMMA TimedKept ==
  ASSUME IInv, IInv', TermInv, [P2Next]_p2vars, Timed
  PROVE  Timed'
<1>1. /\ Clock \in AllSems /\ Clock \notin Sems /\ Clock # 32
      /\ procQ \in [AllSems -> Seq(Pcbs)] /\ semVal \in [AllSems -> Int]
      /\ procQ[Clock] \in Seq(Pcbs) /\ Len(procQ[Clock]) \in Nat /\ semVal[Clock] \in Int
      /\ IsInjective(procQ[Clock])
  <2>1. Clock \in AllSems /\ Clock \notin Sems /\ Clock # 32
    BY FourNames, DeviceSems, TerminalNames
  <2>2. /\ procQ \in [AllSems -> Seq(Pcbs)] /\ semVal \in [AllSems -> Int]
        /\ \A s \in AllSems : IsInjective(procQ[s])
    BY DEF IInv, TypeOK, OnePlace
  <2>3. procQ[Clock] \in Seq(Pcbs)
    BY <2>1, <2>2
  <2> QED
    BY <2>1, <2>2, <2>3
<1>2. semVal[Clock] <= 0
  BY <1>1 DEF Timed
<1>3. CASE procQ'[Clock] = procQ[Clock] /\ semVal'[Clock] = semVal[Clock]
  BY <1>3 DEF Timed
<1>4. CASE \E e : P(Clock, e)
  <2>1. semVal'[Clock] = semVal[Clock] - 1
    BY <1>1, <1>4 DEF P
  <2>2. procQ'[Clock] = Append(procQ[Clock], currentProcess)
    BY <1>1, <1>2, <1>4, <2>1 DEF P, Block
  <2>3. Len(procQ'[Clock]) = Len(procQ[Clock]) + 1
    BY <1>1, <2>2
  <2> QED
    BY <1>1, <2>1, <2>3 DEF Timed
<1>5. CASE ClockInterrupt
  <2>1. ClockWaiters = procQ[Clock]
    BY <1>2 DEF ClockWaiters
  <2>2. /\ semVal'[Clock] = semVal[Clock] + Len(procQ[Clock])
        /\ procQ'[Clock] = <<>>
    BY <1>1, <1>5, <2>1 DEF ClockInterrupt
  <2> QED
    BY <1>1, <2>2 DEF Timed
<1>6. CASE KillLeaf /\ p_semAdd[Victim] = Clock
  <2>1. Blocked(Victim) /\ Victim \in ToSet(procQ[Clock])
    BY <1>1, <1>6, NullApart, VictimPlace DEF KillLeaf, Blocked
  <2>2. semVal'[Clock] = semVal[Clock]
    BY <1>6, <2>1, DeviceSems DEF KillLeaf, ReleaseSemaphore
  <2>3. procQ'[Clock] = QueueAfterOut(procQ[Clock], Victim)
    BY <1>1, <1>6, <2>1 DEF KillLeaf, QueuesAfter
  <2>4. Len(procQ'[Clock]) <= Len(procQ[Clock])
    BY <1>1, <2>1, <2>3, TakenOutPositions DEF QueueAfterOut
  <2>5. Len(procQ'[Clock]) \in Nat
    BY <1>1, <2>1, <2>3, LeaveQueue
  <2> QED
    BY <1>1, <2>2, <2>4, <2>5 DEF Timed
<1>7. CASE KillMissing /\ p_semAdd[Victim] = Clock
  <2>1. UNCHANGED <<semVal, procQ>>
    BY <1>1, <1>7, NullApart, DeviceSems DEF KillMissing, ReleaseSemaphore, Blocked
  <2> QED
    BY <2>1 DEF Timed
<1> QED
  BY <1>1, <1>3, <1>4, <1>5, <1>6, <1>7, QueueSteps

(* Where the blocked processes stand.                                      *)
LEMMA WaitersStand ==
  ASSUME IInv, TermInv, Stands, NEW p \in Live, p_semAdd[p] # NULL
  PROVE  /\ p_s[p].at \in Nat /\ p_s[p].at > 1
         /\ Placed(p_s[p].prog, p_s[p].at - 1, Before(p_s[p]))
         /\ \/ Before(p_s[p]) = Wait(p_semAdd[p]) /\ p_semAdd[p] \in Sems
            \/ Before(p_s[p]).do = "SYS7" /\ p_semAdd[p] = Clock
            \/ Before(p_s[p]).do = "SYS8" /\ p_semAdd[p] = 32
<1> DEFINE s == p_s[p]
           b == [s EXCEPT !.at = @ - 1]
<1>1. s \in States /\ s.at \in Nat \ {0}
  BY AllPlaced DEF Live
<1>2. s.at > 1 /\ \/ Before(s) = Wait(p_semAdd[p]) /\ p_semAdd[p] \in Sems
                  \/ Before(s).do = "SYS7" /\ p_semAdd[p] = Clock
                  \/ Before(s).do = "SYS8" /\ p_semAdd[p] = 32
  BY DEF Stands
<1>3. b \in States /\ b.prog = s.prog /\ b.at = s.at - 1
  BY <1>1, <1>2 DEF States
<1>4. Does(b) = Before(s)
  BY <1>3 DEF Before, Does
<1> QED
  BY <1>1, <1>2, <1>3, <1>4, StateInPlace

(* Which p4 and p5 wait where they wait.                                   *)
LEMMA FourWaits ==
  ASSUME IInv, TermInv, Stands, NEW p \in Live
  PROVE  /\ p_s[p].prog = "p4" /\ p_semAdd[p] = blkp4 => p_s[p].at = 7
         /\ p_s[p].prog = "p4" /\ p_semAdd[p] = synp4 => p_s[p].at \in {8, 10}
         /\ p_s[p].prog = "p5b" /\ p_semAdd[p] = endp4 => p_s[p].at = 3
         /\ p_s[p].prog = "p5b" /\ p_semAdd[p] = Clock => p_s[p].at = 4
         /\ p_s[p].prog = "p1" /\ p_semAdd[p] = endp5 => p_s[p].at = 25
<1> SUFFICES ASSUME p_semAdd[p] # NULL
             PROVE  /\ p_s[p].prog = "p4" /\ p_semAdd[p] = blkp4 => p_s[p].at = 7
                    /\ p_s[p].prog = "p4" /\ p_semAdd[p] = synp4 => p_s[p].at \in {8, 10}
                    /\ p_s[p].prog = "p5b" /\ p_semAdd[p] = endp4 => p_s[p].at = 3
                    /\ p_s[p].prog = "p5b" /\ p_semAdd[p] = Clock => p_s[p].at = 4
                    /\ p_s[p].prog = "p1" /\ p_semAdd[p] = endp5 => p_s[p].at = 25
  BY FourNames, NullApart
<1>1. /\ p_s[p].at \in Nat
      /\ Placed(p_s[p].prog, p_s[p].at - 1, Before(p_s[p]))
      /\ \/ Before(p_s[p]) = Wait(p_semAdd[p]) /\ p_semAdd[p] \in Sems
         \/ Before(p_s[p]).do = "SYS7" /\ p_semAdd[p] = Clock
         \/ Before(p_s[p]).do = "SYS8" /\ p_semAdd[p] = 32
  BY WaitersStand
<1>2. ASSUME NEW s \in Sems, p_semAdd[p] = s
      PROVE  Before(p_s[p]) = Wait(s)
  BY <1>1, <1>2, FourNames
<1>3. p_semAdd[p] = Clock => Before(p_s[p]).do = "SYS7"
  BY <1>1, FourNames, TerminalNames
<1> QED
  BY <1>1, <1>2, <1>3, FourNames DEF Placed

(* The sum of a semaphore that lets one through does not grow without a V, *)
LEMMA StaysSingle ==
  ASSUME IInv, IInv', TermInv, [P2Next]_p2vars, NEW s \in Sems, Single(s),
         ~(cpu = "user" /\ Instr = V(s) /\ Verhogen(s) /\ Advance)
  PROVE  Single(s)'
<1>1. SumKept(s)
  <2>1. CASE Untouched(s)
    BY <2>1 DEF Untouched
  <2>2. CASE cpu = "user" /\ Passeren(s)
    BY <2>2, CheckSemaphores, PSteps DEF Passeren
  <2> QED
    BY <2>1, <2>2, StepOnSemaphore
<1>2. semVal[s] \in Int /\ semVal'[s] \in Int
  BY CheckSemaphores DEF IInv, TypeOK
<1> QED
  BY <1>1, <1>2, WaitingFinite DEF Single, SumKept

(* a V adds one to it, unless it wakes somebody,                           *)
LEMMA Opens ==
  ASSUME IInv, IInv', NEW s \in Sems, Shut(s), Verhogen(s)
  PROVE  /\ Single(s)'
         /\ \/ UNCHANGED p_semAdd
            \/ /\ Shut(s)' /\ procQ[s] # <<>>
               /\ p_semAdd' = [p_semAdd EXCEPT ![Head(procQ[s])] = NULL]
<1>1. semVal[s] \in Int /\ semVal'[s] \in Int /\ semVal'[s] = semVal[s] + 1
  BY CheckSemaphores, VSteps DEF IInv, TypeOK
<1>2. CASE SumKept(s) /\ procQ[s] # <<>>
           /\ p_semAdd' = [p_semAdd EXCEPT ![Head(procQ[s])] = NULL]
  BY <1>1, <1>2, WaitingFinite DEF Shut, Single, SumKept
<1>3. CASE UNCHANGED <<procQ, p_semAdd>>
  <2>1. UNCHANGED <<pcbFree, p_prnt, killStack>>
    BY VSteps
  <2>2. Waiting(s)' = Waiting(s)
    BY <1>3, <2>1 DEF Waiting, Live
  <2> QED
    BY <1>1, <1>3, <2>2, WaitingFinite DEF Shut, Single
<1> QED
  BY <1>2, <1>3, VSteps

(* and a P that goes through takes it away.                                *)
LEMMA Passes ==
  ASSUME IInv, IInv', NEW s \in Sems, Single(s), cpu = "user", Passeren(s),
         p_semAdd'[currentProcess] # s
  PROVE  Shut(s)' /\ semVal[s] > 0 /\ UNCHANGED <<procQ, p_semAdd>>
<1>1. semVal[s] \in Int /\ semVal'[s] \in Int
  BY CheckSemaphores DEF IInv, TypeOK
<1>2. /\ UNCHANGED <<pcbFree, p_prnt, killStack>>
      /\ semVal' = [semVal EXCEPT ![s] = @ - 1]
      /\ semVal[s] > 0 /\ UNCHANGED <<procQ, p_semAdd>>
  <2>1. p_semAdd \in [Pcbs -> AllSems \cup {NULL}] /\ currentProcess \in Pcbs
    BY UserIsLive DEF IInv, TypeOK
  <2>2. s \in AllSems /\ P(s, TRUE) /\ UNCHANGED <<procVars, killStack>>
    BY CheckSemaphores DEF Passeren
  <2>3. ~(p_semAdd' = [p_semAdd EXCEPT ![currentProcess] = s])
    BY <2>1
  <2> QED
    BY <2>2, <2>3, PSteps
<1>3. semVal'[s] = semVal[s] - 1
  BY <1>2, CheckSemaphores DEF IInv, TypeOK
<1>4. Waiting(s)' = Waiting(s)
  BY <1>2 DEF Waiting, Live
<1> QED
  BY <1>1, <1>2, <1>3, <1>4, WaitingFinite DEF Shut, Single

(* Who does not wait any more has been woken by a V, as the head of the    *)
(* queue, and has not moved.                                               *)
LEMMA Woken ==
  ASSUME IInv, IInv', TermInv, ErrInv, [P2Next]_p2vars, NEW s \in Sems,
         NEW p \in Live', p_semAdd[p] = s, p_semAdd'[p] # s
  PROVE  /\ cpu = "user" /\ Instr = V(s) /\ Verhogen(s) /\ Advance
         /\ procQ[s] # <<>> /\ p = Head(procQ[s]) /\ p_semAdd'[p] = NULL
         /\ SumKept(s)
         /\ p \in Live /\ p # currentProcess /\ p_s'[p] = p_s[p]
<1>1. p \in Pcbs /\ p_semAdd \in [Pcbs -> AllSems \cup {NULL}] /\ s # NULL
  BY CheckSemaphores DEF Live, IInv, TypeOK
<1>2. cpu = "user" /\ Instr = V(s) /\ Verhogen(s) /\ Advance
  <2>1. ~Untouched(s)
    BY DEF Untouched
  <2>2. ~(cpu = "user" /\ Instr = Wait(s) /\ Passeren(s))
    <3>1. ASSUME cpu = "user", Passeren(s)
          PROVE  p_semAdd'[p] = s
      BY <1>1, <3>1, CheckSemaphores, PSteps DEF Passeren
    <3> QED
      BY <3>1
  <2> QED
    BY <2>1, <2>2, StepOnSemaphore
<1>3. /\ procQ[s] # <<>> /\ SumKept(s)
      /\ p_semAdd' = [p_semAdd EXCEPT ![Head(procQ[s])] = NULL]
  BY <1>2, VSteps
<1>4. p \in Live /\ p # currentProcess
  BY <1>1, <1>2, CheckSemaphores, Runs DEF Live, IInv, FreeClean
<1>5. p_s'[p] = p_s[p]
  BY <1>4, Steps, Begun DEF Advances, Loops, Turns
<1> QED
  BY <1>1, <1>2, <1>3, <1>4, <1>5

(* A P of the running process.                                             *)
LEMMA Takes ==
  ASSUME IInv, IInv', TermInv, NEW q, Advances(q), NEW s \in Sems, Instr = Wait(s)
  PROVE  /\ Passeren(s) /\ q = currentProcess /\ cpu = "user"
         /\ p_semAdd'[q] # s => semVal[s] > 0 /\ UNCHANGED <<procQ, p_semAdd>>
<1>1. Passeren(s) /\ q = currentProcess /\ cpu = "user"
  BY DEF Advances, Wait, I
<1>2. p_semAdd \in [Pcbs -> AllSems \cup {NULL}] /\ q \in Pcbs
  BY <1>1, UserIsLive DEF IInv, TypeOK
<1> QED
  BY <1>1, <1>2, CheckSemaphores, PSteps DEF Passeren

(* An incarnation of p4 that has passed blkp4 has done so before, or passes*)
(* it by itself, or is woken by p5.                                        *)
LEMMA PassedWas ==
  ASSUME IInv, IInv', TermInv, ErrInv, [P2Next]_p2vars, NEW q, Passed(q)'
  PROVE  /\ q \in Fours /\ q \in Pcbs /\ q \in Live'
         /\ \/ Passed(q) /\ (p_s'[q] = p_s[q] \/ Advances(q))
            \/ /\ Advances(q) /\ p_s[q].at = 6 /\ p_s'[q].at = 7
               /\ Instr = Wait(blkp4) /\ Passeren(blkp4) /\ semVal[blkp4] > 0
               /\ UNCHANGED <<procQ, p_semAdd>>
            \/ /\ p_s'[q] = p_s[q] /\ p_semAdd[q] = blkp4 /\ p_s[q].at >= 7
               /\ cpu = "user" /\ Instr = V(blkp4) /\ Verhogen(blkp4) /\ SumKept(blkp4)
<1>1. q \in Fours' /\ p_s'[q].at >= 7 /\ p_semAdd'[q] # blkp4
  BY DEF Passed
<1>2. /\ q \in Fours /\ q \in Pcbs /\ q \in Live' /\ q \in Live /\ p_s[q].prog = "p4"
      /\ p_s'[q] = p_s[q] \/ (Advances(q) /\ p_s'[q].at = p_s[q].at + 1)
  BY <1>1, FoursWere DEF Fours, Of
<1>3. p_s[q].at \in Nat \ {0} /\ Placed("p4", p_s[q].at, Does(p_s[q]))
  BY <1>2, AllPlaced
<1>4. CASE p_s[q].at >= 7 /\ p_semAdd[q] # blkp4
  BY <1>2, <1>4 DEF Passed
<1>5. CASE p_s[q].at >= 7 /\ p_semAdd[q] = blkp4
  BY <1>1, <1>2, <1>5, Woken, FourNames
<1>6. CASE ~(p_s[q].at >= 7)
  <2>1. Advances(q) /\ p_s[q].at = 6 /\ p_s'[q].at = 7
    BY <1>1, <1>2, <1>3, <1>6
  <2>2. Instr = Wait(blkp4)
    BY <1>2, <1>3, <2>1, Advanced DEF Placed
  <2> QED
    BY <1>1, <1>2, <2>1, <2>2, Takes, FourNames
<1> QED
  BY <1>4, <1>5, <1>6

(* It never waits there again.                                             *)
LEMMA PassedStays ==
  ASSUME IInv, IInv', TermInv, ErrInv, [P2Next]_p2vars, NEW q \in Live', Passed(q)
  PROVE  Passed(q)' /\ p_s'[q].at >= p_s[q].at
<1>1. q \in Pcbs /\ q \in Live /\ p_s[q].prog = "p4" /\ p_s[q].at >= 7 /\ p_semAdd[q] # blkp4
  BY DEF Passed, Fours, Of, Live
<1>2. p_s[q].at \in Nat \ {0} /\ Placed("p4", p_s[q].at, Does(p_s[q]))
  BY <1>1, AllPlaced
<1>3. /\ p_s'[q].prog = "p4"
      /\ p_s'[q] = p_s[q] \/ (Advances(q) /\ p_s'[q].at = p_s[q].at + 1)
  BY <1>1, Steps, Advanced, Begun, Looped DEF Turns, P5s
<1>4. p_semAdd'[q] # blkp4
  <2> SUFFICES ASSUME p_semAdd'[q] = blkp4 PROVE FALSE
    OBVIOUS
  <2>1. Instr = Wait(blkp4) /\ Advances(q)
    BY <1>1, WaitersWere, FourNames
  <2> QED
    BY <1>1, <1>2, <2>1, Advanced DEF Placed
<1> QED
  BY <1>1, <1>2, <1>3, <1>4 DEF Passed, Fours, Of

(* p5 between its calls has been there before, or comes through endp4.     *)
LEMMA MidWas ==
  ASSUME IInv, IInv', TermInv, ErrInv, [P2Next]_p2vars, Stands, NEW p, Mid(p)'
  PROVE  /\ p \in Live /\ p \in Pcbs /\ p \in Live' /\ p_s[p].prog = "p5b"
         /\ \/ /\ Mid(p)
               /\ \/ p_s'[p] = p_s[p]
                  \/ Advances(p) /\ p_s'[p].at = p_s[p].at + 1
                  \/ Loops(p) /\ p_s[p].at = 4 /\ p_s'[p].at = 3
            \/ /\ Advances(p) /\ p_s[p].at = 2 /\ p_s'[p].at = 3
               /\ Instr = Wait(endp4) /\ Passeren(endp4) /\ semVal[endp4] > 0
               /\ UNCHANGED <<procQ, p_semAdd>>
            \/ /\ p_s'[p] = p_s[p] /\ p_s[p].at = 3 /\ p_semAdd[p] = endp4
               /\ cpu = "user" /\ Instr = V(endp4) /\ Verhogen(endp4) /\ SumKept(endp4)
<1>1. /\ p \in Live' /\ p_s'[p].prog = "p5b" /\ p_s'[p].at \in 3..6
      /\ p_semAdd'[p] # endp4
  BY DEF Mid
<1>2. /\ p \in Live /\ p \in Pcbs /\ p_s[p].prog = "p5b"
      /\ \/ p_s'[p] = p_s[p]
         \/ Advances(p) /\ p_s'[p].at = p_s[p].at + 1
         \/ Loops(p) /\ p_s[p].at = 4 /\ p_s'[p].at = 3
  BY <1>1, FifthWas
<1>3. p_s[p].at \in Nat \ {0} /\ Placed("p5b", p_s[p].at, Does(p_s[p]))
  BY <1>2, AllPlaced
<1>4. CASE p_semAdd[p] = endp4
  <2>1. ~(p = currentProcess /\ cpu = "user")
    BY <1>4, Runs, FourNames
  <2>2. ~Advances(p) /\ ~Loops(p)
    BY <2>1 DEF Advances, Loops
  <2>3. p_s'[p] = p_s[p]
    BY <1>2, <2>2
  <2> QED
    BY <1>1, <1>2, <1>4, <2>3, Woken, FourNames, FourWaits
<1>5. CASE p_semAdd[p] # endp4 /\ p_s[p].at \in 3..6
  BY <1>2, <1>5 DEF Mid
<1>6. CASE p_s[p].at \notin 3..6
  <2>1. Advances(p) /\ p_s[p].at = 2 /\ p_s'[p].at = 3
    BY <1>1, <1>2, <1>3, <1>6
  <2>2. Instr = Wait(endp4)
    BY <1>2, <1>3, <2>1, Advanced DEF Placed
  <2> QED
    BY <1>1, <1>2, <2>1, <2>2, Takes, FourNames
<1> QED
  BY <1>4, <1>5, <1>6

(* The elements of a pair.                                                 *)
LEMMA TwoLong ==
  ASSUME NEW S, NEW a, NEW b, NEW s \in Seq(S), Len(s) = 2, s[1] = a, s[2] = b
  PROVE  s = <<a, b>>
OBVIOUS

(* The child of an ended p4 waits for blkp4 or for nothing.                *)
LEMMA ChildWaits ==
  ASSUME IInv, TermInv, Stands, Going, cpu = "kill", NEW c \in Fours,
         Passed(currentProcess), c # currentProcess
  PROVE  /\ ~Passed(c) /\ c \in Live /\ c \in Pcbs
         /\ p_semAdd[c] = blkp4 \/ (p_semAdd[c] = NULL /\ p_s[c].at = 6)
<1>1. currentProcess \in Fours /\ p_s[currentProcess].at >= 15
  BY DEF Going, Kills, Passed
<1>2. c \in Live /\ c \in Pcbs /\ p_s[c].prog = "p4"
  BY DEF Fours, Of, Live
<1>3. ~Passed(c)
  <2>1. Apart(currentProcess, c) \/ Apart(c, currentProcess)
    BY <1>1 DEF Going, Pair
  <2> QED
    BY <2>1 DEF Apart
<1>4. CASE p_semAdd[c] # blkp4
  <2>1. p_s[c].at \in Nat /\ p_s[c].at < 7
    BY <1>2, <1>3, <1>4, AllPlaced DEF Passed
  <2>2. ~(p_s[c].at <= 5)
    <3> SUFFICES ASSUME p_s[c].at <= 5 PROVE FALSE
      OBVIOUS
    <3>1. p_s[currentProcess].at \in {9, 10}
      BY <1>1 DEF Going, Syn
    <3> QED
      BY <1>1, <3>1
  <2>3. p_s[c].at = 6
    BY <2>1, <2>2
  <2>4. p_semAdd[c] = NULL
    <3> SUFFICES ASSUME p_semAdd[c] # NULL PROVE FALSE
      OBVIOUS
    <3>1. /\ Placed("p4", 5, Before(p_s[c]))
          /\ \/ \E s \in Sems : Before(p_s[c]) = Wait(s)
             \/ Before(p_s[c]).do \in {"SYS7", "SYS8"}
      BY <1>2, <2>3, WaitersStand
    <3>2. Before(p_s[c]) = V(synp4)
      BY <3>1 DEF Placed
    <3>3. V(synp4).do = "V" /\ \A s : Wait(s).do = "P"
      BY DEF V, Wait, I
    <3> QED
      BY <3>1, <3>2, <3>3
  <2> QED
    BY <1>2, <1>3, <2>3, <2>4
<1> QED
  BY <1>2, <1>3, <1>4

(* A termination finds its victim where it should be.                      *)
LEMMA VictimIsFound ==
  ASSUME IInv, TermInv, Stands, Going, cpu = "kill", p_child[Victim] = <<>>
  PROVE  Found(Victim)
<1>1. /\ currentProcess \in Live /\ p_s[currentProcess].prog # "p1"
      /\ currentProcess \in Fours => p_s[currentProcess].at >= 15
      /\ \/ killStack = <<currentProcess>>
         \/ \E c \in Fours : /\ killStack = <<currentProcess, c>>
                             /\ Passed(currentProcess) /\ c # currentProcess
  BY DEF Going, Kills
<1>2. p_semAdd[currentProcess] = NULL
  BY <1>1 DEF IInv, CurrentApart
<1>3. CASE killStack = <<currentProcess>>
  <2>1. Victim = currentProcess
    BY <1>3 DEF Victim, Last
  <2>2. p_prnt[currentProcess] # NULL
    <3> SUFFICES ASSUME p_prnt[currentProcess] = NULL PROVE FALSE
      OBVIOUS
    <3>1. killStack = <<currentProcess, currentProcess>>
      BY <1>1 DEF Going, Tree
    <3>2. Len(<<currentProcess>>) = 1 /\ Len(<<currentProcess, currentProcess>>) = 2
      OBVIOUS
    <3> QED
      BY <1>3, <3>1, <3>2
  <2> QED
    BY <1>2, <2>1, <2>2 DEF Found, Blocked
<1>4. CASE \E c \in Fours : /\ killStack = <<currentProcess, c>>
                            /\ Passed(currentProcess) /\ c # currentProcess
  <2>1. PICK c \in Fours : /\ killStack = <<currentProcess, c>>
                           /\ Passed(currentProcess) /\ c # currentProcess
    BY <1>4
  <2>2. Victim = c /\ c \in Live /\ c \in Pcbs /\ p_s[c].prog = "p4"
    BY <2>1 DEF Victim, Last, Fours, Of, Live
  <2>3. p_semAdd[c] \in {blkp4, NULL}
    BY <2>1, ChildWaits
  <2>4. CASE p_semAdd[c] = blkp4
    <3>1. c \in ToSet(procQ[blkp4])
      BY <2>2, <2>4 DEF Going, Sound
    <3> QED
      BY <2>2, <2>4, <3>1, FourNames DEF Found, Blocked
  <2>5. CASE p_semAdd[c] = NULL
    <3>1. c \in ToSet(readyQue)
      BY <2>1, <2>2, <2>5 DEF IInv, NobodyForgotten, Blocked
    <3> QED
      BY <2>1, <2>2, <2>5, <3>1 DEF Found, Blocked
  <2> QED
    BY <2>3, <2>4, <2>5
<1> QED
  BY <1>1, <1>3, <1>4

(* What a termination does: an ended p4 leaves its child to be killed,     *)
KillsChild(c) ==
  /\ c \in Fours /\ c # currentProcess /\ Passed(currentProcess) /\ ~Passed(c)
  /\ p_prnt[c] = currentProcess
  /\ killStack = <<currentProcess>> /\ killStack' = <<currentProcess, c>>
  /\ cpu' = "kill" /\ p_prnt' = [p_prnt EXCEPT ![c] = NULL]
  /\ UNCHANGED <<currentProcess, readyQue, pcbFree, semVars>>

(* the child dies, wherever it waits,                                      *)
ChildDies(c) ==
  /\ c \in Fours /\ c # currentProcess /\ Passed(currentProcess) /\ ~Passed(c)
  /\ killStack = <<currentProcess, c>> /\ killStack' = <<currentProcess>>
  /\ cpu' = "kill" /\ currentProcess' = currentProcess
  /\ pcbFree' = pcbFree \cup {c} /\ p_prnt' = [p_prnt EXCEPT ![c] = NULL]
  /\ p_semAdd' = [p_semAdd EXCEPT ![c] = NULL]
  /\ \/ p_semAdd[c] = NULL /\ UNCHANGED <<procQ, semVal>>
     \/ /\ p_semAdd[c] = blkp4
        /\ semVal' = [semVal EXCEPT ![blkp4] = @ + 1]
        /\ procQ' = [procQ EXCEPT ![blkp4] = QueueAfterOut(@, c)]

(* and the process that ends dies itself.                                  *)
CurrentDies ==
  /\ killStack = <<currentProcess>> /\ killStack' = <<>> /\ cpu' # "kill"
  /\ p_child[currentProcess] = <<>>
  /\ pcbFree' = pcbFree \cup {currentProcess}
  /\ p_prnt' = [p_prnt EXCEPT ![currentProcess] = NULL]
  /\ p_semAdd' = p_semAdd /\ UNCHANGED <<procQ, semVal>>
  /\ \E n, m : Scheduler(readyQue, n, m, currentProcess)

(* Nothing else happens during a termination.                              *)
LEMMA KillSteps ==
  ASSUME IInv, TermInv, Stands, Going, [P2Next]_p2vars, cpu = "kill"
  PROVE  /\ currentProcess \in Live /\ p_s[currentProcess].prog # "p1"
         /\ currentProcess \in Fours => p_s[currentProcess].at >= 15
         /\ \A p \in Live' : p \in Live /\ p_s'[p] = p_s[p]
         /\ \/ \E c \in Pcbs : KillsChild(c) \/ ChildDies(c)
            \/ CurrentDies
            \/ UNCHANGED <<cpu, currentProcess, readyQue, pcbFree, p_prnt, semVars, killStack>>
<1>1. /\ currentProcess \in Live /\ p_s[currentProcess].prog # "p1"
      /\ currentProcess \in Fours => p_s[currentProcess].at >= 15
      /\ \/ killStack = <<currentProcess>>
         \/ \E c \in Fours : /\ killStack = <<currentProcess, c>>
                             /\ Passed(currentProcess) /\ c # currentProcess
  BY DEF Going, Kills
<1>2. /\ p_s \in [Pcbs -> States] /\ p_child \in [Pcbs -> Seq(Pcbs)]
      /\ killStack \in Seq(Pcbs) /\ currentProcess \in Pcbs
      /\ p_semAdd \in [Pcbs -> AllSems \cup {NULL}]
      /\ p_semAdd[currentProcess] = NULL
  BY <1>1 DEF TermInv, IInv, TypeOK, CurrentApart, Live
<1>3. ASSUME killStack = <<currentProcess>>
      PROVE  Victim = currentProcess /\ Front(killStack) = <<>> /\ Len(killStack) = 1
  BY <1>3 DEF Victim, Last, Front
<1>4. ASSUME NEW c \in Pcbs, killStack = <<currentProcess, c>>
      PROVE  Victim = c /\ Front(killStack) = <<currentProcess>> /\ Len(killStack) = 2
  <2>1. Len(killStack) = 2 /\ Victim = c
    BY <1>4 DEF Victim, Last
  <2>2. /\ Front(killStack) \in Seq(Pcbs) /\ Len(Front(killStack)) = 1
        /\ Front(killStack)[1] = currentProcess
    <3>1. killStack # <<>> /\ 1 \in 1..Len(killStack) - 1 /\ killStack[1] = currentProcess
      BY <1>4, <2>1
    <3>2. /\ Front(killStack) \in Seq(Pcbs)
          /\ Len(Front(killStack)) = Len(killStack) - 1
          /\ \A i \in 1..Len(killStack) - 1 : Front(killStack)[i] = killStack[i]
      BY <1>2, <3>1, PopStack
    <3>3. Front(killStack)[1] = killStack[1]
      BY <3>1, <3>2
    <3>4. Len(killStack) - 1 = 1
      BY <2>1
    <3> QED
      BY <3>1, <3>2, <3>3, <3>4
  <2> QED
    BY <2>1, <2>2
<1>5. ASSUME NEW c \in Fours, c # currentProcess, Passed(currentProcess)
      PROVE  ~Passed(c)
  <2>1. Apart(currentProcess, c) \/ Apart(c, currentProcess)
    BY <1>5 DEF Going, Pair, Passed
  <2> QED
    BY <1>5, <2>1 DEF Apart
<1>0. \/ Killing
      \/ UNCHANGED <<cpu, currentProcess, readyQue, pcbFree, p_prnt, semVars, killStack, p_s>>
  <2>1. CASE Program \/ Faulting \/ Quantum \/ Tick
    BY <2>1 DEF Program, Call, Start, Compute, LeaveLoop, Again, Raise, EndHandler, KernelMode,
         Faulting, KernelTrap, Quantum, TimerInterrupt, Tick, ClockInterrupt, Interruptible
  <2>2. CASE Device
    <3>1. DeviceDone(32)
      BY <2>2 DEF Device, DeviceInterrupt, Interruptible
    <3> QED
      BY <2>2, <3>1 DEF Device, DeviceDone, testVars, cpuVars, procVars
  <2>3. CASE UNCHANGED p2vars
    BY <2>3 DEF p2vars, vars, testVars, cpuVars, procVars
  <2> QED
    BY <2>1, <2>2, <2>3 DEF P2Next
<1>7. \A p \in Live' : p \in Live /\ p_s'[p] = p_s[p]
  <2>1. CASE Killing
    <3>1. pcbFree \subseteq pcbFree'
      BY <2>1 DEF Killing, KillChild, KillLeaf, KillMissing, procVars
    <3> QED
      BY <2>1, <3>1 DEF Killing, Live
  <2> QED
    BY <1>0, <2>1 DEF Live
<1>6. CASE KillChild
  <2>1. /\ p_child[Victim] # <<>> /\ p_prnt' = [p_prnt EXCEPT ![Head(p_child[Victim])] = NULL]
        /\ killStack' = Append(killStack, Head(p_child[Victim]))
        /\ UNCHANGED <<cpu, currentProcess, readyQue, pcbFree, semVars>>
    BY <1>6 DEF KillChild, cpuVars
  <2>2. killStack = <<currentProcess>>
    <3> SUFFICES ASSUME NEW c \in Fours, killStack = <<currentProcess, c>>,
                        Passed(currentProcess), c # currentProcess
                 PROVE  FALSE
      BY <1>1
    <3>1. Victim = c /\ c \in Pcbs /\ p_s[c].prog = "p4"
      BY <1>4 DEF Fours, Of, Live
    <3>2. PICK x \in ToSet(p_child[c]) : x \in Pcbs
      BY <1>2, <2>1, <3>1, MemberPosition
    <3>3. p_prnt[x] = c /\ c # NULL
      BY <3>1, <3>2, NullApart DEF IInv, TreeConsistent
    <3>4. Passed(c)
      BY <3>1, <3>2, <3>3 DEF Going, Tree, Fosters
    <3> QED
      BY <1>5, <3>4
  <2> DEFINE c == Head(p_child[currentProcess])
  <2>3. Victim = currentProcess
    BY <1>3, <2>2
  <2>4. c \in ToSet(p_child[currentProcess]) /\ c \in Pcbs
    BY <1>2, <2>1, <2>3, RemoveHead, MemberPosition DEF IInv, TreeConsistent
  <2>5. p_prnt[c] = currentProcess /\ currentProcess # NULL
    BY <1>2, <2>4, NullApart DEF IInv, TreeConsistent
  <2>6. Passed(currentProcess) /\ c \in Fours /\ c # currentProcess
    <3> HIDE DEF c
    <3>1. p_prnt[c] # NULL /\ p_s[p_prnt[c]].prog # "p1"
      BY <1>1, <2>5
    <3>2. \/ p_s[p_prnt[c]].prog = "p1"
          \/ Passed(p_prnt[c]) /\ c \in Fours /\ c # p_prnt[c]
      BY <2>4, <3>1 DEF Going, Tree, Fosters
    <3> QED
      BY <2>5, <3>1, <3>2
  <2>7. killStack' = <<currentProcess, c>>
    <3>1. killStack' = Append(<<currentProcess>>, c)
      BY <2>1, <2>2, <2>3
    <3> HIDE DEF c
    <3>2. /\ <<currentProcess>> \in Seq(Pcbs) /\ Len(<<currentProcess>>) = 1
          /\ <<currentProcess>>[1] = currentProcess
      BY <1>2
    <3>3. /\ killStack' \in Seq(Pcbs) /\ Len(killStack') = 2
          /\ killStack'[1] = currentProcess /\ killStack'[2] = c
      BY <2>4, <3>1, <3>2
    <3> QED
      BY <3>3, TwoLong
  <2>8. KillsChild(c)
    BY <1>5, <2>1, <2>2, <2>3, <2>5, <2>6, <2>7 DEF KillsChild
  <2>9. Live' = Live
    BY <2>1 DEF Live
  <2> QED
    BY <2>4, <2>8, <2>9, <1>1, <1>7
<1>8. CASE KillLeaf
  <2>1. /\ p_child[Victim] = <<>> /\ killStack' = Front(killStack)
        /\ pcbFree' = pcbFree \cup {Victim}
        /\ p_prnt' = [p_prnt EXCEPT ![Victim] = NULL]
        /\ p_semAdd' = [p_semAdd EXCEPT ![Victim] = NULL]
        /\ ReleaseSemaphore(Victim) /\ procQ' = QueuesAfter(Victim)
    BY <1>8 DEF KillLeaf, Clean
  <2>2. CASE killStack = <<currentProcess>>
    <3>1. /\ Victim = currentProcess /\ killStack' = <<>> /\ Len(killStack) = 1
          /\ ~Blocked(currentProcess)
      BY <1>2, <1>3, <2>1, <2>2 DEF Blocked
    <3>2. p_semAdd' = p_semAdd /\ UNCHANGED <<procQ, semVal>>
      BY <1>2, <2>1, <3>1 DEF ReleaseSemaphore, QueuesAfter
    <3>3. Scheduler(readyQue, processCount', softBlockCount', currentProcess)
      BY <1>8, <3>1 DEF KillLeaf, ReadyAfter
    <3>4. cpu' # "kill"
      BY <3>3 DEF Scheduler
    <3>5. CurrentDies
      BY <2>1, <2>2, <3>1, <3>2, <3>3, <3>4 DEF CurrentDies
    <3> QED
      BY <1>1, <1>7, <3>5
  <2>3. CASE \E c \in Fours : /\ killStack = <<currentProcess, c>>
                              /\ Passed(currentProcess) /\ c # currentProcess
    <3>1. PICK c \in Fours : /\ killStack = <<currentProcess, c>>
                             /\ Passed(currentProcess) /\ c # currentProcess
      BY <2>3
    <3>2. c \in Live /\ c \in Pcbs /\ p_s[c].prog = "p4" /\ ~Passed(c)
      BY <1>5, <3>1 DEF Fours, Of, Live
    <3>3. Victim = c /\ killStack' = <<currentProcess>> /\ Len(killStack) = 2
      BY <1>4, <2>1, <3>1, <3>2
    <3>4. cpu' = cpu /\ currentProcess' = currentProcess
      BY <1>8, <3>3 DEF KillLeaf
    <3>5. p_semAdd[c] \in {NULL, blkp4}
      BY <3>1, <3>2, ChildWaits
    <3>6. \/ p_semAdd[c] = NULL /\ UNCHANGED <<procQ, semVal>>
          \/ /\ p_semAdd[c] = blkp4
             /\ semVal' = [semVal EXCEPT ![blkp4] = @ + 1]
             /\ procQ' = [procQ EXCEPT ![blkp4] = QueueAfterOut(@, c)]
      BY <2>1, <3>3, <3>5, FourNames, DeviceSems DEF ReleaseSemaphore, QueuesAfter, Blocked
    <3>7. ChildDies(c)
      BY <2>1, <3>1, <3>2, <3>3, <3>4, <3>6 DEF ChildDies
    <3> QED
      BY <1>1, <1>7, <3>2, <3>7
  <2> QED
    BY <1>1, <2>2, <2>3
<1>9. ~KillMissing
  BY VictimIsFound DEF KillMissing
<1> QED
  BY <1>0, <1>1, <1>6, <1>7, <1>8, <1>9 DEF Killing

(* A semaphore that is shut has no value left.                             *)
LEMMA ShutValue ==
  ASSUME IInv, NEW s \in Sems, Shut(s)
  PROVE  semVal[s] \in Int /\ ~(semVal[s] > 0)
BY CheckSemaphores, WaitingFinite DEF Shut, IInv, TypeOK

(* p5 makes its V on endp5.                                                *)
Finishes == cpu = "user" /\ Instr = V(endp5) /\ Verhogen(endp5) /\ Advance

(* What is over remains so:                                                *)
LEMMA OverKept ==
  ASSUME IInv, IInv', TermInv, ErrInv, [P2Next]_p2vars, Stands, Over
  PROVE  Over'
<1>1. Fours = {} /\ Shut(endp4) /\ (\A p \in Pcbs : ~Mid(p)) /\ \A p \in Ones : p_s[p].at >= 22
  BY DEF Over
<1>2. Fours' = {}
  <2> SUFFICES ASSUME NEW q \in Fours' PROVE FALSE
    OBVIOUS
  <2>1. currentProcess \in Ones /\ p_s[currentProcess].at = 20
    BY <1>1, FoursWere
  <2> QED
    BY <1>1, <2>1
<1>3. ~(cpu = "user" /\ Instr = V(endp4))
  <2> SUFFICES ASSUME cpu = "user", Instr = V(endp4) PROVE FALSE
    OBVIOUS
  <2>1. currentProcess \in Live /\ p_s[currentProcess].prog = "p4"
    BY RunsPlaced DEF Placed
  <2> QED
    BY <1>1, <2>1 DEF Fours, Of
<1>4. Shut(endp4)'
  BY <1>1, <1>3, StaysShut, FourNames
<1>5. \A p \in Pcbs : ~Mid(p)'
  <2> SUFFICES ASSUME NEW p \in Pcbs, Mid(p)' PROVE FALSE
    OBVIOUS
  <2> QED
    BY <1>1, <1>3, MidWas, ShutValue, FourNames
<1>6. \A p \in Ones' : p_s'[p].at >= 22
  <2> SUFFICES ASSUME NEW p \in Ones' PROVE p_s'[p].at >= 22
    OBVIOUS
  <2>1. /\ p \in Ones /\ p \in Pcbs
        /\ p_s'[p] = p_s[p] \/ p_s'[p].at = p_s[p].at + 1
    BY OnesWere
  <2>2. p_s[p].at \in Nat
    BY <2>1, AllPlaced
  <2> QED
    BY <1>1, <2>1, <2>2
<1> QED
  BY <1>2, <1>4, <1>5, <1>6 DEF Over

(* it is over when p5 makes its last V.                                    *)
LEMMA OverBegins ==
  ASSUME IInv, IInv', TermInv, ErrInv, [P2Next]_p2vars, Stands, Going, Finishes
  PROVE  Over'
<1> DEFINE c == currentProcess
<1>1. /\ c \in Live /\ c \in Pcbs /\ p_s[c].prog = "p5b" /\ p_s[c].at = 6 /\ p_semAdd[c] = NULL
      /\ p_s[c] \in [prog : DOMAIN Code, at : Nat, user : BOOLEAN]
  BY RunsPlaced, Runs DEF Finishes, Placed, States
<1>2. Mid(c)
  BY <1>1, FourNames DEF Mid
<1>3. Fours = {} /\ Shut(endp4)
  BY <1>1, <1>2 DEF Going, Order, End
<1>4. \A p \in Live : p_s[p].prog = "p5b" => p = c
  BY <1>1 DEF Going, Main, Fives, P5s
<1>5. p_s'[c].at = 7
  BY <1>1 DEF Finishes, Advance, TermInv
<1>6. ~(cpu = "user" /\ Instr = V(endp4))
  BY <1>1, RunsPlaced DEF Placed
<1>7. Fours' = {}
  <2> SUFFICES ASSUME NEW q \in Fours' PROVE FALSE
    OBVIOUS
  <2>1. c \in Ones
    BY <1>3, FoursWere
  <2> QED
    BY <1>1, <2>1 DEF Ones, Of
<1>8. Shut(endp4)'
  BY <1>3, <1>6, StaysShut, FourNames
<1>9. \A p \in Pcbs : ~Mid(p)'
  <2> SUFFICES ASSUME NEW p \in Pcbs, Mid(p)' PROVE FALSE
    OBVIOUS
  <2>1. p \in Live /\ p_s[p].prog = "p5b"
    BY MidWas
  <2> QED
    BY <1>4, <1>5, <2>1 DEF Mid
<1>10. \A p \in Ones' : p_s'[p].at >= 22
  <2> SUFFICES ASSUME NEW p \in Ones' PROVE p_s'[p].at >= 22
    OBVIOUS
  <2>1. /\ p \in Ones /\ p \in Pcbs
        /\ p_s'[p] = p_s[p] \/ p_s'[p].at = p_s[p].at + 1
    BY OnesWere
  <2>2. p_s[p].at \in Nat
    BY <2>1, AllPlaced
  <2>3. ~(p_s[p].at <= 21)
    BY <1>1, <2>1 DEF Going, Main, Fives, P5s
  <2> QED
    BY <2>1, <2>2, <2>3
<1> QED
  BY <1>7, <1>8, <1>9, <1>10 DEF Over

(* The calls of p4 on its semaphores are p4's own.                         *)
LEMMA FourCalls ==
  ASSUME IInv, TermInv, cpu = "user"
  PROVE  /\ Instr \in {V(synp4), V(endp4), Wait(synp4)} => currentProcess \in Fours
         /\ Instr = V(blkp4) => currentProcess \in Live /\ p_s[currentProcess].prog = "p5b"
BY RunsPlaced DEF Placed, Fours, Of

(* p1 starts p4 and p5 once, and comes no further than its P on endp5.     *)
LEMMA MainKept ==
  ASSUME IInv, IInv', TermInv, ErrInv, [P2Next]_p2vars, Stands, Going, ~Finishes
  PROVE  Main'
<1> DEFINE c == currentProcess
<1>1. /\ \A p \in Ones :
           /\ p_s[p].at <= 25 /\ (p_s[p].at = 25 => p_semAdd[p] = endp5)
           /\ p_s[p].at <= 20 => Fours = {} /\ Shut(synp4) /\ Shut(endp4)
           /\ p_s[p].at <= 21 => Fives = {}
      /\ Shut(endp5)
      /\ \A p, q \in Fives : p = q
      /\ \A p \in Live : p_s[p].prog \notin {"p8root", "child1", "child2"}
  BY DEF Going, Main
<1>2. Shut(endp5)'
  BY <1>1, StaysShut, FourNames DEF Finishes
<1>3. \A p, q \in Ones : p = q
  BY DEF ErrInv, Zeroed, Ones, Of
<1>4. ASSUME NEW p \in Ones'
      PROVE  /\ p_s'[p].at <= 25 /\ (p_s'[p].at = 25 => p_semAdd'[p] = endp5)
             /\ p_s'[p].at <= 20 => Fours' = {} /\ Shut(synp4)' /\ Shut(endp4)'
             /\ p_s'[p].at <= 21 => Fives' = {}
  <2>1. /\ p \in Ones /\ p \in Live /\ p \in Live' /\ p \in Pcbs /\ p_s[p].prog = "p1"
        /\ p_s'[p] = p_s[p] \/ (Advances(p) /\ p_s'[p].at = p_s[p].at + 1)
        /\ p_s[p].at \in Nat /\ p_s'[p].at \in Nat /\ p_s'[p].at >= p_s[p].at
    <3>1. /\ p \in Ones /\ p \in Live' /\ p \in Pcbs
          /\ p_s'[p] = p_s[p] \/ (Advances(p) /\ p_s'[p].at = p_s[p].at + 1)
      BY OnesWere
    <3>2. p_s[p].at \in Nat
      BY <3>1, AllPlaced
    <3> QED
      BY <3>1, <3>2 DEF Ones, Of
  <2>2. p_s'[p] = p_s[p] =>
          p_s'[p].at <= 25 /\ (p_s'[p].at = 25 => p_semAdd'[p] = endp5)
    <3>1. p_semAdd[p] = endp5 => p_semAdd'[p] = endp5
      BY <2>1, WaitsOn, FourNames DEF Finishes
    <3> QED
      BY <1>1, <2>1, <3>1
  <2>3. Advances(p) /\ p_s'[p].at = p_s[p].at + 1 =>
          p_s'[p].at <= 25 /\ (p_s'[p].at = 25 => p_semAdd'[p] = endp5)
    <3> SUFFICES ASSUME Advances(p), p_s'[p].at = p_s[p].at + 1
                 PROVE  p_s'[p].at <= 25 /\ (p_s'[p].at = 25 => p_semAdd'[p] = endp5)
      OBVIOUS
    <3>1. /\ p = c /\ cpu = "user" /\ p_semAdd[p] = NULL
          /\ Placed("p1", p_s[p].at, Instr)
      BY <2>1, Advanced
    <3>2. p_s[p].at <= 24
      BY <1>1, <2>1, <3>1, FourNames
    <3>3. p_s[p].at = 24 => p_semAdd'[p] = endp5
      <4>1. p_s[p].at = 24 => Instr = Wait(endp5)
        BY <3>1 DEF Placed
      <4>2. p_s[p].at = 24 => Passeren(endp5)
        BY <4>1, Takes, FourNames
      <4> QED
        BY <1>1, <3>1, <4>2, BlocksAll, FourNames
    <3> QED
      BY <2>1, <3>2, <3>3
  <2>4. p_s'[p].at <= 20 => Fours' = {} /\ Shut(synp4)' /\ Shut(endp4)'
    <3> SUFFICES ASSUME p_s'[p].at <= 20 PROVE Fours' = {} /\ Shut(synp4)' /\ Shut(endp4)'
      OBVIOUS
    <3>1. Fours = {} /\ Shut(synp4) /\ Shut(endp4)
      BY <1>1, <2>1
    <3>2. Fours' = {}
      <4> SUFFICES ASSUME NEW q \in Fours' PROVE FALSE
        OBVIOUS
      <4>1. Begins(q) /\ c \in Ones /\ p_s[c].at = 20
        BY <3>1, FoursWere
      <4>2. c = p /\ p_s'[c].at = p_s[c].at + 1
        BY <1>3, <2>1, <4>1, Begun
      <4> QED
        BY <4>1, <4>2
    <3>3. ~(cpu = "user" /\ Instr \in {V(synp4), V(endp4)})
      BY <3>1, FourCalls
    <3> QED
      BY <3>1, <3>2, <3>3, StaysShut, FourNames
  <2>5. p_s'[p].at <= 21 => Fives' = {}
    <3> SUFFICES ASSUME p_s'[p].at <= 21, NEW q \in Fives' PROVE FALSE
      OBVIOUS
    <3>1. Fives = {}
      BY <1>1, <2>1
    <3>2. Begins(q) /\ c \in Ones /\ p_s[c].at = 21
      BY <3>1, FivesWere
    <3>3. c = p /\ p_s'[c].at = p_s[c].at + 1
      BY <1>3, <2>1, <3>2, Begun
    <3> QED
      BY <3>2, <3>3
  <2> QED
    BY <2>1, <2>2, <2>3, <2>4, <2>5
<1>5. ASSUME NEW p \in Fives', NEW q \in Fives'
      PROVE  p = q
  <2>1. ASSUME NEW r \in Fives'
        PROVE  r \in Fives \/ (Begins(r) /\ Fives = {})
    BY <1>1, FivesWere
  <2>2. CASE p \in Fives \/ q \in Fives
    BY <1>1, <2>1, <2>2
  <2>3. CASE Begins(p) /\ Begins(q)
    <3>1. Live' = Live \cup {p} /\ q \notin Live /\ q \in Live'
      BY <2>3, Begun, FivesWere
    <3> QED
      BY <3>1
  <2> QED
    BY <2>1, <2>2, <2>3
<1>6. ASSUME NEW p \in Live'
      PROVE  p_s'[p].prog \notin {"p8root", "child1", "child2"}
  <2>1. CASE p \in Live /\ p_s'[p] = p_s[p]
    BY <1>1, <2>1
  <2>2. CASE Advances(p)
    BY <1>1, <2>2, Advanced
  <2>3. CASE Begins(p)
    <3>1. /\ cpu = "user" /\ Instr.do = "create" /\ p_s'[p].prog = Instr.arg
      BY <2>3, Begun
    <3>2. /\ c \in Live /\ p_s[c].at \in Nat /\ Placed(p_s[c].prog, p_s[c].at, Instr)
      BY <3>1, RunsPlaced
    <3>3. p_s[c].prog # "p8root" /\ (p_s[c].prog = "p1" => p_s[c].at <= 25)
      BY <1>1, <3>2 DEF Ones, Of
    <3> QED
      BY <3>1, <3>2, <3>3 DEF Placed
  <2>4. CASE Loops(p)
    BY <2>4, Looped
  <2>5. CASE Turns(p)
    BY <2>5 DEF Turns, P5s
  <2> QED
    BY <2>1, <2>2, <2>3, <2>4, <2>5, Steps
<1> QED
  BY <1>2, <1>4, <1>5, <1>6 DEF Main

(* Tuples of one and of two.                                               *)
LEMMA Tuples ==
  ASSUME NEW a, NEW b, NEW c, NEW d
  PROVE  /\ <<a>> # <<b, c>> /\ <<a>> # <<>> /\ <<a, b>> # <<>>
         /\ <<a, b>> = <<c, d>> => a = c /\ b = d
         /\ <<a>> = <<b>> => a = b
<1>1. Len(<<a>>) = 1 /\ Len(<<b, c>>) = 2 /\ Len(<<a, b>>) = 2 /\ Len(<<>>) = 0
  OBVIOUS
<1>2. <<a>>[1] = a /\ <<b>>[1] = b
  OBVIOUS
<1>3. <<a, b>>[1] = a /\ <<a, b>>[2] = b /\ <<c, d>>[1] = c /\ <<c, d>>[2] = d
  OBVIOUS
<1> QED
  BY <1>1, <1>2, <1>3

(* Parents and children are alive.                                         *)
LEMMA Family ==
  ASSUME IInv, NEW p \in Pcbs, p_prnt[p] # NULL
  PROVE  /\ p \in Live /\ p_prnt[p] \in Live /\ p_prnt[p] \in Pcbs
         /\ p \in ToSet(p_child[p_prnt[p]]) /\ p_child[p_prnt[p]] # <<>>
<1>1. p_prnt[p] \in Pcbs /\ p \in Live /\ p_prnt[p] \in Live
  BY DEF IInv, TypeOK, TreeConsistent
<1>2. p \in ToSet(p_child[p_prnt[p]]) /\ p_child \in [Pcbs -> Seq(Pcbs)]
  BY <1>1 DEF IInv, TypeOK, TreeConsistent
<1>3. ToSet(<<>>) = {}
  BY DEF ToSet
<1> QED
  BY <1>1, <1>2, <1>3

(* The tree when nobody is terminated.                                     *)
LEMMA TreeSteps ==
  ASSUME IInv, TermInv, [P2Next]_p2vars, cpu # "kill"
  PROVE  \/ UNCHANGED <<p_prnt, pcbFree>>
         \/ \E q \in Pcbs : /\ Begins(q)
                            /\ p_prnt' = [p_prnt EXCEPT ![q] = currentProcess]
                            /\ pcbFree' = pcbFree \ {q} /\ UNCHANGED <<cpu, semVars, killStack>>
                            /\ currentProcess' = currentProcess
<1>1. CASE Call
  BY <1>1 DEF Call, Verhogen, Passeren, TerminateProcess, SpecifyExceptionStateVector,
     WaitForClock, StartIO, WaitForIODevice, StartKill, procVars
<1>2. CASE Start
  <2> DEFINE q == CHOOSE r \in pcbFree : TRUE
             b == At(Instr.arg, FALSE)
  <2>1. CASE pcbFree = {}
    BY <1>2, <2>1 DEF Start, CreateFails, procVars
  <2>2. CASE pcbFree # {}
    <3>1. /\ q \in pcbFree /\ q \in Pcbs /\ pcbFree \subseteq Pcbs
          /\ cpu = "user" /\ Instr.do = "create" /\ p_s \in [Pcbs -> States]
      BY <1>2, <2>2 DEF Start, KernelMode, IInv, TypeOK, TermInv
    <3>2. CreateProcess(q) /\ p_s' = [p_s EXCEPT ![q] = b, ![currentProcess].at = @ + 1]
      BY <1>2, <2>2 DEF Start
    <3>3. vectors'[q] = {}
      BY <3>1, <3>2 DEF CreateProcess, IInv, FreeClean
    <3> HIDE DEF q, b
    <3>4. currentProcess \in Live /\ currentProcess \in Pcbs /\ q # currentProcess
      BY <3>1, Runs DEF Live
    <3>5. /\ p_s'[q] = b
          /\ p_s'[currentProcess] = [p_s[currentProcess] EXCEPT !.at = @ + 1]
      BY <3>1, <3>2, <3>4
    <3>6. pcbFree' = pcbFree \ {q} /\ Live' = Live \cup {q}
      BY <3>1, <3>2 DEF CreateProcess, Live
    <3>7. Begins(q)
      BY <3>1, <3>3, <3>5, <3>6 DEF Begins, b
    <3> QED
      BY <3>1, <3>2, <3>7 DEF CreateProcess
  <2> QED
    BY <2>1, <2>2
<1>3. CASE Compute \/ LeaveLoop \/ Again
  BY <1>3 DEF Compute, LeaveLoop, Again, vars, procVars
<1>4. CASE Raise \/ EndHandler \/ Faulting
  BY <1>4 DEF Raise, Exception, Faulting, KernelTrap, PassUpOrDie, StartKill, EndHandler,
       ProgramLDST, LoadState, procVars
<1>5. CASE Killing
  BY <1>5 DEF Killing, KillChild, KillLeaf, KillMissing
<1>6. CASE Quantum \/ Tick \/ UNCHANGED p2vars
  BY <1>6 DEF Quantum, TimerInterrupt, Tick, ClockInterrupt, p2vars, vars, procVars
<1>7. CASE Device
  BY <1>7 DEF Device, DeviceDone, DeviceInterrupt, procVars
<1> QED
  BY <1>1, <1>2, <1>3, <1>4, <1>5, <1>6, <1>7 DEF P2Next, Program

(* What becomes of p1 and of an incarnation of p4 that has passed.         *)
LEMMA ParentsStay ==
  ASSUME IInv, IInv', TermInv, ErrInv, [P2Next]_p2vars, NEW p \in Live'
  PROVE  /\ p \in Live /\ p_s[p].prog = "p1" => p_s'[p].prog = "p1"
         /\ p \in Fours => p \in Fours'
         /\ Passed(p) => Passed(p)'
BY ProgramKept, PassedStays DEF P5s, Fours, Of

(* Only p1 and the incarnations of p4 that have passed get children.       *)
LEMMA TreeKept ==
  ASSUME IInv, IInv', TermInv, ErrInv, [P2Next]_p2vars, Stands, Going
  PROVE  Tree'
<1> DEFINE c == currentProcess
<1>1. /\ \A p \in Live : p_prnt[p] = NULL =>
           p_s[p].prog = "p1" \/ (cpu = "kill" /\ killStack = <<c, p>>)
      /\ \A p \in Pcbs : p_prnt[p] # NULL => Fosters(p_prnt[p], p)
  BY DEF Going, Tree
<1>2. p_prnt \in [Pcbs -> Pcbs \cup {NULL}] /\ pcbFree \subseteq Pcbs /\ NULL \notin Pcbs
  BY NullApart DEF IInv, TypeOK
<1>3. ASSUME NEW p \in Pcbs, p \in Live', p_prnt[p] # NULL, p_prnt[p] \in Live',
             p_prnt'[p] = p_prnt[p]
      PROVE  Fosters(p_prnt[p], p)'
  <2>1. PICK a \in Live : a = p_prnt[p] /\ p_prnt'[p] = a
    BY <1>3, Family
  <2>2. Fosters(a, p) /\ a \in Live'
    BY <1>1, <1>3, <2>1
  <2>3. p_s'[a].prog = "p1" \/ (Passed(a)' /\ p \in Fours' /\ p # a)
    BY <1>3, <2>2, ParentsStay DEF Fosters
  <2> QED
    BY <2>1, <2>3 DEF Fosters, Passed, Fours, Of, Live
<1>4. CASE cpu # "kill" /\ UNCHANGED <<p_prnt, pcbFree>>
  <2>1. Live' = Live
    BY <1>4 DEF Live
  <2>2. ASSUME NEW p \in Live', p_prnt'[p] = NULL
        PROVE  p_s'[p].prog = "p1"
    BY <1>1, <1>4, <2>1, <2>2, ParentsStay
  <2>3. ASSUME NEW p \in Pcbs, p_prnt'[p] # NULL
        PROVE  Fosters(p_prnt[p], p)'
    BY <1>3, <1>4, <2>1, <2>3, Family
  <2> QED
    BY <2>2, <2>3 DEF Tree, Fosters, Passed, Fours, Of, Live
<1>5. CASE cpu # "kill" /\ \E q \in Pcbs :
               /\ Begins(q) /\ p_prnt' = [p_prnt EXCEPT ![q] = c] /\ pcbFree' = pcbFree \ {q}
               /\ UNCHANGED semVars
  <2>1. PICK q \in Pcbs : /\ Begins(q) /\ p_prnt' = [p_prnt EXCEPT ![q] = c]
                          /\ pcbFree' = pcbFree \ {q} /\ UNCHANGED semVars
    BY <1>5
  <2>2. /\ q \notin Live /\ Live' = Live \cup {q} /\ cpu = "user"
        /\ Instr.do = "create" /\ p_s'[q].prog = Instr.arg
        /\ p_s'[c].prog = p_s[c].prog /\ p_s'[c].at = p_s[c].at + 1
    BY <2>1, Begun
  <2>3. /\ c \in Live /\ c \in Live' /\ c \in Pcbs /\ q # c /\ p_semAdd[c] = NULL
        /\ p_s[c].at \in Nat /\ Placed(p_s[c].prog, p_s[c].at, Instr)
    BY <2>2, RunsPlaced DEF Live
  <2>4. ASSUME NEW p \in Pcbs \ {q}
        PROVE  p_prnt'[p] = p_prnt[p]
    BY <1>2, <2>1
  <2>5. p_prnt'[q] = c
    BY <1>2, <2>1
  <2> PICK a \in Live : a = c
    BY <2>3
  <2>6. p_s'[a].prog = "p1" \/ (Passed(a)' /\ q \in Fours' /\ q # a)
    <3>1. p_s[c].prog \in {"p1", "p4"}
      BY <2>2, <2>3 DEF Placed, Going, Main
    <3>2. CASE p_s[c].prog = "p4"
      <4>1. p_s[c].at = 8 /\ Instr.arg = "p4"
        BY <2>2, <2>3, <3>2 DEF Placed
      <4>2. Passed(a) /\ a \in Live'
        BY <2>3, <3>2, <4>1, FourNames DEF Passed, Fours, Of
      <4>3. q \in Fours'
        BY <2>2, <4>1 DEF Fours, Of
      <4> QED
        BY <2>3, <4>2, <4>3, ParentsStay
    <3> QED
      BY <2>2, <3>1, <3>2
  <2>7. ASSUME NEW p \in Live', p_prnt'[p] = NULL
        PROVE  p_s'[p].prog = "p1"
    <3>1. p \in Live /\ p_prnt[p] = NULL
      BY <1>2, <2>2, <2>3, <2>4, <2>5, <2>7 DEF Live
    <3> QED
      BY <1>1, <1>5, <2>7, <3>1, ParentsStay
  <2>8. ASSUME NEW p \in Pcbs, p_prnt'[p] # NULL
        PROVE  Fosters(p_prnt[p], p)'
    <3>1. CASE p = q
      BY <2>5, <2>6, <3>1 DEF Fosters, Passed, Fours, Of, Live
    <3>2. CASE p # q
      BY <1>3, <2>2, <2>4, <2>8, <3>2, Family
    <3> QED
      BY <3>1, <3>2
  <2> QED
    BY <2>7, <2>8 DEF Tree, Fosters, Passed, Fours, Of, Live
<1>6. CASE cpu = "kill"
  <2>1. /\ \A p \in Live' : p \in Live /\ p_s'[p] = p_s[p]
        /\ c \in Live /\ c \in Pcbs
        /\ \/ \E r \in Pcbs : KillsChild(r) \/ ChildDies(r)
           \/ CurrentDies
           \/ UNCHANGED <<cpu, currentProcess, readyQue, pcbFree, p_prnt, semVars, killStack>>
    BY <1>6, KillSteps DEF Live
  <2>2. ASSUME NEW r \in Pcbs, KillsChild(r)
        PROVE  Tree'
    <3>1. /\ killStack = <<c>> /\ killStack' = <<c, r>> /\ cpu' = "kill"
          /\ p_prnt' = [p_prnt EXCEPT ![r] = NULL] /\ Live' = Live /\ currentProcess' = c
      BY <2>2 DEF KillsChild, Live
    <3>2. ASSUME NEW p \in Live', p_prnt'[p] = NULL
          PROVE  p_s'[p].prog = "p1" \/ (cpu' = "kill" /\ killStack' = <<c, p>>)
      <4>1. CASE p # r
        <5>1. p \in Live /\ p \in Pcbs /\ p_prnt[p] = NULL
          BY <1>2, <3>1, <3>2, <4>1 DEF Live
        <5>2. <<c>> # <<c, p>>
          BY Tuples
        <5> QED
          BY <1>1, <2>1, <3>1, <3>2, <5>1, <5>2
      <4> QED
        BY <3>1, <4>1
    <3>3. ASSUME NEW p \in Pcbs, p_prnt'[p] # NULL
          PROVE  Fosters(p_prnt[p], p)'
      <4>1. p # r /\ p_prnt'[p] = p_prnt[p]
        BY <1>2, <3>1, <3>3
      <4> QED
        BY <1>3, <3>1, <3>3, <4>1, Family
    <3> QED
      BY <3>1, <3>2, <3>3 DEF Tree, Fosters, Passed, Fours, Of, Live
  <2>3. ASSUME NEW r \in Pcbs, ChildDies(r)
        PROVE  Tree'
    <3>1. /\ killStack = <<c, r>> /\ r \in Fours /\ r # c /\ ~Passed(r)
          /\ p_prnt' = [p_prnt EXCEPT ![r] = NULL] /\ Live' = Live \ {r}
      BY <2>3 DEF ChildDies, Live
    <3>2. ASSUME NEW p \in Live', p_prnt'[p] = NULL
          PROVE  p_s'[p].prog = "p1"
      <4>1. p \in Live /\ p \in Pcbs /\ p # r /\ p_prnt[p] = NULL
        BY <1>2, <3>1, <3>2 DEF Live
      <4>2. <<c, r>> # <<c, p>>
        BY <4>1, Tuples
      <4> QED
        BY <1>1, <2>1, <3>1, <3>2, <4>1, <4>2
    <3>3. ASSUME NEW p \in Pcbs, p_prnt'[p] # NULL
          PROVE  Fosters(p_prnt[p], p)'
      <4>1. p # r /\ p_prnt'[p] = p_prnt[p] /\ p_prnt[p] # NULL
        BY <1>2, <3>1, <3>3
      <4>2. p_prnt[p] # r
        BY <1>1, <3>1, <4>1 DEF Fosters, Fours, Of
      <4>3. p \in Live' /\ p_prnt[p] \in Live'
        BY <3>1, <4>1, <4>2, Family
      <4> QED
        BY <1>3, <4>1, <4>3
    <3> QED
      BY <3>2, <3>3 DEF Tree, Fosters, Passed, Fours, Of, Live
  <2>4. CASE CurrentDies
    <3>1. /\ killStack = <<c>> /\ p_child[c] = <<>>
          /\ p_prnt' = [p_prnt EXCEPT ![c] = NULL] /\ Live' = Live \ {c}
      BY <2>4 DEF CurrentDies, Live
    <3>2. ASSUME NEW p \in Live', p_prnt'[p] = NULL
          PROVE  p_s'[p].prog = "p1"
      <4>1. p \in Live /\ p \in Pcbs /\ p_prnt[p] = NULL
        BY <1>2, <2>1, <3>1, <3>2 DEF Live
      <4>2. <<c>> # <<c, p>>
        BY Tuples
      <4> QED
        BY <1>1, <2>1, <3>1, <3>2, <4>1, <4>2
    <3>3. ASSUME NEW p \in Pcbs, p_prnt'[p] # NULL
          PROVE  Fosters(p_prnt[p], p)'
      <4>1. p # c /\ p_prnt'[p] = p_prnt[p] /\ p_prnt[p] # NULL
        BY <1>2, <2>1, <3>1, <3>3
      <4>2. p_prnt[p] # c
        BY <3>1, <4>1, Family
      <4>3. p \in Live' /\ p_prnt[p] \in Live'
        BY <3>1, <4>1, <4>2, Family
      <4> QED
        BY <1>3, <4>1, <4>3
    <3> QED
      BY <3>2, <3>3 DEF Tree, Fosters, Passed, Fours, Of, Live
  <2>5. CASE UNCHANGED <<cpu, currentProcess, readyQue, pcbFree, p_prnt, semVars, killStack>>
    <3>1. Live' = Live
      BY <2>5 DEF Live
    <3>2. ASSUME NEW p \in Live', p_prnt'[p] = NULL
          PROVE  p_s'[p].prog = "p1" \/ (cpu' = "kill" /\ killStack' = <<currentProcess', p>>)
      BY <1>1, <2>1, <2>5, <3>1, <3>2
    <3>3. ASSUME NEW p \in Pcbs, p_prnt'[p] # NULL
          PROVE  Fosters(p_prnt[p], p)'
      BY <1>3, <2>5, <3>1, <3>3, Family
    <3> QED
      BY <3>2, <3>3 DEF Tree, Fosters, Passed, Fours, Of, Live
  <2> QED
    BY <2>1, <2>2, <2>3, <2>4, <2>5
<1> QED
  BY <1>4, <1>5, <1>6, TreeSteps

(* A queue with one member.                                                *)
LEMMA OnlyMember ==
  ASSUME NEW S, NEW q \in Seq(S), IsInjective(q), NEW c, ToSet(q) = {c}
  PROVE  q = <<c>> /\ Len(q) = 1 /\ q[1] = c
<1>1. Cardinality({c}) = 1
  BY FS_Singleton
<1>2. Cardinality(ToSet(q)) = Len(q)
  BY QueueSize
<1>3. Cardinality(ToSet(q)) = Cardinality({c})
  OBVIOUS
<1>4. Len(q) = 1
  BY <1>1, <1>2, <1>3
<1>5. q[1] = c
  BY <1>4, MemberPosition
<1> QED
  BY <1>4, <1>5

(* The nucleus does not fault while a process is current.                  *)
LEMMA TrapsAlone ==
  ASSUME IInv, TermInv, [P2Next]_p2vars, Stands, Going, cpu' = "trap"
  PROVE  currentProcess' = NULL
<1>1. cpu = "trap" => currentProcess = NULL
  BY DEF Going, Sound
<1>2. ~Program
  BY DEF Program, Call, Start, Compute, LeaveLoop, Again, Raise, EndHandler, KernelMode,
     Verhogen, Passeren, P, Block, Scheduler, TerminateProcess, StartKill, Return, cpuVars,
     SpecifyExceptionStateVector, WaitForClock, StartIO, WaitForIODevice, Running,
     CreateProcess, CreateFails, vars, Exception, PassUpOrDie, ProgramLDST
<1>3. ~Killing
  <2>1. ~KillChild /\ ~KillLeaf
    BY DEF KillChild, KillLeaf, Scheduler, cpuVars
  <2>2. ~KillMissing
    BY VictimIsFound DEF KillMissing
  <2> QED
    BY <2>1, <2>2 DEF Killing
<1>4. ~Faulting
  BY <1>1 DEF Faulting, KernelTrap
<1>5. Quantum => currentProcess' = NULL
  BY DEF Quantum, TimerInterrupt, Scheduler
<1>6. ~Tick
  BY DEF Tick, ClockInterrupt, Scheduler, Interruptible
<1>7. Device => currentProcess' = NULL
  <2>1. DeviceDone(32) => currentProcess' = NULL
    BY <1>1 DEF DeviceDone, cpuVars
  <2>2. ~DeviceInterrupt(32)
    <3> SUFFICES ASSUME DeviceInterrupt(32) PROVE FALSE
      OBVIOUS
    <3>1. SemOf(32) = 32 /\ 32 \in AllSems
      BY DeviceSems, NeverTheReceiver DEF DeviceInterrupt
    <3>2. procQ[32] \in Seq(Pcbs) /\ semVal \in [AllSems -> Int] /\ semVal[32] \in Int
      BY <3>1 DEF IInv, TypeOK
    <3>3. semVal' = [semVal EXCEPT ![32] = @ + 1]
      BY <3>1 DEF DeviceInterrupt
    <3>4. semVal'[32] = semVal[32] + 1
      BY <3>1, <3>2, <3>3
    <3>5. ~(OwesWakeup(32) /\ procQ[32] = <<>>)
      <4>1. procQ[32] = <<>> => Len(procQ[32]) = 0
        OBVIOUS
      <4>2. semVal[32] + Len(procQ[32]) >= 0
        BY DEF Going, Sound, Kept
      <4> QED
        BY <3>2, <3>4, <4>1, <4>2 DEF OwesWakeup
    <3> QED
      BY <3>1, <3>5 DEF DeviceInterrupt, Scheduler, Interruptible, cpuVars
  <2> QED
    BY <2>1, <2>2 DEF Device
<1>8. UNCHANGED p2vars => currentProcess' = NULL
  BY <1>1 DEF p2vars, vars, cpuVars
<1> QED
  BY <1>2, <1>3, <1>4, <1>5, <1>6, <1>7, <1>8 DEF P2Next

(* The child of an ended p4 is alone in the queue of blkp4.                *)
LEMMA ChildAlone ==
  ASSUME IInv, Stands, Going, NEW c \in Pcbs, ChildDies(c), p_semAdd[c] = blkp4
  PROVE  /\ procQ[blkp4] = <<c>> /\ procQ'[blkp4] = <<>>
         /\ semVal'[blkp4] = semVal[blkp4] + 1
         /\ \A s \in AllSems \ {blkp4} : procQ'[s] = procQ[s] /\ semVal'[s] = semVal[s]
         /\ \A p \in Live : p_semAdd[p] = blkp4 => p = c
<1> DEFINE q == procQ[blkp4]
<1>1. /\ procQ \in [AllSems -> Seq(Pcbs)] /\ semVal \in [AllSems -> Int] /\ q \in Seq(Pcbs)
      /\ IsInjective(q) /\ \A p \in ToSet(q) : p \in Live /\ p_semAdd[p] = blkp4
      /\ blkp4 # NULL /\ blkp4 \in AllSems
  BY FourNames DEF IInv, TypeOK, OnePlace
<1>2. /\ c \in Fours /\ c # currentProcess /\ Passed(currentProcess) /\ ~Passed(c)
      /\ semVal' = [semVal EXCEPT ![blkp4] = @ + 1]
      /\ procQ' = [procQ EXCEPT ![blkp4] = QueueAfterOut(@, c)]
  BY <1>1 DEF ChildDies
<1>3. \A p \in Live : p_semAdd[p] = blkp4 => p = c
  <2> SUFFICES ASSUME NEW p \in Live, p_semAdd[p] = blkp4, p # c PROVE FALSE
    OBVIOUS
  <2>1. p \in Fours /\ ~Passed(p)
    BY DEF Going, Sound, Passed
  <2> QED
    BY <1>2, <2>1 DEF Going, Pair, Apart
<1>4. ToSet(q) = {c}
  <2>1. c \in ToSet(q)
    BY <1>2 DEF Going, Sound, Fours, Of
  <2> QED
    BY <1>1, <1>3, <2>1
<1>7. q = <<c>> /\ Len(q) = 1 /\ q[1] = c
  BY <1>1, <1>4, OnlyMember
<1>8. procQ'[blkp4] = <<>>
  <2>1. procQ'[blkp4] = QueueAfterOut(q, c)
    BY <1>1, <1>2
  <2> QED
    BY <1>7, <2>1 DEF QueueAfterOut, AfterHead
<1> QED
  BY <1>1, <1>2, <1>3, <1>7, <1>8

(* The waiters of a device or of blkp4 that its value counts stay in its   *)
(* queue.                                                                  *)
LEMMA KeptStays ==
  ASSUME IInv, TermInv, [P2Next]_p2vars, Stands, Going, NEW s \in AllSems, s # Clock, Kept(s)
  PROVE  Kept(s)'
<1>1. /\ procQ \in [AllSems -> Seq(Pcbs)] /\ semVal \in [AllSems -> Int]
      /\ procQ[s] \in Seq(Pcbs) /\ IsInjective(procQ[s]) /\ semVal[s] \in Int
      /\ Len(procQ[s]) \in Nat
  <2>1. procQ \in [AllSems -> Seq(Pcbs)] /\ semVal \in [AllSems -> Int] /\ IsInjective(procQ[s])
    BY DEF IInv, TypeOK, OnePlace
  <2> QED
    BY <2>1
<1>2. semVal[s] + Len(procQ[s]) >= 0
  BY DEF Kept
<1>3. CASE procQ'[s] = procQ[s] /\ semVal'[s] = semVal[s]
  BY <1>3 DEF Kept
<1>4. ASSUME semVal' = [semVal EXCEPT ![s] = @ + 1],
             (procQ[s] # <<>> /\ Wake(s)) \/ UNCHANGED procQ
      PROVE  Kept(s)'
  <2>1. semVal'[s] = semVal[s] + 1
    BY <1>1, <1>4
  <2>2. CASE UNCHANGED procQ
    BY <1>1, <1>2, <2>1, <2>2 DEF Kept
  <2>3. CASE procQ[s] # <<>> /\ Wake(s)
    <3>1. procQ'[s] = QueueAfterOut(procQ[s], Head(procQ[s]))
      BY <1>1, <2>3 DEF Wake
    <3>2. procQ'[s] = Tail(procQ[s])
      BY <1>1, <2>3, <3>1, RemoveBlockedIsTail
    <3>3. Len(procQ'[s]) = Len(procQ[s]) - 1
      BY <1>1, <2>3, <3>2, HeadTailProperties
    <3> QED
      BY <1>1, <1>2, <2>1, <3>3 DEF Kept
  <2> QED
    BY <1>4, <2>2, <2>3
<1>5. CASE s \in Sems /\ Verhogen(s)
  BY <1>4, <1>5 DEF Verhogen
<1>6. CASE \E e : P(s, e)
  <2>1. semVal'[s] = semVal[s] - 1
    BY <1>1, <1>6 DEF P
  <2>2. CASE semVal'[s] < 0
    <3>1. procQ'[s] = Append(procQ[s], currentProcess)
      BY <1>1, <1>6, <2>2 DEF P, Block
    <3>2. Len(procQ'[s]) = Len(procQ[s]) + 1
      BY <1>1, <3>1
    <3> QED
      BY <1>1, <1>2, <2>1, <3>2 DEF Kept
  <2>3. CASE ~(semVal'[s] < 0)
    <3>1. procQ' = procQ
      BY <1>6, <2>3 DEF P
    <3> QED
      BY <1>1, <2>1, <2>3, <3>1 DEF Kept
  <2> QED
    BY <2>2, <2>3
<1>7. CASE s = 32 /\ DeviceInterrupt(32)
  <2>1. SemOf(32) = 32
    BY <1>7, DeviceSems, NeverTheReceiver DEF DeviceInterrupt
  <2> QED
    BY <1>4, <1>7, <2>1 DEF DeviceInterrupt
<1>8. CASE cpu = "kill"
  <2>1. ASSUME NEW c \in Pcbs, ChildDies(c)
        PROVE  Kept(s)'
    <3>1. CASE p_semAdd[c] = blkp4
      <4>1. /\ procQ[blkp4] = <<c>> /\ procQ'[blkp4] = <<>>
            /\ semVal'[blkp4] = semVal[blkp4] + 1
            /\ \A r \in AllSems \ {blkp4} : procQ'[r] = procQ[r] /\ semVal'[r] = semVal[r]
        BY <2>1, <3>1, ChildAlone
      <4>2. Len(<<c>>) = 1 /\ Len(<<>>) = 0
        OBVIOUS
      <4>3. CASE s = blkp4
        <5>1. Len(procQ[s]) = 1 /\ Len(procQ'[s]) = 0 /\ semVal'[s] = semVal[s] + 1
          BY <4>1, <4>2, <4>3
        <5> QED
          BY <1>1, <1>2, <5>1 DEF Kept
      <4> QED
        BY <1>3, <4>1, <4>3
    <3>2. CASE p_semAdd[c] # blkp4
      BY <1>3, <2>1, <3>2 DEF ChildDies
    <3> QED
      BY <3>1, <3>2
  <2>2. (\E c \in Pcbs : KillsChild(c)) => Kept(s)'
    BY <1>3 DEF KillsChild, semVars
  <2>3. CurrentDies => Kept(s)'
    BY <1>3 DEF CurrentDies
  <2>4. UNCHANGED semVars => Kept(s)'
    BY <1>3 DEF semVars
  <2> QED
    BY <1>8, <2>1, <2>2, <2>3, <2>4, KillSteps
<1>9. KillLeaf \/ KillMissing => cpu = "kill"
  BY DEF KillLeaf, KillMissing
<1> QED
  BY <1>3, <1>5, <1>6, <1>7, <1>8, <1>9, QueueSteps

(* Nobody is lost from the queue of blkp4.                                 *)
LEMMA BlkQueue ==
  ASSUME IInv, IInv', TermInv, ErrInv, [P2Next]_p2vars, Stands, Going,
         NEW p \in Live', p_semAdd'[p] = blkp4
  PROVE  p \in Fours' /\ p \in ToSet(procQ'[blkp4])
<1> DEFINE q == procQ[blkp4]
<1>1. /\ procQ \in [AllSems -> Seq(Pcbs)] /\ q \in Seq(Pcbs) /\ IsInjective(q)
      /\ semVal \in [AllSems -> Int] /\ p \in Pcbs
      /\ blkp4 # NULL /\ blkp4 \in AllSems /\ blkp4 \in Sems /\ blkp4 \notin {Clock, 32}
  BY FourNames DEF IInv, TypeOK, OnePlace, Live
<1>2. CASE p \in Live /\ p_s'[p] = p_s[p] /\ p_semAdd[p] = blkp4
  <2>1. p \in Fours /\ p \in ToSet(q)
    BY <1>2 DEF Going, Sound
  <2>2. p \in Fours'
    BY <1>2, <2>1 DEF Fours, Of
  <2>3. procQ'[blkp4] = procQ[blkp4] => p \in ToSet(procQ'[blkp4])
    BY <2>1
  <2>4. ASSUME Verhogen(blkp4)
        PROVE  p \in ToSet(procQ'[blkp4])
    <3>1. CASE procQ[blkp4] # <<>> /\ Wake(blkp4)
      <4>1. /\ p_semAdd' = [p_semAdd EXCEPT ![Head(procQ[blkp4])] = NULL]
            /\ ToSet(procQ'[blkp4]) = ToSet(procQ[blkp4]) \ {Head(procQ[blkp4])}
        BY <1>1, <3>1, WakeMovesHead
      <4>2. p # Head(procQ[blkp4])
        BY <1>1, <4>1 DEF IInv, TypeOK
      <4> QED
        BY <2>1, <4>1, <4>2
    <3>2. CASE UNCHANGED procQ
      BY <2>3, <3>2
    <3> QED
      BY <2>4, <3>1, <3>2 DEF Verhogen
  <2>5. ASSUME NEW e, P(blkp4, e), cpu = "user"
        PROVE  p \in ToSet(procQ'[blkp4])
    <3>1. CASE semVal'[blkp4] < 0
      <4>1. procQ'[blkp4] = Append(procQ[blkp4], currentProcess)
        BY <1>1, <2>5, <3>1 DEF P, Block
      <4>2. currentProcess \in Pcbs /\ currentProcess \notin ToSet(q)
        BY <1>1, <2>5, Runs DEF IInv, OnePlace
      <4> QED
        BY <1>1, <2>1, <4>1, <4>2, InsertTail
    <3>2. CASE ~(semVal'[blkp4] < 0)
      BY <2>3, <2>5, <3>2 DEF P
    <3> QED
      BY <3>1, <3>2
  <2>6. ASSUME cpu = "kill"
        PROVE  p \in ToSet(procQ'[blkp4])
    <3>1. ASSUME NEW c \in Pcbs, ChildDies(c)
          PROVE  p \in ToSet(procQ'[blkp4])
      <4>1. c \notin Live'
        BY <3>1 DEF ChildDies, Live
      <4>2. p_semAdd[c] # blkp4
        BY <1>2, <3>1, <4>1, ChildAlone
      <4> QED
        BY <2>3, <3>1, <4>2 DEF ChildDies
    <3>2. (\E c \in Pcbs : KillsChild(c)) \/ CurrentDies \/ UNCHANGED semVars =>
            procQ'[blkp4] = procQ[blkp4]
      BY DEF KillsChild, CurrentDies, semVars
    <3> QED
      BY <2>3, <2>6, <3>1, <3>2, KillSteps
  <2>7. KillLeaf \/ KillMissing => cpu = "kill"
    BY DEF KillLeaf, KillMissing
  <2> QED
    BY <1>1, <2>2, <2>3, <2>4, <2>5, <2>6, <2>7, QueueSteps
<1>3. CASE Advances(p) /\ Instr = Wait(blkp4) /\ Passeren(blkp4)
  <2>1. /\ p \in Live /\ p = currentProcess /\ cpu = "user"
        /\ p_s'[p].prog = p_s[p].prog /\ Placed(p_s[p].prog, p_s[p].at, Instr)
    BY <1>3, Advanced
  <2>2. ~(p_s[p].prog = "p1" /\ p_s[p].at = 29)
    BY <2>1 DEF Going, Main, Ones, Of
  <2>3. p \in Fours'
    BY <1>3, <2>1, <2>2 DEF Placed, Fours, Of
  <2>4. p_semAdd[p] # blkp4
    BY <1>1, <2>1, Runs
  <2>5. procQ'[blkp4] = Append(procQ[blkp4], p)
    <3>1. Block(blkp4)
      BY <1>3, <2>4 DEF Passeren, P
    <3> QED
      BY <1>1, <2>1, <3>1 DEF Block
  <2>6. p \notin ToSet(q)
    BY <1>1, <2>4 DEF IInv, OnePlace
  <2> QED
    BY <1>1, <2>3, <2>5, <2>6, InsertTail
<1>4. Wait(blkp4).do = "P" /\ Wait(blkp4).do \notin {"SYS7", "SYS8"}
  BY DEF Wait, I
<1> QED
  BY <1>1, <1>2, <1>3, <1>4, WaitersWere

(* The nucleus faults in a WAIT at most, and loses nobody here.            *)
LEMMA SoundKept ==
  ASSUME IInv, IInv', TermInv, ErrInv, [P2Next]_p2vars, Stands, Going
  PROVE  Sound'
<1>1. Kept(32)' /\ Kept(blkp4)'
  <2>1. Kept(32) /\ Kept(blkp4)
    BY DEF Going, Sound
  <2>2. 32 # Clock /\ 32 \in AllSems
    BY DeviceSems, TerminalNames
  <2> QED
    BY <2>1, <2>2, KeptStays, FourNames
<1> QED
  BY <1>1, TrapsAlone, BlkQueue DEF Sound

(* How a termination starts.                                               *)
LEMMA KillStarts ==
  ASSUME IInv, TermInv, [P2Next]_p2vars, Going, cpu # "kill", cpu' = "kill"
  PROVE  /\ cpu = "user" /\ StartKill
         /\ \/ Advances(currentProcess) /\ Instr.do \in {"SYS2", "SYS5"}
            \/ /\ p_s' = p_s
               /\ Instr.do = "trap" \/ p_s[currentProcess].user
<1>1. CASE Call
  <2>1. Advances(currentProcess) /\ cpu = "user"
    BY <1>1, CallMoves DEF Advances
  <2>2. \/ Instr.do = "SYS2" /\ TerminateProcess
        \/ Instr.do = "SYS5" /\ \E t \in Traps : SpecifyExceptionStateVector(t)
    BY <1>1, <2>1 DEF Call, Verhogen, Passeren, P, Block, Scheduler, WaitForClock, StartIO,
       WaitForIODevice, cpuVars
  <2> QED
    BY <2>1, <2>2 DEF TerminateProcess, SpecifyExceptionStateVector, Return, cpuVars
<1>2. ~(Start \/ Compute \/ LeaveLoop \/ Again \/ EndHandler)
  BY DEF Start, CreateProcess, CreateFails, Compute, LeaveLoop, Again, EndHandler, ProgramLDST,
     vars, cpuVars
<1>3. CASE Raise
  <2>1. PICK t \in Traps : /\ cpu = "user" /\ PassUpOrDie(t)
                           /\ Instr.do = "trap" \/ p_s[currentProcess].user
                           /\ \E cause : Handled(t, cause)
    BY <1>3 DEF Raise, Exception
  <2>2. StartKill /\ t \notin vectors[currentProcess]
    BY <2>1 DEF PassUpOrDie
  <2>3. p_s' = p_s
    BY <2>1, <2>2 DEF Handled
  <2> QED
    BY <2>1, <2>2, <2>3
<1>4. ~Killing
  BY DEF Killing, KillChild, KillLeaf, KillMissing
<1>5. ~Faulting
  BY DEF Faulting, KernelTrap, Going, Sound
<1>6. ~Quantum /\ ~Tick
  BY DEF Quantum, Tick, TimerInterrupt, ClockInterrupt, Scheduler
<1>7. ~Device
  BY DEF Device, DeviceDone, DeviceInterrupt, Scheduler, cpuVars
<1>8. ~UNCHANGED p2vars
  BY DEF p2vars, vars, cpuVars
<1> QED
  BY <1>1, <1>2, <1>3, <1>4, <1>5, <1>6, <1>7, <1>8 DEF P2Next, Program

(* p1 is not terminated, and p4 only by its own last call.                 *)
LEMMA KillsKept ==
  ASSUME IInv, IInv', TermInv, ErrInv, [P2Next]_p2vars, Kernel, Stands, Going
  PROVE  Kills'
<1> SUFFICES ASSUME cpu' = "kill" PROVE Kills'
  BY DEF Kills
<1>1. CASE cpu = "kill"
  <2>1. /\ currentProcess \in Live /\ p_s[currentProcess].prog # "p1"
        /\ currentProcess \in Fours => p_s[currentProcess].at >= 15
        /\ \A p \in Live' : p \in Live /\ p_s'[p] = p_s[p]
    BY <1>1, KillSteps
  <2>2. ASSUME currentProcess' = currentProcess, currentProcess \in Live'
        PROVE  /\ currentProcess' \in Live' /\ p_s'[currentProcess'].prog # "p1"
               /\ currentProcess' \in Fours' => p_s'[currentProcess'].at >= 15
    BY <2>1, <2>2 DEF Fours, Of
  <2> PICK a \in Live : a = currentProcess
    BY <2>1
  <2>3. ASSUME NEW c \in Pcbs, KillsChild(c)
        PROVE  Kills'
    <3>1. /\ c \in Fours /\ c # a /\ Passed(a) /\ currentProcess' = currentProcess
          /\ killStack' = <<a, c>> /\ Live' = Live
      BY <2>3 DEF KillsChild, Live
    <3>2. c \in Live' /\ a \in Live'
      BY <3>1 DEF Fours, Of
    <3>3. c \in Fours' /\ Passed(a)'
      BY <3>1, <3>2, ParentsStay
    <3>4. Passed(currentProcess)'
      BY <3>1, <3>3 DEF Passed, Fours, Of
    <3> QED
      BY <2>2, <3>1, <3>2, <3>3, <3>4 DEF Kills
  <2>4. ASSUME NEW c \in Pcbs, ChildDies(c)
        PROVE  Kills'
    <3>1. currentProcess' = currentProcess /\ killStack' = <<currentProcess>>
          /\ currentProcess \in Live'
      BY <2>1, <2>4 DEF ChildDies, Live
    <3> QED
      BY <2>2, <3>1 DEF Kills
  <2>5. CASE UNCHANGED <<cpu, currentProcess, readyQue, pcbFree, p_prnt, semVars, killStack>>
    <3>1. Live' = Live /\ currentProcess' = currentProcess /\ killStack' = killStack
      BY <2>5 DEF Live
    <3>2. \/ killStack' = <<currentProcess'>>
          \/ \E c \in Fours' : /\ killStack' = <<currentProcess', c>>
                               /\ Passed(currentProcess)' /\ c # currentProcess'
      <4>1. CASE killStack = <<currentProcess>>
        BY <3>1, <4>1
      <4>2. CASE \E c \in Fours : /\ killStack = <<currentProcess, c>>
                                  /\ Passed(currentProcess) /\ c # currentProcess
        <5>1. PICK c \in Fours : killStack = <<a, c>> /\ Passed(a) /\ c # a
          BY <4>2
        <5>2. c \in Live' /\ a \in Live'
          BY <3>1 DEF Fours, Of
        <5>3. c \in Fours' /\ Passed(a)'
          BY <5>1, <5>2, ParentsStay
        <5>4. Passed(currentProcess)'
          BY <3>1, <5>3 DEF Passed, Fours, Of
        <5> QED
          BY <3>1, <5>1, <5>3, <5>4
      <4> QED
        BY <1>1, <4>1, <4>2 DEF Going, Kills
    <3> QED
      BY <2>1, <2>2, <3>1, <3>2 DEF Kills
  <2>6. ~CurrentDies
    BY DEF CurrentDies
  <2> QED
    BY <1>1, <2>3, <2>4, <2>5, <2>6, KillSteps
<1>2. CASE cpu # "kill"
  <2>1. /\ cpu = "user" /\ StartKill
        /\ \/ Advances(currentProcess) /\ Instr.do \in {"SYS2", "SYS5"}
           \/ /\ p_s' = p_s
              /\ Instr.do = "trap" \/ p_s[currentProcess].user
    BY <1>2, KillStarts
  <2>2. /\ killStack' = <<currentProcess'>> /\ currentProcess' = currentProcess
        /\ Live' = Live /\ currentProcess \in Live
    BY <2>1, Runs DEF StartKill, procVars, Live
  <2>3. /\ p_s[currentProcess].at \in Nat
        /\ Placed(p_s[currentProcess].prog, p_s[currentProcess].at, Instr)
        /\ Fits(p_s[currentProcess].prog, Instr)
    BY <2>1, RunsPlaced, Runs
  <2>4. p_s[currentProcess].prog # "p1"
    <3> SUFFICES ASSUME p_s[currentProcess].prog = "p1" PROVE FALSE
      OBVIOUS
    <3>1. ~p_s[currentProcess].user
      BY <2>2 DEF Kernel, P5s
    <3>2. Instr.do = "trap"
      BY <2>1, <2>3, <3>1 DEF Placed, Fits
    <3>3. p_s[currentProcess].at > 29
      BY <2>3, <3>2 DEF Placed
    <3> QED
      BY <2>2, <2>3, <3>3 DEF Going, Main, Ones, Of
  <2>5. p_s[currentProcess].prog = "p4" =>
          Advances(currentProcess) /\ p_s[currentProcess].at = 15
    <3> SUFFICES ASSUME p_s[currentProcess].prog = "p4"
                 PROVE  Advances(currentProcess) /\ p_s[currentProcess].at = 15
      OBVIOUS
    <3>1. ~p_s[currentProcess].user
      BY <2>2 DEF Kernel, P5s
    <3> QED
      BY <2>1, <2>3, <3>1 DEF Placed, Fits
  <2>6. p_s'[currentProcess].prog = p_s[currentProcess].prog
    BY <2>1, Advanced
  <2>7. p_s[currentProcess].prog = "p4" => p_s'[currentProcess].at >= 15
    BY <2>3, <2>5, Advanced
  <2> QED
    BY <2>2, <2>4, <2>6, <2>7 DEF Kills, Fours, Of
<1> QED
  BY <1>1, <1>2

(* p5's V on blkp4 comes when no p4 is left.                               *)
LEMMA BlkOpens ==
  ASSUME IInv, TermInv, Going, cpu = "user", Instr = V(blkp4)
  PROVE  /\ currentProcess \in Pcbs /\ currentProcess \in Live
         /\ p_s[currentProcess].prog = "p5b" /\ p_s[currentProcess].at = 5
         /\ Mid(currentProcess) /\ Fours = {} /\ Shut(blkp4)
<1> DEFINE c == currentProcess
<1>1. c \in Live /\ c \in Pcbs /\ p_s[c].prog = "p5b" /\ p_s[c].at = 5 /\ p_semAdd[c] = NULL
  BY RunsPlaced, Runs DEF Placed
<1>2. Mid(c)
  BY <1>1, FourNames DEF Mid
<1> QED
  BY <1>1, <1>2 DEF Going, Order, Blk

(* p4's V on endp4.                                                        *)
LEMMA EndOpens ==
  ASSUME IInv, TermInv, Going, cpu = "user", Instr = V(endp4)
  PROVE  /\ currentProcess \in Fours /\ currentProcess \in Live
         /\ Passed(currentProcess) /\ p_s[currentProcess].at = 14
         /\ Shut(blkp4) /\ ~Done /\ Shut(endp4) /\ \A p \in Pcbs : ~Mid(p)
<1> PICK c \in Live : c = currentProcess
  BY RunsPlaced
<1>1. p_s[c].prog = "p4" /\ p_s[c].at = 14 /\ p_semAdd[c] = NULL
  BY RunsPlaced DEF Placed
<1>2. Passed(c) /\ c \in Fours /\ c \in Pcbs
  BY <1>1, FourNames DEF Passed, Fours, Of, Live
<1>3. ~Done
  <2> SUFFICES ASSUME NEW r \in Pcbs, Ended(r) PROVE FALSE
    BY <1>2 DEF Done
  <2>1. Passed(r) /\ r \in Fours /\ r # c
    BY <1>1 DEF Ended, Passed
  <2> QED
    BY <1>2, <2>1 DEF Going, Pair, Apart
<1> QED
  BY <1>1, <1>2, <1>3 DEF Going, End, Blk

(* p4's V on synp4.                                                        *)
LEMMA SynOpens ==
  ASSUME IInv, TermInv, cpu = "user", Instr = V(synp4)
  PROVE  /\ currentProcess \in Fours /\ currentProcess \in Live
         /\ p_s[currentProcess].at = 5
BY RunsPlaced DEF Placed, Fours, Of

(* While one has passed blkp4, no other does.                              *)
LEMMA NobodyPasses ==
  ASSUME IInv, IInv', TermInv, ErrInv, [P2Next]_p2vars, Going, Shut(blkp4),
         NEW r, Passed(r)'
  PROVE  Passed(r)
<1>1. ~(semVal[blkp4] > 0)
  BY ShutValue, FourNames
<1>2. ~(cpu = "user" /\ Instr = V(blkp4) /\ r \in Fours)
  BY BlkOpens
<1> QED
  BY <1>1, <1>2, PassedWas

(* There are two of them at most.                                          *)
LEMMA OnlyTwo ==
  ASSUME Pair, NEW q \in Fours, NEW r \in Fours, Apart(q, r), NEW x \in Fours
  PROVE  x = q \/ x = r
BY DEF Pair, Apart

(* One that has passed, and has made no other, is alone.                   *)
LEMMA AloneYet ==
  ASSUME Pair, NEW q \in Fours, Passed(q), ~(p_s[q].at >= 9)
  PROVE  Fours = {q}
BY DEF Pair, Apart

(* How an incarnation of p4 comes into being.                              *)
LEMMA NewFour ==
  ASSUME IInv, IInv', TermInv, ErrInv, [P2Next]_p2vars, Going, NEW q \in Fours', q \notin Fours
  PROVE  /\ ~Passed(q)' /\ q \notin Live /\ p_s'[q].at = 1
         /\ cpu = "user" /\ Instr.do = "create"
         /\ \A r \in Fours' : r # q => r \in Fours
         /\ \/ /\ currentProcess \in Ones /\ p_s[currentProcess].at = 20
               /\ Fours = {} /\ Fives = {} /\ Shut(synp4) /\ Shut(endp4)
            \/ \E a \in Live :
                 /\ a = currentProcess /\ a # q /\ Fours = {a} /\ Passed(a)
                 /\ p_s[a].at = 8 /\ p_semAdd[a] = NULL
                 /\ a \in Live' /\ p_s'[a].at = 9 /\ p_prnt'[q] = a
<1>1. /\ Begins(q) /\ q \notin Live /\ p_s'[q].at = 1 /\ q \in Pcbs
      /\ \/ currentProcess \in Fours /\ p_s[currentProcess].at = 8
         \/ currentProcess \in Ones /\ p_s[currentProcess].at = 20
  BY FoursWere DEF Fours, Of
<1>2. /\ cpu = "user" /\ Instr.do = "create" /\ Live' = Live \cup {q}
      /\ p_s'[currentProcess].at = p_s[currentProcess].at + 1
  BY <1>1, Begun
<1>3. ~Passed(q)'
  BY <1>1 DEF Passed
<1>4. \A r \in Fours' : r # q => r \in Fours
  BY <1>2, FoursWere DEF Fours, Of
<1>5. CASE currentProcess \in Ones /\ p_s[currentProcess].at = 20
  BY <1>1, <1>2, <1>3, <1>4, <1>5 DEF Going, Main
<1>6. CASE currentProcess \in Fours /\ p_s[currentProcess].at = 8
  <2> PICK a \in Live : a = currentProcess
    BY <1>6 DEF Fours, Of
  <2>1. p_semAdd[a] = NULL /\ a \in Fours /\ p_s[a].at = 8
    BY <1>2, <1>6, RunsPlaced
  <2>2. Passed(a)
    BY <2>1, FourNames DEF Passed
  <2>3. Fours = {a}
    BY <2>1, <2>2, AloneYet DEF Going
  <2>4. p_prnt'[q] = a
    <3>1. \/ UNCHANGED <<p_prnt, pcbFree>>
          \/ \E x \in Pcbs : /\ Begins(x)
                             /\ p_prnt' = [p_prnt EXCEPT ![x] = currentProcess]
      BY <1>2, TreeSteps
    <3>2. pcbFree' # pcbFree
      BY <1>1, <1>2 DEF Live
    <3>3. PICK x \in Pcbs : Begins(x) /\ p_prnt' = [p_prnt EXCEPT ![x] = currentProcess]
      BY <3>1, <3>2
    <3>4. x = q
      BY <1>1, <1>2, <3>3, Begun
    <3> QED
      BY <1>1, <3>3, <3>4 DEF IInv, TypeOK
  <2>5. a \in Live' /\ p_s'[a].at = 9 /\ a # q
    BY <1>1, <1>2, <2>1
  <2> QED
    BY <1>1, <1>2, <1>3, <1>4, <2>1, <2>2, <2>3, <2>4, <2>5
<1> QED
  BY <1>1, <1>5, <1>6

(* Whom an incarnation of p4 leaves when it dies.                          *)
LEMMA FoursDie ==
  ASSUME IInv, TermInv, [P2Next]_p2vars, Stands, Going, NEW r \in Fours, r \notin Live'
  PROVE  /\ cpu = "kill" /\ p_s[currentProcess].at >= 15 /\ Fours' = Fours \ {r}
         /\ \/ ChildDies(r) /\ ~Passed(r) /\ Passed(currentProcess) /\ currentProcess # r
            \/ r = currentProcess /\ Fours = {r} /\ p_s[r].at >= 15
<1>1. r \in Pcbs /\ r \in Live
  BY DEF Fours, Of, Live
<1>2. cpu = "kill"
  <2> SUFFICES ASSUME cpu # "kill" PROVE FALSE
    OBVIOUS
  <2> QED
    BY <1>1, TreeSteps DEF Live
<1>3. /\ \A p \in Live' : p \in Live /\ p_s'[p] = p_s[p]
      /\ currentProcess \in Fours => p_s[currentProcess].at >= 15
      /\ currentProcess \in Live
  BY <1>2, KillSteps
<1>4. ~(\E c \in Pcbs : KillsChild(c)) /\ pcbFree' # pcbFree
  BY <1>1 DEF KillsChild, Live
<1>5. ASSUME NEW c \in Pcbs, ChildDies(c)
      PROVE  /\ r = c /\ Live' = Live \ {r} /\ p_s[currentProcess].at >= 15
             /\ ~Passed(r) /\ Passed(currentProcess) /\ currentProcess # r
  BY <1>1, <1>3, <1>5 DEF ChildDies, Live, Passed
<1>6. ASSUME CurrentDies
      PROVE  r = currentProcess /\ Live' = Live \ {r} /\ Fours = {r} /\ p_s[r].at >= 15
  <2>1. r = currentProcess /\ Live' = Live \ {r} /\ p_child[r] = <<>> /\ killStack = <<r>>
    BY <1>1, <1>6 DEF CurrentDies, Live
  <2>2. ASSUME NEW x \in Fours, x # r
        PROVE  FALSE
    <3>1. x \in Pcbs /\ r # NULL
      BY <1>1, NullApart DEF Fours, Of, Live
    <3>2. ~Child(r, x)
      <4>1. <<r>> # <<r, x>>
        BY Tuples
      <4>2. p_prnt[x] # r
        BY <2>1, <3>1, Family
      <4> QED
        BY <2>1, <4>1, <4>2 DEF Child
    <3>3. Apart(x, r)
      BY <2>2, <3>2 DEF Going, Pair, Apart
    <3>4. ~Child(x, r)
      <4>1. <<r>> # <<x, r>>
        BY Tuples
      <4>2. p_prnt[r] # x
        <5>1. ~Passed(r)
          BY <3>3 DEF Apart
        <5>2. p_s[r].at >= 15
          BY <1>3, <2>1
        <5>3. p_semAdd[r] = NULL
          BY <1>3, <2>1 DEF IInv, CurrentApart
        <5>4. p_s[r].at \in Nat /\ r \in Fours
          BY <1>1, AllPlaced
        <5> QED
          BY <5>1, <5>2, <5>3, <5>4, FourNames DEF Passed
      <4> QED
        BY <2>1, <4>1, <4>2 DEF Child
    <3> QED
      BY <3>3, <3>4 DEF Apart
  <2> QED
    BY <1>3, <2>1, <2>2
<1>7. Fours' = Fours \ {r}
  <2>1. Live' = Live \ {r}
    BY <1>2, <1>4, <1>5, <1>6, KillSteps
  <2> QED
    BY <1>3, <2>1 DEF Fours, Of
<1> QED
  BY <1>2, <1>4, <1>5, <1>6, <1>7, KillSteps

(* A child remains one, or has left its parent to die with it.             *)
LEMMA ChildStays ==
  ASSUME IInv, TermInv, [P2Next]_p2vars, Stands, Going, NEW q \in Live, NEW r \in Live,
         r \in Live', Child(q, r)
  PROVE  Child(q, r)'
<1>1. /\ p_prnt \in [Pcbs -> Pcbs \cup {NULL}] /\ r \in Pcbs /\ q \in Pcbs
      /\ q # NULL /\ r # NULL
  BY NullApart DEF IInv, TypeOK, Live
<1>2. CASE cpu # "kill"
  <2>1. p_prnt[r] = q
    BY <1>2 DEF Child
  <2>2. p_prnt'[r] = p_prnt[r]
    BY <1>1, <1>2, TreeSteps, Begun
  <2> QED
    BY <2>1, <2>2 DEF Child
<1>3. CASE cpu = "kill"
  <2>1. ASSUME NEW c \in Pcbs, KillsChild(c)
        PROVE  Child(q, r)'
    <3>1. /\ p_prnt[c] = currentProcess /\ killStack = <<currentProcess>>
          /\ killStack' = <<currentProcess, c>> /\ cpu' = "kill"
          /\ p_prnt' = [p_prnt EXCEPT ![c] = NULL]
      BY <2>1 DEF KillsChild
    <3>2. p_prnt[r] = q
      <4>1. <<currentProcess>> # <<q, r>>
        BY Tuples
      <4> QED
        BY <3>1, <4>1 DEF Child
    <3>3. CASE c = r
      BY <3>1, <3>2, <3>3 DEF Child
    <3>4. CASE c # r
      BY <1>1, <3>1, <3>2, <3>4 DEF Child
    <3> QED
      BY <3>3, <3>4
  <2>2. ASSUME NEW c \in Pcbs, ChildDies(c)
        PROVE  Child(q, r)'
    <3>1. /\ killStack = <<currentProcess, c>> /\ c \notin Live' /\ c # r
          /\ p_prnt' = [p_prnt EXCEPT ![c] = NULL]
      BY <2>2 DEF ChildDies, Live
    <3>2. p_prnt[r] = q
      <4>1. <<currentProcess, c>> # <<q, r>>
        BY <3>1, Tuples
      <4> QED
        BY <3>1, <4>1 DEF Child
    <3> QED
      BY <1>1, <3>1, <3>2 DEF Child
  <2>3. CASE CurrentDies
    <3>1. /\ killStack = <<currentProcess>> /\ currentProcess \notin Live'
          /\ p_prnt' = [p_prnt EXCEPT ![currentProcess] = NULL]
      BY <2>3 DEF CurrentDies, Live
    <3>2. p_prnt[r] = q
      <4>1. <<currentProcess>> # <<q, r>>
        BY Tuples
      <4> QED
        BY <3>1, <4>1 DEF Child
    <3> QED
      BY <1>1, <3>1, <3>2 DEF Child
  <2>4. UNCHANGED <<cpu, p_prnt, killStack>> => Child(q, r)'
    BY DEF Child
  <2> QED
    BY <1>3, <2>1, <2>2, <2>3, <2>4, KillSteps
<1> QED
  BY <1>2, <1>3

(* Two incarnations of p4 remain apart.                                    *)
LEMMA PairKept ==
  ASSUME IInv, IInv', TermInv, ErrInv, [P2Next]_p2vars, Stands, Going
  PROVE  Pair'
<1>1. ASSUME NEW q \in Fours', NEW r \in Fours', q \in Fours, r \in Fours, Apart(q, r)
      PROVE  Apart(q, r)'
  <2>1. q \in Live /\ r \in Live /\ q \in Live' /\ r \in Live' /\ q \in Pcbs
    BY <1>1 DEF Fours, Of, Live
  <2>2. Passed(q) /\ ~Passed(r) /\ p_s[q].at >= 9 /\ Child(q, r)
    BY <1>1 DEF Apart
  <2>3. Passed(q)' /\ p_s'[q].at >= p_s[q].at /\ p_s[q].at \in Nat /\ p_s'[q].at \in Nat
    <3>1. /\ p_s[q].at \in Nat
          /\ p_s'[q] = p_s[q] \/ p_s'[q].at = p_s[q].at + 1
      BY <1>1, <2>1, AllPlaced, FoursWere, Begun
    <3> QED
      BY <2>1, <2>2, <3>1, PassedStays
  <2>4. ~Passed(r)'
    <3>1. Shut(blkp4)
      BY <2>1, <2>2 DEF Going, Blk
    <3> QED
      BY <2>2, <3>1, NobodyPasses
  <2>5. Child(q, r)'
    BY <2>1, <2>2, ChildStays
  <2> QED
    BY <2>2, <2>3, <2>4, <2>5 DEF Apart
<1>2. ASSUME NEW q \in Fours', NEW r \in Fours', q # r, q \notin Fours
      PROVE  Apart(r, q)'
  <2>1. r \in Fours
    BY <1>2, NewFour
  <2>2. PICK a \in Live :
          /\ Fours = {a} /\ Passed(a) /\ a \in Live' /\ p_s'[a].at = 9 /\ p_prnt'[q] = a
    BY <1>2, <2>1, NewFour
  <2>3. a = r /\ Passed(r)' /\ ~Passed(q)'
    BY <1>2, <2>1, <2>2, NewFour, ParentsStay
  <2> QED
    BY <2>2, <2>3 DEF Apart, Child
<1> SUFFICES ASSUME NEW q \in Fours', NEW r \in Fours', q # r
             PROVE  Apart(q, r)' \/ Apart(r, q)'
  BY DEF Pair
<1>3. CASE q \in Fours /\ r \in Fours
  BY <1>1, <1>3 DEF Going, Pair
<1> QED
  BY <1>2, <1>3

(* A step of an incarnation of p4.                                         *)
LEMMA FourSteps ==
  ASSUME IInv, TermInv, ErrInv, [P2Next]_p2vars, NEW q \in Fours', q \in Fours
  PROVE  /\ p_s[q].at \in Nat /\ q \in Live /\ q \in Live' /\ p_s[q].prog = "p4"
         /\ \/ p_s'[q] = p_s[q] /\ ~Advances(q)
            \/ Advances(q) /\ p_s'[q].at = p_s[q].at + 1
<1>1. p_s[q].at \in Nat /\ q \in Live /\ q \in Live' /\ p_s[q].prog = "p4"
  BY AllPlaced DEF Fours, Of, Live
<1>2. ~Begins(q)
  BY <1>1, Begun
<1>3. Advances(q) => p_s'[q].at = p_s[q].at + 1 /\ p_s'[q] # p_s[q]
  BY <1>1, Advanced
<1> QED
  BY <1>1, <1>2, <1>3, FoursWere

(* synp4: the parts of Syn, one after the other.                           *)

(* It is shut until an incarnation of p4 makes its V on it.                *)
LEMMA SynEarly ==
  ASSUME IInv, IInv', TermInv, ErrInv, [P2Next]_p2vars, Stands, Going,
         NEW q \in Fours', p_s'[q].at <= 5
  PROVE  Shut(synp4)'
<1>1. CASE q \in Fours
  <2>1. /\ p_s[q].at \in Nat /\ q \in Live /\ p_s[q].prog = "p4"
        /\ \/ p_s'[q] = p_s[q] /\ ~Advances(q)
           \/ Advances(q) /\ p_s'[q].at = p_s[q].at + 1
    BY <1>1, FourSteps
  <2>2. p_s[q].at <= 5 /\ ~(Advances(q) /\ p_s[q].at = 5)
    BY <1>1, <2>1
  <2>3. Shut(synp4)
    BY <1>1, <2>2 DEF Going, Syn
  <2>4. ~(cpu = "user" /\ Instr = V(synp4) /\ Verhogen(synp4) /\ Advance)
    <3> SUFFICES ASSUME cpu = "user", Instr = V(synp4), Verhogen(synp4), Advance PROVE FALSE
      OBVIOUS
    <3> PICK c \in Live : c = currentProcess
      BY RunsPlaced
    <3>1. c \in Fours /\ p_s[c].at = 5
      BY SynOpens
    <3>2. c # q
      <4> SUFFICES ASSUME c = q PROVE FALSE
        OBVIOUS
      <4>1. p_s'[q].at = p_s[q].at + 1
        BY <2>1 DEF Advance, TermInv, States, Live
      <4> QED
        BY <1>1, <2>1, <3>1, <4>1
    <3> QED
      BY <1>1, <2>1, <2>2, <3>1, <3>2 DEF Going, Pair, Apart
  <2> QED
    BY <2>3, <2>4, StaysShut, FourNames
<1>2. CASE q \notin Fours
  <2>1. Shut(synp4) /\ cpu = "user" /\ Instr.do = "create"
    <3>1. CASE Shut(synp4)
      BY <1>2, <3>1, NewFour
    <3>2. CASE ~Shut(synp4)
      <4>1. PICK a \in Live : /\ a = currentProcess /\ Fours = {a}
                              /\ p_s[a].at = 8 /\ p_semAdd[a] = NULL
        BY <1>2, <3>2, NewFour
      <4>2. p_semAdd[a] # synp4
        BY <4>1, FourNames
      <4> QED
        BY <3>2, <4>1, <4>2 DEF Going, Syn
    <3> QED
      BY <3>1, <3>2
  <2>2. Instr # V(synp4)
    BY <2>1 DEF V, I
  <2> QED
    BY <2>1, <2>2, StaysShut, FourNames
<1> QED
  BY <1>1, <1>2

(* One P on it goes through, that of the first incarnation.                *)
LEMMA SynSingle ==
  ASSUME IInv, IInv', TermInv, ErrInv, [P2Next]_p2vars, Stands, Going,
         NEW q \in Fours', p_s'[q].at \in {6, 7}, Fours' = {q}
  PROVE  Single(synp4)'
<1>1. /\ q \in Fours /\ q \in Live /\ p_s[q].at \in Nat /\ p_s[q].prog = "p4"
      /\ \/ p_s'[q] = p_s[q]
         \/ Advances(q) /\ p_s'[q].at = p_s[q].at + 1
  BY FoursWere, AllPlaced, Begun DEF Fours, Of
<1>2. Fours = {q}
  <2> SUFFICES ASSUME NEW r \in Fours, r # q PROVE FALSE
    BY <1>1
  <2>1. r \notin Live'
    BY ProgramKept DEF Fours, Of, P5s
  <2>2. cpu = "kill" /\ p_s[currentProcess].at >= 15
    BY <2>1, FoursDie
  <2>3. CASE ChildDies(r) /\ Passed(currentProcess) /\ currentProcess # r
    <3>1. currentProcess \in Live' /\ currentProcess \in Fours
      BY <2>1, <2>3 DEF Passed, Fours, Of, ChildDies, Live
    <3>2. currentProcess \in Fours'
      BY <3>1, ProgramKept DEF Fours, Of, P5s
    <3>3. p_s'[q] = p_s[q]
      BY <2>2, KillSteps DEF Fours, Of
    <3> QED
      BY <2>2, <3>2, <3>3
  <2>4. CASE Fours = {r}
    BY <1>1, <2>4
  <2> QED
    BY <2>1, <2>3, <2>4, FoursDie
<1>3. CASE p_s[q].at = 5
  <2>1. Advances(q) /\ cpu = "user"
    BY <1>1, <1>3 DEF Advances
  <2>2. Instr = V(synp4)
    BY <1>1, <1>3, <2>1, Advanced DEF Placed
  <2>3. Verhogen(synp4)
    BY <2>1, <2>2 DEF Advances, V, I
  <2>4. Shut(synp4)
    BY <1>1, <1>3 DEF Going, Syn
  <2> QED
    BY <2>3, <2>4, Opens, FourNames
<1>4. CASE p_s[q].at # 5
  <2>1. p_s[q].at \in {6, 7}
    BY <1>1, <1>4
  <2>2. Single(synp4)
    BY <1>1, <1>2, <2>1 DEF Going, Syn
  <2>3. ~(cpu = "user" /\ Instr = V(synp4))
    BY <1>2, <1>4, SynOpens
  <2> QED
    BY <2>2, <2>3, StaysSingle, FourNames
<1> QED
  BY <1>3, <1>4

(* It is shut again when the first one makes the second.                   *)
LEMMA SynShut ==
  ASSUME IInv, IInv', TermInv, ErrInv, [P2Next]_p2vars, Stands, Going,
         NEW q \in Fours', p_s'[q].at = 8, p_semAdd'[q] # synp4
  PROVE  Shut(synp4)'
<1>1. /\ q \in Fours /\ q \in Live /\ q \in Live' /\ p_s[q].at \in Nat /\ p_s[q].prog = "p4"
      /\ \/ p_s'[q] = p_s[q]
         \/ Advances(q) /\ p_s'[q].at = p_s[q].at + 1
  BY FoursWere, AllPlaced, Begun DEF Fours, Of
<1>2. CASE p_s[q].at = 8
  <2>1. Passed(q)
    BY <1>1, <1>2, FourWaits DEF Passed
  <2>2. Fours = {q}
    BY <1>1, <1>2, <2>1, AloneYet DEF Going
  <2>3. ~(cpu = "user" /\ Instr = V(synp4))
    BY <1>2, <2>2, SynOpens
  <2>4. p_semAdd[q] # synp4
    BY <1>1, <2>3, WaitsOn, FourNames
  <2>5. Shut(synp4)
    BY <1>1, <1>2, <2>4 DEF Going, Syn
  <2> QED
    BY <2>3, <2>5, StaysShut, FourNames
<1>3. CASE Advances(q) /\ p_s[q].at = 7
  <2>1. Instr = Wait(synp4) /\ q = currentProcess /\ cpu = "user" /\ p_semAdd[q] = NULL
    BY <1>1, <1>3, Advanced DEF Placed
  <2>2. Passed(q)
    BY <1>1, <1>3, <2>1, FourNames DEF Passed
  <2>3. Fours = {q}
    BY <1>1, <1>3, <2>2, AloneYet DEF Going
  <2>4. Single(synp4)
    BY <1>1, <1>3, <2>3 DEF Going, Syn
  <2>5. Passeren(synp4)
    BY <1>3, <2>1, Takes, FourNames
  <2>6. p_semAdd'[currentProcess] # synp4
    BY <2>1
  <2> QED
    BY <2>1, <2>4, <2>5, <2>6, Passes, FourNames
<1> QED
  BY <1>1, <1>2, <1>3

(* The first one waits until the second has made its V.                    *)
LEMMA SynWaits ==
  ASSUME IInv, IInv', TermInv, ErrInv, [P2Next]_p2vars, Stands, Going,
         NEW q \in Fours', NEW r \in Fours', r # q, Passed(q)', p_s'[r].at <= 5
  PROVE  p_s'[q].at = 9 \/ (p_s'[q].at = 10 /\ p_semAdd'[q] = synp4)
<1>1. /\ q \in Fours /\ q \in Live /\ q \in Live' /\ p_s[q].at \in Nat /\ p_s[q].prog = "p4"
      /\ \/ p_s'[q] = p_s[q]
         \/ Advances(q) /\ p_s'[q].at = p_s[q].at + 1
  BY PassedWas, AllPlaced, Advanced DEF Fours, Of
<1>2. CASE r \notin Fours
  BY <1>1, <1>2, NewFour
<1>3. CASE r \in Fours
  <2>1. /\ p_s[r].at \in Nat /\ p_s[r].at <= 5 /\ r \in Live /\ p_s[r].prog = "p4"
        /\ ~(Advances(r) /\ p_s[r].at = 5)
        /\ p_s'[r] = p_s[r] \/ Advances(r)
    <3>1. /\ p_s[r].at \in Nat /\ r \in Live /\ p_s[r].prog = "p4"
          /\ \/ p_s'[r] = p_s[r] /\ ~Advances(r)
             \/ Advances(r) /\ p_s'[r].at = p_s[r].at + 1
      BY <1>3, FourSteps
    <3> QED
      BY <3>1
  <2>2. Apart(q, r)
    BY <1>1, <1>3, <2>1 DEF Going, Pair, Apart
  <2>3. Passed(q) /\ Shut(synp4)
    BY <1>3, <2>1, <2>2 DEF Apart, Going, Syn
  <2>4. p_s[q].at = 9 \/ (p_s[q].at = 10 /\ p_semAdd[q] = synp4)
    BY <1>1, <1>3, <2>1, <2>3 DEF Going, Syn
  <2>5. CASE p_s[q].at = 9
    <3> SUFFICES ASSUME Advances(q), p_s'[q].at = 10 PROVE p_semAdd'[q] = synp4
      BY <1>1, <2>5
    <3>1. Instr = Wait(synp4)
      BY <1>1, <2>5, Advanced DEF Placed
    <3>2. Passeren(synp4) /\ q = currentProcess /\ cpu = "user"
      BY <3>1, Takes, FourNames
    <3> QED
      BY <2>3, <3>2, BlocksAll, FourNames
  <2>6. CASE p_s[q].at = 10 /\ p_semAdd[q] = synp4
    <3>1. ~Advances(q)
      BY <2>6, Advanced, FourNames
    <3>2. ~(cpu = "user" /\ Instr = V(synp4) /\ Verhogen(synp4) /\ Advance)
      <4> SUFFICES ASSUME cpu = "user", Instr = V(synp4), Verhogen(synp4), Advance PROVE FALSE
        OBVIOUS
      <4> PICK c \in Live : c = currentProcess
        BY RunsPlaced
      <4>1. c \in Fours /\ p_s[c].at = 5
        BY SynOpens
      <4>2. c = r
        BY <1>1, <1>3, <2>2, <2>6, <4>1, OnlyTwo DEF Going
      <4>3. p_s'[r].at = 6
        BY <2>1, <4>1, <4>2 DEF Advance, TermInv, States, Live
      <4> QED
        BY <4>3
    <3> QED
      BY <1>1, <2>6, <3>1, <3>2, WaitsOn, FourNames
  <2> QED
    BY <2>4, <2>5, <2>6
<1> QED
  BY <1>2, <1>3

(* So synp4 keeps the two of them in step.                                 *)
LEMMA SynKept ==
  ASSUME IInv, IInv', TermInv, ErrInv, [P2Next]_p2vars, Stands, Going
  PROVE  Syn'
BY SynEarly, SynSingle, SynShut, SynWaits DEF Syn

(* p5 is one process.                                                      *)
LEMMA OneFifth ==
  ASSUME Going, NEW p \in Live, NEW q \in Live, p_s[p].prog = "p5b", p_s[q].prog = "p5b"
  PROVE  p = q
BY DEF Going, Main, Fives, P5s

(* blkp4 is shut while one of them has passed it,                          *)
LEMMA BlkPassed ==
  ASSUME IInv, IInv', TermInv, ErrInv, [P2Next]_p2vars, Going, NEW q, Passed(q)'
  PROVE  Shut(blkp4)'
<1>1. q \in Fours
  BY PassedWas
<1>2. ~(cpu = "user" /\ Instr = V(blkp4))
  BY <1>1, BlkOpens
<1>3. CASE Passed(q)
  <2>1. Shut(blkp4)
    BY <1>1, <1>3 DEF Going, Blk, Fours, Of, Live
  <2> QED
    BY <1>2, <2>1, StaysShut, FourNames
<1>4. CASE Advances(q) /\ Instr = Wait(blkp4)
  <2>1. Passeren(blkp4) /\ q = currentProcess /\ cpu = "user"
    BY <1>4, Takes, FourNames
  <2>2. p_semAdd'[currentProcess] # blkp4
    BY <2>1 DEF Passed
  <2>3. Single(blkp4)
    BY DEF Going, Blk
  <2> QED
    BY <2>1, <2>2, <2>3, Passes, FourNames
<1> QED
  BY <1>2, <1>3, <1>4, PassedWas

(* and from then on until p5 opens it.                                     *)
LEMMA BlkKept ==
  ASSUME IInv, IInv', TermInv, ErrInv, [P2Next]_p2vars, Stands, Going
  PROVE  Blk'
<1>1. Single(blkp4)'
  <2>1. CASE cpu = "user" /\ Instr = V(blkp4) /\ Verhogen(blkp4) /\ Advance
    BY <2>1, BlkOpens, Opens, FourNames
  <2>2. CASE ~(cpu = "user" /\ Instr = V(blkp4) /\ Verhogen(blkp4) /\ Advance)
    <3>1. Single(blkp4)
      BY DEF Going, Blk
    <3> QED
      BY <2>2, <3>1, StaysSingle, FourNames
  <2> QED
    BY <2>1, <2>2
<1>2. ASSUME ~Shut(endp4)'
      PROVE  Shut(blkp4)'
  <2>1. CASE ~Shut(endp4)
    <3>1. Shut(blkp4) /\ \A p \in Pcbs : ~Mid(p)
      BY <2>1 DEF Going, Blk, End
    <3>2. ~(cpu = "user" /\ Instr = V(blkp4))
      BY <3>1, BlkOpens
    <3> QED
      BY <3>1, <3>2, StaysShut, FourNames
  <2>2. CASE Shut(endp4)
    <3>1. cpu = "user" /\ Instr = V(endp4)
      BY <1>2, <2>2, StaysShut, FourNames
    <3>2. Shut(blkp4)
      BY <3>1, EndOpens
    <3>3. Instr # V(blkp4)
      BY <3>1, FourApart DEF V, I
    <3> QED
      BY <3>2, <3>3, StaysShut, FourNames
  <2> QED
    BY <2>1, <2>2
<1>3. ASSUME NEW p \in Pcbs, Mid(p)', p_s'[p].at <= 5
      PROVE  Shut(blkp4)'
  <2>1. p \in Live /\ p_s[p].prog = "p5b" /\ p_s[p].at \in Nat
    BY <1>3, MidWas, AllPlaced
  <2>2. CASE Mid(p) /\ (p_s'[p] = p_s[p] \/ p_s'[p].at = p_s[p].at + 1 \/ p_s[p].at = 4)
    <3>1. p_s[p].at <= 5
      BY <1>3, <2>1, <2>2
    <3>2. Shut(blkp4)
      BY <2>2, <3>1 DEF Going, Blk
    <3>3. ~(cpu = "user" /\ Instr = V(blkp4) /\ Verhogen(blkp4) /\ Advance)
      <4> SUFFICES ASSUME cpu = "user", Instr = V(blkp4), Advance PROVE FALSE
        OBVIOUS
      <4>1. currentProcess = p /\ p_s[p].at = 5
        BY <2>1, BlkOpens, OneFifth
      <4>2. p_s'[p].at = 6
        BY <2>1, <4>1 DEF Advance, TermInv, States
      <4> QED
        BY <1>3, <4>2
    <3> QED
      BY <3>2, <3>3, StaysShut, FourNames
  <2>3. CASE Instr = Wait(endp4) /\ semVal[endp4] > 0
    <3>1. Shut(blkp4)
      BY <2>3, ShutValue, FourNames DEF Going, Blk
    <3>2. Instr # V(blkp4)
      BY <2>3 DEF V, Wait, I
    <3> QED
      BY <3>1, <3>2, StaysShut, FourNames
  <2>4. CASE cpu = "user" /\ Instr = V(endp4)
    <3>1. Shut(blkp4)
      BY <2>4, EndOpens
    <3>2. Instr # V(blkp4)
      BY <2>4, FourApart DEF V, I
    <3> QED
      BY <3>1, <3>2, StaysShut, FourNames
  <2> QED
    BY <1>3, <2>2, <2>3, <2>4, MidWas
<1> QED
  BY <1>1, <1>2, <1>3, BlkPassed DEF Blk

(* When one has ended, or all are dead, no other begins before p5 ends.    *)
LEMMA DoneStays ==
  ASSUME IInv, IInv', TermInv, ErrInv, [P2Next]_p2vars, Stands, Going, Done,
         ~Shut(endp4) \/ \E p \in Pcbs : Mid(p)
  PROVE  Done'
<1>1. CASE Fours = {}
  <2>1. ASSUME NEW q \in Fours'
        PROVE  FALSE
    <3>1. Fives = {} /\ Shut(endp4)
      BY <1>1, <2>1, NewFour
    <3> QED
      BY <3>1 DEF Mid, Fives, P5s
  <2> QED
    BY <2>1 DEF Done
<1>2. ASSUME NEW r \in Pcbs, Ended(r)
      PROVE  Done'
  <2>1. Passed(r) /\ r \in Fours /\ p_s[r].at >= 15 /\ r \in Live
    BY <1>2 DEF Ended, Passed, Fours, Of
  <2>2. CASE r \in Live'
    <3>1. r \in Fours'
      BY <2>1, <2>2, ParentsStay
    <3>2. Passed(r)' /\ p_s'[r].at >= 15
      BY <2>1, <2>2, <3>1, ParentsStay, FourSteps
    <3> QED
      BY <3>2 DEF Done, Ended
  <2>3. CASE r \notin Live'
    BY <2>1, <2>3, FoursDie DEF Done
  <2> QED
    BY <2>2, <2>3
<1> QED
  BY <1>1, <1>2 DEF Done

(* The V on endp4 is made by one that has ended with it.                   *)
LEMMA EndedThen ==
  ASSUME IInv, IInv', TermInv, ErrInv, [P2Next]_p2vars, Going,
         cpu = "user", Instr = V(endp4), Verhogen(endp4), Advance
  PROVE  Done'
<1> PICK c \in Live : c = currentProcess
  BY RunsPlaced
<1>1. c \in Pcbs /\ c \in Fours /\ Passed(c) /\ p_s[c].at = 14
  BY EndOpens DEF Live
<1>2. c \in Live'
  BY VSteps, FourNames DEF Live
<1>3. p_s'[c].at = 15
  BY <1>1 DEF Advance, TermInv, States
<1>4. Passed(c)'
  BY <1>1, <1>2, ParentsStay
<1> QED
  BY <1>1, <1>3, <1>4 DEF Done, Ended

(* p5 comes through endp4 once, when p4 has ended.                         *)
LEMMA EndKept ==
  ASSUME IInv, IInv', TermInv, ErrInv, [P2Next]_p2vars, Stands, Going
  PROVE  End'
<1> DEFINE Ends == cpu = "user" /\ Instr = V(endp4) /\ Verhogen(endp4) /\ Advance
<1>1. Single(endp4)'
  <2>1. CASE Ends
    BY <2>1, EndOpens, Opens, FourNames
  <2>2. CASE ~Ends
    <3>1. Single(endp4)
      BY DEF Going, End
    <3> QED
      BY <2>2, <3>1, StaysSingle, FourNames
  <2> QED
    BY <2>1, <2>2
<1>2. ASSUME ~Shut(endp4)', NEW p \in Pcbs, Mid(p)'
      PROVE  FALSE
  <2>1. ~Mid(p)
    <3>1. CASE ~Shut(endp4)
      BY <3>1 DEF Going, End
    <3>2. CASE Shut(endp4)
      <4>1. cpu = "user" /\ Instr = V(endp4)
        BY <1>2, <3>2, StaysShut, FourNames
      <4> QED
        BY <4>1, EndOpens
    <3> QED
      BY <3>1, <3>2
  <2>2. CASE Advances(p) /\ Instr = Wait(endp4) /\ Passeren(endp4)
             /\ semVal[endp4] > 0 /\ UNCHANGED <<procQ, p_semAdd>>
    <3>1. cpu = "user" /\ p = currentProcess /\ p_semAdd'[p] # endp4 /\ Single(endp4)
      BY <1>2, <2>2 DEF Advances, Mid, Going, End
    <3> QED
      BY <1>2, <2>2, <3>1, Passes, FourNames
  <2>3. CASE p_semAdd[p] = endp4 /\ cpu = "user" /\ Instr = V(endp4) /\ Verhogen(endp4)
    <3>1. Shut(endp4) /\ p_semAdd'[p] # endp4
      BY <1>2, <2>3, EndOpens DEF Mid
    <3> QED
      BY <1>2, <2>3, <3>1, Opens, FourNames
  <2> QED
    BY <1>2, <2>1, <2>2, <2>3, MidWas
<1>3. ASSUME ~Shut(endp4)'
      PROVE  Done'
  <2>1. CASE ~Shut(endp4)
    <3>1. Done
      BY <2>1 DEF Going, End
    <3> QED
      BY <2>1, <3>1, DoneStays
  <2>2. CASE Shut(endp4)
    BY <1>3, <2>2, StaysShut, EndedThen, FourNames
  <2> QED
    BY <2>1, <2>2
<1>4. ASSUME NEW p \in Pcbs, Mid(p)'
      PROVE  Done'
  <2>1. CASE Mid(p)
    <3>1. Done
      BY <2>1 DEF Going, End
    <3> QED
      BY <2>1, <3>1, DoneStays
  <2>2. CASE semVal[endp4] > 0
    <3>1. ~Shut(endp4)
      BY <2>2, ShutValue, FourNames
    <3>2. Done
      BY <3>1 DEF Going, End
    <3> QED
      BY <3>1, <3>2, DoneStays
  <2>3. CASE p_semAdd[p] = endp4 /\ p_s[p].at = 3
    <3>1. p_semAdd'[p] # endp4 /\ p \in Live'
      BY <1>4 DEF Mid
    <3> QED
      BY <2>3, <3>1, Woken, EndedThen, FourNames
  <2> QED
    BY <1>4, <2>1, <2>2, <2>3, MidWas
<1> QED
  BY <1>1, <1>2, <1>3, <1>4 DEF End

(* A queue to whose end others come,                                       *)
LEMMA QueueJoined ==
  ASSUME NEW S, NEW s \in Seq(S), NEW t \in Seq(S), NEW x, NEW y
  PROVE  /\ s \o t \in Seq(S)
         /\ x \in ToSet(s) => x \in ToSet(s \o t)
         /\ Precedes(s, x, y) => Precedes(s \o t, x, y)
         /\ x \in ToSet(s) /\ y \in ToSet(t) => Precedes(s \o t, x, y)
<1> DEFINE r == s \o t
<1>1. /\ r \in Seq(S) /\ Len(r) = Len(s) + Len(t) /\ Len(s) \in Nat /\ Len(t) \in Nat
      /\ \A i \in 1..Len(s) : r[i] = s[i]
      /\ \A i \in 1..Len(t) : r[Len(s) + i] = t[i]
  BY ConcatProperties
<1> HIDE DEF r
<1>2. ASSUME x \in ToSet(s)
      PROVE  \E i \in 1..Len(s) : r[i] = x
  <2>1. PICK i \in 1..Len(s) : s[i] = x
    BY <1>2, MemberPosition
  <2> QED
    BY <1>1, <2>1
<1>3. ASSUME y \in ToSet(t)
      PROVE  \E i \in 1..Len(r) : i > Len(s) /\ r[i] = y
  <2>1. PICK i \in 1..Len(t) : t[i] = y
    BY <1>3, MemberPosition
  <2>2. Len(s) + i \in 1..Len(r) /\ Len(s) + i > Len(s)
    BY <1>1
  <2> QED
    BY <1>1, <2>1, <2>2
<1>4. \A i \in 1..Len(s) : i \in 1..Len(r)
  BY <1>1
<1>5. x \in ToSet(s) => x \in ToSet(r)
  <2>1. \A i \in 1..Len(r) : r[i] \in ToSet(r)
    BY <1>1, MemberPosition
  <2> QED
    BY <1>2, <1>4, <2>1
<1>6. Precedes(s, x, y) => Precedes(r, x, y)
  BY <1>1, <1>4 DEF Precedes
<1>7. x \in ToSet(s) /\ y \in ToSet(t) => Precedes(r, x, y)
  BY <1>1, <1>2, <1>3, <1>4 DEF Precedes
<1> QED
  BY <1>1, <1>5, <1>6, <1>7 DEF r

(* or one other,                                                           *)
LEMMA QueueAppended ==
  ASSUME NEW S, NEW s \in Seq(S), NEW z \in S, NEW x, NEW y
  PROVE  /\ Append(s, z) \in Seq(S)
         /\ x \in ToSet(s) => x \in ToSet(Append(s, z))
         /\ Precedes(s, x, y) => Precedes(Append(s, z), x, y)
<1> DEFINE r == Append(s, z)
<1>1. /\ r \in Seq(S) /\ Len(r) = Len(s) + 1 /\ Len(s) \in Nat
      /\ \A i \in 1..Len(s) : r[i] = s[i]
  BY AppendProperties
<1> HIDE DEF r
<1>2. \A i \in 1..Len(s) : i \in 1..Len(r)
  BY <1>1
<1>3. x \in ToSet(s) => x \in ToSet(r)
  BY <1>1, <1>2, MemberPosition
<1>4. Precedes(s, x, y) => Precedes(r, x, y)
  BY <1>1, <1>2 DEF Precedes
<1> QED
  BY <1>1, <1>3, <1>4 DEF r

(* that one leaves,                                                        *)
LEMMA QueueLeft ==
  ASSUME NEW S, NEW s \in Seq(S), NEW c \in ToSet(s), NEW x, NEW y, x # c, y # c
  PROVE  /\ TakenOut(s, c) \in Seq(S)
         /\ x \in ToSet(s) => x \in ToSet(TakenOut(s, c))
         /\ Precedes(s, x, y) => Precedes(TakenOut(s, c), x, y)
<1> DEFINE r == TakenOut(s, c)
<1>1. PICK k \in 1..Len(s) :
        /\ s[k] = c /\ r \in Seq(S) /\ Len(r) = Len(s) - 1
        /\ \A i \in 1..Len(s) - 1 : r[i] = IF i < k THEN s[i] ELSE s[i + 1]
  BY TakenOutPositions
<1> HIDE DEF r
<1>2. Len(s) \in Nat /\ k \in Nat
  BY MemberPosition
<1> DEFINE at(i) == IF i < k THEN i ELSE i - 1
<1>3. ASSUME NEW i \in 1..Len(s), s[i] # c
      PROVE  /\ at(i) \in 1..Len(r) /\ r[at(i)] = s[i]
             /\ \A j \in 1..Len(s) : j < i => at(j) < at(i) \/ j = k
  BY <1>1, <1>2, <1>3
<1> HIDE DEF at
<1>4. x \in ToSet(s) => x \in ToSet(r)
  BY <1>1, <1>3, MemberPosition
<1>5. Precedes(s, x, y) => Precedes(r, x, y)
  <2> SUFFICES ASSUME NEW i \in 1..Len(s), NEW j \in 1..Len(s), i < j, s[i] = x, s[j] = y
               PROVE  Precedes(r, x, y)
    BY DEF Precedes
  <2>1. at(i) \in 1..Len(r) /\ r[at(i)] = x /\ at(j) \in 1..Len(r) /\ r[at(j)] = y
    BY <1>3
  <2>2. at(i) < at(j)
    BY <1>1, <1>3
  <2> QED
    BY <2>1, <2>2 DEF Precedes
<1> QED
  BY <1>1, <1>4, <1>5 DEF r

(* and whose head the scheduler takes.                                     *)
LEMMA QueueServed ==
  ASSUME NEW S, NEW s \in Seq(S), s # <<>>, NEW x, NEW y
  PROVE  /\ x \in ToSet(s) => x = Head(s) \/ x \in ToSet(Tail(s))
         /\ Precedes(s, x, y) => x = Head(s) \/ Precedes(Tail(s), x, y)
<1> DEFINE r == Tail(s)
<1>1. /\ Len(s) \in Nat /\ Len(s) >= 1
      /\ r \in Seq(S) /\ Len(r) = Len(s) - 1
      /\ \A i \in 1..Len(r) : r[i] = s[i + 1]
      /\ Head(s) = s[1]
  BY HeadTailProperties, MemberPosition
<1> HIDE DEF r
<1>2. ASSUME NEW i \in 1..Len(s), i # 1
      PROVE  i - 1 \in 1..Len(r) /\ r[i - 1] = s[i]
  <2>1. i - 1 \in 1..Len(r) /\ (i - 1) + 1 = i
    BY <1>1, <1>2
  <2>2. r[i - 1] = s[(i - 1) + 1]
    BY <1>1, <2>1
  <2> QED
    BY <2>1, <2>2
<1>3. x \in ToSet(s) => x = Head(s) \/ x \in ToSet(r)
  <2> SUFFICES ASSUME x \in ToSet(s), x # Head(s) PROVE x \in ToSet(r)
    OBVIOUS
  <2>1. PICK i \in 1..Len(s) : s[i] = x
    BY MemberPosition
  <2>2. i - 1 \in 1..Len(r) /\ r[i - 1] = x
    BY <1>1, <1>2, <2>1
  <2> QED
    BY <1>1, <2>2, MemberPosition
<1>4. Precedes(s, x, y) => x = Head(s) \/ Precedes(r, x, y)
  <2> SUFFICES ASSUME NEW i \in 1..Len(s), NEW j \in 1..Len(s), i < j, s[i] = x, s[j] = y,
                      i # 1
               PROVE  Precedes(r, x, y)
    BY <1>1 DEF Precedes
  <2>1. /\ i - 1 \in 1..Len(r) /\ r[i - 1] = x
        /\ j - 1 \in 1..Len(r) /\ r[j - 1] = y /\ i - 1 < j - 1
    BY <1>2
  <2> QED
    BY <2>1 DEF Precedes
<1> QED
  BY <1>3, <1>4 DEF r

(* The ready queue rq after a step that takes nobody from its head: none   *)
(* but a process that dies has left it, and only a tick has woken anybody  *)
(* who waits for the clock.                                                *)
Readied(rq) ==
  \/ /\ \/ rq = readyQue
        \/ \E x \in Pcbs : rq = Append(readyQue, x)
        \/ \E c \in ToSet(readyQue) : c \notin Live' /\ rq = TakenOut(readyQue, c)
     /\ \A p \in Live' : p_semAdd[p] = Clock => p_semAdd'[p] = Clock
  \/ /\ rq = readyQue \o ClockWaiters
     /\ \A p \in Live' : p_semAdd[p] = Clock /\ p_semAdd'[p] # Clock => p \in ToSet(ClockWaiters)

(* The scheduler takes the head of rq, or nobody.                          *)
Served(rq) ==
  \/ readyQue' = rq /\ currentProcess' = currentProcess
  \/ readyQue' = rq /\ currentProcess' = NULL
  \/ rq # <<>> /\ currentProcess' = Head(rq) /\ readyQue' = Tail(rq) /\ ~ran'

(* A step of the running process.                                          *)
LEMMA ProgramReadies ==
  ASSUME IInv, TermInv, Program
  PROVE  \E rq : Readied(rq) /\ Served(rq)
<1>1. /\ cpu = "user" /\ currentProcess \in Live /\ currentProcess \notin ToSet(readyQue)
      /\ p_semAdd[currentProcess] = NULL /\ p_semAdd \in [Pcbs -> AllSems \cup {NULL}]
      /\ readyQue \in Seq(Pcbs) /\ IsInjective(readyQue)
  BY DEF Program, Call, Start, Compute, LeaveLoop, Again, Raise, EndHandler, KernelMode, IInv,
     CurrentApart, TypeOK, OnePlace
<1>2. ran' = (cpu' = "user" /\ currentProcess' = currentProcess)
  BY DEF Program
<1>3. ASSUME UNCHANGED <<readyQue, currentProcess, p_semAdd>>
      PROVE  Readied(readyQue) /\ Served(readyQue)
  BY <1>3 DEF Readied, Served
<1>4. ASSUME NEW n, NEW m, Scheduler(readyQue, n, m, NULL)
      PROVE  Served(readyQue)
  <2>1. CASE readyQue = <<>>
    BY <1>4, <2>1 DEF Scheduler, Served
  <2>2. CASE readyQue # <<>>
    <3>1. Head(readyQue) # currentProcess
      BY <1>1, <2>2, RemoveHead
    <3> QED
      BY <1>2, <1>4, <2>2, <3>1 DEF Scheduler, Served
  <2> QED
    BY <2>1, <2>2
<1>5. ASSUME NEW s, NEW e, P(s, e)
      PROVE  Readied(readyQue) /\ Served(readyQue)
  <2>1. CASE semVal'[s] < 0
    <3>1. Block(s)
      BY <1>5, <2>1 DEF P
    <3>2. \A p \in Live' : p_semAdd[p] = Clock => p_semAdd'[p] = Clock
      BY <1>1, <3>1, FourNames, NullApart DEF Block, Live
    <3>3. Served(readyQue)
      BY <1>4, <3>1 DEF Block
    <3> QED
      BY <3>2, <3>3 DEF Readied
  <2>2. CASE ~(semVal'[s] < 0)
    BY <1>3, <1>5, <2>2 DEF P
  <2> QED
    BY <2>1, <2>2
<1>6. ASSUME NEW s \in Sems, Verhogen(s)
      PROVE  \E rq : Readied(rq) /\ Served(rq)
  <2>1. CASE OwesWakeup(s) /\ procQ[s] # <<>>
    <3>1. /\ Wake(s) /\ readyQue' = Append(readyQue, Head(procQ[s]))
          /\ currentProcess' = currentProcess /\ s \in AllSems /\ s # Clock
      BY <1>6, <2>1, CheckSemaphores, FourNames DEF Verhogen
    <3>2. Head(procQ[s]) \in Live /\ p_semAdd[Head(procQ[s])] = s
      BY <2>1, <3>1, WakeMovesHead
    <3>3. \A p \in Live' : p_semAdd[p] = Clock => p_semAdd'[p] = Clock
      BY <1>1, <3>1, <3>2 DEF Wake, Live
    <3> QED
      BY <3>1, <3>2, <3>3 DEF Readied, Served, Live
  <2>2. CASE ~(OwesWakeup(s) /\ procQ[s] # <<>>)
    BY <1>3, <1>6, <2>2 DEF Verhogen
  <2> QED
    BY <2>1, <2>2
<1>7. CASE Call
  <2>1. CASE \/ Instr.do = "SYS2" /\ TerminateProcess
             \/ Instr.do = "SYS5" /\ \E t \in Traps : SpecifyExceptionStateVector(t)
             \/ Instr.do = "start" /\ StartIO(32)
    BY <1>3, <2>1 DEF TerminateProcess, SpecifyExceptionStateVector, StartIO, StartKill, semVars,
       cpuVars, Return
  <2> QED
    BY <1>5, <1>6, <1>7, <2>1 DEF Call, Passeren, WaitForClock, WaitForIODevice
<1>8. CASE Start
  <2>1. CASE pcbFree = {}
    BY <1>3, <1>8, <2>1 DEF Start, CreateFails, semVars
  <2>2. CASE pcbFree # {}
    <3>1. PICK p \in pcbFree : CreateProcess(p)
      BY <1>8, <2>2 DEF Start
    <3>2. p \in Pcbs
      BY <3>1 DEF IInv, TypeOK
    <3> QED
      BY <3>1, <3>2 DEF CreateProcess, semVars, Readied, Served
  <2> QED
    BY <2>1, <2>2
<1>9. CASE Compute \/ LeaveLoop \/ Again
  BY <1>3, <1>9 DEF Compute, LeaveLoop, Again, vars, semVars, cpuVars
<1>10. CASE Raise \/ EndHandler
  BY <1>3, <1>10 DEF Raise, Exception, PassUpOrDie, StartKill, EndHandler,
       ProgramLDST, LoadState, semVars
<1> QED
  BY <1>7, <1>8, <1>9, <1>10 DEF Program

(* A step of a termination.                                                *)
LEMMA KillingReadies ==
  ASSUME IInv, TermInv, Stands, Going, Killing, [P2Next]_p2vars
  PROVE  \E rq : Readied(rq) /\ Served(rq)
<1>1. cpu = "kill" /\ ran' = FALSE
  BY DEF Killing, KillChild, KillLeaf, KillMissing
<1>2. CASE KillChild
  BY <1>2 DEF KillChild, cpuVars, semVars, Readied, Served
<1>3. CASE KillMissing
  BY <1>3, VictimIsFound DEF KillMissing
<1>4. CASE KillLeaf
  <2> DEFINE rq == ReadyAfter(Victim)
  <2>1. /\ Victim \notin Live' /\ Found(Victim)
        /\ p_semAdd' = [p_semAdd EXCEPT ![Victim] = NULL]
    BY <1>4 DEF KillLeaf, Clean, Live
  <2>2. \/ rq = readyQue
        \/ Victim \in ToSet(readyQue) /\ rq = TakenOut(readyQue, Victim)
    BY <2>1 DEF ReadyAfter, Found
  <2>3. \A p \in Live' : p_semAdd[p] = Clock => p_semAdd'[p] = Clock
    BY <2>1 DEF IInv, TypeOK, Live
  <2>4. Readied(rq)
    BY <2>1, <2>2, <2>3 DEF Readied
  <2>5. \/ readyQue' = rq /\ currentProcess' = currentProcess
        \/ \E n, m : Scheduler(rq, n, m, currentProcess)
    BY <1>4 DEF KillLeaf
  <2>6. Served(rq)
    BY <1>1, <2>5 DEF Scheduler, Served
  <2> QED
    BY <2>4, <2>6
<1> QED
  BY <1>2, <1>3, <1>4 DEF Killing

(* An interrupt.                                                           *)
LEMMA InterruptReadies ==
  ASSUME IInv, TermInv, Quantum \/ Tick \/ Device
  PROVE  \E rq : Readied(rq) /\ Served(rq)
<1>1. /\ cpu = "user" => currentProcess \in Live
      /\ currentProcess = NULL => currentProcess \notin Live
      /\ waitFlag = 1 => currentProcess \notin Live
      /\ currentProcess \in Pcbs \cup {NULL}
      /\ p_semAdd \in [Pcbs -> AllSems \cup {NULL}] /\ procQ \in [AllSems -> Seq(Pcbs)]
  BY NullApart DEF IInv, CurrentApart, WaitFlagRight, TypeOK, Live
<1>2. ASSUME NEW rq, NEW n, NEW m, Scheduler(rq, n, m, currentProcess), ~ran'
      PROVE  Served(rq)
  BY <1>2 DEF Scheduler, Served
<1>3. CASE Quantum
  <2>1. CASE cpu = "user"
    <3>1. /\ Scheduler(Append(readyQue, currentProcess), processCount, softBlockCount, NULL)
          /\ UNCHANGED p_semAdd /\ ~ran' /\ currentProcess \in Pcbs
      BY <1>1, <1>3, <2>1 DEF Quantum, TimerInterrupt, semVars, Live
    <3> QED
      BY <3>1 DEF Scheduler, Readied, Served
  <2>2. CASE cpu # "user"
    BY <1>3, <2>2 DEF Quantum, TimerInterrupt, semVars, Readied, Served
  <2> QED
    BY <2>1, <2>2
<1>4. CASE Tick
  <2> DEFINE rq == readyQue \o ClockWaiters
  <2>1. /\ p_semAdd' = [p \in Pcbs |-> IF p \in ToSet(ClockWaiters) THEN NULL ELSE p_semAdd[p]]
        /\ ran' = (ran /\ cpu = "user")
        /\ \/ readyQue' = rq /\ currentProcess' = currentProcess
           \/ currentProcess = NULL /\ \E n, m : Scheduler(rq, n, m, currentProcess)
    BY <1>4 DEF Tick, ClockInterrupt
  <2>2. Readied(rq)
    BY <2>1 DEF Readied, Live
  <2>3. Served(rq)
    <3>1. CASE currentProcess = NULL
      BY <1>1, <1>2, <2>1, <3>1 DEF Served
    <3> QED
      BY <2>1, <3>1 DEF Served
  <2> QED
    BY <2>2, <2>3
<1>5. CASE Device
  <2>1. CASE DeviceDone(32)
    BY <2>1 DEF DeviceDone, cpuVars, semVars, Readied, Served
  <2>2. CASE DeviceInterrupt(32)
    <3>1. SemOf(32) = 32 /\ 32 \in AllSems /\ 32 # Clock
      BY <2>2, DeviceSems, TerminalNames, NeverTheReceiver DEF DeviceInterrupt
    <3>2. CASE OwesWakeup(32) /\ procQ[32] # <<>>
      <4> DEFINE h == Head(procQ[32])
                 rq == Append(readyQue, h)
      <4>1. /\ Wake(32)
            /\ IF waitFlag = 1
               THEN \E n, m : Scheduler(rq, n, m, currentProcess)
               ELSE readyQue' = rq /\ currentProcess' = currentProcess
        BY <2>2, <3>1, <3>2 DEF DeviceInterrupt
      <4>2. /\ h \in Live /\ h \in Pcbs /\ p_semAdd[h] = 32
            /\ p_semAdd' = [p_semAdd EXCEPT ![h] = NULL]
        BY <3>1, <3>2, <4>1, WakeMovesHead DEF Live
      <4> HIDE DEF h
      <4>3. \A p \in Live' : p_semAdd[p] = Clock => p_semAdd'[p] = Clock
        BY <1>1, <3>1, <4>2 DEF Live
      <4>4. Readied(rq)
        BY <4>2, <4>3 DEF Readied
      <4>5. waitFlag = 1 => ~ran'
        BY <1>1, <1>5 DEF Device
      <4>6. Served(rq)
        BY <1>2, <4>1, <4>5 DEF Served
      <4> QED
        BY <4>4, <4>6
    <3>3. CASE ~(OwesWakeup(32) /\ procQ[32] # <<>>)
      BY <2>2, <3>1, <3>3 DEF DeviceInterrupt, Readied, Served
    <3> QED
      BY <3>2, <3>3
  <2> QED
    BY <1>5, <2>1, <2>2 DEF Device
<1> QED
  BY <1>3, <1>4, <1>5

(* Any step.                                                               *)
LEMMA StepReadies ==
  ASSUME IInv, TermInv, [P2Next]_p2vars, Stands, Going
  PROVE  \E rq : Readied(rq) /\ Served(rq)
<1>1. CASE Faulting
  <2>1. cpu = "trap" /\ currentProcess # NULL
    BY <1>1 DEF Faulting, KernelTrap
  <2> QED
    BY <2>1 DEF Going, Sound
<1>2. CASE UNCHANGED p2vars
  BY <1>2 DEF p2vars, vars, cpuVars, semVars, Readied, Served
<1> QED
  BY <1>1, <1>2, ProgramReadies, KillingReadies, InterruptReadies DEF P2Next

(* Whoever will run before p still will, or runs.                          *)
LEMMA FirstStays ==
  ASSUME IInv, TermInv, [P2Next]_p2vars, Stands, Going,
         NEW q \in Live', q \in ToSet(readyQue), NEW p \in Live', First(q, p), q # currentProcess
  PROVE  \/ q = currentProcess' /\ ~ran'
         \/ q \in ToSet(readyQue)' /\ (p_semAdd'[p] = Clock \/ Ahead(q, p)')
<1>1. PICK rq : Readied(rq) /\ Served(rq)
  BY StepReadies
<1>2. readyQue \in Seq(Pcbs) /\ procQ \in [AllSems -> Seq(Pcbs)] /\ Clock \in AllSems
      /\ q \in Pcbs /\ p \in Pcbs
  BY DeviceSems DEF IInv, TypeOK, Live
<1>3. ClockWaiters \in Seq(Pcbs)
  BY <1>2, EmptySeq DEF ClockWaiters
<1>4. p_semAdd[p] = Clock \/ Precedes(readyQue, q, p)
  BY DEF First, Ahead
<1>5. q \in ToSet(rq) /\ (p_semAdd'[p] = Clock \/ Precedes(rq, q, p)) /\ rq \in Seq(Pcbs)
  <2>1. ASSUME p_semAdd[p] = Clock => p_semAdd'[p] = Clock, rq = readyQue
        PROVE  q \in ToSet(rq) /\ (p_semAdd'[p] = Clock \/ Precedes(rq, q, p)) /\ rq \in Seq(Pcbs)
    BY <1>2, <1>4, <2>1
  <2>2. ASSUME p_semAdd[p] = Clock => p_semAdd'[p] = Clock,
               NEW x \in Pcbs, rq = Append(readyQue, x)
        PROVE  q \in ToSet(rq) /\ (p_semAdd'[p] = Clock \/ Precedes(rq, q, p)) /\ rq \in Seq(Pcbs)
    BY <1>2, <1>4, <2>2, QueueAppended
  <2>3. ASSUME p_semAdd[p] = Clock => p_semAdd'[p] = Clock,
               NEW c \in ToSet(readyQue), c \notin Live', rq = TakenOut(readyQue, c)
        PROVE  q \in ToSet(rq) /\ (p_semAdd'[p] = Clock \/ Precedes(rq, q, p)) /\ rq \in Seq(Pcbs)
    <3>1. q # c /\ p # c
      BY <2>3
    <3> QED
      BY <1>2, <1>4, <2>3, <3>1, QueueLeft
  <2>4. ASSUME rq = readyQue \o ClockWaiters,
               p_semAdd[p] = Clock /\ p_semAdd'[p] # Clock => p \in ToSet(ClockWaiters)
        PROVE  q \in ToSet(rq) /\ (p_semAdd'[p] = Clock \/ Precedes(rq, q, p)) /\ rq \in Seq(Pcbs)
    BY <1>2, <1>3, <1>4, <2>4, QueueJoined
  <2> QED
    BY <1>1, <2>1, <2>2, <2>3, <2>4 DEF Readied
<1>6. CASE readyQue' = rq
  BY <1>5, <1>6 DEF Ahead
<1>7. CASE rq # <<>> /\ currentProcess' = Head(rq) /\ readyQue' = Tail(rq) /\ ~ran'
  <2>1. q = Head(rq) \/ q \in ToSet(Tail(rq))
    BY <1>5, <1>7, QueueServed
  <2>2. Precedes(rq, q, p) => q = Head(rq) \/ Precedes(Tail(rq), q, p)
    BY <1>5, <1>7, QueueServed
  <2> QED
    BY <1>5, <1>7, <2>1, <2>2 DEF Ahead
<1> QED
  BY <1>1, <1>6, <1>7 DEF Served

(* An incarnation of p4 that has ended waits for nothing.                  *)
LEMMA EndedFree ==
  ASSUME IInv, TermInv, Stands, NEW q, Ended(q)
  PROVE  q \in Live /\ q \in Pcbs /\ q \in Fours /\ p_s[q].prog = "p4" /\ p_semAdd[q] = NULL
<1>1. q \in Live /\ q \in Pcbs /\ q \in Fours /\ p_s[q].prog = "p4" /\ p_s[q].at >= 15
  BY DEF Ended, Passed, Fours, Of, Live
<1>2. Len(Code["p4"]) = 16
  BY FourInPlace DEF InPlace, Code
<1>3. p_s[q].at \in {15, 16}
  <2>1. p_s[q].at \in 1..Len(Code["p4"])
    BY <1>1, AllPlaced DEF States
  <2> QED
    BY <1>1, <1>2, <2>1
<1>4. ASSUME p_semAdd[q] # NULL
      PROVE  FALSE
  <2>1. Placed("p4", p_s[q].at - 1, Before(p_s[q]))
    BY <1>1, <1>4, WaitersStand
  <2>2. Wait(p_semAdd[q]).do = "P"
    BY DEF Wait, I
  <2>3. Before(p_s[q]).do \in {"P", "SYS7", "SYS8"}
    BY <1>1, <1>4, <2>2, WaitersStand
  <2>4. CASE p_s[q].at = 15
    BY <2>1, <2>3, <2>4 DEF Placed, V, I
  <2>5. CASE p_s[q].at = 16
    BY <2>1, <2>3, <2>5 DEF Placed
  <2> QED
    BY <1>3, <2>4, <2>5
<1> QED
  BY <1>1, <1>4

(* While p5 waits the only one that has passed blkp4 has ended.            *)
LEMMA PassedEnds ==
  ASSUME Going, NEW p \in Pcbs, Mid(p), NEW q, Passed(q)
  PROVE  Ended(q)
<1>1. q \in Fours
  BY DEF Passed
<1>2. PICK r \in Pcbs : Ended(r)
  BY <1>1 DEF Going, End, Done
<1>3. Passed(r) /\ r \in Fours
  BY <1>2 DEF Ended, Passed
<1> QED
  BY <1>1, <1>2, <1>3 DEF Going, Pair, Apart

(* The incarnation that has ended goes on until it is dead.                *)
LEMMA EndedRuns ==
  ASSUME IInv, TermInv, ErrInv, [P2Next]_p2vars, Kernel, Stands, Going,
         NEW q \in Live', Ended(q), q = currentProcess, cpu = "user" => ~ran
  PROVE  q = currentProcess' /\ (cpu' = "user" => ~ran')
<1>1. q \in Live /\ q \in Fours /\ p_s[q].prog = "p4" /\ p_semAdd[q] = NULL /\ q # NULL
  BY EndedFree, NullApart
<1>2. CASE cpu = "kill"
  <2>1. ~CurrentDies
    BY DEF CurrentDies, Live
  <2>2. cpu' = "kill" /\ currentProcess' = currentProcess
    BY <1>2, <2>1, KillSteps DEF KillsChild, ChildDies
  <2> QED
    BY <2>2
<1>3. CASE cpu = "user"
  <2>1. /\ p_s[q] \in States /\ Instr = Does(p_s[q])
        /\ Placed("p4", p_s[q].at, Instr) /\ ~p_s[q].user
    BY <1>1, <1>3, RunsPlaced DEF Kernel, P5s
  <2>2. p_s[q].at = 15
    <3>1. Instr.do # "error"
      BY <1>1, <1>3, <2>1, FourNames, CheckSemaphores DEF ErrInv, Doomed
    <3> QED
      BY <1>1, <2>1, <3>1, FourEnds DEF Ended
  <2>3. Instr.do = "SYS2"
    BY <2>1, <2>2 DEF Placed
  <2>4. ASSUME Program
        PROVE  cpu' = "kill" /\ currentProcess' = currentProcess
    <3>1. Call
      BY <2>1, <2>3, <2>4 DEF Program, Start, Compute, LeaveLoop, Again, Raise, EndHandler
    <3> QED
      BY <2>3, <3>1 DEF Call, TerminateProcess, StartKill
  <2>5. ASSUME Tick
        PROVE  currentProcess' = currentProcess /\ ~ran'
    BY <1>1, <2>5, <1>3 DEF Tick, ClockInterrupt
  <2>6. ASSUME Device
        PROVE  currentProcess' = currentProcess /\ ~ran'
    <3>1. waitFlag # 1
      BY <1>1 DEF IInv, WaitFlagRight
    <3>2. ~ran'
      BY <2>6, <1>3 DEF Device
    <3>3. DeviceDone(32) \/ DeviceInterrupt(32)
      BY <2>6 DEF Device
    <3>4. ASSUME DeviceInterrupt(32)
          PROVE  currentProcess' = currentProcess
      <4> DEFINE s == SemOf(32)
                 rq == Append(readyQue, Head(procQ[s]))
      <4>1. \/ waitFlag = 1
            \/ UNCHANGED currentProcess
        BY <3>4 DEF DeviceInterrupt
      <4> QED
        BY <3>1, <4>1
    <3> QED
      BY <3>2, <3>3, <3>4 DEF DeviceDone, cpuVars
  <2>7. ASSUME UNCHANGED p2vars
        PROVE  currentProcess' = currentProcess /\ ~ran'
    BY <2>7, <1>3 DEF p2vars, vars, cpuVars
  <2>8. ~Killing /\ ~Faulting /\ ~Quantum
    BY <1>3 DEF Killing, KillChild, KillLeaf, KillMissing, Faulting, KernelTrap, Quantum
  <2> QED
    BY <2>4, <2>5, <2>6, <2>7, <2>8 DEF P2Next
<1>4. CASE cpu \notin {"kill", "user"}
  <2>1. cpu \notin {"trap", "wait"}
    BY <1>1 DEF Going, Sound, IInv, WaitFlagRight
  <2>2. DeviceDone(32) \/ UNCHANGED p2vars
    BY <1>4, <2>1 DEF P2Next, Program, Call, Start, Compute, LeaveLoop, Again, Raise, EndHandler,
       KernelMode, Killing, KillChild, KillLeaf, KillMissing, Faulting, KernelTrap, Quantum,
       TimerInterrupt, Tick, ClockInterrupt, Device, DeviceInterrupt, Interruptible
  <2>3. cpu' = cpu /\ currentProcess' = currentProcess
    BY <2>2 DEF DeviceDone, p2vars, vars, cpuVars
  <2> QED
    BY <1>4, <2>3
<1> QED
  BY <1>2, <1>3, <1>4

(* What has ended stays before p5 while that waits for the clock,          *)
LEMMA OrderWaits ==
  ASSUME IInv, IInv', TermInv, ErrInv, [P2Next]_p2vars, Kernel, Stands, Going,
         NEW p \in Pcbs, Mid(p), Mid(p)', p_s[p].at = 4, NEW q, Passed(q)'
  PROVE  First(q, p)'
<1>1. p \in Live' /\ q \in Live'
  BY DEF Mid, Passed, Fours, Of
<1>2. Shut(blkp4)
  BY DEF Going, Blk
<1>3. Passed(q)
  BY <1>2, NobodyPasses
<1>4. Ended(q) /\ q \in Live /\ q \in Pcbs
  BY <1>3, PassedEnds, EndedFree
<1>5. First(q, p)
  BY <1>3, <1>4 DEF Going, Order
<1>6. CASE q = currentProcess
  <2>1. q \notin ToSet(readyQue)
    BY <1>4, <1>6 DEF IInv, CurrentApart
  <2>2. cpu = "user" => ~ran
    BY <1>5, <2>1 DEF First
  <2> QED
    BY <1>1, <1>4, <1>6, <2>2, EndedRuns DEF First
<1>7. CASE q # currentProcess
  <2>1. q \in ToSet(readyQue)
    BY <1>5, <1>7 DEF First
  <2>2. \/ q = currentProcess' /\ ~ran'
        \/ q \in ToSet(readyQue)' /\ (p_semAdd'[p] = Clock \/ Ahead(q, p)')
    BY <1>1, <1>5, <1>7, <2>1, FirstStays
  <2> QED
    BY <2>2 DEF First
<1> QED
  BY <1>6, <1>7

(* p5's call for the clock blocks it.                                      *)
LEMMA ClockCall ==
  ASSUME IInv, IInv', TermInv, [P2Next]_p2vars, Timed, NEW p, Advances(p), Instr.do = "SYS7"
  PROVE  Block(Clock) /\ ran' = (cpu' = "user" /\ currentProcess' = currentProcess)
<1>1. /\ p = currentProcess /\ p \in Live /\ p \in Pcbs /\ cpu = "user"
      /\ p_s[p] \in States /\ p_s'[p].prog = p_s[p].prog /\ p_s'[p].at = p_s[p].at + 1
      /\ p_s[p].at \in Nat
  BY Advanced, AllPlaced DEF Live
<1>2. p_s' # p_s
  BY <1>1
<1>3. Program
  BY <1>1, <1>2 DEF P2Next, Killing, KillChild, KillLeaf, KillMissing, Faulting, KernelTrap,
     Quantum, Tick, Device, testVars, p2vars
<1>4. ~Raise
  <2> SUFFICES ASSUME Raise PROVE FALSE
    OBVIOUS
  <2>1. Handled("Pgm", "reserved")
    BY DEF Raise
  <2>2. p_s' = [p_s EXCEPT ![currentProcess] = At("p5prog", FALSE)]
    BY <1>2, <2>1 DEF Handled
  <2>3. p_s'[p].at = 1
    BY <1>1, <2>2 DEF TermInv, At
  <2>4. p_s[p].at # 0
    BY <1>1, AllPlaced
  <2> QED
    BY <1>1, <2>3, <2>4
<1>5. Call
  BY <1>3, <1>4 DEF Program, Start, Compute, LeaveLoop, Again, EndHandler
<1>6. P(Clock, TRUE)
  BY <1>5 DEF Call, WaitForClock
<1>7. semVal'[Clock] < 0
  <2>1. /\ Clock \in AllSems /\ semVal \in [AllSems -> Int] /\ procQ \in [AllSems -> Seq(Pcbs)]
    BY DeviceSems DEF IInv, TypeOK
  <2>2. Len(procQ[Clock]) \in Nat
    BY <2>1, LenProperties
  <2>3. semVal'[Clock] = semVal[Clock] - 1
    BY <1>6, <2>1 DEF P
  <2> QED
    BY <2>1, <2>2, <2>3 DEF Timed
<1> QED
  BY <1>3, <1>6, <1>7 DEF P, Program

(* and when it begins to,                                                  *)
LEMMA OrderBegins ==
  ASSUME IInv, IInv', TermInv, ErrInv, [P2Next]_p2vars, Stands, Timed, Going,
         NEW p \in Pcbs, Mid(p), Advances(p), p_s[p].at = 3, NEW q, Passed(q)'
  PROVE  First(q, p)'
<1>1. p = currentProcess /\ p \in Live /\ p_s[p].prog = "p5b"
  BY DEF Mid, Advances
<1>2. Instr.do = "SYS7"
  BY <1>1, Advanced DEF Placed
<1>3. Block(Clock) /\ ran' = (cpu' = "user" /\ currentProcess' = currentProcess)
  BY <1>2, ClockCall
<1>4. p_semAdd'[p] = Clock
  BY <1>1, <1>3 DEF Block, IInv, TypeOK
<1>5. Ended(q)
  <2>1. Shut(blkp4)
    BY DEF Going, Blk
  <2> QED
    BY <2>1, NobodyPasses, PassedEnds
<1>6. q \in Live /\ p_semAdd[q] = NULL /\ q # p
  BY <1>1, <1>5, EndedFree
<1>7. q \in ToSet(readyQue)
  BY <1>1, <1>6 DEF IInv, NobodyForgotten, Blocked
<1>8. readyQue # <<>> /\ readyQue \in Seq(Pcbs)
  BY <1>7, EmptyQueue DEF IInv, TypeOK
<1>9. currentProcess' = Head(readyQue) /\ readyQue' = Tail(readyQue)
  BY <1>3, <1>8 DEF Block, Scheduler
<1>10. q = Head(readyQue) \/ q \in ToSet(Tail(readyQue))
  BY <1>7, <1>8, QueueServed
<1>11. CASE q = Head(readyQue)
  <2>1. currentProcess' = q /\ currentProcess' # currentProcess
    BY <1>1, <1>6, <1>9, <1>11
  <2>2. ~ran'
    BY <1>3, <2>1
  <2> QED
    BY <2>1, <2>2 DEF First
<1>12. CASE q \in ToSet(Tail(readyQue))
  BY <1>4, <1>9, <1>12 DEF First
<1> QED
  BY <1>10, <1>11, <1>12

(* and is dead when p5 goes on.                                            *)
LEMMA OrderEnds ==
  ASSUME IInv, IInv', TermInv, ErrInv, [P2Next]_p2vars, Stands, Going,
         NEW p \in Pcbs, Mid(p), Mid(p)', p_s'[p].at \in {5, 6}
  PROVE  Fours = {} /\ Fours' = {}
<1>1. p \in Live /\ p \in Fives /\ p_s[p].prog = "p5b" /\ p_s[p].at \in Nat
  BY AllPlaced DEF Mid, Fives, P5s
<1>2. p_s[p].at \in {5, 6} \/ (Advances(p) /\ p_s[p].at = 4)
  BY <1>1, MidWas
<1>3. Fours = {}
  <2>1. CASE p_s[p].at \in {5, 6}
    BY <2>1 DEF Going, Order
  <2>2. CASE Advances(p) /\ p_s[p].at = 4
    <3>1. p = currentProcess /\ p_semAdd[p] = NULL
      BY <2>2, Advanced
    <3>2. p \notin ToSet(readyQue)
      BY <1>1, <3>1 DEF IInv, CurrentApart
    <3>3. ASSUME NEW q \in Pcbs, Passed(q)
          PROVE  FALSE
      <4>1. First(q, p)
        BY <2>2, <3>3 DEF Going, Order
      <4>2. ~Precedes(readyQue, q, p)
        <5>1. \A i \in 1..Len(readyQue) : readyQue[i] \in ToSet(readyQue)
          BY MemberPosition DEF IInv, TypeOK
        <5> QED
          BY <3>2, <5>1 DEF Precedes
      <4>3. p_semAdd[p] # Clock
        BY <3>1, FourNames, NullApart
      <4>4. q = p
        BY <3>1, <4>1, <4>2, <4>3 DEF First, Ahead
      <4> QED
        BY <1>1, <3>3, <4>4 DEF Passed, Fours, Of
    <3> QED
      BY <3>3 DEF Going, End, Done, Ended
  <2> QED
    BY <1>2, <2>1, <2>2
<1>4. ASSUME NEW q \in Fours'
      PROVE  FALSE
  BY <1>1, <1>3, <1>4, NewFour
<1> QED
  BY <1>3, <1>4

(* p5's V finds nobody who waits for blkp4, and nobody has made a V on it. *)
LEMMA OrderValue ==
  ASSUME IInv, IInv', TermInv, ErrInv, [P2Next]_p2vars, Stands, Going,
         NEW p \in Pcbs, Mid(p), Mid(p)', p_s'[p].at = 6
  PROVE  semVal'[blkp4] = 1
<1>1. p \in Live /\ p_s[p].prog = "p5b" /\ p_s[p].at \in Nat
  BY AllPlaced DEF Mid
<1>2. Fours = {}
  BY OrderEnds
<1>3. /\ semVal \in [AllSems -> Int] /\ procQ \in [AllSems -> Seq(Pcbs)]
      /\ blkp4 \in Sems /\ blkp4 \in AllSems
  BY FourNames DEF IInv, TypeOK
<1>4. CASE p_s[p].at = 6
  <2>1. semVal[blkp4] = 1
    BY <1>4 DEF Going, Order
  <2>2. ~(cpu = "user" /\ Instr = V(blkp4))
    <3> SUFFICES ASSUME cpu = "user", Instr = V(blkp4) PROVE FALSE
      OBVIOUS
    <3>1. p = currentProcess /\ p_s[p].at = 5
      BY <1>1, BlkOpens, OneFifth
    <3> QED
      BY <1>4, <3>1
  <2>3. ~(cpu = "user" /\ Instr = Wait(blkp4))
    <3> SUFFICES ASSUME cpu = "user", Instr = Wait(blkp4) PROVE FALSE
      OBVIOUS
    <3> PICK c \in Live : c = currentProcess
      BY RunsPlaced
    <3>1. c \in Fours \/ (c \in Ones /\ p_s[c].at = 29)
      BY RunsPlaced DEF Placed, Fours, Ones, Of
    <3> QED
      BY <1>2, <3>1 DEF Going, Main
  <2>4. Untouched(blkp4)
    BY <1>3, <2>2, <2>3, StepOnSemaphore
  <2>5. \A q \in Live : p_semAdd[q] # blkp4
    BY <1>2 DEF Going, Sound
  <2> QED
    BY <2>1, <2>4, <2>5 DEF Untouched
<1>5. CASE Advances(p) /\ p_s[p].at = 5
  <2>1. Instr = V(blkp4) /\ Verhogen(blkp4)
    <3>1. Instr = V(blkp4)
      BY <1>1, <1>5, Advanced DEF Placed
    <3>2. Instr.do = "V" /\ Instr.arg = blkp4
      BY <3>1 DEF V, I
    <3> QED
      BY <1>5, <3>1, <3>2 DEF Advances
  <2>2. semVal'[blkp4] = semVal[blkp4] + 1
    BY <1>3, <2>1 DEF Verhogen
  <2>3. Len(procQ[blkp4]) = 0
    <3>1. ToSet(procQ[blkp4]) = {}
      BY <1>2, <1>3 DEF IInv, OnePlace, Going, Sound
    <3>2. procQ[blkp4] = <<>>
      BY <1>3, <3>1, MemberPosition
    <3> QED
      BY <3>2
  <2>4. semVal[blkp4] >= 0
    BY <1>3, <2>3 DEF Going, Sound, Kept
  <2>5. ~(semVal[blkp4] > 0)
    <3>1. Shut(blkp4)
      BY <1>5 DEF Going, Blk
    <3> QED
      BY <1>3, <3>1, ShutValue
  <2> QED
    BY <1>3, <2>2, <2>4, <2>5
<1> QED
  BY <1>1, <1>4, <1>5, MidWas

(* So the order is kept.                                                   *)
LEMMA OrderKept ==
  ASSUME IInv, IInv', TermInv, ErrInv, [P2Next]_p2vars, Kernel, Stands, Timed, Going
  PROVE  Order'
<1> SUFFICES ASSUME NEW p \in Pcbs, Mid(p)'
             PROVE  /\ p_s'[p].at = 4 => \A q \in Pcbs : Passed(q)' => First(q, p)'
                    /\ p_s'[p].at \in {5, 6} => Fours' = {}
                    /\ p_s'[p].at = 6 => semVal'[blkp4] = 1
  BY DEF Order
<1>1. p_s[p].at \in Nat
  BY AllPlaced
<1>2. CASE p_s'[p].at = 4
  <2>1. Mid(p) /\ (p_s[p].at = 4 \/ (Advances(p) /\ p_s[p].at = 3))
    BY <1>1, <1>2, MidWas
  <2> QED
    BY <1>2, <2>1, OrderWaits, OrderBegins
<1>3. CASE p_s'[p].at \in {5, 6}
  <2>1. Mid(p)
    BY <1>1, <1>3, MidWas
  <2> QED
    BY <1>3, <2>1, OrderEnds, OrderValue
<1> QED
  BY <1>2, <1>3

(* Every step of the test keeps the invariant of p4 and p5.                *)
THEOREM NextFourInv == IInv /\ TermInv /\ ErrInv /\ FourInv /\ [P2Next]_p2vars => FourInv'
<1> SUFFICES ASSUME IInv, TermInv, ErrInv, FourInv, [P2Next]_p2vars PROVE FourInv'
  OBVIOUS
<1>1. IInv'
  BY P2NextIsNext, NextIInv DEF IInv
<1>2. Kernel /\ Stands /\ Timed /\ (Over \/ Going)
  BY DEF FourInv
<1>3. Kernel' /\ Stands' /\ Timed'
  BY <1>1, <1>2, KernelKept, StandsKept, TimedKept
<1>4. CASE Over
  BY <1>1, <1>2, <1>3, <1>4, OverKept DEF FourInv
<1>5. CASE Going /\ Finishes
  BY <1>1, <1>2, <1>3, <1>5, OverBegins DEF FourInv
<1>6. CASE Going /\ ~Finishes
  <2>1. Main' /\ Tree' /\ Sound' /\ Kills'
    BY <1>1, <1>2, <1>6, MainKept, TreeKept, SoundKept, KillsKept
  <2>2. Pair' /\ Syn' /\ Blk' /\ End' /\ Order'
    BY <1>1, <1>2, <1>6, PairKept, SynKept, BlkKept, EndKept, OrderKept
  <2> QED
    BY <1>3, <2>1, <2>2 DEF FourInv, Going
<1> QED
  BY <1>2, <1>4, <1>5, <1>6

(* main() starts p1 alone, with blkp4 open and the other semaphores shut.  *)
THEOREM InitFourInv == P2Init => FourInv
<1> SUFFICES ASSUME P2Init PROVE FourInv
  OBVIOUS
<1>1. /\ Init /\ currentProcess \in Pcbs
      /\ semVal = [sem \in AllSems |-> IF sem \in {term_mut, blkp4} THEN 1 ELSE 0]
      /\ p_s = [p \in Pcbs |-> IF p = currentProcess THEN At("p1", FALSE) ELSE Idle]
  BY DEF P2Init, Init
<1>2. /\ p_semAdd = [p \in Pcbs |-> NULL] /\ p_prnt = [p \in Pcbs |-> NULL]
      /\ procQ = [s \in AllSems |-> <<>>]
      /\ cpu = "user" /\ Live = {currentProcess}
  BY <1>1 DEF Init, Live
<1>3. /\ p_s[currentProcess].prog = "p1" /\ p_s[currentProcess].at = 1
      /\ ~p_s[currentProcess].user
  BY <1>1 DEF At
<1>4. /\ Fours = {} /\ Fives = {} /\ \A p \in Pcbs : ~Mid(p)
  BY <1>2, <1>3 DEF Fours, Fives, Of, P5s, Mid
<1>5. /\ semVal[synp4] = 0 /\ semVal[endp4] = 0 /\ semVal[endp5] = 0 /\ semVal[blkp4] = 1
      /\ semVal[Clock] = 0 /\ semVal[32] = 0
  <2>1. {synp4, endp4, endp5, Clock, 32} \cap {term_mut, blkp4} = {}
    BY FourApart, TerminalNames, FourNames
  <2> QED
    BY <1>1, <2>1, FourNames, DeviceSems
<1>6. ASSUME NEW s \in Sems
      PROVE  Cardinality(Waiting(s)) = 0
  <2>1. Waiting(s) = {}
    BY <1>2, <1>6, CheckSemaphores DEF Waiting, Live
  <2> QED
    BY <2>1, FS_EmptySet
<1>7. /\ Shut(synp4) /\ Shut(endp4) /\ Shut(endp5)
      /\ Single(blkp4) /\ Single(endp4)
  BY <1>5, <1>6, FourNames DEF Shut, Single
<1>8. Timed /\ Kept(32) /\ Kept(blkp4)
  <2>1. procQ[Clock] = <<>> /\ procQ[32] = <<>> /\ procQ[blkp4] = <<>>
    BY <1>2, FourNames, DeviceSems
  <2> QED
    BY <1>5, <2>1 DEF Timed, Kept
<1>9. Kernel /\ Stands
  BY <1>1, <1>2, <1>3 DEF Kernel, Stands
<1>10. Main
  BY <1>2, <1>3, <1>4, <1>7 DEF Main, Ones, Of
<1>11. Tree
  BY <1>1, <1>2, <1>3 DEF Tree
<1>12. Sound /\ Kills
  BY <1>1, <1>2, <1>8, FourNames DEF Sound, Kills
<1>13. Pair /\ Syn /\ Order
  BY <1>4 DEF Pair, Syn, Order
<1>14. Blk /\ End
  BY <1>4, <1>7 DEF Blk, End, Passed
<1> QED
  BY <1>8, <1>9, <1>10, <1>11, <1>12, <1>13, <1>14 DEF FourInv, Going

(* When p5 signals its own end every incarnation of p4 is dead, and none   *)
(* of them is in the queue of blkp4 or has been counted in its value.      *)
THEOREM P2P4Gone == P2Spec => []P4Gone
<1>1. IInv /\ TermInv /\ FourInv => P4Gone
  <2> SUFFICES ASSUME IInv, TermInv, FourInv, NEW p \in Live, InstrOf(p) = V(endp5)
               PROVE  semVal[blkp4] = 1 /\ \A q \in Live : p_s[q].prog # "p4"
    BY DEF P4Gone
  <2>1. p \in Pcbs /\ Stands /\ (Over \/ Going)
    BY DEF Live, FourInv
  <2>2. p_s[p].prog = "p5b" /\ p_s[p].at = 6
    BY <2>1, AllPlaced DEF InstrOf, Does, Placed
  <2>3. Mid(p)
    BY <2>1, <2>2, FourWaits DEF Mid
  <2>4. Order
    BY <2>1, <2>3 DEF Over, Going
  <2> QED
    BY <2>1, <2>2, <2>3, <2>4 DEF Order, Fours, Of
<1>2. P2Init => IInv
  BY P2InitIsInit, InitIInv
<1>3. IInv /\ [P2Next]_p2vars => IInv'
  BY P2NextIsNext, NextIInv DEF IInv
<1> QED
  BY <1>1, <1>2, <1>3, InitTermInv, NextTermInv, InitErrInv, NextErrInv, InitFourInv, NextFourInv,
     PTL DEF P2Spec

=============================================================================
