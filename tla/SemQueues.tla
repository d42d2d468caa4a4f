----------------------------- MODULE SemQueues ------------------------------
(***************************************************************************)
(* What the nucleus takes phase1/asl.c for: a queue of processes for every *)
(* semaphore, without descriptors, and with room for every process.  The   *)
(* queue of a semaphore after outBlocked is the one the code leaves        *)
(* (QueueAfterOut), which is not always the one asl.c promises.            *)
(***************************************************************************)
EXTENDS QueueOps

CONSTANTS Pcbs, Sems, NULL

VARIABLES
  procQ,     \* the queue of each semaphore
  p_semAdd,  \* the semaphore a process waits for, or NULL
  result     \* what the last call returned

vars == <<procQ, p_semAdd, result>>

Init ==
  /\ procQ = [s \in Sems |-> <<>>]
  /\ p_semAdd = [p \in Pcbs |-> NULL]
  /\ result = NULL

(* The answer is FALSE, which is 0: p waits.                               *)
Insert(s, p) ==
  /\ p_semAdd[p] = NULL
  /\ procQ' = [procQ EXCEPT ![s] = Append(@, p)]
  /\ p_semAdd' = [p_semAdd EXCEPT ![p] = s]
  /\ result' = 0

Leave(s, p) ==
  /\ procQ' = [procQ EXCEPT ![s] = QueueAfterOut(@, p)]
  /\ p_semAdd' = [p_semAdd EXCEPT ![p] = NULL]
  /\ result' = p

Fail == result' = NULL /\ UNCHANGED <<procQ, p_semAdd>>

Out(p) ==
  LET s == p_semAdd[p] IN
  /\ s # NULL
  /\ IF p \in ToSet(procQ[s]) THEN Leave(s, p) ELSE Fail

WakeFirst(s) == IF procQ[s] # <<>> THEN Leave(s, Head(procQ[s])) ELSE Fail

Next ==
  \/ \E s \in Sems, p \in Pcbs : Insert(s, p)
  \/ \E p \in Pcbs : Out(p)
  \/ \E s \in Sems : WakeFirst(s)

Spec == Init /\ [][Next]_vars
=============================================================================
