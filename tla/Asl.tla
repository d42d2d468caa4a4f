-------------------------------- MODULE Asl ---------------------------------
(***************************************************************************)
(* phase1/asl.c: the active semaphore list, a singly linked list of        *)
(* descriptors sorted by the address of their semaphore between two        *)
(* sentinels, and the stack of free descriptors.  The process queue of a   *)
(* descriptor is modelled by value (QueueOps), the rest by its pointers.   *)
(* The callers keep the nucleus's discipline: a process that waits does    *)
(* not wait again, and p_semAdd is reset as soon as a process is returned  *)
(* (exceptions.c:224, interrupts.c:193 and 217, cleanPcb).                 *)
(***************************************************************************)
EXTENDS QueueOps, Walks

CONSTANTS
  Pcbs,    \* the process blocks
  Sems,    \* the addresses of the semaphores in use
  MAXINT   \* the highest address

ASSUME AslAssumption ==
  /\ IsFiniteSet(Pcbs)
  /\ MAXINT \in Nat
  /\ MAXINT > Cardinality(Pcbs) + 2
  /\ Sems \subseteq 1..(MAXINT - 1)

VARIABLES
  semd,        \* semdTable
  semd_h,      \* the head of the list, the sentinel with address 0
  semdFree_h,  \* the top of the stack of free descriptors
  p_semAdd,    \* the address of the semaphore a process waits for
  result       \* what the last call returned

vars == <<semd, semd_h, semdFree_h, p_semAdd, result>>

(* const.h:65 and 70: the null pointer and MAXINT are the same word.       *)
NULL == MAXINT

MAXPROC == Cardinality(Pcbs)

(* semdTable: the sentinels and a descriptor for every process.            *)
Semds == 1..(MAXPROC + 2)

(* The descriptors met by following s_next from d on.                      *)
Chain(d) == Walk([x \in Semds |-> semd[x].s_next], d, NULL)

(* Fault: the search passes the descriptor it looks for.                   *)
FaultSearchSemd(s) ==
  LET list == Chain(semd_h)
      Stops(i) == semd[list[i + 1]].s_semAdd > s
  IN  list[CHOOSE i \in 1..(Len(list) - 1) : Stops(i) /\ \A j \in 1..(i - 1) : ~Stops(j)]

(* The search starts at the sentinel and stops before the first descriptor *)
(* whose address is not below s.                                           *)
SearchSemd(s) ==
  LET list == Chain(semd_h)
      Stops(i) == semd[list[i + 1]].s_semAdd >= s
  IN  list[CHOOSE i \in 1..(Len(list) - 1) : Stops(i) /\ \A j \in 1..(i - 1) : ~Stops(j)]

Following(s) == semd[SearchSemd(s)].s_next
Active(s) == semd[Following(s)].s_semAdd = s
ProcQ(s) == semd[Following(s)].s_procQ
-----------------------------------------------------------------------------
(* initASL pushes the descriptors of the table one after the other and     *)
(* pops the last two for the sentinels.                                    *)
Init ==
  /\ semd_h = MAXPROC + 2
  /\ semdFree_h = IF MAXPROC = 0 THEN NULL ELSE MAXPROC
  /\ semd = [d \in Semds |->
       [s_next |-> IF d \in {1, MAXPROC + 1} THEN NULL ELSE d - 1,
        s_semAdd |-> IF d = MAXPROC + 2 THEN 0 ELSE MAXINT,
        s_procQ |-> <<>>]]
  /\ p_semAdd = [p \in Pcbs |-> NULL]
  /\ result = NULL

(* Fault: allocateSemd keeps the last descriptor of the stack.             *)
FaultNoneFree == semdFree_h = NULL \/ semd[semdFree_h].s_next = NULL

NoneFree == semdFree_h = NULL

(* It answers TRUE (1) when p cannot wait, and FALSE (0) when p does.      *)
InsertBlocked(s, p) ==
  LET parent == SearchSemd(s)
      new == semdFree_h
      blocks == /\ p_semAdd' = [p_semAdd EXCEPT ![p] = s]
                /\ result' = 0
  IN
  /\ p_semAdd[p] = NULL
  /\ \/ /\ Active(s)
        /\ semd' = [semd EXCEPT ![Following(s)].s_procQ = Append(@, p)]
        /\ blocks
        /\ UNCHANGED semdFree_h
     \/ /\ ~Active(s)
        /\ ~NoneFree
        /\ semdFree_h' = semd[new].s_next
        /\ semd' = [semd EXCEPT
             ![new] = [s_next |-> Following(s), s_semAdd |-> s, s_procQ |-> <<p>>],
             ![parent].s_next = new]
        /\ blocks
     \/ /\ ~Active(s)
        /\ NoneFree
        /\ result' = 1
        /\ UNCHANGED <<semd, semdFree_h, p_semAdd>>
  /\ UNCHANGED semd_h

(* freeSemd pushes a clean descriptor on the stack.                        *)
FreedSemd == [s_next |-> semdFree_h, s_semAdd |-> NULL, s_procQ |-> <<>>]

(* Fault: the descriptor of an emptied queue stays in the list.            *)
FaultFreeNothing(p) ==
  LET s == p_semAdd[p] IN
  /\ s # NULL
  /\ Active(s)
  /\ p \in ToSet(ProcQ(s))
  /\ semd' = [semd EXCEPT ![Following(s)].s_procQ = TakenOut(@, p)]
  /\ p_semAdd' = [p_semAdd EXCEPT ![p] = NULL]
  /\ result' = p
  /\ UNCHANGED <<semd_h, semdFree_h>>

(* p leaves the queue of its semaphore; the descriptor goes back to the    *)
(* stack when the process after the head is p.                             *)
OutBlocked(p) ==
  LET s == p_semAdd[p]
      d == Following(s)
      q == ProcQ(s)
  IN
  /\ s # NULL
  /\ IF Active(s) /\ p \in ToSet(q)
     THEN /\ IF AfterHead(q) = p
             THEN /\ semd' = [semd EXCEPT ![SearchSemd(s)].s_next = semd[d].s_next,
                                          ![d] = FreedSemd]
                  /\ semdFree_h' = d
             ELSE /\ semd' = [semd EXCEPT ![d].s_procQ = TakenOut(q, p)]
                  /\ UNCHANGED semdFree_h
          /\ p_semAdd' = [p_semAdd EXCEPT ![p] = NULL]
          /\ result' = p
     ELSE /\ result' = NULL
          /\ UNCHANGED <<semd, semdFree_h, p_semAdd>>
  /\ UNCHANGED semd_h

RemoveBlocked(s) ==
  IF Active(s)
  THEN OutBlocked(Head(ProcQ(s)))
  ELSE result' = NULL /\ UNCHANGED <<semd, semd_h, semdFree_h, p_semAdd>>

Next ==
  \/ \E s \in Sems, p \in Pcbs : InsertBlocked(s, p)
  \/ \E p \in Pcbs : OutBlocked(p)
  \/ \E s \in Sems : RemoveBlocked(s)

Spec == Init /\ [][Next]_vars
-----------------------------------------------------------------------------
(* The list starts at a sentinel with address 0, ends at one with MAXINT,  *)
(* and rises strictly: searchSemd stops at the right place, and a          *)
(* semaphore has one descriptor, so that its waiters are in one queue.     *)
ListSorted ==
  LET list == Chain(semd_h) IN
  /\ semd[Last(list)].s_semAdd = MAXINT
  /\ \A i \in 1..(Len(list) - 1) : semd[list[i]].s_semAdd < semd[list[i + 1]].s_semAdd

(* Every descriptor is in the list or free, once, and one is in use only   *)
(* while a process waits for its semaphore: with MAXPROC + 2 of them there *)
(* is one for every wait, and insertBlocked never returns TRUE.            *)
DescriptorsConserved ==
  LET list == Chain(semd_h)
      all == list \o Chain(semdFree_h)
  IN
  /\ Len(all) = MAXPROC + 2 /\ ToSet(all) = Semds
  /\ \A i \in 2..(Len(list) - 1) :
       LET d == semd[list[i]] IN
       d.s_procQ # <<>> /\ \A p \in ToSet(d.s_procQ) : p_semAdd[p] = d.s_semAdd

Queues == INSTANCE SemQueues WITH
  procQ <- [s \in Sems |-> IF Active(s) THEN ProcQ(s) ELSE <<>>]

(* The nucleus may take the list for a queue per semaphore, as module      *)
(* Nucleus does: descriptors are found, created and freed at the right     *)
(* time, they never run out, and the only trace of them is the queue that  *)
(* outBlocked loses when it frees one too early.                           *)
ImplementsQueues == Queues!Spec
=============================================================================
