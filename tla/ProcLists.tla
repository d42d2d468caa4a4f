----------------------------- MODULE ProcLists ------------------------------
(***************************************************************************)
(* What phase1/pcb.c promises its callers: process queues first in, first  *)
(* out, a list of children per process, the youngest child first, and a    *)
(* pool of MAXPROC process blocks handed out in the order they were        *)
(* returned.  No pointers: module Pcb has them, and implements this one.   *)
(***************************************************************************)
EXTENDS QueueOps, FiniteSets

CONSTANTS
  Pcbs,    \* the process blocks
  Queues,  \* the process queues other than the pool
  NULL

VARIABLES
  free,      \* the blocks that are not in use, the next one to give first
  queue,     \* the processes of each queue, the head first
  children,  \* the children of each process, the youngest first
  newborn,   \* allocated, and not queued yet by its creator
  orphans,   \* taken out of the tree to be freed
  result     \* what the last call returned, NULL if it returns nothing

vars == <<free, queue, children, newborn, orphans, result>>

MAXPROC == Cardinality(Pcbs)

InUse == Pcbs \ ToSet(free)
Queued == UNION {ToSet(queue[t]) : t \in Queues}
Attached == UNION {ToSet(children[p]) : p \in Pcbs}

Without(q, p) == IF p \in ToSet(q) THEN TakenOut(q, p) ELSE q
HeadOr(q) == IF q = <<>> THEN NULL ELSE Head(q)
-----------------------------------------------------------------------------
Init ==
  /\ free \in {f \in [1..MAXPROC -> Pcbs] : IsInjective(f)}
  /\ queue = [t \in Queues |-> <<>>]
  /\ children = [p \in Pcbs |-> <<>>]
  /\ newborn = {}
  /\ orphans = {}
  /\ result = NULL

Allocate ==
  /\ newborn = {}
  /\ orphans = {}
  /\ result' = HeadOr(free)
  /\ free' = Without(free, result')
  /\ newborn' = newborn \cup ({result'} \ {NULL})
  /\ UNCHANGED <<queue, children, orphans>>

Free(p) ==
  /\ p \in InUse \ (Queued \cup Attached \cup newborn)
  /\ children[p] = <<>>
  /\ free' = Append(free, p)
  /\ orphans' = orphans \ {p}
  /\ result' = NULL
  /\ UNCHANGED <<queue, children, newborn>>

Enqueue(t, p) ==
  /\ orphans = {}
  /\ p \in InUse \ Queued
  /\ p \in newborn /\ InUse # {p} => p \in Attached
  /\ queue' = [queue EXCEPT ![t] = Append(@, p)]
  /\ newborn' = newborn \ {p}
  /\ result' = NULL
  /\ UNCHANGED <<free, children, orphans>>

Dequeue(t) ==
  /\ result' = HeadOr(queue[t])
  /\ queue' = [queue EXCEPT ![t] = Without(@, result')]
  /\ UNCHANGED <<free, children, newborn, orphans>>

Leave(t, p) ==
  /\ result' = IF p \in ToSet(queue[t]) THEN p ELSE NULL
  /\ queue' = [queue EXCEPT ![t] = Without(@, p)]
  /\ UNCHANGED <<free, children, newborn, orphans>>

Adopt(prnt, p) ==
  /\ prnt \in InUse \ (Queued \cup newborn)
  /\ p \in newborn \ Attached
  /\ children' = [children EXCEPT ![prnt] = <<p>> \o @]
  /\ result' = NULL
  /\ UNCHANGED <<free, queue, newborn, orphans>>

Orphan(p) ==
  /\ newborn = {}
  /\ orphans = {}
  /\ p \in InUse \ Queued
  /\ children[p] = <<>>
  /\ result' = IF p \in Attached THEN p ELSE NULL
  /\ children' = [q \in Pcbs |-> Without(children[q], p)]
  /\ orphans' = orphans \cup ({result'} \ {NULL})
  /\ UNCHANGED <<free, queue, newborn>>

OrphanFirst(p) ==
  /\ newborn = {}
  /\ p \in IF orphans = {} THEN InUse \ Queued ELSE orphans
  /\ result' = HeadOr(children[p])
  /\ children' = [children EXCEPT ![p] = Without(@, result')]
  /\ orphans' = orphans \cup ({result'} \ {NULL})
  /\ UNCHANGED <<free, queue, newborn>>

Next ==
  \/ Allocate
  \/ \E p \in Pcbs : Free(p) \/ Orphan(p) \/ OrphanFirst(p)
  \/ \E t \in Queues : Dequeue(t)
  \/ \E t \in Queues, p \in Pcbs : Enqueue(t, p) \/ Leave(t, p)
  \/ \E prnt, p \in Pcbs : Adopt(prnt, p)

Spec == Init /\ [][Next]_vars
=============================================================================
