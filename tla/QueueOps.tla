------------------------------ MODULE QueueOps ------------------------------
(***************************************************************************)
(* The process queues of phase1/pcb.c seen as sequences of pcbs (head of   *)
(* the queue first), and the two removals the nucleus makes from the       *)
(* middle of a queue.  Module Pcb models the same queues at the level of   *)
(* the pointers.                                                           *)
(***************************************************************************)
EXTENDS Naturals, SequencesExt

(* outProcQ: p leaves q, wherever it stands in it.  The caller has looked   *)
(* whether p is in q: the code returns NULL when it is not.                *)
TakenOut(q, p) ==
  LET i == CHOOSE i \in DOMAIN q : q[i] = p
  IN  RemoveAt(q, i)

(* headProcQ(s_procQ->p_next): the process that follows the head of q,     *)
(* which in a circular queue of one is the head itself.                    *)
AfterHead(q) == IF Len(q) = 1 THEN q[1] ELSE q[2]

(* What outBlocked leaves of the queue of a semaphore descriptor: p leaves *)
(* the queue, and when p is the process after the head the descriptor is   *)
(* freed with everybody who is still in its queue.                         *)
QueueAfterOut(q, p) == IF AfterHead(q) = p THEN <<>> ELSE TakenOut(q, p)
=============================================================================
