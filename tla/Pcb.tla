-------------------------------- MODULE Pcb ---------------------------------
(***************************************************************************)
(* phase1/pcb.c at the level of its pointers: circular doubly linked       *)
(* queues known by their tail, the free list that is one of them, and      *)
(* children linked through p_child, p_sib and p_prevsib.                   *)
(*                                                                         *)
(* A process block is known by its address.  A function that changes       *)
(* links is an operator from the table to the table after its assignments. *)
(* The callers keep the nucleus's discipline: a process is in one queue at *)
(* most; createProcess allocates, adopts and queues without a pause, the   *)
(* first process alone having no parent; a termination takes processes out *)
(* of the tree and goes on until it has freed them, each without children  *)
(* and out of every queue (exceptions.c:23-94, initial.c:60-77).           *)
(***************************************************************************)
EXTENDS Walks

CONSTANTS
  Pcbs,    \* the process blocks of procTable
  Queues,  \* the tail pointers of the callers: readyQue and each s_procQ
  NULL

ASSUME PcbAssumption == IsFiniteSet(Pcbs) /\ Pcbs # {} /\ NULL \notin Pcbs

VARIABLES
  pcb,        \* procTable: the links of each process block
  pcbFree_h,  \* the tail pointer of the free list
  tp,         \* the tail pointer of each queue
  newborn,    \* allocated, and not queued yet by its creator
  orphans,    \* taken out of the tree to be freed
  result      \* what the last call returned, NULL if it returns nothing

vars == <<pcb, pcbFree_h, tp, newborn, orphans, result>>

MAXPROC == Cardinality(Pcbs)
Pointers == Pcbs \cup {NULL}

Links == [p_next : Pointers, p_prev : Pointers, p_prnt : Pointers,
          p_child : Pointers, p_sib : Pointers, p_prevsib : Pointers]

NoLinks == [p_next |-> NULL, p_prev |-> NULL, p_prnt |-> NULL,
            p_child |-> NULL, p_sib |-> NULL, p_prevsib |-> NULL]

(* The queue whose tail is t, the head first: what outProcQ searches.      *)
Ring(m, t) ==
  IF t = NULL THEN <<>>
  ELSE Append(Walk([p \in Pcbs |-> m[p].p_next], m[t].p_next, t), t)

(* The children of p, the first child first.                               *)
Siblings(m, p) == Walk([c \in Pcbs |-> m[c].p_sib], m[p].p_child, NULL)

InUse == Pcbs \ ToSet(Ring(pcb, pcbFree_h))
Queued == UNION {ToSet(Ring(pcb, tp[t])) : t \in Queues}
-----------------------------------------------------------------------------
(* Fault: the old head's p_prev is left alone.                             *)
FaultLinkAtTail(m, t, p) ==
  IF t = NULL
  THEN [m EXCEPT ![p].p_prev = p, ![p].p_next = p]
  ELSE [m EXCEPT ![p].p_next = m[t].p_next, ![t].p_next = p, ![p].p_prev = t]

(* The queue with tail t gets p as its new tail.                           *)
LinkAtTail(m, t, p) ==
  IF t = NULL
  THEN [m EXCEPT ![p].p_prev = p, ![p].p_next = p]
  ELSE [m EXCEPT ![m[t].p_next].p_prev = p,
                 ![p].p_next = m[t].p_next,
                 ![t].p_next = p,
                 ![p].p_prev = t]

(* The neighbours of p in a queue become neighbours; p keeps its links.    *)
Unlink(m, p) ==
  [m EXCEPT ![m[p].p_next].p_prev = m[p].p_prev,
            ![m[p].p_prev].p_next = m[p].p_next]

(* The tail pointer t of a queue after p has left it.                      *)
TailWithout(m, t, p) ==
  IF p # t THEN t
  ELSE IF m[t].p_next = t THEN NULL ELSE m[t].p_prev

HeadOf(t) == IF t = NULL THEN NULL ELSE pcb[t].p_next

(* Fault: the sibling links of the last owner persist.                     *)
FaultCleanPcb(m, p) == [m EXCEPT ![p].p_child = NULL, ![p].p_prnt = NULL]

CleanPcb(m, p) == [m EXCEPT ![p] = NoLinks]

(* Fault: the new first child keeps a link to the one that left.           *)
FaultChildUnlinked(m, p) ==
  IF m[p].p_prevsib = NULL
  THEN [m EXCEPT ![m[p].p_prnt].p_child = m[p].p_sib, ![p].p_prnt = NULL]
  ELSE [m EXCEPT ![m[p].p_prevsib].p_sib = m[p].p_sib, ![p].p_prnt = NULL]

(* outChild for a p that has a parent: an only child, the last, the first  *)
(* or one in the middle.  p loses its parent and keeps its sibling links.  *)
ChildUnlinked(m, p) ==
  LET sib == m[p].p_sib
      prevsib == m[p].p_prevsib
  IN  [CASE sib = NULL /\ prevsib = NULL -> [m EXCEPT ![m[p].p_prnt].p_child = NULL]
         [] sib = NULL /\ prevsib # NULL -> [m EXCEPT ![prevsib].p_sib = NULL]
         [] sib # NULL /\ prevsib = NULL -> [m EXCEPT ![m[p].p_prnt].p_child = sib,
                                                      ![sib].p_prevsib = NULL]
         [] OTHER -> [m EXCEPT ![sib].p_prevsib = prevsib, ![prevsib].p_sib = sib]
       EXCEPT ![p].p_prnt = NULL]
-----------------------------------------------------------------------------
(* initPcbs frees the blocks of the table one after the other; table is    *)
(* the order they have in memory.                                          *)
Init ==
  /\ \E table \in {f \in [1..MAXPROC -> Pcbs] : IsInjective(f)} :
       /\ pcb = [p \in Pcbs |->
                  LET i == CHOOSE i \in 1..MAXPROC : table[i] = p IN
                  [NoLinks EXCEPT
                    !.p_next = table[IF i = MAXPROC THEN 1 ELSE i + 1],
                    !.p_prev = table[IF i = 1 THEN MAXPROC ELSE i - 1]]]
       /\ pcbFree_h = table[MAXPROC]
  /\ tp = [t \in Queues |-> NULL]
  /\ newborn = {}
  /\ orphans = {}
  /\ result = NULL

(* Fault: the head of the free list is taken without a look at its tail.   *)
FaultAllocPcb ==
  LET p == HeadOf(pcbFree_h) IN
  /\ newborn = {}
  /\ orphans = {}
  /\ result' = p
  /\ pcb' = IF p = NULL THEN pcb ELSE CleanPcb(Unlink(pcb, p), p)
  /\ pcbFree_h' = IF p = NULL THEN NULL ELSE TailWithout(pcb, pcbFree_h, p)
  /\ newborn' = newborn \cup {p}
  /\ UNCHANGED <<tp, orphans>>

AllocPcb ==
  LET p == HeadOf(pcbFree_h) IN
  /\ newborn = {}
  /\ orphans = {}
  /\ result' = p
  /\ IF p = NULL
     THEN UNCHANGED <<pcb, pcbFree_h, newborn>>
     ELSE /\ pcb' = CleanPcb(Unlink(pcb, p), p)
          /\ pcbFree_h' = TailWithout(pcb, pcbFree_h, p)
          /\ newborn' = newborn \cup {p}
  /\ UNCHANGED <<tp, orphans>>

(* The caller frees an orphan, or the first process, which has no parent.  *)
FreePcb(p) ==
  /\ p \in InUse \ (Queued \cup newborn)
  /\ pcb[p].p_prnt = NULL
  /\ pcb[p].p_child = NULL
  /\ pcb' = LinkAtTail(CleanPcb(pcb, p), pcbFree_h, p)
  /\ pcbFree_h' = p
  /\ orphans' = orphans \ {p}
  /\ result' = NULL
  /\ UNCHANGED <<tp, newborn>>

InsertProcQ(t, p) ==
  /\ orphans = {}
  /\ p \in InUse \ Queued
  /\ p \in newborn /\ InUse # {p} => pcb[p].p_prnt # NULL
  /\ pcb' = LinkAtTail(pcb, tp[t], p)
  /\ tp' = [tp EXCEPT ![t] = p]
  /\ newborn' = newborn \ {p}
  /\ result' = NULL
  /\ UNCHANGED <<pcbFree_h, orphans>>

(* p may be anywhere in the queue, or not in it: the error the code        *)
(* answers with NULL.                                                      *)
OutProcQ(t, p) ==
  /\ p \in InUse
  /\ IF p \in ToSet(Ring(pcb, tp[t]))
     THEN /\ result' = p
          /\ pcb' = Unlink(pcb, p)
          /\ tp' = [tp EXCEPT ![t] = TailWithout(pcb, @, p)]
     ELSE /\ result' = NULL
          /\ UNCHANGED <<pcb, tp>>
  /\ UNCHANGED <<pcbFree_h, newborn, orphans>>

RemoveProcQ(t) ==
  IF tp[t] = NULL
  THEN result' = NULL /\ UNCHANGED <<pcb, pcbFree_h, tp, newborn, orphans>>
  ELSE OutProcQ(t, HeadOf(tp[t]))

InsertChild(prnt, p) ==
  /\ prnt \in InUse \ (Queued \cup newborn)
  /\ p \in newborn
  /\ pcb[p].p_prnt = NULL
  /\ LET first == pcb[prnt].p_child IN
     pcb' = IF first = NULL
            THEN [pcb EXCEPT ![prnt].p_child = p, ![p].p_prnt = prnt]
            ELSE [pcb EXCEPT ![first].p_prevsib = p,
                             ![p].p_sib = first,
                             ![p].p_prnt = prnt,
                             ![prnt].p_child = p]
  /\ result' = NULL
  /\ UNCHANGED <<pcbFree_h, tp, newborn, orphans>>

TakeFromTree(p) ==
  /\ IF pcb[p].p_prnt = NULL
     THEN result' = NULL /\ UNCHANGED <<pcb, orphans>>
     ELSE /\ result' = p
          /\ pcb' = ChildUnlinked(pcb, p)
          /\ orphans' = orphans \cup {p}
  /\ UNCHANGED <<pcbFree_h, tp, newborn>>

(* A process that terminates itself leaves the tree after its children.    *)
OutChild(p) ==
  /\ newborn = {}
  /\ orphans = {}
  /\ p \in InUse \ Queued
  /\ pcb[p].p_child = NULL
  /\ TakeFromTree(p)

(* A victim's children are taken from it one by one: first the process     *)
(* that terminates, which has the CPU, then the orphans.                   *)
RemoveChild(p) ==
  /\ newborn = {}
  /\ p \in IF orphans = {} THEN InUse \ Queued ELSE orphans
  /\ IF pcb[p].p_child = NULL
     THEN result' = NULL /\ UNCHANGED <<pcb, pcbFree_h, tp, newborn, orphans>>
     ELSE TakeFromTree(pcb[p].p_child)

Next ==
  \/ AllocPcb
  \/ \E p \in Pcbs : FreePcb(p) \/ OutChild(p) \/ RemoveChild(p)
  \/ \E t \in Queues : RemoveProcQ(t)
  \/ \E t \in Queues, p \in Pcbs : InsertProcQ(t, p) \/ OutProcQ(t, p)
  \/ \E prnt, p \in Pcbs : InsertChild(prnt, p)

Spec == Init /\ [][Next]_vars
-----------------------------------------------------------------------------
(* Every pointer is null or a process block, and only process blocks are   *)
(* handed out: allocPcb never gives the null pointer to a creator.         *)
TypeOK ==
  /\ pcb \in [Pcbs -> Links]
  /\ pcbFree_h \in Pointers
  /\ tp \in [Queues -> Pointers]
  /\ newborn \subseteq Pcbs
  /\ orphans \subseteq Pcbs
  /\ result \in Pointers

(* Every queue, the free list included, is a ring that can be walked both  *)
(* ways and ends at its tail: outProcQ reaches the neighbours of a process *)
(* in the middle through p_next and p_prev alike.                          *)
RingsClosed ==
  \A t \in {tp[u] : u \in Queues} \cup {pcbFree_h} :
    LET r == Ring(pcb, t) IN
    t # NULL =>
      /\ Last(r) = t
      /\ \A i \in 1..Len(r) : pcb[pcb[r[i]].p_next].p_prev = r[i]

(* The children of a process are linked both ways and all know their       *)
(* parent, whatever child left before: outChild decides by p_sib and       *)
(* p_prevsib which of its four cases it is in.                             *)
SiblingsLinked ==
  \A p \in Pcbs : LET c == Siblings(pcb, p) IN
    \A i \in 1..Len(c) :
      /\ pcb[c[i]].p_prnt = p
      /\ pcb[c[i]].p_prevsib = IF i = 1 THEN NULL ELSE c[i - 1]

Lists == INSTANCE ProcLists WITH
  free <- Ring(pcb, pcbFree_h),
  queue <- [t \in Queues |-> Ring(pcb, tp[t])],
  children <- [p \in Pcbs |-> Siblings(pcb, p)]

(* Followed by its callers, pcb.c behaves as queues, lists of children and *)
(* a pool without pointers do: nothing is lost, found twice or returned    *)
(* out of turn, though outProcQ and outChild leave stale links behind.     *)
ImplementsLists == Lists!Spec
=============================================================================
