----------------------------- MODULE PcbProofs ------------------------------
(***************************************************************************)
(* The pointers of phase1/pcb.c, for any table of process blocks: every    *)
(* queue stays a ring, the children stay linked both ways, and the whole   *)
(* implements the lists of module ProcLists.                               *)
(***************************************************************************)
EXTENDS Pcb, QueueProofs

(* t is the tail of a ring that holds q, the head first.                   *)
IsRing(m, t, q) ==
  /\ q \in Seq(Pcbs)
  /\ IsInjective(q)
  /\ t = IF q = <<>> THEN NULL ELSE q[Len(q)]
  /\ \A i \in 1..Len(q) :
       /\ m[q[i]].p_next = q[IF i = Len(q) THEN 1 ELSE i + 1]
       /\ m[q[i]].p_prev = q[IF i = 1 THEN Len(q) ELSE i - 1]

(* The children of p are c, the youngest first.                            *)
IsFamily(m, p, c) ==
  /\ c \in Seq(Pcbs)
  /\ IsInjective(c)
  /\ m[p].p_child = IF c = <<>> THEN NULL ELSE c[1]
  /\ \A i \in 1..Len(c) :
       /\ m[c[i]].p_sib = IF i = Len(c) THEN NULL ELSE c[i + 1]
       /\ m[c[i]].p_prevsib = IF i = 1 THEN NULL ELSE c[i - 1]
       /\ m[c[i]].p_prnt = p
-----------------------------------------------------------------------------
(* outProcQ's loop goes round the ring it is given, whatever the rest of   *)
(* the table holds.                                                        *)
LEMMA RingIs ==
  ASSUME NEW m, NEW t, NEW q, IsRing(m, t, q)
  PROVE  Ring(m, t) = q
<1>1. /\ q \in Seq(Pcbs)
      /\ IsInjective(q)
      /\ Len(q) \in Nat
      /\ \A i \in 1..Len(q) : q[i] \in Pcbs
  BY LenProperties, ElementOfSeq DEF IsRing
<1>2. CASE q = <<>>
  BY <1>2 DEF IsRing, Ring
<1>3. CASE q # <<>>
  <2> DEFINE f == Front(q)
             next == [p \in Pcbs |-> m[p].p_next]
  <2>1. /\ f \in Seq(Pcbs)
        /\ Len(f) = Len(q) - 1
        /\ \A i \in 1..Len(q) - 1 : f[i] = q[i]
        /\ Len(q) >= 1
    BY <1>1, <1>3, PopStack
  <2>2. t = q[Len(q)] /\ t \in Pcbs /\ t # NULL
    BY <1>1, <1>3, <2>1, PcbAssumption DEF IsRing
  <2>3. \A i, j \in 1..Len(q) : q[i] = q[j] => i = j
    BY <1>1, InjectivePositions
  <2>4. \A i \in 1..Len(q) : m[q[i]].p_next = q[IF i = Len(q) THEN 1 ELSE i + 1]
    BY DEF IsRing
  <2>5. f = <<>> <=> Len(q) = 1
    BY <1>1, <2>1, EmptySeq
  <2> HIDE DEF f
  <2>6. IsWalk(next, m[t].p_next, t, f)
    <3>1. f \in Seq(DOMAIN next)
      BY <2>1
    <3>2. IsInjective(f)
      <4> SUFFICES ASSUME NEW i \in 1..Len(f), NEW j \in 1..Len(f), f[i] = f[j]
                   PROVE  i = j
        BY <2>1, InjectivePositions
      <4> QED
        BY <1>1, <2>1, <2>3
    <3>3. m[t].p_next = IF f = <<>> THEN t ELSE f[1]
      <4>1. m[t].p_next = q[1]
        BY <1>1, <2>1, <2>2, <2>4
      <4> QED
        BY <4>1, <1>1, <2>1, <2>2, <2>5
    <3>4. ASSUME NEW i \in 1..Len(f)
          PROVE  f[i] # t /\ next[f[i]] = IF i = Len(f) THEN t ELSE f[i + 1]
      <4>1. i \in 1..Len(q) /\ i # Len(q) /\ f[i] = q[i] /\ q[i] \in Pcbs
        BY <1>1, <2>1
      <4>2. f[i] # t
        BY <4>1, <1>1, <2>1, <2>2, <2>3
      <4>3. next[f[i]] = q[i + 1]
        BY <4>1, <2>4
      <4> QED
        BY <4>2, <4>3, <1>1, <2>1, <2>2
    <3> HIDE DEF next
    <3> QED
      BY <3>1, <3>2, <3>3, <3>4 DEF IsWalk
  <2>7. IsFiniteSet(DOMAIN next)
    BY PcbAssumption
  <2>8. Walk(next, m[t].p_next, t) = f
    <3> HIDE DEF next
    <3> QED
      BY <2>6, <2>7, WalkIs
  <2>9. Ring(m, t) = Append(f, t)
    BY <2>2, <2>8 DEF Ring
  <2>10. Append(f, t) = q
    <3>1. /\ Append(f, t) \in Seq(Pcbs)
          /\ Len(Append(f, t)) = Len(q)
          /\ \A i \in 1..Len(f) : Append(f, t)[i] = f[i]
          /\ Append(f, t)[Len(q)] = t
      BY <1>1, <2>1, <2>2, AppendProperties
    <3>2. \A i \in 1..Len(q) : Append(f, t)[i] = q[i]
      BY <3>1, <1>1, <2>1, <2>2
    <3> QED
      BY <3>1, <3>2, <1>1, SeqEqual
  <2> QED
    BY <2>9, <2>10
<1> QED
  BY <1>2, <1>3

(* The loops over the children of a process meet its family.               *)
LEMMA SiblingsIs ==
  ASSUME NEW m, NEW p, NEW c, IsFamily(m, p, c)
  PROVE  Siblings(m, p) = c
<1> DEFINE next == [x \in Pcbs |-> m[x].p_sib]
<1>1. /\ c \in Seq(Pcbs)
      /\ \A i \in 1..Len(c) : c[i] \in Pcbs
  BY ElementOfSeq DEF IsFamily
<1>2. IsWalk(next, m[p].p_child, NULL, c)
  <2>1. ASSUME NEW i \in 1..Len(c)
        PROVE  c[i] # NULL /\ next[c[i]] = IF i = Len(c) THEN NULL ELSE c[i + 1]
    BY <1>1, PcbAssumption DEF IsFamily
  <2>2. DOMAIN next = Pcbs
    OBVIOUS
  <2> HIDE DEF next
  <2> QED
    BY <2>1, <2>2 DEF IsFamily, IsWalk
<1>3. IsFiniteSet(DOMAIN next)
  BY PcbAssumption
<1> HIDE DEF next
<1>4. Walk(next, m[p].p_child, NULL) = c
  BY <1>2, <1>3, WalkIs
<1> QED
  BY <1>4 DEF Siblings, next

(* The ends of a ring, and who is in it.                                   *)
LEMMA RingEnds ==
  ASSUME NEW m, NEW t, NEW q, IsRing(m, t, q)
  PROVE  /\ q \in Seq(Pcbs)
         /\ Len(q) \in Nat
         /\ \A i \in 1..Len(q) : q[i] \in Pcbs
         /\ ToSet(q) \subseteq Pcbs
         /\ t \in Pointers
         /\ t = NULL <=> q = <<>>
         /\ t # NULL => /\ Len(q) >= 1
                        /\ t \in Pcbs
                        /\ t = q[Len(q)]
                        /\ t \in ToSet(q)
                        /\ m[t].p_next = q[1]
                        /\ Head(q) = q[1]
                        /\ q[1] \in ToSet(q)
<1>1. /\ q \in Seq(Pcbs)
      /\ Len(q) \in Nat
      /\ \A i \in 1..Len(q) : q[i] \in Pcbs
      /\ ToSet(q) \subseteq Pcbs
      /\ IsInjective(q)
  BY LenProperties, ElementOfSeq, MemberPosition DEF IsRing
<1>2. CASE q = <<>>
  BY <1>1, <1>2 DEF IsRing, Pointers
<1>3. CASE q # <<>>
  <2>1. Len(q) >= 1 /\ 1 \in 1..Len(q) /\ Len(q) \in 1..Len(q)
    BY <1>1, <1>3, MemberPosition
  <2>2. t = q[Len(q)] /\ t \in Pcbs /\ t # NULL /\ m[t].p_next = q[1]
    BY <1>1, <1>3, <2>1, PcbAssumption DEF IsRing
  <2>3. t \in ToSet(q) /\ q[1] \in ToSet(q) /\ Head(q) = q[1]
    BY <1>1, <1>3, <2>1, <2>2, MemberPosition, RemoveHead
  <2> QED
    BY <1>1, <1>3, <2>1, <2>2, <2>3 DEF Pointers
<1> QED
  BY <1>2, <1>3

(* A ring does not see the changes of blocks that are not in it.           *)
LEMMA RingKept ==
  ASSUME NEW m, NEW n, NEW t, NEW q, IsRing(m, t, q),
         \A x \in ToSet(q) : n[x].p_next = m[x].p_next /\ n[x].p_prev = m[x].p_prev
  PROVE  IsRing(n, t, q)
<1>1. \A i \in 1..Len(q) : q[i] \in ToSet(q)
  BY MemberPosition DEF IsRing
<1> QED
  BY <1>1 DEF IsRing

(* Nor does a family.                                                      *)
LEMMA FamilyKept ==
  ASSUME NEW m, NEW n, NEW p, NEW c, IsFamily(m, p, c),
         n[p].p_child = m[p].p_child,
         \A x \in ToSet(c) : /\ n[x].p_sib = m[x].p_sib
                             /\ n[x].p_prevsib = m[x].p_prevsib
                             /\ n[x].p_prnt = m[x].p_prnt
  PROVE  IsFamily(n, p, c)
<1>1. \A i \in 1..Len(c) : c[i] \in ToSet(c)
  BY MemberPosition DEF IsFamily
<1> QED
  BY <1>1 DEF IsFamily

(* The fields of the tree are the same in both tables.                     *)
SameTree(m, n) ==
  \A x \in Pcbs : /\ n[x].p_prnt = m[x].p_prnt
                  /\ n[x].p_child = m[x].p_child
                  /\ n[x].p_sib = m[x].p_sib
                  /\ n[x].p_prevsib = m[x].p_prevsib

(* One assignment to a link of a queue.                                    *)
NextSet(m, b, v) == [m EXCEPT ![b].p_next = v]
PrevSet(m, b, v) == [m EXCEPT ![b].p_prev = v]

(* p_next is set, and nothing else.                                        *)
LEMMA NextSetFields ==
  ASSUME NEW m \in [Pcbs -> Links], NEW b \in Pcbs, NEW v \in Pointers
  PROVE  /\ NextSet(m, b, v) \in [Pcbs -> Links]
         /\ SameTree(m, NextSet(m, b, v))
         /\ \A x \in Pcbs :
              /\ NextSet(m, b, v)[x].p_next = IF x = b THEN v ELSE m[x].p_next
              /\ NextSet(m, b, v)[x].p_prev = m[x].p_prev
<1> DEFINE n == NextSet(m, b, v)
           r == [m[b] EXCEPT !.p_next = v]
<1>1. m[b] \in Links
  OBVIOUS
<1>2. /\ r \in Links
      /\ r.p_next = v
      /\ r.p_prev = m[b].p_prev
      /\ r.p_prnt = m[b].p_prnt
      /\ r.p_child = m[b].p_child
      /\ r.p_sib = m[b].p_sib
      /\ r.p_prevsib = m[b].p_prevsib
  BY <1>1 DEF Links
<1>3. /\ n \in [Pcbs -> Links]
      /\ \A x \in Pcbs : n[x] = IF x = b THEN r ELSE m[x]
  BY <1>2 DEF NextSet
<1> HIDE DEF r, n
<1>4. SameTree(m, n)
  BY <1>2, <1>3 DEF SameTree
<1> QED
  BY <1>2, <1>3, <1>4 DEF n

(* p_prev is set, and nothing else.                                        *)
LEMMA PrevSetFields ==
  ASSUME NEW m \in [Pcbs -> Links], NEW b \in Pcbs, NEW v \in Pointers
  PROVE  /\ PrevSet(m, b, v) \in [Pcbs -> Links]
         /\ SameTree(m, PrevSet(m, b, v))
         /\ \A x \in Pcbs :
              /\ PrevSet(m, b, v)[x].p_next = m[x].p_next
              /\ PrevSet(m, b, v)[x].p_prev = IF x = b THEN v ELSE m[x].p_prev
<1> DEFINE n == PrevSet(m, b, v)
           r == [m[b] EXCEPT !.p_prev = v]
<1>1. m[b] \in Links
  OBVIOUS
<1>2. /\ r \in Links
      /\ r.p_next = m[b].p_next
      /\ r.p_prev = v
      /\ r.p_prnt = m[b].p_prnt
      /\ r.p_child = m[b].p_child
      /\ r.p_sib = m[b].p_sib
      /\ r.p_prevsib = m[b].p_prevsib
  BY <1>1 DEF Links
<1>3. /\ n \in [Pcbs -> Links]
      /\ \A x \in Pcbs : n[x] = IF x = b THEN r ELSE m[x]
  BY <1>2 DEF PrevSet
<1> HIDE DEF r, n
<1>4. SameTree(m, n)
  BY <1>2, <1>3 DEF SameTree
<1> QED
  BY <1>2, <1>3, <1>4 DEF n

(* What the assignments of insertProcQ leave in the table.                 *)
LEMMA LinkFields ==
  ASSUME NEW m \in [Pcbs -> Links], NEW p \in Pcbs, NEW t \in Pointers, t # p,
         t # NULL => m[t].p_next \in Pcbs \ {p}
  PROVE  /\ LinkAtTail(m, t, p) \in [Pcbs -> Links]
         /\ SameTree(m, LinkAtTail(m, t, p))
         /\ \A x \in Pcbs :
              LinkAtTail(m, t, p)[x].p_next =
                IF x = p THEN IF t = NULL THEN p ELSE m[t].p_next
                ELSE IF x = t THEN p
                ELSE m[x].p_next
         /\ \A x \in Pcbs :
              LinkAtTail(m, t, p)[x].p_prev =
                IF x = p THEN IF t = NULL THEN p ELSE t
                ELSE IF t # NULL /\ x = m[t].p_next THEN p
                ELSE m[x].p_prev
<1> DEFINE n == LinkAtTail(m, t, p)
<1>0. p \in Pointers
  BY DEF Pointers
<1>1. CASE t = NULL
  <2>1. PICK a : a = PrevSet(m, p, p)
    OBVIOUS
  <2>2. n = NextSet(a, p, p)
    BY <1>1, <2>1 DEF LinkAtTail, NextSet, PrevSet
  <2> HIDE DEF n
  <2>3. /\ a \in [Pcbs -> Links]
        /\ SameTree(m, a)
        /\ \A x \in Pcbs : /\ a[x].p_next = m[x].p_next
                           /\ a[x].p_prev = IF x = p THEN p ELSE m[x].p_prev
    BY <1>0, <2>1, PrevSetFields
  <2>4. /\ n \in [Pcbs -> Links]
        /\ SameTree(a, n)
        /\ \A x \in Pcbs : /\ n[x].p_next = IF x = p THEN p ELSE a[x].p_next
                           /\ n[x].p_prev = a[x].p_prev
    BY <1>0, <2>2, <2>3, NextSetFields
  <2>5. SameTree(m, n)
    BY <2>3, <2>4 DEF SameTree
  <2>6. \A x \in Pcbs : /\ n[x].p_next = IF x = p THEN p ELSE m[x].p_next
                        /\ n[x].p_prev = IF x = p THEN p ELSE m[x].p_prev
    BY <2>3, <2>4
  <2> QED
    BY <1>1, <2>4, <2>5, <2>6, PcbAssumption DEF n
<1>2. CASE t # NULL
  <2> DEFINE h == m[t].p_next
  <2>0. h \in Pcbs /\ h # p /\ t \in Pcbs /\ h \in Pointers
    BY <1>2 DEF Pointers
  <2>1. PICK a : a = PrevSet(m, h, p)
    OBVIOUS
  <2>2. PICK b : b = NextSet(a, p, h)
    OBVIOUS
  <2>3. PICK c : c = NextSet(b, t, p)
    OBVIOUS
  <2>4. n = PrevSet(c, p, t)
    BY <1>2, <2>1, <2>2, <2>3 DEF LinkAtTail, NextSet, PrevSet
  <2> HIDE DEF n, h
  <2>5. /\ a \in [Pcbs -> Links]
        /\ SameTree(m, a)
        /\ \A x \in Pcbs : /\ a[x].p_next = m[x].p_next
                           /\ a[x].p_prev = IF x = h THEN p ELSE m[x].p_prev
    BY <1>0, <2>0, <2>1, PrevSetFields
  <2>6. /\ b \in [Pcbs -> Links]
        /\ SameTree(a, b)
        /\ \A x \in Pcbs : /\ b[x].p_next = IF x = p THEN h ELSE a[x].p_next
                           /\ b[x].p_prev = a[x].p_prev
    BY <2>0, <2>2, <2>5, NextSetFields
  <2>7. /\ c \in [Pcbs -> Links]
        /\ SameTree(b, c)
        /\ \A x \in Pcbs : /\ c[x].p_next = IF x = t THEN p ELSE b[x].p_next
                           /\ c[x].p_prev = b[x].p_prev
    BY <1>0, <2>0, <2>3, <2>6, NextSetFields, SMTT(30)
  <2>8. /\ n \in [Pcbs -> Links]
        /\ SameTree(c, n)
        /\ \A x \in Pcbs : /\ n[x].p_next = c[x].p_next
                           /\ n[x].p_prev = IF x = p THEN t ELSE c[x].p_prev
    BY <2>4, <2>7, PrevSetFields
  <2>9. SameTree(m, n)
    BY <2>5, <2>6, <2>7, <2>8 DEF SameTree
  <2>10. \A x \in Pcbs :
           /\ n[x].p_next = IF x = p THEN h ELSE IF x = t THEN p ELSE m[x].p_next
           /\ n[x].p_prev = IF x = p THEN t ELSE IF x = h THEN p ELSE m[x].p_prev
    BY <2>0, <2>5, <2>6, <2>7, <2>8
  <2> QED
    BY <1>2, <2>8, <2>9, <2>10 DEF n, h
<1> QED
  BY <1>1, <1>2

(* What the assignments of outProcQ leave in the table.                    *)
LEMMA UnlinkFields ==
  ASSUME NEW m \in [Pcbs -> Links], NEW p \in Pcbs,
         m[p].p_next \in Pcbs, m[p].p_prev \in Pcbs
  PROVE  /\ Unlink(m, p) \in [Pcbs -> Links]
         /\ SameTree(m, Unlink(m, p))
         /\ \A x \in Pcbs :
              /\ Unlink(m, p)[x].p_next =
                   IF x = m[p].p_prev THEN m[p].p_next ELSE m[x].p_next
              /\ Unlink(m, p)[x].p_prev =
                   IF x = m[p].p_next THEN m[p].p_prev ELSE m[x].p_prev
<1> DEFINE g == m[p].p_next
           h == m[p].p_prev
           n == Unlink(m, p)
<1>1. PICK a : a = PrevSet(m, g, h)
  OBVIOUS
<1>2. n = NextSet(a, h, g)
  BY <1>1 DEF Unlink, NextSet, PrevSet
<1>3. g \in Pcbs /\ h \in Pcbs /\ g \in Pointers /\ h \in Pointers
  BY DEF Pointers
<1> HIDE DEF n, g, h
<1>4. /\ a \in [Pcbs -> Links]
      /\ SameTree(m, a)
      /\ \A x \in Pcbs : /\ a[x].p_next = m[x].p_next
                         /\ a[x].p_prev = IF x = g THEN h ELSE m[x].p_prev
  BY <1>1, <1>3, PrevSetFields
<1>5. /\ n \in [Pcbs -> Links]
      /\ SameTree(a, n)
      /\ \A x \in Pcbs : /\ n[x].p_next = IF x = h THEN g ELSE a[x].p_next
                         /\ n[x].p_prev = a[x].p_prev
  <2>1. a \in [Pcbs -> Links] /\ h \in Pcbs /\ g \in Pointers
    BY <1>3, <1>4
  <2> QED
    BY <2>1, <1>2, NextSetFields
<1>6. SameTree(m, n)
  BY <1>4, <1>5 DEF SameTree
<1>7. \A x \in Pcbs :
        /\ n[x].p_next = IF x = h THEN g ELSE m[x].p_next
        /\ n[x].p_prev = IF x = g THEN h ELSE m[x].p_prev
  BY <1>4, <1>5
<1> QED
  BY <1>5, <1>6, <1>7 DEF n, g, h

(* insertProcQ makes p the tail of the ring.                               *)
LEMMA RingGrown ==
  ASSUME NEW m \in [Pcbs -> Links], NEW t, NEW q, IsRing(m, t, q),
         NEW p \in Pcbs, p \notin ToSet(q)
  PROVE  LET n == LinkAtTail(m, t, p) IN
         /\ n \in [Pcbs -> Links]
         /\ SameTree(m, n)
         /\ IsRing(n, p, Append(q, p))
         /\ \A x \in Pcbs \ (ToSet(q) \cup {p}) :
              n[x].p_next = m[x].p_next /\ n[x].p_prev = m[x].p_prev
<1> DEFINE n == LinkAtTail(m, t, p)
           r == Append(q, p)
<1>1. /\ q \in Seq(Pcbs)
      /\ Len(q) \in Nat
      /\ \A i \in 1..Len(q) : q[i] \in Pcbs
      /\ t \in Pointers
      /\ t = NULL <=> q = <<>>
      /\ t # NULL => /\ Len(q) >= 1
                     /\ t = q[Len(q)]
                     /\ t \in ToSet(q)
                     /\ m[t].p_next = q[1]
                     /\ q[1] \in ToSet(q)
  BY RingEnds
<1>2. /\ t # p
      /\ t # NULL => m[t].p_next \in Pcbs \ {p}
  <2>1. t # p
    BY <1>1, PcbAssumption
  <2>2. t # NULL => q[1] \in Pcbs
    BY <1>1, MemberPosition
  <2> QED
    BY <2>1, <2>2, <1>1
<1>3. /\ n \in [Pcbs -> Links]
      /\ SameTree(m, n)
      /\ \A x \in Pcbs :
           n[x].p_next = IF x = p THEN IF t = NULL THEN p ELSE m[t].p_next
                         ELSE IF x = t THEN p
                         ELSE m[x].p_next
      /\ \A x \in Pcbs :
           n[x].p_prev = IF x = p THEN IF t = NULL THEN p ELSE t
                         ELSE IF t # NULL /\ x = m[t].p_next THEN p
                         ELSE m[x].p_prev
  BY <1>1, <1>2, LinkFields
<1> HIDE DEF n
<1>4. IsInjective(q) /\ \A i, j \in 1..Len(q) : q[i] = q[j] => i = j
  BY <1>1, InjectivePositions DEF IsRing
<1>5. /\ r \in Seq(Pcbs)
      /\ r # <<>>
      /\ Len(r) = Len(q) + 1
      /\ \A i \in 1..Len(q) : r[i] = q[i]
      /\ r[Len(q) + 1] = p
      /\ IsInjective(r)
  BY <1>1, <1>4, AppendProperties, InsertTail
<1> HIDE DEF r
<1>6. q = <<>> <=> Len(q) = 0
  BY <1>1, EmptySeq
<1>7. \A i \in 1..Len(q) : q[i] # p
  BY <1>1, MemberPosition
<1>8. \A i \in 1..Len(q) :
        /\ m[q[i]].p_next = q[IF i = Len(q) THEN 1 ELSE i + 1]
        /\ m[q[i]].p_prev = q[IF i = 1 THEN Len(q) ELSE i - 1]
  BY DEF IsRing
<1>9. ASSUME NEW i \in 1..Len(r)
      PROVE  /\ n[r[i]].p_next = r[IF i = Len(r) THEN 1 ELSE i + 1]
             /\ n[r[i]].p_prev = r[IF i = 1 THEN Len(r) ELSE i - 1]
  <2>1. CASE i = Len(r)
    BY <2>1, <1>1, <1>3, <1>5, <1>6
  <2>2. CASE i # Len(r)
    <3>1. i \in 1..Len(q) /\ r[i] = q[i] /\ q[i] \in Pcbs /\ q[i] # p /\ t # NULL
      BY <2>2, <1>1, <1>5, <1>6, <1>7
    <3>2. (q[i] = t <=> i = Len(q)) /\ (q[i] = m[t].p_next <=> i = 1)
      BY <3>1, <1>1, <1>4
    <3>3. n[q[i]].p_next = r[i + 1]
      <4>1. CASE i = Len(q)
        BY <4>1, <3>1, <3>2, <1>3, <1>5
      <4>2. CASE i # Len(q)
        <5>1. i + 1 \in 1..Len(q) /\ m[q[i]].p_next = q[i + 1]
          BY <4>2, <1>1, <1>8, <3>1
        <5> QED
          BY <4>2, <5>1, <3>1, <3>2, <1>3, <1>5
      <4> QED
        BY <4>1, <4>2
    <3>4. n[q[i]].p_prev = r[IF i = 1 THEN Len(r) ELSE i - 1]
      <4>1. CASE i = 1
        <5>1. n[q[i]].p_prev = p
          BY <4>1, <3>1, <3>2, <1>3
        <5> QED
          BY <4>1, <5>1, <1>5
      <4>2. CASE i # 1
        <5>1. i - 1 \in 1..Len(q) /\ m[q[i]].p_prev = q[i - 1]
          BY <4>2, <1>1, <1>8, <3>1
        <5>2. n[q[i]].p_prev = m[q[i]].p_prev
          BY <4>2, <3>1, <3>2, <1>3
        <5> QED
          BY <4>2, <5>1, <5>2, <1>5
      <4> QED
        BY <4>1, <4>2
    <3> QED
      BY <2>2, <3>1, <3>3, <3>4
  <2> QED
    BY <2>1, <2>2
<1>10. IsRing(n, p, r)
  BY <1>5, <1>9 DEF IsRing
<1>11. ASSUME NEW x \in Pcbs \ (ToSet(q) \cup {p})
       PROVE  n[x].p_next = m[x].p_next /\ n[x].p_prev = m[x].p_prev
  BY <1>1, <1>3, PcbAssumption
<1> QED
  BY <1>3, <1>10, <1>11 DEF n, r

(* outProcQ closes the ring where p was, at its head, at its tail, between *)
(* two others or alone.                                                    *)
LEMMA RingShrunk ==
  ASSUME NEW m \in [Pcbs -> Links], NEW t, NEW q, IsRing(m, t, q), NEW p \in ToSet(q)
  PROVE  LET n == Unlink(m, p) IN
         /\ n \in [Pcbs -> Links]
         /\ SameTree(m, n)
         /\ IsRing(n, TailWithout(m, t, p), TakenOut(q, p))
         /\ \A x \in Pcbs \ ToSet(q) :
              n[x].p_next = m[x].p_next /\ n[x].p_prev = m[x].p_prev
<1> DEFINE n == Unlink(m, p)
           s == TakenOut(q, p)
<1>1. /\ q \in Seq(Pcbs)
      /\ Len(q) \in Nat
      /\ \A i \in 1..Len(q) : q[i] \in Pcbs
      /\ \A i \in 1..Len(q) : q[i] \in ToSet(q)
      /\ t = NULL <=> q = <<>>
      /\ t # NULL => t = q[Len(q)]
  BY RingEnds, MemberPosition
<1>2. IsInjective(q) /\ \A i, j \in 1..Len(q) : q[i] = q[j] => i = j
  BY <1>1, InjectivePositions DEF IsRing
<1>3. PICK k \in 1..Len(q) :
        /\ q[k] = p
        /\ s \in Seq(Pcbs)
        /\ Len(s) = Len(q) - 1
        /\ \A i \in 1..Len(q) - 1 : s[i] = IF i < k THEN q[i] ELSE q[i + 1]
  BY <1>1, TakenOutPositions
<1> DEFINE next(i) == IF i = Len(q) THEN 1 ELSE i + 1
           prev(i) == IF i = 1 THEN Len(q) ELSE i - 1
<1>4. \A i \in 1..Len(q) :
        /\ next(i) \in 1..Len(q)
        /\ prev(i) \in 1..Len(q)
        /\ m[q[i]].p_next = q[next(i)]
        /\ m[q[i]].p_prev = q[prev(i)]
  BY <1>1 DEF IsRing
<1>5. /\ p \in Pcbs
      /\ m[p].p_next = q[next(k)] /\ m[p].p_prev = q[prev(k)]
      /\ m[p].p_next \in Pcbs /\ m[p].p_prev \in Pcbs
  BY <1>1, <1>3, <1>4
<1>6. /\ n \in [Pcbs -> Links]
      /\ SameTree(m, n)
      /\ \A x \in Pcbs :
           /\ n[x].p_next = IF x = m[p].p_prev THEN m[p].p_next ELSE m[x].p_next
           /\ n[x].p_prev = IF x = m[p].p_next THEN m[p].p_prev ELSE m[x].p_prev
  BY <1>5, UnlinkFields
<1>7. IsInjective(s)
  BY <1>1, <1>2, RemoveMember
<1> HIDE DEF n, s
<1>8. TailWithout(m, t, p) = IF s = <<>> THEN NULL ELSE s[Len(s)]
  <2>1. s = <<>> <=> Len(q) = 1
    BY <1>1, <1>3, EmptySeq
  <2>2. t # NULL /\ t = q[Len(q)]
    BY <1>1, <1>3, EmptySeq
  <2>3. CASE p # t
    <3>1. k # Len(q) /\ Len(q) - 1 \in 1..Len(q) - 1 /\ ~(Len(q) - 1 < k)
      BY <2>2, <2>3, <1>1, <1>3
    <3>2. s[Len(s)] = q[Len(q)]
      BY <3>1, <1>1, <1>3
    <3> QED
      BY <3>1, <3>2, <2>1, <2>2, <2>3, <1>1 DEF TailWithout
  <2>4. CASE p = t
    <3>1. k = Len(q)
      BY <2>2, <2>4, <1>1, <1>2, <1>3
    <3>2. m[t].p_next = q[1] /\ (m[t].p_next = t <=> Len(q) = 1)
      BY <3>1, <2>2, <2>4, <1>1, <1>2, <1>5
    <3>3. Len(q) # 1 => m[t].p_prev = s[Len(s)]
      BY <3>1, <2>4, <1>1, <1>3, <1>5
    <3> QED
      BY <3>2, <3>3, <2>1, <2>4 DEF TailWithout
  <2> QED
    BY <2>3, <2>4
<1>9. ASSUME NEW i \in 1..Len(s)
      PROVE  /\ n[s[i]].p_next = s[IF i = Len(s) THEN 1 ELSE i + 1]
             /\ n[s[i]].p_prev = s[IF i = 1 THEN Len(s) ELSE i - 1]
  <2> DEFINE j == IF i < k THEN i ELSE i + 1
  <2>1. j \in 1..Len(q) /\ j # k /\ s[i] = q[j] /\ s[i] \in Pcbs
    BY <1>1, <1>3
  <2>2. /\ q[j] = m[p].p_prev <=> j = prev(k)
        /\ q[j] = m[p].p_next <=> j = next(k)
    <3>1. prev(k) \in 1..Len(q) /\ next(k) \in 1..Len(q)
      BY <1>3, <1>4
    <3> HIDE DEF j, next, prev
    <3> QED
      BY <3>1, <2>1, <1>2, <1>5
  <2>3. m[q[j]].p_next = q[next(j)] /\ m[q[j]].p_prev = q[prev(j)]
    <3> HIDE DEF j, next, prev
    <3> QED
      BY <2>1, <1>4
  <2>4. /\ n[s[i]].p_next = q[IF j = prev(k) THEN next(k) ELSE next(j)]
        /\ n[s[i]].p_prev = q[IF j = next(k) THEN prev(k) ELSE prev(j)]
    <3> HIDE DEF j, next, prev
    <3> QED
      BY <2>1, <2>2, <2>3, <1>5, <1>6
  <2>5. s[IF i = Len(s) THEN 1 ELSE i + 1] = q[IF j = prev(k) THEN next(k) ELSE next(j)]
    <3>1. CASE i = Len(s)
      BY <3>1, <1>1, <1>3
    <3>2. CASE i # Len(s) /\ i + 1 < k
      BY <3>2, <1>1, <1>3
    <3>3. CASE i # Len(s) /\ i + 1 >= k
      BY <3>3, <1>1, <1>3
    <3> QED
      BY <3>1, <3>2, <3>3, <1>1, <1>3
  <2>6. s[IF i = 1 THEN Len(s) ELSE i - 1] = q[IF j = next(k) THEN prev(k) ELSE prev(j)]
    <3>1. CASE i = 1
      BY <3>1, <1>1, <1>3
    <3>2. CASE i # 1 /\ i - 1 < k
      BY <3>2, <1>1, <1>3
    <3>3. CASE i # 1 /\ ~(i - 1 < k)
      BY <3>3, <1>1, <1>3
    <3> QED
      BY <3>1, <3>2, <3>3
  <2> QED
    BY <2>4, <2>5, <2>6
<1>10. IsRing(n, TailWithout(m, t, p), s)
  BY <1>3, <1>7, <1>8, <1>9 DEF IsRing
<1>11. ASSUME NEW x \in Pcbs \ ToSet(q)
       PROVE  n[x].p_next = m[x].p_next /\ n[x].p_prev = m[x].p_prev
  <2>1. m[p].p_next \in ToSet(q) /\ m[p].p_prev \in ToSet(q)
    BY <1>1, <1>3, <1>4, <1>5
  <2> QED
    BY <2>1, <1>6
<1> QED
  BY <1>6, <1>10, <1>11 DEF n, s

(* The links of the queues are the same in both tables.                    *)
SameRings(m, n) ==
  \A x \in Pcbs : n[x].p_next = m[x].p_next /\ n[x].p_prev = m[x].p_prev

(* One assignment to a link of the tree.                                   *)
PrntSet(m, b, v) == [m EXCEPT ![b].p_prnt = v]
ChildSet(m, b, v) == [m EXCEPT ![b].p_child = v]
SibSet(m, b, v) == [m EXCEPT ![b].p_sib = v]
PrevsibSet(m, b, v) == [m EXCEPT ![b].p_prevsib = v]

(* p_prnt is set, and nothing else.                                        *)
LEMMA PrntSetFields ==
  ASSUME NEW m \in [Pcbs -> Links], NEW b \in Pcbs, NEW v \in Pointers
  PROVE  /\ PrntSet(m, b, v) \in [Pcbs -> Links]
         /\ SameRings(m, PrntSet(m, b, v))
         /\ \A x \in Pcbs :
              /\ PrntSet(m, b, v)[x].p_prnt = IF x = b THEN v ELSE m[x].p_prnt
              /\ PrntSet(m, b, v)[x].p_child = m[x].p_child
              /\ PrntSet(m, b, v)[x].p_sib = m[x].p_sib
              /\ PrntSet(m, b, v)[x].p_prevsib = m[x].p_prevsib
<1> DEFINE n == PrntSet(m, b, v)
           r == [m[b] EXCEPT !.p_prnt = v]
<1>1. m[b] \in Links
  OBVIOUS
<1>2. /\ r \in Links
      /\ r.p_next = m[b].p_next
      /\ r.p_prev = m[b].p_prev
      /\ r.p_prnt = v
      /\ r.p_child = m[b].p_child
      /\ r.p_sib = m[b].p_sib
      /\ r.p_prevsib = m[b].p_prevsib
  BY <1>1 DEF Links
<1>3. /\ n \in [Pcbs -> Links]
      /\ \A x \in Pcbs : n[x] = IF x = b THEN r ELSE m[x]
  BY <1>2 DEF PrntSet
<1> HIDE DEF r, n
<1>4. SameRings(m, n)
  BY <1>2, <1>3 DEF SameRings
<1> QED
  BY <1>2, <1>3, <1>4 DEF n

(* p_child is set, and nothing else.                                       *)
LEMMA ChildSetFields ==
  ASSUME NEW m \in [Pcbs -> Links], NEW b \in Pcbs, NEW v \in Pointers
  PROVE  /\ ChildSet(m, b, v) \in [Pcbs -> Links]
         /\ SameRings(m, ChildSet(m, b, v))
         /\ \A x \in Pcbs :
              /\ ChildSet(m, b, v)[x].p_prnt = m[x].p_prnt
              /\ ChildSet(m, b, v)[x].p_child = IF x = b THEN v ELSE m[x].p_child
              /\ ChildSet(m, b, v)[x].p_sib = m[x].p_sib
              /\ ChildSet(m, b, v)[x].p_prevsib = m[x].p_prevsib
<1> DEFINE n == ChildSet(m, b, v)
           r == [m[b] EXCEPT !.p_child = v]
<1>1. m[b] \in Links
  OBVIOUS
<1>2. /\ r \in Links
      /\ r.p_next = m[b].p_next
      /\ r.p_prev = m[b].p_prev
      /\ r.p_prnt = m[b].p_prnt
      /\ r.p_child = v
      /\ r.p_sib = m[b].p_sib
      /\ r.p_prevsib = m[b].p_prevsib
  BY <1>1 DEF Links
<1>3. /\ n \in [Pcbs -> Links]
      /\ \A x \in Pcbs : n[x] = IF x = b THEN r ELSE m[x]
  BY <1>2 DEF ChildSet
<1> HIDE DEF r, n
<1>4. SameRings(m, n)
  BY <1>2, <1>3 DEF SameRings
<1> QED
  BY <1>2, <1>3, <1>4 DEF n

(* p_sib is set, and nothing else.                                         *)
LEMMA SibSetFields ==
  ASSUME NEW m \in [Pcbs -> Links], NEW b \in Pcbs, NEW v \in Pointers
  PROVE  /\ SibSet(m, b, v) \in [Pcbs -> Links]
         /\ SameRings(m, SibSet(m, b, v))
         /\ \A x \in Pcbs :
              /\ SibSet(m, b, v)[x].p_prnt = m[x].p_prnt
              /\ SibSet(m, b, v)[x].p_child = m[x].p_child
              /\ SibSet(m, b, v)[x].p_sib = IF x = b THEN v ELSE m[x].p_sib
              /\ SibSet(m, b, v)[x].p_prevsib = m[x].p_prevsib
<1> DEFINE n == SibSet(m, b, v)
           r == [m[b] EXCEPT !.p_sib = v]
<1>1. m[b] \in Links
  OBVIOUS
<1>2. /\ r \in Links
      /\ r.p_next = m[b].p_next
      /\ r.p_prev = m[b].p_prev
      /\ r.p_prnt = m[b].p_prnt
      /\ r.p_child = m[b].p_child
      /\ r.p_sib = v
      /\ r.p_prevsib = m[b].p_prevsib
  BY <1>1 DEF Links
<1>3. /\ n \in [Pcbs -> Links]
      /\ \A x \in Pcbs : n[x] = IF x = b THEN r ELSE m[x]
  BY <1>2 DEF SibSet
<1> HIDE DEF r, n
<1>4. SameRings(m, n)
  BY <1>2, <1>3 DEF SameRings
<1> QED
  BY <1>2, <1>3, <1>4 DEF n

(* p_prevsib is set, and nothing else.                                     *)
LEMMA PrevsibSetFields ==
  ASSUME NEW m \in [Pcbs -> Links], NEW b \in Pcbs, NEW v \in Pointers
  PROVE  /\ PrevsibSet(m, b, v) \in [Pcbs -> Links]
         /\ SameRings(m, PrevsibSet(m, b, v))
         /\ \A x \in Pcbs :
              /\ PrevsibSet(m, b, v)[x].p_prnt = m[x].p_prnt
              /\ PrevsibSet(m, b, v)[x].p_child = m[x].p_child
              /\ PrevsibSet(m, b, v)[x].p_sib = m[x].p_sib
              /\ PrevsibSet(m, b, v)[x].p_prevsib = IF x = b THEN v ELSE m[x].p_prevsib
<1> DEFINE n == PrevsibSet(m, b, v)
           r == [m[b] EXCEPT !.p_prevsib = v]
<1>1. m[b] \in Links
  OBVIOUS
<1>2. /\ r \in Links
      /\ r.p_next = m[b].p_next
      /\ r.p_prev = m[b].p_prev
      /\ r.p_prnt = m[b].p_prnt
      /\ r.p_child = m[b].p_child
      /\ r.p_sib = m[b].p_sib
      /\ r.p_prevsib = v
  BY <1>1 DEF Links
<1>3. /\ n \in [Pcbs -> Links]
      /\ \A x \in Pcbs : n[x] = IF x = b THEN r ELSE m[x]
  BY <1>2 DEF PrevsibSet
<1> HIDE DEF r, n
<1>4. SameRings(m, n)
  BY <1>2, <1>3 DEF SameRings
<1> QED
  BY <1>2, <1>3, <1>4 DEF n

(* cleanPcb forgets the links of p and of nobody else.                     *)
LEMMA CleanFields ==
  ASSUME NEW m \in [Pcbs -> Links], NEW p \in Pcbs
  PROVE  /\ CleanPcb(m, p) \in [Pcbs -> Links]
         /\ CleanPcb(m, p)[p] = NoLinks
         /\ \A x \in Pcbs \ {p} : CleanPcb(m, p)[x] = m[x]
<1>1. NoLinks \in Links
  BY DEF NoLinks, Links, Pointers
<1> QED
  BY <1>1 DEF CleanPcb

(* insertChild makes p the first child of prnt.                            *)
Adopted(m, prnt, p) ==
  LET first == m[prnt].p_child IN
  IF first = NULL
  THEN [m EXCEPT ![prnt].p_child = p, ![p].p_prnt = prnt]
  ELSE [m EXCEPT ![first].p_prevsib = p,
                 ![p].p_sib = first,
                 ![p].p_prnt = prnt,
                 ![prnt].p_child = p]

(* The fields of every pcb after insertChild.                              *)
LEMMA AdoptedFields ==
  ASSUME NEW m \in [Pcbs -> Links], NEW prnt \in Pcbs, NEW p \in Pcbs,
         m[p].p_sib = NULL
  PROVE  LET n == Adopted(m, prnt, p)
             first == m[prnt].p_child
         IN
         /\ n \in [Pcbs -> Links]
         /\ SameRings(m, n)
         /\ \A x \in Pcbs :
              /\ n[x].p_prnt = IF x = p THEN prnt ELSE m[x].p_prnt
              /\ n[x].p_child = IF x = prnt THEN p ELSE m[x].p_child
              /\ n[x].p_sib = IF x = p THEN first ELSE m[x].p_sib
              /\ n[x].p_prevsib = IF x = first THEN p ELSE m[x].p_prevsib
<1> DEFINE n == Adopted(m, prnt, p)
           first == m[prnt].p_child
<1>1. first \in Pointers /\ p \in Pointers /\ prnt \in Pointers
  BY DEF Links, Pointers
<1>2. CASE first = NULL
  <2>1. PICK a : a = ChildSet(m, prnt, p)
    OBVIOUS
  <2>2. n = PrntSet(a, p, prnt)
    BY <1>2, <2>1 DEF Adopted, ChildSet, PrntSet
  <2>3. \A x \in Pcbs : x # first
    BY <1>2, PcbAssumption
  <2> HIDE DEF n, first
  <2>4. /\ a \in [Pcbs -> Links]
        /\ SameRings(m, a)
        /\ \A x \in Pcbs :
             /\ a[x].p_prnt = m[x].p_prnt
             /\ a[x].p_child = IF x = prnt THEN p ELSE m[x].p_child
             /\ a[x].p_sib = m[x].p_sib
             /\ a[x].p_prevsib = m[x].p_prevsib
    BY <1>1, <2>1, ChildSetFields
  <2>5. /\ n \in [Pcbs -> Links]
        /\ SameRings(a, n)
        /\ \A x \in Pcbs :
             /\ n[x].p_prnt = IF x = p THEN prnt ELSE a[x].p_prnt
             /\ n[x].p_child = a[x].p_child
             /\ n[x].p_sib = a[x].p_sib
             /\ n[x].p_prevsib = a[x].p_prevsib
    BY <1>1, <2>2, <2>4, PrntSetFields
  <2>6. SameRings(m, n)
    BY <2>4, <2>5 DEF SameRings
  <2>7. \A x \in Pcbs :
          /\ n[x].p_prnt = IF x = p THEN prnt ELSE m[x].p_prnt
          /\ n[x].p_child = IF x = prnt THEN p ELSE m[x].p_child
          /\ n[x].p_sib = IF x = p THEN first ELSE m[x].p_sib
          /\ n[x].p_prevsib = IF x = first THEN p ELSE m[x].p_prevsib
    BY <2>3, <2>4, <2>5, <1>2
  <2> QED
    BY <2>5, <2>6, <2>7 DEF n, first
<1>3. CASE first # NULL
  <2>0. first \in Pcbs
    BY <1>1, <1>3 DEF Pointers
  <2>1. PICK a : a = PrevsibSet(m, first, p)
    OBVIOUS
  <2>2. PICK b : b = SibSet(a, p, first)
    OBVIOUS
  <2>3. PICK c : c = PrntSet(b, p, prnt)
    OBVIOUS
  <2>4. n = ChildSet(c, prnt, p)
    BY <1>3, <2>1, <2>2, <2>3 DEF Adopted, ChildSet, PrntSet, SibSet, PrevsibSet
  <2> HIDE DEF n, first
  <2>5. /\ a \in [Pcbs -> Links]
        /\ SameRings(m, a)
        /\ \A x \in Pcbs :
             /\ a[x].p_prnt = m[x].p_prnt
             /\ a[x].p_child = m[x].p_child
             /\ a[x].p_sib = m[x].p_sib
             /\ a[x].p_prevsib = IF x = first THEN p ELSE m[x].p_prevsib
    BY <1>1, <2>0, <2>1, PrevsibSetFields
  <2>6. /\ b \in [Pcbs -> Links]
        /\ SameRings(a, b)
        /\ \A x \in Pcbs :
             /\ b[x].p_prnt = a[x].p_prnt
             /\ b[x].p_child = a[x].p_child
             /\ b[x].p_sib = IF x = p THEN first ELSE a[x].p_sib
             /\ b[x].p_prevsib = a[x].p_prevsib
    BY <1>1, <2>2, <2>5, SibSetFields
  <2>7. /\ c \in [Pcbs -> Links]
        /\ SameRings(b, c)
        /\ \A x \in Pcbs :
             /\ c[x].p_prnt = IF x = p THEN prnt ELSE b[x].p_prnt
             /\ c[x].p_child = b[x].p_child
             /\ c[x].p_sib = b[x].p_sib
             /\ c[x].p_prevsib = b[x].p_prevsib
    BY <1>1, <2>3, <2>6, PrntSetFields
  <2>8. /\ n \in [Pcbs -> Links]
        /\ SameRings(c, n)
        /\ \A x \in Pcbs :
             /\ n[x].p_prnt = c[x].p_prnt
             /\ n[x].p_child = IF x = prnt THEN p ELSE c[x].p_child
             /\ n[x].p_sib = c[x].p_sib
             /\ n[x].p_prevsib = c[x].p_prevsib
    BY <1>1, <2>4, <2>7, ChildSetFields
  <2>9. SameRings(m, n)
    BY <2>5, <2>6, <2>7, <2>8 DEF SameRings
  <2>10. \A x \in Pcbs :
           /\ n[x].p_prnt = IF x = p THEN prnt ELSE m[x].p_prnt
           /\ n[x].p_child = IF x = prnt THEN p ELSE m[x].p_child
           /\ n[x].p_sib = IF x = p THEN first ELSE m[x].p_sib
           /\ n[x].p_prevsib = IF x = first THEN p ELSE m[x].p_prevsib
    BY <2>5, <2>6, <2>7, <2>8
  <2> QED
    BY <2>8, <2>9, <2>10 DEF n, first
<1> QED
  BY <1>2, <1>3

(* outChild's four cases are one: the neighbours of p, where it has any,   *)
(* and its parent, where p is the first child, get what p knows of the     *)
(* other side.                                                             *)
LEMMA ChildUnlinkedFields ==
  ASSUME NEW m \in [Pcbs -> Links], NEW p \in Pcbs, m[p].p_prnt \in Pcbs
  PROVE  LET n == ChildUnlinked(m, p)
             sib == m[p].p_sib
             prevsib == m[p].p_prevsib
         IN
         /\ n \in [Pcbs -> Links]
         /\ SameRings(m, n)
         /\ \A x \in Pcbs :
              /\ n[x].p_prnt = IF x = p THEN NULL ELSE m[x].p_prnt
              /\ n[x].p_child = IF x = m[p].p_prnt /\ prevsib = NULL THEN sib ELSE m[x].p_child
              /\ n[x].p_sib = IF x = prevsib THEN sib ELSE m[x].p_sib
              /\ n[x].p_prevsib = IF x = sib THEN prevsib ELSE m[x].p_prevsib
<1> DEFINE n == ChildUnlinked(m, p)
           sib == m[p].p_sib
           prevsib == m[p].p_prevsib
           prnt == m[p].p_prnt
           Rest(a) ==
             /\ a \in [Pcbs -> Links]
             /\ SameRings(m, a)
             /\ \A x \in Pcbs :
                  /\ a[x].p_prnt = m[x].p_prnt
                  /\ a[x].p_child = IF x = prnt /\ prevsib = NULL THEN sib ELSE m[x].p_child
                  /\ a[x].p_sib = IF x = prevsib THEN sib ELSE m[x].p_sib
                  /\ a[x].p_prevsib = IF x = sib THEN prevsib ELSE m[x].p_prevsib
<1>1. /\ sib \in Pointers /\ prevsib \in Pointers /\ NULL \in Pointers
      /\ sib # NULL => sib \in Pcbs
      /\ prevsib # NULL => prevsib \in Pcbs
      /\ \A x \in Pcbs : x # NULL
  BY PcbAssumption DEF Links, Pointers
<1>2. \E a : Rest(a) /\ n = PrntSet(a, p, NULL)
  <2>1. CASE sib = NULL /\ prevsib = NULL
    <3>1. n = PrntSet(ChildSet(m, prnt, NULL), p, NULL)
      BY <2>1 DEF ChildUnlinked, PrntSet, ChildSet
    <3> HIDE DEF n, sib, prevsib, prnt
    <3>2. Rest(ChildSet(m, prnt, NULL))
      BY <1>1, <2>1, ChildSetFields DEF prnt
    <3> QED
      BY <3>1, <3>2
  <2>2. CASE sib = NULL /\ prevsib # NULL
    <3>1. n = PrntSet(SibSet(m, prevsib, NULL), p, NULL)
      BY <2>2 DEF ChildUnlinked, PrntSet, SibSet
    <3> HIDE DEF n, sib, prevsib, prnt
    <3>2. Rest(SibSet(m, prevsib, NULL))
      BY <1>1, <2>2, SibSetFields
    <3> QED
      BY <3>1, <3>2
  <2>3. CASE sib # NULL /\ prevsib = NULL
    <3>1. PICK a : a = ChildSet(m, prnt, sib)
      OBVIOUS
    <3>2. n = PrntSet(PrevsibSet(a, sib, NULL), p, NULL)
      BY <2>3, <3>1 DEF ChildUnlinked, PrntSet, ChildSet, PrevsibSet
    <3>3. prnt \in Pcbs
      OBVIOUS
    <3> HIDE DEF n, sib, prevsib, prnt
    <3>4. /\ a \in [Pcbs -> Links]
          /\ SameRings(m, a)
          /\ \A x \in Pcbs :
               /\ a[x].p_prnt = m[x].p_prnt
               /\ a[x].p_child = IF x = prnt THEN sib ELSE m[x].p_child
               /\ a[x].p_sib = m[x].p_sib
               /\ a[x].p_prevsib = m[x].p_prevsib
      BY <1>1, <3>1, <3>3, ChildSetFields
    <3>5. PICK b : b = PrevsibSet(a, sib, NULL)
      OBVIOUS
    <3>6. /\ b \in [Pcbs -> Links]
          /\ SameRings(a, b)
          /\ \A x \in Pcbs :
               /\ b[x].p_prnt = a[x].p_prnt
               /\ b[x].p_child = a[x].p_child
               /\ b[x].p_sib = a[x].p_sib
               /\ b[x].p_prevsib = IF x = sib THEN NULL ELSE a[x].p_prevsib
      BY <1>1, <2>3, <3>4, <3>5, PrevsibSetFields
    <3>7. SameRings(m, b)
      BY <3>4, <3>6 DEF SameRings
    <3>8. Rest(b)
      BY <1>1, <2>3, <3>4, <3>6, <3>7
    <3> QED
      BY <3>2, <3>5, <3>8
  <2>4. CASE sib # NULL /\ prevsib # NULL
    <3>1. PICK a : a = PrevsibSet(m, sib, prevsib)
      OBVIOUS
    <3>2. n = PrntSet(SibSet(a, prevsib, sib), p, NULL)
      BY <2>4, <3>1 DEF ChildUnlinked, PrntSet, SibSet, PrevsibSet
    <3>3. prevsib \in Pcbs /\ sib \in Pointers
      BY <1>1, <2>4
    <3> HIDE DEF n, sib, prevsib, prnt
    <3>4. /\ a \in [Pcbs -> Links]
          /\ SameRings(m, a)
          /\ \A x \in Pcbs :
               /\ a[x].p_prnt = m[x].p_prnt
               /\ a[x].p_child = m[x].p_child
               /\ a[x].p_sib = m[x].p_sib
               /\ a[x].p_prevsib = IF x = sib THEN prevsib ELSE m[x].p_prevsib
      BY <1>1, <2>4, <3>1, PrevsibSetFields
    <3>5. PICK b : b = SibSet(a, prevsib, sib)
      OBVIOUS
    <3>6. /\ b \in [Pcbs -> Links]
          /\ SameRings(a, b)
          /\ \A x \in Pcbs :
               /\ b[x].p_prnt = a[x].p_prnt
               /\ b[x].p_child = a[x].p_child
               /\ b[x].p_sib = IF x = prevsib THEN sib ELSE a[x].p_sib
               /\ b[x].p_prevsib = a[x].p_prevsib
      BY <3>3, <3>4, <3>5, SibSetFields
    <3>7. SameRings(m, b)
      BY <3>4, <3>6 DEF SameRings
    <3>8. Rest(b)
      BY <1>1, <2>4, <3>4, <3>6, <3>7
    <3> QED
      BY <3>2, <3>5, <3>8
  <2> QED
    BY <2>1, <2>2, <2>3, <2>4
<1>3. PICK a : Rest(a) /\ n = PrntSet(a, p, NULL)
  BY <1>2
<1> HIDE DEF n, sib, prevsib, prnt
<1>4. /\ n \in [Pcbs -> Links]
      /\ SameRings(a, n)
      /\ \A x \in Pcbs :
           /\ n[x].p_prnt = IF x = p THEN NULL ELSE a[x].p_prnt
           /\ n[x].p_child = a[x].p_child
           /\ n[x].p_sib = a[x].p_sib
           /\ n[x].p_prevsib = a[x].p_prevsib
  BY <1>1, <1>3, PrntSetFields
<1>5. SameRings(m, n)
  BY <1>3, <1>4 DEF SameRings
<1>6. \A x \in Pcbs :
        /\ n[x].p_prnt = IF x = p THEN NULL ELSE m[x].p_prnt
        /\ n[x].p_child = IF x = prnt /\ prevsib = NULL THEN sib ELSE m[x].p_child
        /\ n[x].p_sib = IF x = prevsib THEN sib ELSE m[x].p_sib
        /\ n[x].p_prevsib = IF x = sib THEN prevsib ELSE m[x].p_prevsib
  BY <1>3, <1>4
<1> QED
  BY <1>4, <1>5, <1>6 DEF n, sib, prevsib, prnt

(* The children of p, the first of them, and what they know of p.          *)
LEMMA FamilyEnds ==
  ASSUME NEW m, NEW p, NEW c, IsFamily(m, p, c)
  PROVE  /\ c \in Seq(Pcbs)
         /\ IsInjective(c)
         /\ Len(c) \in Nat
         /\ \A i \in 1..Len(c) : c[i] \in Pcbs /\ c[i] \in ToSet(c)
         /\ ToSet(c) \subseteq Pcbs
         /\ m[p].p_child = NULL <=> c = <<>>
         /\ c # <<>> => /\ Len(c) >= 1
                        /\ m[p].p_child = c[1]
                        /\ Head(c) = c[1]
                        /\ c[1] \in ToSet(c)
         /\ \A x \in ToSet(c) : m[x].p_prnt = p
<1>1. /\ c \in Seq(Pcbs)
      /\ IsInjective(c)
      /\ Len(c) \in Nat
      /\ \A i \in 1..Len(c) : c[i] \in Pcbs /\ c[i] \in ToSet(c)
      /\ ToSet(c) \subseteq Pcbs
  BY LenProperties, ElementOfSeq, MemberPosition DEF IsFamily
<1>2. \A x \in ToSet(c) : m[x].p_prnt = p
  <2> SUFFICES ASSUME NEW x \in ToSet(c) PROVE m[x].p_prnt = p
    OBVIOUS
  <2>1. PICK i \in 1..Len(c) : c[i] = x
    BY <1>1, MemberPosition
  <2> QED
    BY <2>1 DEF IsFamily
<1>3. CASE c = <<>>
  BY <1>1, <1>2, <1>3 DEF IsFamily
<1>4. CASE c # <<>>
  <2>1. Len(c) >= 1 /\ 1 \in 1..Len(c)
    BY <1>1, <1>4, MemberPosition
  <2>2. m[p].p_child = c[1] /\ c[1] # NULL /\ Head(c) = c[1]
    BY <1>1, <1>4, <2>1, RemoveHead, PcbAssumption DEF IsFamily
  <2> QED
    BY <1>1, <1>2, <1>4, <2>1, <2>2
<1> QED
  BY <1>3, <1>4

(* insertChild: p, whose sibling links allocPcb cleaned, becomes the first *)
(* child of prnt; no other family changes.                                 *)
LEMMA FamilyGrown ==
  ASSUME NEW m \in [Pcbs -> Links], NEW prnt \in Pcbs, NEW p \in Pcbs,
         NEW c, IsFamily(m, prnt, c),
         m[p].p_prnt = NULL, m[p].p_sib = NULL, m[p].p_prevsib = NULL
  PROVE  LET n == Adopted(m, prnt, p) IN
         /\ IsFamily(n, prnt, <<p>> \o c)
         /\ \A q \in Pcbs \ {prnt} : \A d : IsFamily(m, q, d) => IsFamily(n, q, d)
<1> DEFINE n == Adopted(m, prnt, p)
           first == m[prnt].p_child
           r == <<p>> \o c
<1>1. /\ c \in Seq(Pcbs)
      /\ IsInjective(c)
      /\ Len(c) \in Nat
      /\ \A i \in 1..Len(c) : c[i] \in Pcbs /\ c[i] \in ToSet(c)
      /\ first = NULL <=> c = <<>>
      /\ c # <<>> => first = c[1] /\ c[1] \in ToSet(c) /\ Len(c) >= 1
      /\ \A x \in ToSet(c) : m[x].p_prnt = prnt
  BY FamilyEnds
<1>2. prnt # NULL /\ p \notin ToSet(c)
  BY <1>1, PcbAssumption
<1>3. \A x \in Pcbs :
        /\ n[x].p_prnt = IF x = p THEN prnt ELSE m[x].p_prnt
        /\ n[x].p_child = IF x = prnt THEN p ELSE m[x].p_child
        /\ n[x].p_sib = IF x = p THEN first ELSE m[x].p_sib
        /\ n[x].p_prevsib = IF x = first THEN p ELSE m[x].p_prevsib
  BY AdoptedFields
<1>4. /\ r \in Seq(Pcbs)
      /\ IsInjective(r)
      /\ Len(r) = Len(c) + 1
      /\ r[1] = p
      /\ \A i \in 2..Len(r) : r[i] = c[i - 1]
  <2> DEFINE o == <<p>>
  <2>1. o \in Seq(Pcbs) /\ Len(o) = 1 /\ o[1] = p
    OBVIOUS
  <2>2. /\ o \o c \in Seq(Pcbs)
        /\ Len(o \o c) = Len(o) + Len(c)
        /\ \A i \in 1..Len(o) + Len(c) : (o \o c)[i] = IF i <= Len(o) THEN o[i] ELSE c[i - Len(o)]
    BY <1>1, <2>1, ConcatProperties
  <2>3. IsInjective(o \o c)
    BY <1>1, <1>2, InsertHead
  <2> HIDE DEF o
  <2>4. /\ Len(o \o c) = Len(c) + 1
        /\ (o \o c)[1] = p
        /\ \A i \in 2..Len(c) + 1 : (o \o c)[i] = c[i - 1]
    BY <1>1, <2>1, <2>2
  <2> QED
    BY <2>2, <2>3, <2>4 DEF o
<1> HIDE DEF n, r, first
<1>5. r # <<>>
  BY <1>1, <1>4, EmptySeq
<1>6. n[prnt].p_child = p
  BY <1>3
<1>7. ASSUME NEW i \in 1..Len(r)
      PROVE  /\ n[r[i]].p_sib = IF i = Len(r) THEN NULL ELSE r[i + 1]
             /\ n[r[i]].p_prevsib = IF i = 1 THEN NULL ELSE r[i - 1]
             /\ n[r[i]].p_prnt = prnt
  <2>1. CASE i = 1
    <3>1. r[i] = p /\ p # first
      BY <2>1, <1>1, <1>2, <1>4, PcbAssumption
    <3>2. first = IF i = Len(r) THEN NULL ELSE r[i + 1]
      <4>1. CASE c = <<>>
        BY <4>1, <2>1, <1>1, <1>4, EmptySeq
      <4>2. CASE c # <<>>
        BY <4>2, <2>1, <1>1, <1>4
      <4> QED
        BY <4>1, <4>2
    <3> QED
      BY <2>1, <3>1, <3>2, <1>3
  <2>2. CASE i # 1
    <3> DEFINE j == i - 1
    <3>1. j \in 1..Len(c) /\ r[i] = c[j] /\ i = j + 1
      BY <2>2, <1>1, <1>4
    <3>2. /\ m[c[j]].p_sib = IF j = Len(c) THEN NULL ELSE c[j + 1]
          /\ m[c[j]].p_prevsib = IF j = 1 THEN NULL ELSE c[j - 1]
          /\ m[c[j]].p_prnt = prnt
      BY <3>1 DEF IsFamily
    <3>3. c[j] \in Pcbs /\ c[j] # p /\ (c[j] = first <=> j = 1)
      <4>1. c # <<>> /\ \A k, l \in 1..Len(c) : c[k] = c[l] => k = l
        BY <3>1, <1>1, InjectivePositions, EmptySeq
      <4> HIDE DEF j
      <4> QED
        BY <4>1, <3>1, <1>1, <1>2
    <3>4. /\ n[c[j]].p_sib = IF j = Len(c) THEN NULL ELSE c[j + 1]
          /\ n[c[j]].p_prevsib = IF j = 1 THEN p ELSE c[j - 1]
          /\ n[c[j]].p_prnt = prnt
      <4> HIDE DEF j
      <4> QED
        BY <3>2, <3>3, <1>3
    <3>5. (IF j = Len(c) THEN NULL ELSE c[j + 1]) = IF i = Len(r) THEN NULL ELSE r[i + 1]
      BY <3>1, <1>1, <1>4
    <3>6. (IF j = 1 THEN p ELSE c[j - 1]) = r[i - 1]
      BY <3>1, <1>1, <1>4
    <3> QED
      BY <2>2, <3>1, <3>4, <3>5, <3>6
  <2> QED
    BY <2>1, <2>2
<1>8. IsFamily(n, prnt, r)
  BY <1>4, <1>5, <1>6, <1>7 DEF IsFamily
<1>9. ASSUME NEW q \in Pcbs \ {prnt}, NEW d, IsFamily(m, q, d)
      PROVE  IsFamily(n, q, d)
  <2>1. ToSet(d) \subseteq Pcbs /\ \A x \in ToSet(d) : m[x].p_prnt = q
    BY <1>9, FamilyEnds
  <2>2. \A x \in ToSet(d) : x # p /\ x # first
    <3>1. first # NULL => first \in ToSet(c)
      BY <1>1 DEF first
    <3> QED
      BY <2>1, <3>1, <1>1, PcbAssumption
  <2>3. /\ n[q].p_child = m[q].p_child
        /\ \A x \in ToSet(d) : /\ n[x].p_sib = m[x].p_sib
                               /\ n[x].p_prevsib = m[x].p_prevsib
                               /\ n[x].p_prnt = m[x].p_prnt
    BY <2>1, <2>2, <1>3
  <2> QED
    BY <1>9, <2>3, FamilyKept
<1> QED
  BY <1>8, <1>9 DEF n, r

(* outChild: p leaves the family of its parent, whichever child it is; no  *)
(* other family changes.                                                   *)
LEMMA FamilyShrunk ==
  ASSUME NEW m \in [Pcbs -> Links], NEW prnt \in Pcbs, NEW c, IsFamily(m, prnt, c),
         NEW p \in ToSet(c)
  PROVE  LET n == ChildUnlinked(m, p) IN
         /\ IsFamily(n, prnt, TakenOut(c, p))
         /\ \A q \in Pcbs \ {prnt} : \A d : IsFamily(m, q, d) => IsFamily(n, q, d)
<1> DEFINE n == ChildUnlinked(m, p)
           s == TakenOut(c, p)
           sib == m[p].p_sib
           prevsib == m[p].p_prevsib
<1>1. /\ c \in Seq(Pcbs)
      /\ IsInjective(c)
      /\ Len(c) \in Nat
      /\ \A i \in 1..Len(c) : c[i] \in Pcbs /\ c[i] \in ToSet(c) /\ c[i] # NULL
      /\ ToSet(c) \subseteq Pcbs
      /\ \A x \in ToSet(c) : m[x].p_prnt = prnt
  BY FamilyEnds, PcbAssumption
<1>2. \A i, j \in 1..Len(c) : c[i] = c[j] => i = j
  BY <1>1, InjectivePositions
<1>3. \A x \in Pcbs :
        /\ n[x].p_prnt = IF x = p THEN NULL ELSE m[x].p_prnt
        /\ n[x].p_child = IF x = prnt /\ prevsib = NULL THEN sib ELSE m[x].p_child
        /\ n[x].p_sib = IF x = prevsib THEN sib ELSE m[x].p_sib
        /\ n[x].p_prevsib = IF x = sib THEN prevsib ELSE m[x].p_prevsib
  <2>1. p \in Pcbs /\ m[p].p_prnt = prnt
    BY <1>1
  <2> QED
    BY <2>1, ChildUnlinkedFields
<1>4. PICK k \in 1..Len(c) :
        /\ c[k] = p
        /\ s \in Seq(Pcbs)
        /\ Len(s) = Len(c) - 1
        /\ \A i \in 1..Len(c) - 1 : s[i] = IF i < k THEN c[i] ELSE c[i + 1]
  BY <1>1, TakenOutPositions
<1>5. IsInjective(s)
  BY <1>1, RemoveMember
<1>6. \A i \in 1..Len(c) :
        /\ m[c[i]].p_sib = IF i = Len(c) THEN NULL ELSE c[i + 1]
        /\ m[c[i]].p_prevsib = IF i = 1 THEN NULL ELSE c[i - 1]
        /\ m[c[i]].p_prnt = prnt
  BY DEF IsFamily
<1>7. /\ sib = IF k = Len(c) THEN NULL ELSE c[k + 1]
      /\ prevsib = IF k = 1 THEN NULL ELSE c[k - 1]
  BY <1>4, <1>6
<1> HIDE DEF n, s, sib, prevsib
<1>8. n[prnt].p_child = IF s = <<>> THEN NULL ELSE s[1]
  <2>1. s = <<>> <=> Len(c) = 1
    BY <1>1, <1>4, EmptySeq
  <2>2. prevsib = NULL <=> k = 1
    BY <1>1, <1>4, <1>7
  <2>3. m[prnt].p_child = c[1]
    BY <1>1, <1>4, EmptySeq DEF IsFamily
  <2>4. CASE k = 1
    BY <2>1, <2>2, <2>4, <1>1, <1>3, <1>4, <1>7
  <2>5. CASE k # 1
    BY <2>1, <2>2, <2>3, <2>5, <1>1, <1>3, <1>4
  <2> QED
    BY <2>4, <2>5
<1>9. ASSUME NEW i \in 1..Len(s)
      PROVE  /\ n[s[i]].p_sib = IF i = Len(s) THEN NULL ELSE s[i + 1]
             /\ n[s[i]].p_prevsib = IF i = 1 THEN NULL ELSE s[i - 1]
             /\ n[s[i]].p_prnt = prnt
  <2> DEFINE j == IF i < k THEN i ELSE i + 1
  <2>1. j \in 1..Len(c) /\ j # k /\ s[i] = c[j] /\ c[j] \in Pcbs
    BY <1>1, <1>4
  <2>2. c[j] # p /\ (c[j] = prevsib <=> j = k - 1) /\ (c[j] = sib <=> j = k + 1)
    <3> HIDE DEF j
    <3>1. c[j] # p
      BY <2>1, <1>2, <1>4
    <3>2. c[j] = prevsib <=> j = k - 1
      <4>1. CASE k = 1
        BY <4>1, <2>1, <1>1, <1>7
      <4>2. CASE k # 1
        <5>1. k - 1 \in 1..Len(c) /\ prevsib = c[k - 1]
          BY <4>2, <1>1, <1>7
        <5> QED
          BY <5>1, <2>1, <1>2
      <4> QED
        BY <4>1, <4>2
    <3>3. c[j] = sib <=> j = k + 1
      <4>1. CASE k = Len(c)
        BY <4>1, <2>1, <1>1, <1>7
      <4>2. CASE k # Len(c)
        <5>1. k + 1 \in 1..Len(c) /\ sib = c[k + 1]
          BY <4>2, <1>1, <1>7
        <5> QED
          BY <5>1, <2>1, <1>2
      <4> QED
        BY <4>1, <4>2
    <3> QED
      BY <3>1, <3>2, <3>3
  <2>3. /\ m[c[j]].p_sib = IF j = Len(c) THEN NULL ELSE c[j + 1]
        /\ m[c[j]].p_prevsib = IF j = 1 THEN NULL ELSE c[j - 1]
        /\ m[c[j]].p_prnt = prnt
    <3> HIDE DEF j
    <3> QED
      BY <2>1, <1>6
  <2>4. /\ n[s[i]].p_sib = IF j = k - 1 THEN sib
                           ELSE IF j = Len(c) THEN NULL ELSE c[j + 1]
        /\ n[s[i]].p_prevsib = IF j = k + 1 THEN prevsib
                               ELSE IF j = 1 THEN NULL ELSE c[j - 1]
        /\ n[s[i]].p_prnt = prnt
    <3> HIDE DEF j
    <3> QED
      BY <2>1, <2>2, <2>3, <1>3
  <2>5. (IF j = k - 1 THEN sib ELSE IF j = Len(c) THEN NULL ELSE c[j + 1])
          = IF i = Len(s) THEN NULL ELSE s[i + 1]
    <3>1. CASE i = k - 1
      BY <3>1, <1>1, <1>4, <1>7
    <3>2. CASE i < k - 1
      <4>1. /\ j = i /\ j # k - 1 /\ j # Len(c) /\ i # Len(s)
            /\ i + 1 \in 1..Len(c) - 1 /\ i + 1 < k
        BY <3>2, <1>1, <1>4
      <4>2. s[i + 1] = c[i + 1]
        BY <4>1, <1>4
      <4> QED
        BY <4>1, <4>2
    <3>3. CASE i >= k
      <4>1. /\ j = i + 1 /\ j # k - 1
            /\ j = Len(c) <=> i = Len(s)
        BY <3>3, <1>1, <1>4
      <4>2. i # Len(s) => i + 1 \in 1..Len(c) - 1 /\ ~(i + 1 < k) /\ j + 1 = (i + 1) + 1
        BY <3>3, <1>1, <1>4
      <4>3. i # Len(s) => s[i + 1] = c[j + 1]
        BY <4>2, <1>4
      <4> QED
        BY <4>1, <4>3
    <3> QED
      BY <3>1, <3>2, <3>3, <1>1
  <2>6. (IF j = k + 1 THEN prevsib ELSE IF j = 1 THEN NULL ELSE c[j - 1])
          = IF i = 1 THEN NULL ELSE s[i - 1]
    BY <2>1, <1>1, <1>4, <1>7
  <2> QED
    BY <2>4, <2>5, <2>6
<1>10. IsFamily(n, prnt, s)
  BY <1>4, <1>5, <1>8, <1>9 DEF IsFamily
<1>11. ASSUME NEW q \in Pcbs \ {prnt}, NEW d, IsFamily(m, q, d)
       PROVE  IsFamily(n, q, d)
  <2>1. ToSet(d) \subseteq Pcbs /\ \A x \in ToSet(d) : m[x].p_prnt = q
    BY <1>11, FamilyEnds
  <2>2. \A x \in ToSet(d) : x # p /\ x # sib /\ x # prevsib
    <3>1. sib # NULL => sib \in ToSet(c)
      BY <1>1, <1>4, <1>7
    <3>2. prevsib # NULL => prevsib \in ToSet(c)
      BY <1>1, <1>4, <1>7
    <3> QED
      BY <2>1, <3>1, <3>2, <1>1, PcbAssumption
  <2>3. /\ n[q].p_child = m[q].p_child
        /\ \A x \in ToSet(d) : /\ n[x].p_sib = m[x].p_sib
                               /\ n[x].p_prevsib = m[x].p_prevsib
                               /\ n[x].p_prnt = m[x].p_prnt
    BY <2>1, <2>2, <1>3
  <2> QED
    BY <1>11, <2>3, FamilyKept
<1> QED
  BY <1>10, <1>11 DEF n, s

-----------------------------------------------------------------------------
(* The queues of the table: F is the free list with tail h, Q the others   *)
(* with the tails of tails, and no block is in two of them.                *)
Rings(m, h, tails, F, Q) ==
  /\ Q \in [Queues -> Seq(Pcbs)]
  /\ tails \in [Queues -> Pointers]
  /\ IsRing(m, h, F)
  /\ \A t \in Queues : IsRing(m, tails[t], Q[t])
  /\ \A t \in Queues : ToSet(F) \cap ToSet(Q[t]) = {}
  /\ \A t, u \in Queues : t # u => ToSet(Q[t]) \cap ToSet(Q[u]) = {}

(* The tree of the table: the children of each process are those of C, and *)
(* who has a parent is a child of it.                                      *)
Tree(m, C) ==
  /\ C \in [Pcbs -> Seq(Pcbs)]
  /\ \A p \in Pcbs : IsFamily(m, p, C[p])
  /\ \A p \in Pcbs : m[p].p_prnt # NULL => p \in ToSet(C[m[p].p_prnt])

(* The rings do not depend on the links of the tree.                       *)
LEMMA RingsKept ==
  ASSUME NEW m, NEW n, NEW h, NEW tails, NEW F, NEW Q,
         Rings(m, h, tails, F, Q), SameRings(m, n)
  PROVE  Rings(n, h, tails, F, Q)
<1>1. IsRing(n, h, F)
  <2>1. IsRing(m, h, F) /\ ToSet(F) \subseteq Pcbs
    BY RingEnds DEF Rings
  <2> QED
    BY <2>1, RingKept DEF SameRings
<1>2. ASSUME NEW t \in Queues PROVE IsRing(n, tails[t], Q[t])
  <2>1. IsRing(m, tails[t], Q[t]) /\ ToSet(Q[t]) \subseteq Pcbs
    BY RingEnds DEF Rings
  <2> QED
    BY <2>1, RingKept DEF SameRings
<1> QED
  BY <1>1, <1>2 DEF Rings

(* cleanPcb does no harm to the queues while the block is in none.         *)
LEMMA RingsCleaned ==
  ASSUME NEW m \in [Pcbs -> Links], NEW h, NEW tails, NEW F, NEW Q,
         Rings(m, h, tails, F, Q), NEW p \in Pcbs,
         p \notin ToSet(F), \A t \in Queues : p \notin ToSet(Q[t])
  PROVE  Rings(CleanPcb(m, p), h, tails, F, Q)
<1> DEFINE n == CleanPcb(m, p)
<1>1. \A x \in Pcbs \ {p} : n[x] = m[x]
  BY CleanFields
<1> HIDE DEF n
<1>2. IsRing(n, h, F)
  <2>1. IsRing(m, h, F) /\ ToSet(F) \subseteq Pcbs
    BY RingEnds DEF Rings
  <2>2. \A x \in ToSet(F) : n[x].p_next = m[x].p_next /\ n[x].p_prev = m[x].p_prev
    BY <2>1, <1>1
  <2> QED
    BY <2>1, <2>2, RingKept
<1>3. ASSUME NEW t \in Queues PROVE IsRing(n, tails[t], Q[t])
  <2>1. IsRing(m, tails[t], Q[t]) /\ ToSet(Q[t]) \subseteq Pcbs
    BY RingEnds DEF Rings
  <2>2. \A x \in ToSet(Q[t]) : n[x].p_next = m[x].p_next /\ n[x].p_prev = m[x].p_prev
    BY <2>1, <1>1
  <2> QED
    BY <2>1, <2>2, RingKept
<1>4. Rings(n, h, tails, F, Q)
  BY <1>2, <1>3 DEF Rings
<1> QED
  BY <1>4 DEF n

(* allocPcb takes a block out of the free list.                            *)
LEMMA FreeShrunk ==
  ASSUME NEW m \in [Pcbs -> Links], NEW h, NEW tails, NEW F, NEW Q,
         Rings(m, h, tails, F, Q), NEW p \in ToSet(F)
  PROVE  Rings(Unlink(m, p), TailWithout(m, h, p), tails, TakenOut(F, p), Q)
<1> DEFINE n == Unlink(m, p)
<1>1. IsRing(m, h, F)
  BY DEF Rings
<1>2. /\ IsRing(n, TailWithout(m, h, p), TakenOut(F, p))
      /\ \A x \in Pcbs \ ToSet(F) :
           n[x].p_next = m[x].p_next /\ n[x].p_prev = m[x].p_prev
  BY <1>1, RingShrunk
<1> HIDE DEF n
<1>3. ToSet(TakenOut(F, p)) = ToSet(F) \ {p}
  BY <1>1, RemoveMember DEF IsRing
<1>4. ASSUME NEW t \in Queues PROVE IsRing(n, tails[t], Q[t])
  <2>1. /\ IsRing(m, tails[t], Q[t])
        /\ ToSet(Q[t]) \subseteq Pcbs
        /\ ToSet(F) \cap ToSet(Q[t]) = {}
    BY RingEnds DEF Rings
  <2>2. \A x \in ToSet(Q[t]) : n[x].p_next = m[x].p_next /\ n[x].p_prev = m[x].p_prev
    BY <2>1, <1>2
  <2> QED
    BY <2>1, <2>2, RingKept
<1>5. \A t \in Queues : ToSet(TakenOut(F, p)) \cap ToSet(Q[t]) = {}
  BY <1>3 DEF Rings
<1>6. Rings(n, TailWithout(m, h, p), tails, TakenOut(F, p), Q)
  BY <1>2, <1>4, <1>5 DEF Rings
<1> QED
  BY <1>6 DEF n

(* freePcb puts a block that is in no queue behind the free list.          *)
LEMMA FreeGrown ==
  ASSUME NEW m \in [Pcbs -> Links], NEW h, NEW tails, NEW F, NEW Q,
         Rings(m, h, tails, F, Q), NEW p \in Pcbs,
         p \notin ToSet(F), \A t \in Queues : p \notin ToSet(Q[t])
  PROVE  Rings(LinkAtTail(m, h, p), p, tails, Append(F, p), Q)
<1> DEFINE n == LinkAtTail(m, h, p)
<1>1. IsRing(m, h, F)
  BY DEF Rings
<1>2. /\ IsRing(n, p, Append(F, p))
      /\ \A x \in Pcbs \ (ToSet(F) \cup {p}) :
           n[x].p_next = m[x].p_next /\ n[x].p_prev = m[x].p_prev
  BY <1>1, RingGrown
<1> HIDE DEF n
<1>3. ToSet(Append(F, p)) = ToSet(F) \cup {p}
  BY <1>1, InsertTail DEF IsRing
<1>4. ASSUME NEW t \in Queues PROVE IsRing(n, tails[t], Q[t])
  <2>1. /\ IsRing(m, tails[t], Q[t])
        /\ ToSet(Q[t]) \subseteq Pcbs
        /\ ToSet(F) \cap ToSet(Q[t]) = {}
    BY RingEnds DEF Rings
  <2>2. \A x \in ToSet(Q[t]) : n[x].p_next = m[x].p_next /\ n[x].p_prev = m[x].p_prev
    BY <2>1, <1>2
  <2> QED
    BY <2>1, <2>2, RingKept
<1>5. \A t \in Queues : ToSet(Append(F, p)) \cap ToSet(Q[t]) = {}
  BY <1>3 DEF Rings
<1>6. Rings(n, p, tails, Append(F, p), Q)
  BY <1>2, <1>4, <1>5 DEF Rings
<1> QED
  BY <1>6 DEF n

(* insertProcQ puts a block that is in no queue behind the queue t.        *)
LEMMA QueueGrown ==
  ASSUME NEW m \in [Pcbs -> Links], NEW h, NEW tails, NEW F, NEW Q,
         Rings(m, h, tails, F, Q), NEW p \in Pcbs, NEW t \in Queues,
         p \notin ToSet(F), \A u \in Queues : p \notin ToSet(Q[u])
  PROVE  Rings(LinkAtTail(m, tails[t], p), h, [tails EXCEPT ![t] = p], F,
               [Q EXCEPT ![t] = Append(@, p)])
<1> DEFINE n == LinkAtTail(m, tails[t], p)
           tails2 == [tails EXCEPT ![t] = p]
           Q2 == [Q EXCEPT ![t] = Append(@, p)]
<1>1. IsRing(m, tails[t], Q[t]) /\ Q[t] \in Seq(Pcbs)
  BY DEF Rings
<1>2. /\ IsRing(n, p, Append(Q[t], p))
      /\ \A x \in Pcbs \ (ToSet(Q[t]) \cup {p}) :
           n[x].p_next = m[x].p_next /\ n[x].p_prev = m[x].p_prev
  BY <1>1, RingGrown
<1> HIDE DEF n
<1>3. ToSet(Append(Q[t], p)) = ToSet(Q[t]) \cup {p} /\ Append(Q[t], p) \in Seq(Pcbs)
  BY <1>1, InsertTail DEF IsRing
<1>4. /\ Q2 \in [Queues -> Seq(Pcbs)] /\ tails2 \in [Queues -> Pointers]
      /\ Q2[t] = Append(Q[t], p) /\ tails2[t] = p
      /\ \A u \in Queues \ {t} : Q2[u] = Q[u] /\ tails2[u] = tails[u]
  BY <1>3 DEF Rings, Pointers
<1> HIDE DEF tails2, Q2
<1>5. IsRing(n, h, F)
  <2>1. /\ IsRing(m, h, F)
        /\ ToSet(F) \subseteq Pcbs
        /\ ToSet(F) \cap ToSet(Q[t]) = {}
    BY RingEnds DEF Rings
  <2>2. \A x \in ToSet(F) : n[x].p_next = m[x].p_next /\ n[x].p_prev = m[x].p_prev
    BY <2>1, <1>2
  <2> QED
    BY <2>1, <2>2, RingKept
<1>6. ASSUME NEW u \in Queues PROVE IsRing(n, tails2[u], Q2[u])
  <2>1. CASE u = t
    BY <2>1, <1>2, <1>4
  <2>2. CASE u # t
    <3>1. /\ IsRing(m, tails[u], Q[u])
          /\ ToSet(Q[u]) \subseteq Pcbs
          /\ ToSet(Q[u]) \cap ToSet(Q[t]) = {}
      BY <2>2, RingEnds DEF Rings
    <3>2. \A x \in ToSet(Q[u]) : n[x].p_next = m[x].p_next /\ n[x].p_prev = m[x].p_prev
      BY <3>1, <1>2
    <3> QED
      BY <2>2, <3>1, <3>2, <1>4, RingKept
  <2> QED
    BY <2>1, <2>2
<1>7. \A u \in Queues : ToSet(Q2[u]) = IF u = t THEN ToSet(Q[t]) \cup {p} ELSE ToSet(Q[u])
  BY <1>3, <1>4
<1>8. /\ \A u \in Queues : ToSet(F) \cap ToSet(Q2[u]) = {}
      /\ \A u, v \in Queues : u # v => ToSet(Q2[u]) \cap ToSet(Q2[v]) = {}
  <2>1. /\ \A u \in Queues : ToSet(F) \cap ToSet(Q[u]) = {}
        /\ \A u, v \in Queues : u # v => ToSet(Q[u]) \cap ToSet(Q[v]) = {}
    BY DEF Rings
  <2> QED
    BY <2>1, <1>7
<1>9. Rings(n, h, tails2, F, Q2)
  BY <1>4, <1>5, <1>6, <1>8 DEF Rings
<1> QED
  BY <1>9 DEF n, tails2, Q2

(* outProcQ takes a block out of the queue t.                              *)
LEMMA QueueShrunk ==
  ASSUME NEW m \in [Pcbs -> Links], NEW h, NEW tails, NEW F, NEW Q,
         Rings(m, h, tails, F, Q), NEW t \in Queues, NEW p \in ToSet(Q[t])
  PROVE  Rings(Unlink(m, p), h, [tails EXCEPT ![t] = TailWithout(m, @, p)], F,
               [Q EXCEPT ![t] = TakenOut(@, p)])
<1> DEFINE n == Unlink(m, p)
           tails2 == [tails EXCEPT ![t] = TailWithout(m, @, p)]
           Q2 == [Q EXCEPT ![t] = TakenOut(@, p)]
<1>1. IsRing(m, tails[t], Q[t]) /\ Q[t] \in Seq(Pcbs)
  BY DEF Rings
<1>2. /\ IsRing(n, TailWithout(m, tails[t], p), TakenOut(Q[t], p))
      /\ \A x \in Pcbs \ ToSet(Q[t]) :
           n[x].p_next = m[x].p_next /\ n[x].p_prev = m[x].p_prev
  BY <1>1, RingShrunk
<1> HIDE DEF n
<1>3. /\ ToSet(TakenOut(Q[t], p)) = ToSet(Q[t]) \ {p}
      /\ TakenOut(Q[t], p) \in Seq(Pcbs)
      /\ TailWithout(m, tails[t], p) \in Pointers
  BY <1>1, <1>2, RemoveMember, RingEnds DEF IsRing
<1>4. /\ Q2 \in [Queues -> Seq(Pcbs)] /\ tails2 \in [Queues -> Pointers]
      /\ Q2[t] = TakenOut(Q[t], p) /\ tails2[t] = TailWithout(m, tails[t], p)
      /\ \A u \in Queues \ {t} : Q2[u] = Q[u] /\ tails2[u] = tails[u]
  BY <1>3 DEF Rings
<1> HIDE DEF tails2, Q2
<1>5. IsRing(n, h, F)
  <2>1. /\ IsRing(m, h, F)
        /\ ToSet(F) \subseteq Pcbs
        /\ ToSet(F) \cap ToSet(Q[t]) = {}
    BY RingEnds DEF Rings
  <2>2. \A x \in ToSet(F) : n[x].p_next = m[x].p_next /\ n[x].p_prev = m[x].p_prev
    BY <2>1, <1>2
  <2> QED
    BY <2>1, <2>2, RingKept
<1>6. ASSUME NEW u \in Queues PROVE IsRing(n, tails2[u], Q2[u])
  <2>1. CASE u = t
    BY <2>1, <1>2, <1>4
  <2>2. CASE u # t
    <3>1. /\ IsRing(m, tails[u], Q[u])
          /\ ToSet(Q[u]) \subseteq Pcbs
          /\ ToSet(Q[u]) \cap ToSet(Q[t]) = {}
      BY <2>2, RingEnds DEF Rings
    <3>2. \A x \in ToSet(Q[u]) : n[x].p_next = m[x].p_next /\ n[x].p_prev = m[x].p_prev
      BY <3>1, <1>2
    <3> QED
      BY <2>2, <3>1, <3>2, <1>4, RingKept
  <2> QED
    BY <2>1, <2>2
<1>7. \A u \in Queues : ToSet(Q2[u]) \subseteq ToSet(Q[u])
  BY <1>3, <1>4
<1>8. /\ \A u \in Queues : ToSet(F) \cap ToSet(Q2[u]) = {}
      /\ \A u, v \in Queues : u # v => ToSet(Q2[u]) \cap ToSet(Q2[v]) = {}
  <2>1. /\ \A u \in Queues : ToSet(F) \cap ToSet(Q[u]) = {}
        /\ \A u, v \in Queues : u # v => ToSet(Q[u]) \cap ToSet(Q[v]) = {}
    BY DEF Rings
  <2> QED
    BY <2>1, <1>7
<1>9. Rings(n, h, tails2, F, Q2)
  BY <1>4, <1>5, <1>6, <1>8 DEF Rings
<1> QED
  BY <1>9 DEF n, tails2, Q2

(* The families do not depend on the links of the queues.                  *)
LEMMA TreeKept ==
  ASSUME NEW m, NEW n, NEW C, Tree(m, C), SameTree(m, n)
  PROVE  Tree(n, C)
<1>1. ASSUME NEW p \in Pcbs PROVE IsFamily(n, p, C[p])
  <2>1. IsFamily(m, p, C[p]) /\ ToSet(C[p]) \subseteq Pcbs
    BY FamilyEnds DEF Tree
  <2> QED
    BY <2>1, FamilyKept DEF SameTree
<1>2. ASSUME NEW p \in Pcbs, n[p].p_prnt # NULL
      PROVE  p \in ToSet(C[n[p].p_prnt])
  BY <1>2 DEF Tree, SameTree
<1> QED
  BY <1>1, <1>2 DEF Tree

(* Who has a parent is one of its children, and nobody else's.             *)
LEMMA ParentKnown ==
  ASSUME NEW m \in [Pcbs -> Links], NEW C, Tree(m, C), NEW p \in Pcbs
  PROVE  /\ m[p].p_prnt # NULL => m[p].p_prnt \in Pcbs /\ p \in ToSet(C[m[p].p_prnt])
         /\ \A q \in Pcbs : p \in ToSet(C[q]) => m[p].p_prnt = q
  BY FamilyEnds DEF Tree, Links, Pointers

(* cleanPcb does no harm to the tree while the block is not in it.         *)
LEMMA TreeCleaned ==
  ASSUME NEW m \in [Pcbs -> Links], NEW C, Tree(m, C), NEW p \in Pcbs,
         m[p].p_prnt = NULL, m[p].p_child = NULL
  PROVE  Tree(CleanPcb(m, p), C)
<1> DEFINE n == CleanPcb(m, p)
<1>1. n[p] = NoLinks /\ \A x \in Pcbs \ {p} : n[x] = m[x]
  BY CleanFields
<1> HIDE DEF n
<1>2. NoLinks.p_child = NULL /\ NoLinks.p_prnt = NULL
  BY DEF NoLinks
<1>3. ASSUME NEW q \in Pcbs PROVE IsFamily(n, q, C[q])
  <2>1. /\ IsFamily(m, q, C[q])
        /\ ToSet(C[q]) \subseteq Pcbs
        /\ \A x \in ToSet(C[q]) : m[x].p_prnt = q
    BY FamilyEnds DEF Tree
  <2>2. n[q].p_child = m[q].p_child
    BY <1>1, <1>2
  <2>3. p \notin ToSet(C[q])
    BY <2>1, PcbAssumption
  <2>4. \A x \in ToSet(C[q]) : n[x] = m[x]
    BY <2>1, <2>3, <1>1
  <2> QED
    BY <2>1, <2>2, <2>4, FamilyKept
<1>4. ASSUME NEW x \in Pcbs, n[x].p_prnt # NULL
      PROVE  x \in ToSet(C[n[x].p_prnt])
  BY <1>1, <1>2, <1>4 DEF Tree
<1>5. Tree(n, C)
  BY <1>3, <1>4 DEF Tree
<1> QED
  BY <1>5 DEF n

(* insertChild puts a block without a parent and siblings into the tree.   *)
LEMMA TreeGrown ==
  ASSUME NEW m \in [Pcbs -> Links], NEW C, Tree(m, C),
         NEW prnt \in Pcbs, NEW p \in Pcbs,
         m[p].p_prnt = NULL, m[p].p_sib = NULL, m[p].p_prevsib = NULL
  PROVE  Tree(Adopted(m, prnt, p), [C EXCEPT ![prnt] = <<p>> \o @])
<1> DEFINE n == Adopted(m, prnt, p)
           C2 == [C EXCEPT ![prnt] = <<p>> \o @]
<1>1. /\ IsFamily(m, prnt, C[prnt])
      /\ C[prnt] \in Seq(Pcbs)
      /\ IsInjective(C[prnt])
      /\ \A x \in ToSet(C[prnt]) : m[x].p_prnt = prnt
      /\ C \in [Pcbs -> Seq(Pcbs)]
  BY FamilyEnds DEF Tree
<1>2. p \notin ToSet(C[prnt])
  BY <1>1, PcbAssumption
<1>3. /\ <<p>> \o C[prnt] \in Seq(Pcbs)
      /\ ToSet(<<p>> \o C[prnt]) = ToSet(C[prnt]) \cup {p}
  BY <1>1, <1>2, InsertHead
<1>4. /\ C2 \in [Pcbs -> Seq(Pcbs)]
      /\ C2[prnt] = <<p>> \o C[prnt]
      /\ \A q \in Pcbs \ {prnt} : C2[q] = C[q]
  BY <1>1, <1>3
<1>5. /\ IsFamily(n, prnt, <<p>> \o C[prnt])
      /\ \A q \in Pcbs \ {prnt} : \A d : IsFamily(m, q, d) => IsFamily(n, q, d)
  BY <1>1, FamilyGrown
<1>6. \A x \in Pcbs : n[x].p_prnt = IF x = p THEN prnt ELSE m[x].p_prnt
  BY AdoptedFields
<1> HIDE DEF n, C2
<1>7. ASSUME NEW q \in Pcbs PROVE IsFamily(n, q, C2[q])
  <2>1. IsFamily(m, q, C[q])
    BY DEF Tree
  <2> QED
    BY <2>1, <1>4, <1>5
<1>8. ASSUME NEW x \in Pcbs, n[x].p_prnt # NULL
      PROVE  x \in ToSet(C2[n[x].p_prnt])
  <2>1. CASE x = p
    BY <2>1, <1>3, <1>4, <1>6
  <2>2. CASE x # p
    <3>1. /\ n[x].p_prnt = m[x].p_prnt
          /\ m[x].p_prnt \in Pcbs
          /\ x \in ToSet(C[m[x].p_prnt])
      BY <2>2, <1>6, <1>8, ParentKnown
    <3>2. CASE m[x].p_prnt = prnt
      BY <3>1, <3>2, <1>3, <1>4
    <3>3. CASE m[x].p_prnt # prnt
      BY <3>1, <3>3, <1>4
    <3> QED
      BY <3>2, <3>3
  <2> QED
    BY <2>1, <2>2
<1>9. Tree(n, C2)
  BY <1>4, <1>7, <1>8 DEF Tree
<1> QED
  BY <1>9 DEF n, C2

(* outChild takes a block that has a parent out of the tree.               *)
LEMMA TreeShrunk ==
  ASSUME NEW m \in [Pcbs -> Links], NEW C, Tree(m, C), NEW prnt \in Pcbs,
         NEW p \in ToSet(C[prnt])
  PROVE  /\ p \in Pcbs
         /\ m[p].p_prnt = prnt
         /\ Tree(ChildUnlinked(m, p), [C EXCEPT ![prnt] = TakenOut(@, p)])
<1> DEFINE n == ChildUnlinked(m, p)
           C2 == [C EXCEPT ![prnt] = TakenOut(@, p)]
<1>1. /\ IsFamily(m, prnt, C[prnt])
      /\ C[prnt] \in Seq(Pcbs)
      /\ IsInjective(C[prnt])
      /\ C \in [Pcbs -> Seq(Pcbs)]
      /\ p \in Pcbs
      /\ m[p].p_prnt = prnt
  BY FamilyEnds DEF Tree
<1>2. /\ TakenOut(C[prnt], p) \in Seq(Pcbs)
      /\ ToSet(TakenOut(C[prnt], p)) = ToSet(C[prnt]) \ {p}
  BY <1>1, RemoveMember
<1>3. /\ C2 \in [Pcbs -> Seq(Pcbs)]
      /\ C2[prnt] = TakenOut(C[prnt], p)
      /\ \A q \in Pcbs \ {prnt} : C2[q] = C[q]
  BY <1>1, <1>2
<1>4. /\ IsFamily(n, prnt, TakenOut(C[prnt], p))
      /\ \A q \in Pcbs \ {prnt} : \A d : IsFamily(m, q, d) => IsFamily(n, q, d)
  BY <1>1, FamilyShrunk
<1>5. \A x \in Pcbs : n[x].p_prnt = IF x = p THEN NULL ELSE m[x].p_prnt
  BY <1>1, ChildUnlinkedFields
<1> HIDE DEF n, C2
<1>6. ASSUME NEW q \in Pcbs PROVE IsFamily(n, q, C2[q])
  <2>1. IsFamily(m, q, C[q])
    BY DEF Tree
  <2> QED
    BY <2>1, <1>3, <1>4
<1>7. ASSUME NEW x \in Pcbs, n[x].p_prnt # NULL
      PROVE  x \in ToSet(C2[n[x].p_prnt])
  <2>1. /\ x # p
        /\ n[x].p_prnt = m[x].p_prnt
        /\ m[x].p_prnt \in Pcbs
        /\ x \in ToSet(C[m[x].p_prnt])
    BY <1>5, <1>7, ParentKnown
  <2>2. CASE m[x].p_prnt = prnt
    BY <2>1, <2>2, <1>2, <1>3
  <2>3. CASE m[x].p_prnt # prnt
    BY <2>1, <2>3, <1>3
  <2> QED
    BY <2>2, <2>3
<1>8. Tree(n, C2)
  BY <1>3, <1>6, <1>7 DEF Tree
<1> QED
  BY <1>1, <1>8 DEF n, C2

-----------------------------------------------------------------------------
(* The lists that the pointers of the state stand for.                     *)
FreeList == Ring(pcb, pcbFree_h)
QueueLists == [t \in Queues |-> Ring(pcb, tp[t])]
ChildLists == [p \in Pcbs |-> Siblings(pcb, p)]

(* The invariant.  Beside the queues and the tree: a free block is not in  *)
(* the tree; a block that createProcess has not queued yet is in no queue  *)
(* and has no children, and none of the sibling links that ChildUnlinked   *)
(* leaves in a block until it is cleaned.                                  *)
PcbInv ==
  /\ TypeOK
  /\ Rings(pcb, pcbFree_h, tp, FreeList, QueueLists)
  /\ Tree(pcb, ChildLists)
  /\ \A p \in ToSet(FreeList) : pcb[p].p_prnt = NULL /\ pcb[p].p_child = NULL
  /\ \A p \in newborn :
       /\ p \in InUse \ Queued
       /\ pcb[p].p_child = NULL
       /\ pcb[p].p_prnt = NULL => pcb[p].p_sib = NULL /\ pcb[p].p_prevsib = NULL

(* The lists of a table are those it is known to hold.                     *)
LEMMA ListsAre ==
  ASSUME NEW m, NEW h, NEW tails, NEW F, NEW Q, NEW C,
         Rings(m, h, tails, F, Q), Tree(m, C)
  PROVE  /\ Ring(m, h) = F
         /\ [t \in Queues |-> Ring(m, tails[t])] = Q
         /\ [p \in Pcbs |-> Siblings(m, p)] = C
<1>1. Ring(m, h) = F
  BY RingIs DEF Rings
<1>2. \A t \in Queues : Ring(m, tails[t]) = Q[t]
  BY RingIs DEF Rings
<1>3. \A p \in Pcbs : Siblings(m, p) = C[p]
  BY SiblingsIs DEF Tree
<1>4. Q \in [Queues -> Seq(Pcbs)] /\ C \in [Pcbs -> Seq(Pcbs)]
  BY DEF Rings, Tree
<1> QED
  BY <1>1, <1>2, <1>3, <1>4

(* What has to be shown of a step: that the new table holds some lists.    *)
LEMMA InvNext ==
  ASSUME NEW F, NEW Q, NEW C,
         pcb' \in [Pcbs -> Links],
         Rings(pcb', pcbFree_h', tp', F, Q),
         Tree(pcb', C),
         newborn' \subseteq Pcbs, orphans' \subseteq Pcbs, result' \in Pointers,
         \A p \in ToSet(F) : pcb'[p].p_prnt = NULL /\ pcb'[p].p_child = NULL,
         \A p \in newborn' :
           /\ p \notin ToSet(F)
           /\ \A t \in Queues : p \notin ToSet(Q[t])
           /\ pcb'[p].p_child = NULL
           /\ pcb'[p].p_prnt = NULL => pcb'[p].p_sib = NULL /\ pcb'[p].p_prevsib = NULL
  PROVE  PcbInv' /\ FreeList' = F /\ QueueLists' = Q /\ ChildLists' = C
<1>1. FreeList' = F /\ QueueLists' = Q /\ ChildLists' = C
  BY ListsAre DEF FreeList, QueueLists, ChildLists
<1>2. TypeOK'
  BY RingEnds DEF TypeOK, Rings
<1>3. InUse' = Pcbs \ ToSet(F)
  BY <1>1 DEF InUse, FreeList
<1>4. \A p \in Queued' : \E t \in Queues : p \in ToSet(Q[t])
  BY <1>1 DEF Queued, QueueLists
<1> QED
  BY <1>1, <1>2, <1>3, <1>4 DEF PcbInv

(* What the invariant says of the lists of the state.                      *)
LEMMA InvHere ==
  ASSUME PcbInv
  PROVE  /\ TypeOK
         /\ pcb \in [Pcbs -> Links]
         /\ Rings(pcb, pcbFree_h, tp, FreeList, QueueLists)
         /\ Tree(pcb, ChildLists)
         /\ InUse = Pcbs \ ToSet(FreeList)
         /\ \A p : p \in Queued <=> \E t \in Queues : p \in ToSet(QueueLists[t])
         /\ HeadOf(pcbFree_h) = IF FreeList = <<>> THEN NULL ELSE Head(FreeList)
         /\ \A t \in Queues :
              HeadOf(tp[t]) = IF QueueLists[t] = <<>> THEN NULL ELSE Head(QueueLists[t])
<1>1. /\ TypeOK
      /\ pcb \in [Pcbs -> Links]
      /\ Rings(pcb, pcbFree_h, tp, FreeList, QueueLists)
      /\ Tree(pcb, ChildLists)
  BY DEF PcbInv, TypeOK
<1>2. InUse = Pcbs \ ToSet(FreeList)
  BY DEF InUse, FreeList
<1>3. \A p : p \in Queued <=> \E t \in Queues : p \in ToSet(QueueLists[t])
  BY DEF Queued, QueueLists
<1>4. HeadOf(pcbFree_h) = IF FreeList = <<>> THEN NULL ELSE Head(FreeList)
  BY <1>1, RingEnds DEF HeadOf, Rings
<1>5. \A t \in Queues :
        HeadOf(tp[t]) = IF QueueLists[t] = <<>> THEN NULL ELSE Head(QueueLists[t])
  BY <1>1, RingEnds DEF HeadOf, Rings
<1> QED
  BY <1>1, <1>2, <1>3, <1>4, <1>5

(* initPcbs makes one ring of all blocks, in the order they have in the    *)
(* table, and no tree.                                                     *)
LEMMA PcbInit ==
  ASSUME Init
  PROVE  /\ PcbInv
         /\ FreeList \in [1..MAXPROC -> Pcbs]
         /\ IsInjective(FreeList)
         /\ QueueLists = [t \in Queues |-> <<>>]
         /\ ChildLists = [p \in Pcbs |-> <<>>]
<1> DEFINE at(table, p) == CHOOSE i \in 1..MAXPROC : table[i] = p
<1>1. PICK table \in {f \in [1..MAXPROC -> Pcbs] : IsInjective(f)} :
        /\ pcb = [p \in Pcbs |->
                   [NoLinks EXCEPT
                     !.p_next = table[IF at(table, p) = MAXPROC THEN 1 ELSE at(table, p) + 1],
                     !.p_prev = table[IF at(table, p) = 1 THEN MAXPROC ELSE at(table, p) - 1]]]
        /\ pcbFree_h = table[MAXPROC]
  BY DEF Init
<1>2. MAXPROC \in Nat /\ MAXPROC >= 1
  BY PcbAssumption, FS_CardinalityType, FS_EmptySet DEF MAXPROC
<1>3. table \in Seq(Pcbs) /\ Len(table) = MAXPROC /\ IsInjective(table) /\ table # <<>>
  <2>1. table \in Seq(Pcbs)
    BY <1>1, <1>2, SeqDef
  <2>2. Len(table) = MAXPROC
    <3>1. Len(table) \in Nat /\ 1..Len(table) = 1..MAXPROC
      BY <1>1, <2>1, LenProperties
    <3>2. MAXPROC \in 1..MAXPROC
      BY <1>2
    <3>3. MAXPROC \in 1..Len(table)
      BY <3>1, <3>2
    <3>4. Len(table) \in 1..Len(table)
      BY <3>1, <3>3, <1>2
    <3>5. Len(table) \in 1..MAXPROC
      BY <3>1, <3>4
    <3> QED
      BY <3>1, <3>3, <3>5, <1>2
  <2>3. table # <<>>
    BY <1>2, <2>2, EmptySeq
  <2> QED
    BY <1>1, <2>1, <2>2, <2>3
<1>4. \A i, j \in 1..MAXPROC : table[i] = table[j] => i = j
  BY <1>3, InjectivePositions
<1>5. ToSet(table) = Pcbs
  <2>1. ToSet(table) \subseteq Pcbs /\ Cardinality(ToSet(table)) = MAXPROC
    BY <1>3, MemberPosition, QueueSize
  <2> QED
    BY <2>1, PcbAssumption, FS_Subset DEF MAXPROC
<1>6. \A p \in Pcbs : at(table, p) \in 1..MAXPROC /\ table[at(table, p)] = p
  BY <1>3, <1>5, MemberPosition
<1>7. \A i \in 1..MAXPROC : table[i] \in Pcbs /\ at(table, table[i]) = i
  BY <1>1, <1>4, <1>6
<1> HIDE DEF at
<1>8. \A p \in Pcbs :
        /\ pcb[p] \in Links
        /\ pcb[p].p_next = table[IF at(table, p) = MAXPROC THEN 1 ELSE at(table, p) + 1]
        /\ pcb[p].p_prev = table[IF at(table, p) = 1 THEN MAXPROC ELSE at(table, p) - 1]
        /\ pcb[p].p_prnt = NULL
        /\ pcb[p].p_child = NULL
  <2> SUFFICES ASSUME NEW p \in Pcbs
      PROVE /\ pcb[p] \in Links
            /\ pcb[p].p_next = table[IF at(table, p) = MAXPROC THEN 1 ELSE at(table, p) + 1]
            /\ pcb[p].p_prev = table[IF at(table, p) = 1 THEN MAXPROC ELSE at(table, p) - 1]
            /\ pcb[p].p_prnt = NULL
            /\ pcb[p].p_child = NULL
    OBVIOUS
  <2> DEFINE a == table[IF at(table, p) = MAXPROC THEN 1 ELSE at(table, p) + 1]
             b == table[IF at(table, p) = 1 THEN MAXPROC ELSE at(table, p) - 1]
  <2>1. pcb[p] = [NoLinks EXCEPT !.p_next = a, !.p_prev = b]
    BY <1>1
  <2>2. at(table, p) \in 1..MAXPROC
    BY <1>6
  <2>3. a \in Pointers /\ b \in Pointers /\ NULL \in Pointers
    BY <2>2, <1>2, <1>7 DEF Pointers
  <2> HIDE DEF a, b
  <2>4. /\ pcb[p] \in Links
        /\ pcb[p].p_next = a
        /\ pcb[p].p_prev = b
        /\ pcb[p].p_prnt = NULL
        /\ pcb[p].p_child = NULL
    BY <2>1, <2>3 DEF NoLinks, Links
  <2> QED
    BY <2>4 DEF a, b
<1>9. pcb \in [Pcbs -> Links]
  BY <1>1, <1>8
<1>10. IsRing(pcb, pcbFree_h, table)
  <2>1. \A i \in 1..Len(table) :
          /\ pcb[table[i]].p_next = table[IF i = Len(table) THEN 1 ELSE i + 1]
          /\ pcb[table[i]].p_prev = table[IF i = 1 THEN Len(table) ELSE i - 1]
    BY <1>3, <1>7, <1>8
  <2> QED
    BY <2>1, <1>1, <1>3 DEF IsRing
<1> DEFINE Q == [t \in Queues |-> <<>>]
           C == [p \in Pcbs |-> <<>>]
<1>11. tp = [t \in Queues |-> NULL] /\ newborn = {} /\ orphans = {} /\ result = NULL
  BY DEF Init
<1>12. Rings(pcb, pcbFree_h, tp, table, Q)
  <2>1. <<>> \in Seq(Pcbs) /\ Len(<<>>) = 0
    BY EmptySeq
  <2>2. IsRing(pcb, NULL, <<>>)
    BY <2>1, EmptyQueue DEF IsRing
  <2> QED
    BY <2>1, <2>2, <1>10, <1>11, EmptyQueue DEF Rings, Pointers
<1>13. Tree(pcb, C)
  <2>1. <<>> \in Seq(Pcbs) /\ Len(<<>>) = 0
    BY EmptySeq
  <2>2. \A p \in Pcbs : IsFamily(pcb, p, <<>>)
    BY <2>1, <1>8, EmptyQueue DEF IsFamily
  <2> QED
    BY <2>1, <2>2, <1>8 DEF Tree
<1> HIDE DEF Q, C
<1>14. FreeList = table /\ QueueLists = Q /\ ChildLists = C
  BY <1>12, <1>13, ListsAre DEF FreeList, QueueLists, ChildLists
<1>15. TypeOK
  BY <1>9, <1>11, <1>12, RingEnds DEF TypeOK, Rings, Pointers
<1>16. PcbInv
  BY <1>5, <1>8, <1>11, <1>12, <1>13, <1>14, <1>15 DEF PcbInv
<1> QED
  BY <1>1, <1>14, <1>16 DEF Q, C

-----------------------------------------------------------------------------
(* The names that ProcLists gives to what the state holds.                 *)
LEMMA ListNames ==
  /\ Lists!InUse = InUse
  /\ Lists!Queued = Queued
  /\ \A q, p : Lists!Without(q, p) = IF p \in ToSet(q) THEN TakenOut(q, p) ELSE q
  /\ \A q : Lists!HeadOr(q) = IF q = <<>> THEN NULL ELSE Head(q)
<1>1. \A q : Lists!ToSet(q) = ToSet(q)
  BY DEF Lists!ToSet, ToSet
<1>2. \A q, p : Lists!TakenOut(q, p) = TakenOut(q, p)
  BY DEF Lists!TakenOut, TakenOut, Lists!RemoveAt, RemoveAt
<1>3. Lists!InUse = InUse
  BY <1>1 DEF Lists!InUse, InUse
<1>4. Lists!Queued = Queued
  <2>1. Lists!Queued = UNION {ToSet([t \in Queues |-> Ring(pcb, tp[t])][u]) : u \in Queues}
    BY <1>1 DEF Lists!Queued
  <2> QED
    BY <2>1 DEF Queued
<1>5. \A q, p : Lists!Without(q, p) = IF p \in ToSet(q) THEN TakenOut(q, p) ELSE q
  BY <1>1, <1>2 DEF Lists!Without
<1>6. \A q : Lists!HeadOr(q) = IF q = <<>> THEN NULL ELSE Head(q)
  BY DEF Lists!HeadOr
<1> QED
  BY <1>3, <1>4, <1>5, <1>6

(* A process is somebody's child exactly when it has a parent.             *)
LEMMA AttachedMeans ==
  ASSUME PcbInv
  PROVE  \A p \in Pcbs : p \in Lists!Attached <=> pcb[p].p_prnt # NULL
<1>1. \A q : Lists!ToSet(q) = ToSet(q)
  BY DEF Lists!ToSet, ToSet
<1>2. Lists!Attached = UNION {ToSet(ChildLists[q]) : q \in Pcbs}
  BY <1>1 DEF Lists!Attached, ChildLists
<1>3. ASSUME NEW p \in Pcbs
      PROVE  p \in Lists!Attached <=> pcb[p].p_prnt # NULL
  <2>1. /\ pcb[p].p_prnt # NULL =>
             pcb[p].p_prnt \in Pcbs /\ p \in ToSet(ChildLists[pcb[p].p_prnt])
        /\ \A q \in Pcbs : p \in ToSet(ChildLists[q]) => pcb[p].p_prnt = q
    BY InvHere, ParentKnown
  <2> QED
    BY <2>1, <1>2, PcbAssumption
<1> QED
  BY <1>3

(* Nothing but the returned value changes.                                 *)
LEMMA NothingChanges ==
  ASSUME PcbInv, UNCHANGED <<pcb, pcbFree_h, tp, newborn, orphans>>, result' \in Pointers
  PROVE  /\ PcbInv'
         /\ FreeList' = FreeList /\ QueueLists' = QueueLists /\ ChildLists' = ChildLists
<1>1. FreeList' = FreeList /\ QueueLists' = QueueLists /\ ChildLists' = ChildLists
  BY DEF FreeList, QueueLists, ChildLists
<1>2. InUse' = InUse /\ Queued' = Queued
  BY DEF InUse, Queued
<1>3. TypeOK'
  BY DEF PcbInv, TypeOK
<1> QED
  BY <1>1, <1>2, <1>3 DEF PcbInv

(* allocPcb keeps the invariant, and is a step of the lists.               *)
LEMMA AllocPcbStep ==
  ASSUME PcbInv, AllocPcb
  PROVE  PcbInv' /\ Lists!Allocate
<1> DEFINE p == HeadOf(pcbFree_h)
           F == FreeList
           Q == QueueLists
           C == ChildLists
<1>1. /\ pcb \in [Pcbs -> Links]
      /\ Rings(pcb, pcbFree_h, tp, F, Q)
      /\ Tree(pcb, C)
      /\ p = IF F = <<>> THEN NULL ELSE Head(F)
  BY InvHere
<1>2. newborn = {} /\ orphans = {} /\ result' = p /\ UNCHANGED <<tp, orphans>>
  BY DEF AllocPcb
<1>3. CASE F = <<>>
  <2>1. UNCHANGED <<pcb, pcbFree_h, tp, newborn, orphans>> /\ result' = NULL
    BY <1>1, <1>3 DEF AllocPcb
  <2>2. /\ PcbInv'
        /\ FreeList' = F /\ QueueLists' = Q /\ ChildLists' = C
    BY <2>1, NothingChanges DEF Pointers
  <2>3. Lists!Without(F, NULL) = F
    BY <1>3, EmptyQueue, ListNames
  <2>4. Lists!HeadOr(F) = NULL
    BY <1>3, ListNames
  <2> QED
    BY <2>1, <2>2, <2>3, <2>4, <1>2, <1>3
       DEF Lists!Allocate, FreeList, QueueLists, ChildLists
<1>4. CASE F # <<>>
  <2>1. /\ IsRing(pcb, pcbFree_h, F)
        /\ F \in Seq(Pcbs)
        /\ IsInjective(F)
        /\ p \in ToSet(F)
        /\ p \in Pcbs /\ p # NULL
    BY <1>1, <1>4, RemoveHead, PcbAssumption DEF Rings, IsRing
  <2> DEFINE m == Unlink(pcb, p)
             h == TailWithout(pcb, pcbFree_h, p)
  <2>2. /\ pcb' = CleanPcb(m, p)
        /\ pcbFree_h' = h
        /\ newborn' = newborn \cup {p}
    BY <2>1 DEF AllocPcb
  <2> HIDE DEF p
  <2>3. m \in [Pcbs -> Links] /\ SameTree(pcb, m)
    BY <1>1, <2>1, RingShrunk
  <2>4. Rings(m, h, tp, TakenOut(F, p), Q)
    BY <1>1, <2>1, FreeShrunk
  <2>5. /\ ToSet(TakenOut(F, p)) = ToSet(F) \ {p}
        /\ \A t \in Queues : p \notin ToSet(Q[t])
    BY <1>1, <2>1, RemoveMember DEF Rings
  <2> HIDE DEF m, h
  <2>6. Rings(pcb', pcbFree_h', tp', TakenOut(F, p), Q)
    BY <2>1, <2>2, <2>3, <2>4, <2>5, <1>2, RingsCleaned
  <2>7. /\ pcb' \in [Pcbs -> Links]
        /\ pcb'[p] = NoLinks
        /\ \A x \in Pcbs \ {p} : pcb'[x] = m[x]
    BY <2>1, <2>2, <2>3, CleanFields
  <2>8. \A x \in ToSet(F) : x \in Pcbs /\ pcb[x].p_prnt = NULL /\ pcb[x].p_child = NULL
    BY <2>1, MemberPosition DEF PcbInv
  <2>9. \A x \in ToSet(F) : m[x].p_prnt = NULL /\ m[x].p_child = NULL
    BY <2>3, <2>8 DEF SameTree
  <2>10. Tree(pcb', C)
    <3>1. Tree(m, C)
      BY <1>1, <2>3, TreeKept
    <3> QED
      BY <3>1, <2>1, <2>2, <2>3, <2>9, TreeCleaned
  <2>11. \A x \in ToSet(TakenOut(F, p)) : pcb'[x].p_prnt = NULL /\ pcb'[x].p_child = NULL
    BY <2>5, <2>7, <2>8, <2>9
  <2>12. newborn' = {p}
    BY <2>2, <1>2
  <2>13. pcb'[p].p_child = NULL /\ pcb'[p].p_sib = NULL /\ pcb'[p].p_prevsib = NULL
    BY <2>7 DEF NoLinks
  <2>14. newborn' \subseteq Pcbs /\ orphans' \subseteq Pcbs /\ result' \in Pointers
    BY <2>1, <2>12, <1>2 DEF p, Pointers
  <2>15. /\ PcbInv'
         /\ FreeList' = TakenOut(F, p) /\ QueueLists' = Q /\ ChildLists' = C
    BY <2>5, <2>6, <2>7, <2>10, <2>11, <2>12, <2>13, <2>14, InvNext
  <2>16. Lists!Without(F, p) = TakenOut(F, p) /\ Lists!HeadOr(F) = p
    BY <2>1, <1>1, <1>4, ListNames
  <2>17. result' = p /\ newborn' = newborn \cup ({p} \ {NULL})
    BY <2>1, <2>2, <1>2
  <2> QED
    BY <2>15, <2>16, <2>17, <1>2 DEF Lists!Allocate, FreeList, QueueLists, ChildLists
<1> QED
  BY <1>3, <1>4

(* freePcb keeps the invariant, and is a step of the lists.                *)
LEMMA FreePcbStep ==
  ASSUME PcbInv, NEW p \in Pcbs, FreePcb(p)
  PROVE  PcbInv' /\ Lists!Free(p)
<1> DEFINE F == FreeList
           Q == QueueLists
           C == ChildLists
           m == CleanPcb(pcb, p)
<1>1. /\ pcb \in [Pcbs -> Links]
      /\ Rings(pcb, pcbFree_h, tp, F, Q)
      /\ Tree(pcb, C)
      /\ InUse = Pcbs \ ToSet(F)
      /\ \A x : x \in Queued <=> \E t \in Queues : x \in ToSet(Q[t])
  BY InvHere
<1>2. /\ p \in InUse \ (Queued \cup newborn)
      /\ pcb[p].p_prnt = NULL /\ pcb[p].p_child = NULL
      /\ pcb' = LinkAtTail(m, pcbFree_h, p) /\ pcbFree_h' = p
      /\ orphans' = orphans \ {p} /\ result' = NULL
      /\ UNCHANGED <<tp, newborn>>
  BY DEF FreePcb
<1>3. p \notin ToSet(F) /\ \A t \in Queues : p \notin ToSet(Q[t])
  BY <1>1, <1>2
<1>4. /\ m \in [Pcbs -> Links]
      /\ m[p] = NoLinks
      /\ \A x \in Pcbs \ {p} : m[x] = pcb[x]
      /\ Tree(m, C)
      /\ Rings(m, pcbFree_h, tp, F, Q)
  BY <1>1, <1>2, <1>3, CleanFields, TreeCleaned, RingsCleaned
<1> HIDE DEF m
<1>5. Rings(pcb', pcbFree_h', tp', Append(F, p), Q)
  BY <1>2, <1>3, <1>4, FreeGrown
<1>6. IsRing(m, pcbFree_h, F) /\ F \in Seq(Pcbs) /\ IsInjective(F)
  BY <1>4 DEF Rings, IsRing
<1>7. pcb' \in [Pcbs -> Links] /\ SameTree(m, pcb')
  BY <1>2, <1>3, <1>4, <1>6, RingGrown
<1>8. Tree(pcb', C)
  BY <1>4, <1>7, TreeKept
<1>9. ToSet(Append(F, p)) = ToSet(F) \cup {p}
  BY <1>3, <1>6, InsertTail
<1>10. \A x \in ToSet(Append(F, p)) : pcb'[x].p_prnt = NULL /\ pcb'[x].p_child = NULL
  <2>1. m[p].p_prnt = NULL /\ m[p].p_child = NULL
    BY <1>4 DEF NoLinks
  <2>2. \A x \in ToSet(F) : x \in Pcbs /\ pcb[x].p_prnt = NULL /\ pcb[x].p_child = NULL
    BY <1>6, MemberPosition DEF PcbInv
  <2>3. \A x \in ToSet(F) : m[x] = pcb[x]
    BY <2>2, <1>3, <1>4
  <2> QED
    BY <2>1, <2>2, <2>3, <1>7, <1>9 DEF SameTree
<1>11. ASSUME NEW x \in newborn'
       PROVE  /\ x \notin ToSet(Append(F, p))
              /\ \A t \in Queues : x \notin ToSet(Q[t])
              /\ pcb'[x].p_child = NULL
              /\ pcb'[x].p_prnt = NULL => pcb'[x].p_sib = NULL /\ pcb'[x].p_prevsib = NULL
  <2>1. /\ x \in InUse \ Queued /\ x # p /\ x \in Pcbs
        /\ pcb[x].p_child = NULL
        /\ pcb[x].p_prnt = NULL => pcb[x].p_sib = NULL /\ pcb[x].p_prevsib = NULL
    BY <1>1, <1>2 DEF PcbInv
  <2>2. m[x] = pcb[x]
    BY <2>1, <1>4
  <2> QED
    BY <2>1, <2>2, <1>1, <1>7, <1>9 DEF SameTree
<1>12. newborn' \subseteq Pcbs /\ orphans' \subseteq Pcbs /\ result' \in Pointers
  BY <1>2 DEF PcbInv, TypeOK, Pointers
<1>13. /\ PcbInv'
       /\ FreeList' = Append(F, p) /\ QueueLists' = Q /\ ChildLists' = C
  BY <1>5, <1>7, <1>8, <1>10, <1>11, <1>12, InvNext
<1>14. C[p] = <<>>
  BY <1>1, <1>2, FamilyEnds DEF Tree
<1>15. p \in Lists!InUse \ (Lists!Queued \cup Lists!Attached \cup newborn)
  BY <1>2, ListNames, AttachedMeans
<1> QED
  BY <1>2, <1>13, <1>14, <1>15 DEF Lists!Free, FreeList, QueueLists, ChildLists

(* insertProcQ keeps the invariant, and is a step of the lists.            *)
LEMMA InsertProcQStep ==
  ASSUME PcbInv, NEW t \in Queues, NEW p \in Pcbs, InsertProcQ(t, p)
  PROVE  PcbInv' /\ Lists!Enqueue(t, p)
<1> DEFINE F == FreeList
           Q == QueueLists
           C == ChildLists
           Q2 == [Q EXCEPT ![t] = Append(@, p)]
<1>1. /\ pcb \in [Pcbs -> Links]
      /\ Rings(pcb, pcbFree_h, tp, F, Q)
      /\ Tree(pcb, C)
      /\ InUse = Pcbs \ ToSet(F)
      /\ \A x : x \in Queued <=> \E u \in Queues : x \in ToSet(Q[u])
  BY InvHere
<1>2. /\ orphans = {}
      /\ p \in InUse \ Queued
      /\ p \in newborn /\ InUse # {p} => pcb[p].p_prnt # NULL
      /\ pcb' = LinkAtTail(pcb, tp[t], p)
      /\ tp' = [tp EXCEPT ![t] = p]
      /\ newborn' = newborn \ {p}
      /\ result' = NULL
      /\ UNCHANGED <<pcbFree_h, orphans>>
  BY DEF InsertProcQ
<1>3. p \notin ToSet(F) /\ \A u \in Queues : p \notin ToSet(Q[u])
  BY <1>1, <1>2
<1>4. Rings(pcb', pcbFree_h', tp', F, Q2)
  BY <1>1, <1>2, <1>3, QueueGrown
<1>5. IsRing(pcb, tp[t], Q[t]) /\ Q[t] \in Seq(Pcbs) /\ IsInjective(Q[t])
  BY <1>1 DEF Rings, IsRing
<1>6. pcb' \in [Pcbs -> Links] /\ SameTree(pcb, pcb')
  BY <1>1, <1>2, <1>3, <1>5, RingGrown
<1>7. Tree(pcb', C)
  BY <1>1, <1>6, TreeKept
<1>8. \A x \in ToSet(F) : pcb'[x].p_prnt = NULL /\ pcb'[x].p_child = NULL
  <2>1. \A x \in ToSet(F) : x \in Pcbs /\ pcb[x].p_prnt = NULL /\ pcb[x].p_child = NULL
    BY <1>1, RingEnds DEF PcbInv, Rings
  <2> QED
    BY <2>1, <1>6 DEF SameTree
<1>9. \A u \in Queues : \A x : x \in ToSet(Q2[u]) => x \in ToSet(Q[u]) \/ x = p
  <2>1. ToSet(Append(Q[t], p)) = ToSet(Q[t]) \cup {p}
    BY <1>3, <1>5, InsertTail
  <2>2. Q2[t] = Append(Q[t], p) /\ \A u \in Queues \ {t} : Q2[u] = Q[u]
    BY <1>1 DEF Rings
  <2> HIDE DEF Q2
  <2> QED
    BY <2>1, <2>2
<1> HIDE DEF Q2
<1>10. ASSUME NEW x \in newborn'
       PROVE  /\ x \notin ToSet(F)
              /\ \A u \in Queues : x \notin ToSet(Q2[u])
              /\ pcb'[x].p_child = NULL
              /\ pcb'[x].p_prnt = NULL => pcb'[x].p_sib = NULL /\ pcb'[x].p_prevsib = NULL
  <2>1. /\ x \in InUse \ Queued /\ x # p /\ x \in Pcbs
        /\ pcb[x].p_child = NULL
        /\ pcb[x].p_prnt = NULL => pcb[x].p_sib = NULL /\ pcb[x].p_prevsib = NULL
    BY <1>1, <1>2 DEF PcbInv
  <2> QED
    BY <2>1, <1>1, <1>6, <1>9 DEF SameTree
<1>11. newborn' \subseteq Pcbs /\ orphans' \subseteq Pcbs /\ result' \in Pointers
  BY <1>2 DEF PcbInv, TypeOK, Pointers
<1>12. /\ PcbInv'
       /\ FreeList' = F /\ QueueLists' = Q2 /\ ChildLists' = C
  BY <1>4, <1>6, <1>7, <1>8, <1>10, <1>11, InvNext
<1>13. /\ p \in Lists!InUse \ Lists!Queued
       /\ p \in newborn /\ Lists!InUse # {p} => p \in Lists!Attached
  BY <1>2, ListNames, AttachedMeans
<1> QED
  BY <1>2, <1>12, <1>13 DEF Lists!Enqueue, Q2, FreeList, QueueLists, ChildLists

(* What OutProcQ does, whether or not p is in the queue.                   *)
LEMMA OutProcQEffect ==
  ASSUME PcbInv, NEW t \in Queues, NEW p \in Pcbs, OutProcQ(t, p)
  PROVE  /\ PcbInv'
         /\ result' = IF p \in ToSet(QueueLists[t]) THEN p ELSE NULL
         /\ FreeList' = FreeList
         /\ QueueLists' = [QueueLists EXCEPT ![t] = Lists!Without(@, p)]
         /\ ChildLists' = ChildLists
         /\ UNCHANGED <<newborn, orphans>>
<1> DEFINE F == FreeList
           Q == QueueLists
           C == ChildLists
           Q2 == [Q EXCEPT ![t] = TakenOut(@, p)]
<1>1. /\ pcb \in [Pcbs -> Links]
      /\ Rings(pcb, pcbFree_h, tp, F, Q)
      /\ Tree(pcb, C)
      /\ InUse = Pcbs \ ToSet(F)
      /\ \A x : x \in Queued <=> \E u \in Queues : x \in ToSet(Q[u])
      /\ Ring(pcb, tp[t]) = Q[t]
  BY InvHere DEF QueueLists
<1>2. UNCHANGED <<pcbFree_h, newborn, orphans>>
  BY DEF OutProcQ
<1>3. CASE p \notin ToSet(Q[t])
  <2>1. result' = NULL /\ UNCHANGED <<pcb, tp>>
    BY <1>1, <1>3 DEF OutProcQ
  <2>2. /\ PcbInv'
        /\ FreeList' = F /\ QueueLists' = Q /\ ChildLists' = C
    BY <2>1, <1>2, NothingChanges DEF Pointers
  <2>3. Lists!Without(Q[t], p) = Q[t]
    BY <1>3, ListNames
  <2>4. Q = [Q EXCEPT ![t] = Lists!Without(@, p)]
    BY <2>3, <1>1 DEF Rings
  <2> QED
    BY <2>1, <2>2, <2>4, <1>2, <1>3
<1>4. CASE p \in ToSet(Q[t])
  <2>1. /\ result' = p
        /\ pcb' = Unlink(pcb, p)
        /\ tp' = [tp EXCEPT ![t] = TailWithout(pcb, @, p)]
    BY <1>1, <1>4 DEF OutProcQ
  <2>2. Rings(pcb', pcbFree_h', tp', F, Q2)
    BY <2>1, <1>1, <1>2, <1>4, QueueShrunk
  <2>3. IsRing(pcb, tp[t], Q[t]) /\ Q[t] \in Seq(Pcbs) /\ IsInjective(Q[t])
    BY <1>1 DEF Rings, IsRing
  <2>4. pcb' \in [Pcbs -> Links] /\ SameTree(pcb, pcb')
    BY <2>1, <2>3, <1>1, <1>4, RingShrunk
  <2>5. Tree(pcb', C)
    BY <2>4, <1>1, TreeKept
  <2>6. \A x \in ToSet(F) : pcb'[x].p_prnt = NULL /\ pcb'[x].p_child = NULL
    <3>1. \A x \in ToSet(F) : x \in Pcbs /\ pcb[x].p_prnt = NULL /\ pcb[x].p_child = NULL
      BY <1>1, RingEnds DEF PcbInv, Rings
    <3> QED
      BY <3>1, <2>4 DEF SameTree
  <2>7. \A u \in Queues : ToSet(Q2[u]) \subseteq ToSet(Q[u])
    <3>1. ToSet(TakenOut(Q[t], p)) = ToSet(Q[t]) \ {p}
      BY <2>3, <1>4, RemoveMember
    <3>2. Q2[t] = TakenOut(Q[t], p) /\ \A u \in Queues \ {t} : Q2[u] = Q[u]
      BY <1>1 DEF Rings
    <3> HIDE DEF Q2
    <3> QED
      BY <3>1, <3>2
  <2>8. Q2 = [Q EXCEPT ![t] = Lists!Without(@, p)]
    BY <1>4, ListNames
  <2> HIDE DEF Q2
  <2>9. ASSUME NEW x \in newborn'
        PROVE  /\ x \notin ToSet(F)
               /\ \A u \in Queues : x \notin ToSet(Q2[u])
               /\ pcb'[x].p_child = NULL
               /\ pcb'[x].p_prnt = NULL => pcb'[x].p_sib = NULL /\ pcb'[x].p_prevsib = NULL
    <3>1. /\ x \in InUse \ Queued /\ x \in Pcbs
          /\ pcb[x].p_child = NULL
          /\ pcb[x].p_prnt = NULL => pcb[x].p_sib = NULL /\ pcb[x].p_prevsib = NULL
      BY <1>1, <1>2 DEF PcbInv
    <3> QED
      BY <3>1, <2>4, <2>7, <1>1 DEF SameTree
  <2>10. newborn' \subseteq Pcbs /\ orphans' \subseteq Pcbs /\ result' \in Pointers
    BY <2>1, <1>2 DEF PcbInv, TypeOK, Pointers
  <2>11. /\ PcbInv'
         /\ FreeList' = F /\ QueueLists' = Q2 /\ ChildLists' = C
    BY <2>2, <2>4, <2>5, <2>6, <2>9, <2>10, InvNext
  <2> QED
    BY <2>1, <2>8, <2>11, <1>2, <1>4
<1> QED
  BY <1>3, <1>4

(* outProcQ keeps the invariant, and is a step of the lists.               *)
LEMMA OutProcQStep ==
  ASSUME PcbInv, NEW t \in Queues, NEW p \in Pcbs, OutProcQ(t, p)
  PROVE  PcbInv' /\ Lists!Leave(t, p)
<1>1. /\ PcbInv'
      /\ result' = IF p \in ToSet(QueueLists[t]) THEN p ELSE NULL
      /\ FreeList' = FreeList
      /\ QueueLists' = [QueueLists EXCEPT ![t] = Lists!Without(@, p)]
      /\ ChildLists' = ChildLists
      /\ UNCHANGED <<newborn, orphans>>
  BY OutProcQEffect
<1>2. \A q : Lists!ToSet(q) = ToSet(q)
  BY DEF Lists!ToSet, ToSet
<1>3. result' = IF p \in Lists!ToSet(QueueLists[t]) THEN p ELSE NULL
  BY <1>1, <1>2
<1> QED
  BY <1>1, <1>3 DEF Lists!Leave, FreeList, QueueLists, ChildLists

(* removeProcQ keeps the invariant, and is a step of the lists.            *)
LEMMA RemoveProcQStep ==
  ASSUME PcbInv, NEW t \in Queues, RemoveProcQ(t)
  PROVE  PcbInv' /\ Lists!Dequeue(t)
<1> DEFINE q == QueueLists[t]
<1>1. /\ IsRing(pcb, tp[t], q)
      /\ QueueLists \in [Queues -> Seq(Pcbs)]
      /\ HeadOf(tp[t]) = IF q = <<>> THEN NULL ELSE Head(q)
  BY InvHere DEF Rings
<1>2. /\ q \in Seq(Pcbs)
      /\ tp[t] = NULL <=> q = <<>>
      /\ q # <<>> => Head(q) \in ToSet(q) /\ Head(q) \in Pcbs
  BY <1>1, RingEnds, RemoveHead DEF IsRing
<1>3. CASE q = <<>>
  <2>1. result' = NULL /\ UNCHANGED <<pcb, pcbFree_h, tp, newborn, orphans>>
    BY <1>2, <1>3 DEF RemoveProcQ
  <2>2. /\ PcbInv'
        /\ FreeList' = FreeList /\ QueueLists' = QueueLists /\ ChildLists' = ChildLists
    BY <2>1, NothingChanges DEF Pointers
  <2>3. Lists!Without(q, NULL) = q /\ Lists!HeadOr(q) = NULL
    BY <1>3, EmptyQueue, ListNames
  <2>4. QueueLists = [QueueLists EXCEPT ![t] = Lists!Without(@, NULL)]
    BY <2>3, <1>1
  <2> QED
    BY <2>1, <2>2, <2>3, <2>4 DEF Lists!Dequeue, FreeList, QueueLists, ChildLists
<1>4. CASE q # <<>>
  <2> DEFINE p == Head(q)
  <2>1. p \in Pcbs /\ p \in ToSet(q) /\ OutProcQ(t, p)
    BY <1>1, <1>2, <1>4 DEF RemoveProcQ
  <2> HIDE DEF p
  <2>2. /\ PcbInv'
        /\ result' = p
        /\ FreeList' = FreeList
        /\ QueueLists' = [QueueLists EXCEPT ![t] = Lists!Without(@, p)]
        /\ ChildLists' = ChildLists
        /\ UNCHANGED <<newborn, orphans>>
    BY <2>1, OutProcQEffect
  <2>3. Lists!HeadOr(q) = p
    BY <1>4, ListNames DEF p
  <2> QED
    BY <2>2, <2>3 DEF Lists!Dequeue, FreeList, QueueLists, ChildLists
<1> QED
  BY <1>3, <1>4

(* insertChild keeps the invariant, and is a step of the lists.            *)
LEMMA InsertChildStep ==
  ASSUME PcbInv, NEW prnt \in Pcbs, NEW p \in Pcbs, InsertChild(prnt, p)
  PROVE  PcbInv' /\ Lists!Adopt(prnt, p)
<1> DEFINE F == FreeList
           Q == QueueLists
           C == ChildLists
           C2 == [C EXCEPT ![prnt] = <<p>> \o @]
           first == pcb[prnt].p_child
<1>1. /\ pcb \in [Pcbs -> Links]
      /\ Rings(pcb, pcbFree_h, tp, F, Q)
      /\ Tree(pcb, C)
      /\ InUse = Pcbs \ ToSet(F)
      /\ \A x : x \in Queued <=> \E u \in Queues : x \in ToSet(Q[u])
  BY InvHere
<1>2. /\ prnt \in InUse \ (Queued \cup newborn)
      /\ p \in newborn
      /\ pcb[p].p_prnt = NULL
      /\ pcb' = Adopted(pcb, prnt, p)
      /\ result' = NULL
      /\ UNCHANGED <<pcbFree_h, tp, newborn, orphans>>
  BY DEF InsertChild, Adopted
<1>3. /\ pcb[p].p_sib = NULL /\ pcb[p].p_prevsib = NULL
      /\ p \in InUse \ Queued /\ p # prnt
  BY <1>2 DEF PcbInv
<1>4. /\ pcb' \in [Pcbs -> Links]
      /\ SameRings(pcb, pcb')
      /\ \A x \in Pcbs :
           /\ pcb'[x].p_prnt = IF x = p THEN prnt ELSE pcb[x].p_prnt
           /\ pcb'[x].p_child = IF x = prnt THEN p ELSE pcb[x].p_child
           /\ pcb'[x].p_sib = IF x = p THEN first ELSE pcb[x].p_sib
           /\ pcb'[x].p_prevsib = IF x = first THEN p ELSE pcb[x].p_prevsib
  BY <1>1, <1>2, <1>3, AdoptedFields
<1>5. Tree(pcb', C2)
  BY <1>1, <1>2, <1>3, TreeGrown
<1>6. Rings(pcb', pcbFree_h', tp', F, Q)
  BY <1>1, <1>2, <1>4, RingsKept
<1>7. first # NULL => first \in Pcbs /\ pcb[first].p_prnt = prnt
  <2>1. IsFamily(pcb, prnt, C[prnt])
    BY <1>1 DEF Tree
  <2> HIDE DEF C
  <2> QED
    BY <2>1, FamilyEnds
<1> HIDE DEF C2, first
<1>8. \A x \in ToSet(F) : pcb'[x].p_prnt = NULL /\ pcb'[x].p_child = NULL
  <2>1. \A x \in ToSet(F) : /\ x \in Pcbs /\ x # p /\ x # prnt
                            /\ pcb[x].p_prnt = NULL /\ pcb[x].p_child = NULL
    BY <1>1, <1>2, <1>3, RingEnds DEF PcbInv, Rings
  <2> QED
    BY <2>1, <1>4
<1>9. ASSUME NEW x \in newborn'
      PROVE  /\ x \notin ToSet(F)
             /\ \A u \in Queues : x \notin ToSet(Q[u])
             /\ pcb'[x].p_child = NULL
             /\ pcb'[x].p_prnt = NULL => pcb'[x].p_sib = NULL /\ pcb'[x].p_prevsib = NULL
  <2>1. /\ x \in InUse \ Queued /\ x \in Pcbs /\ x # prnt
        /\ pcb[x].p_child = NULL
        /\ pcb[x].p_prnt = NULL => pcb[x].p_sib = NULL /\ pcb[x].p_prevsib = NULL
    BY <1>1, <1>2 DEF PcbInv
  <2>2. pcb'[x].p_prnt = NULL => pcb'[x].p_sib = NULL /\ pcb'[x].p_prevsib = NULL
    BY <2>1, <1>4, <1>7, PcbAssumption
  <2> QED
    BY <2>1, <2>2, <1>1, <1>4
<1>10. newborn' \subseteq Pcbs /\ orphans' \subseteq Pcbs /\ result' \in Pointers
  BY <1>2 DEF PcbInv, TypeOK, Pointers
<1>11. /\ PcbInv'
       /\ FreeList' = F /\ QueueLists' = Q /\ ChildLists' = C2
  BY <1>4, <1>5, <1>6, <1>8, <1>9, <1>10, InvNext
<1>12. /\ prnt \in Lists!InUse \ (Lists!Queued \cup newborn)
       /\ p \in newborn \ Lists!Attached
  BY <1>2, ListNames, AttachedMeans
<1> QED
  BY <1>2, <1>11, <1>12 DEF Lists!Adopt, C2, FreeList, QueueLists, ChildLists

(* A child leaves the tree while nobody is being created.                  *)
LEMMA TakeFromTreeEffect ==
  ASSUME PcbInv, newborn = {}, NEW p \in Pcbs, TakeFromTree(p)
  PROVE  LET prnt == pcb[p].p_prnt IN
         /\ PcbInv'
         /\ FreeList' = FreeList /\ QueueLists' = QueueLists
         /\ UNCHANGED newborn
         /\ prnt = NULL => /\ result' = NULL
                           /\ ChildLists' = ChildLists
                           /\ UNCHANGED orphans
         /\ prnt # NULL => /\ result' = p
                           /\ prnt \in Pcbs
                           /\ p \in ToSet(ChildLists[prnt])
                           /\ ChildLists' = [ChildLists EXCEPT ![prnt] = TakenOut(@, p)]
                           /\ orphans' = orphans \cup {p}
<1> DEFINE prnt == pcb[p].p_prnt
           F == FreeList
           Q == QueueLists
           C == ChildLists
           C2 == [C EXCEPT ![prnt] = TakenOut(@, p)]
<1>1. /\ pcb \in [Pcbs -> Links]
      /\ Rings(pcb, pcbFree_h, tp, F, Q)
      /\ Tree(pcb, C)
  BY InvHere
<1>2. UNCHANGED <<pcbFree_h, tp, newborn>>
  BY DEF TakeFromTree
<1>3. CASE prnt = NULL
  <2>1. result' = NULL /\ UNCHANGED <<pcb, orphans>>
    BY <1>3 DEF TakeFromTree
  <2>2. /\ PcbInv'
        /\ FreeList' = F /\ QueueLists' = Q /\ ChildLists' = C
    BY <2>1, <1>2, NothingChanges DEF Pointers
  <2> QED
    BY <2>1, <2>2, <1>2, <1>3
<1>4. CASE prnt # NULL
  <2>1. /\ result' = p
        /\ pcb' = ChildUnlinked(pcb, p)
        /\ orphans' = orphans \cup {p}
    BY <1>4 DEF TakeFromTree
  <2>2. prnt \in Pcbs /\ p \in ToSet(C[prnt])
    BY <1>1, <1>4, ParentKnown
  <2>3. Tree(pcb', C2)
    BY <2>1, <2>2, <1>1, TreeShrunk
  <2>4. /\ pcb' \in [Pcbs -> Links]
        /\ SameRings(pcb, pcb')
        /\ \A x \in Pcbs :
             /\ pcb'[x].p_prnt = IF x = p THEN NULL ELSE pcb[x].p_prnt
             /\ x # prnt => pcb'[x].p_child = pcb[x].p_child
    BY <2>1, <2>2, <1>1, ChildUnlinkedFields
  <2>5. pcb[prnt].p_child # NULL
    <3>1. C[prnt] # <<>>
      BY <2>2, EmptyQueue
    <3> QED
      BY <3>1, <2>2, <1>1, FamilyEnds DEF Tree
  <2> HIDE DEF prnt, C2
  <2>6. Rings(pcb', pcbFree_h', tp', F, Q)
    BY <2>4, <1>1, <1>2, RingsKept
  <2>7. \A x \in ToSet(F) : pcb'[x].p_prnt = NULL /\ pcb'[x].p_child = NULL
    <3>1. \A x \in ToSet(F) : x \in Pcbs /\ pcb[x].p_prnt = NULL /\ pcb[x].p_child = NULL
      BY <1>1, RingEnds DEF PcbInv, Rings
    <3>2. prnt \notin ToSet(F)
      BY <3>1, <2>5
    <3> QED
      BY <3>1, <3>2, <2>4
  <2>8. newborn' = {}
    BY <1>2
  <2>9. newborn' \subseteq Pcbs /\ orphans' \subseteq Pcbs /\ result' \in Pointers
    BY <2>1, <2>8 DEF PcbInv, TypeOK, Pointers
  <2>10. /\ PcbInv'
         /\ FreeList' = F /\ QueueLists' = Q /\ ChildLists' = C2
    BY <2>3, <2>4, <2>6, <2>7, <2>8, <2>9, InvNext
  <2> QED
    BY <2>1, <2>2, <2>10, <1>2, <1>4 DEF prnt, C2
<1> QED
  BY <1>3, <1>4

(* outChild keeps the invariant, and is a step of the lists.               *)
LEMMA OutChildStep ==
  ASSUME PcbInv, NEW p \in Pcbs, OutChild(p)
  PROVE  PcbInv' /\ Lists!Orphan(p)
<1> DEFINE prnt == pcb[p].p_prnt
           C == ChildLists
<1>1. /\ newborn = {} /\ orphans = {} /\ p \in InUse \ Queued
      /\ pcb[p].p_child = NULL /\ TakeFromTree(p)
  BY DEF OutChild
<1>2. /\ PcbInv'
      /\ FreeList' = FreeList /\ QueueLists' = QueueLists
      /\ UNCHANGED newborn
      /\ prnt = NULL => result' = NULL /\ ChildLists' = C /\ UNCHANGED orphans
      /\ prnt # NULL => /\ result' = p
                        /\ prnt \in Pcbs
                        /\ p \in ToSet(C[prnt])
                        /\ ChildLists' = [C EXCEPT ![prnt] = TakenOut(@, p)]
                        /\ orphans' = orphans \cup {p}
  BY <1>1, TakeFromTreeEffect
<1>3. /\ pcb \in [Pcbs -> Links]
      /\ Tree(pcb, C)
      /\ C \in [Pcbs -> Seq(Pcbs)]
      /\ IsFamily(pcb, p, C[p])
  BY InvHere DEF Tree
<1>4. C[p] = <<>>
  BY <1>1, <1>3, FamilyEnds
<1>5. \A q \in Pcbs : p \in ToSet(C[q]) => prnt = q
  BY <1>3, ParentKnown
<1>6. p \in Lists!Attached <=> prnt # NULL
  BY AttachedMeans
<1> HIDE DEF prnt
<1>7. result' = IF p \in Lists!Attached THEN p ELSE NULL
  BY <1>2, <1>6
<1>8. orphans' = orphans \cup ({result'} \ {NULL})
  BY <1>2, PcbAssumption
<1>9. ChildLists' = [q \in Pcbs |-> Lists!Without(C[q], p)]
  <2>1. \A q \in Pcbs :
          Lists!Without(C[q], p) = IF p \in ToSet(C[q]) THEN TakenOut(C[q], p) ELSE C[q]
    BY ListNames
  <2>2. CASE prnt = NULL
    <3>1. \A q \in Pcbs : Lists!Without(C[q], p) = C[q]
      BY <2>1, <2>2, <1>5, PcbAssumption
    <3> QED
      BY <2>2, <3>1, <1>2, <1>3
  <2>3. CASE prnt # NULL
    <3>1. \A q \in Pcbs : Lists!Without(C[q], p) = IF q = prnt THEN TakenOut(C[q], p) ELSE C[q]
      BY <2>1, <2>3, <1>2, <1>5
    <3> QED
      BY <2>3, <3>1, <1>2, <1>3
  <2> QED
    BY <2>2, <2>3
<1>10. ChildLists' = [q \in Pcbs |-> Lists!Without(ChildLists[q], p)]
  BY <1>9
<1> QED
  BY <1>1, <1>2, <1>4, <1>7, <1>8, <1>10, ListNames
     DEF Lists!Orphan, FreeList, QueueLists, ChildLists

(* removeChild keeps the invariant, and is a step of the lists.            *)
LEMMA RemoveChildStep ==
  ASSUME PcbInv, NEW p \in Pcbs, RemoveChild(p)
  PROVE  PcbInv' /\ Lists!OrphanFirst(p)
<1> DEFINE C == ChildLists
<1>1. newborn = {} /\ p \in IF orphans = {} THEN InUse \ Queued ELSE orphans
  BY DEF RemoveChild
<1>2. p \in IF orphans = {} THEN Lists!InUse \ Lists!Queued ELSE orphans
  BY <1>1, ListNames
<1>3. /\ C \in [Pcbs -> Seq(Pcbs)]
      /\ IsFamily(pcb, p, C[p])
  BY InvHere DEF Tree
<1>4. CASE C[p] = <<>>
  <2>1. result' = NULL /\ UNCHANGED <<pcb, pcbFree_h, tp, newborn, orphans>>
    BY <1>3, <1>4, FamilyEnds DEF RemoveChild
  <2>2. /\ PcbInv'
        /\ FreeList' = FreeList /\ QueueLists' = QueueLists /\ ChildLists' = ChildLists
    BY <2>1, NothingChanges DEF Pointers
  <2>3. Lists!Without(C[p], NULL) = C[p] /\ Lists!HeadOr(C[p]) = NULL
    BY <1>4, EmptyQueue, ListNames
  <2>4. C = [C EXCEPT ![p] = Lists!Without(@, NULL)]
    BY <2>3, <1>3
  <2>5. orphans' = orphans \cup ({NULL} \ {NULL})
    BY <2>1
  <2> QED
    BY <2>1, <2>2, <2>3, <2>4, <2>5, <1>1, <1>2
       DEF Lists!OrphanFirst, FreeList, QueueLists, ChildLists
<1>5. CASE C[p] # <<>>
  <2> DEFINE x == pcb[p].p_child
  <2>1. /\ x = Head(C[p]) /\ x \in ToSet(C[p]) /\ x \in Pcbs /\ x # NULL
        /\ pcb[x].p_prnt = p
    BY <1>3, <1>5, FamilyEnds, PcbAssumption
  <2>2. TakeFromTree(x)
    BY <2>1 DEF RemoveChild
  <2> HIDE DEF x
  <2>3. /\ PcbInv'
        /\ FreeList' = FreeList /\ QueueLists' = QueueLists
        /\ UNCHANGED newborn
        /\ result' = x
        /\ ChildLists' = [C EXCEPT ![p] = TakenOut(@, x)]
        /\ orphans' = orphans \cup {x}
    BY <2>1, <2>2, <1>1, PcbAssumption, TakeFromTreeEffect
  <2>4. Lists!HeadOr(C[p]) = x /\ Lists!Without(C[p], x) = TakenOut(C[p], x)
    BY <2>1, <1>5, ListNames
  <2>5. ChildLists' = [C EXCEPT ![p] = Lists!Without(@, x)]
    BY <2>3, <2>4
  <2>6. orphans' = orphans \cup ({x} \ {NULL})
    BY <2>1, <2>3
  <2> QED
    BY <2>3, <2>4, <2>5, <2>6, <1>1, <1>2
       DEF Lists!OrphanFirst, FreeList, QueueLists, ChildLists
<1> QED
  BY <1>4, <1>5
-----------------------------------------------------------------------------
(* Every call keeps the invariant and is a call of the lists.              *)
LEMMA PcbStep ==
  ASSUME PcbInv, [Next]_vars
  PROVE  PcbInv' /\ [Lists!Next]_(Lists!vars)
<1>1. CASE AllocPcb
  BY <1>1, AllocPcbStep DEF Lists!Next
<1>2. ASSUME NEW p \in Pcbs, FreePcb(p)
      PROVE  PcbInv' /\ [Lists!Next]_(Lists!vars)
  BY <1>2, FreePcbStep DEF Lists!Next
<1>3. ASSUME NEW p \in Pcbs, OutChild(p)
      PROVE  PcbInv' /\ [Lists!Next]_(Lists!vars)
  BY <1>3, OutChildStep DEF Lists!Next
<1>4. ASSUME NEW p \in Pcbs, RemoveChild(p)
      PROVE  PcbInv' /\ [Lists!Next]_(Lists!vars)
  BY <1>4, RemoveChildStep DEF Lists!Next
<1>5. ASSUME NEW t \in Queues, RemoveProcQ(t)
      PROVE  PcbInv' /\ [Lists!Next]_(Lists!vars)
  BY <1>5, RemoveProcQStep DEF Lists!Next
<1>6. ASSUME NEW t \in Queues, NEW p \in Pcbs, InsertProcQ(t, p)
      PROVE  PcbInv' /\ [Lists!Next]_(Lists!vars)
  BY <1>6, InsertProcQStep DEF Lists!Next
<1>7. ASSUME NEW t \in Queues, NEW p \in Pcbs, OutProcQ(t, p)
      PROVE  PcbInv' /\ [Lists!Next]_(Lists!vars)
  BY <1>7, OutProcQStep DEF Lists!Next
<1>8. ASSUME NEW prnt \in Pcbs, NEW p \in Pcbs, InsertChild(prnt, p)
      PROVE  PcbInv' /\ [Lists!Next]_(Lists!vars)
  BY <1>8, InsertChildStep DEF Lists!Next
<1>9. CASE UNCHANGED vars
  <2>1. UNCHANGED <<pcb, pcbFree_h, tp, newborn, orphans, result>>
    BY <1>9 DEF vars
  <2>2. result' \in Pointers
    BY <2>1 DEF PcbInv, TypeOK
  <2>3. /\ PcbInv'
        /\ FreeList' = FreeList /\ QueueLists' = QueueLists /\ ChildLists' = ChildLists
    BY <2>1, <2>2, NothingChanges
  <2>4. UNCHANGED Lists!vars
    BY <2>1, <2>3 DEF Lists!vars, FreeList, QueueLists, ChildLists
  <2> QED
    BY <2>3, <2>4
<1> QED
  BY <1>1, <1>2, <1>3, <1>4, <1>5, <1>6, <1>7, <1>8, <1>9 DEF Next

(* The pointers of all callable histories hold well-formed queues and      *)
(* trees, whatever the number of process blocks and of queues.             *)
THEOREM SpecPcbInv ==
  Spec => []PcbInv
<1>1. Init => PcbInv
  BY PcbInit
<1>2. PcbInv /\ [Next]_vars => PcbInv'
  BY PcbStep
<1> QED
  BY <1>1, <1>2, PTL DEF Spec

(* Every pointer is null or a process block, and allocPcb hands out        *)
(* process blocks only.                                                    *)
THEOREM SpecTypeOK ==
  Spec => []TypeOK
<1>1. PcbInv => TypeOK
  BY DEF PcbInv
<1> QED
  BY <1>1, SpecPcbInv, PTL

(* Every queue, the free list included, is a ring that ends at its tail    *)
(* and in which p_prev leads back where p_next came from, after any        *)
(* removals from its middle.                                               *)
THEOREM SpecRingsClosed ==
  Spec => []RingsClosed
<1>1. ASSUME PcbInv PROVE RingsClosed
  <2>1. ASSUME NEW t, NEW q, IsRing(pcb, t, q), t # NULL
        PROVE  /\ Last(Ring(pcb, t)) = t
               /\ \A i \in 1..Len(Ring(pcb, t)) :
                    pcb[pcb[Ring(pcb, t)[i]].p_next].p_prev = Ring(pcb, t)[i]
    <3>1. Ring(pcb, t) = q
      BY <2>1, RingIs
    <3>2. q \in Seq(Pcbs) /\ Len(q) \in Nat /\ Len(q) >= 1 /\ t = q[Len(q)]
      BY <2>1, RingEnds
    <3>3. Last(q) = t
      BY <3>2 DEF Last
    <3>4. ASSUME NEW i \in 1..Len(q)
          PROVE  pcb[pcb[q[i]].p_next].p_prev = q[i]
      <4> DEFINE j == IF i = Len(q) THEN 1 ELSE i + 1
      <4>1. j \in 1..Len(q) /\ (IF j = 1 THEN Len(q) ELSE j - 1) = i
        BY <3>2
      <4>2. pcb[q[i]].p_next = q[j]
        BY <2>1 DEF IsRing
      <4>3. pcb[q[j]].p_prev = q[IF j = 1 THEN Len(q) ELSE j - 1]
        <5> HIDE DEF j
        <5> QED
          BY <4>1, <2>1 DEF IsRing
      <4> QED
        BY <4>1, <4>2, <4>3
    <3> QED
      BY <3>1, <3>3, <3>4
  <2>2. Rings(pcb, pcbFree_h, tp, FreeList, QueueLists)
    BY <1>1 DEF PcbInv
  <2>3. ASSUME NEW t \in {tp[u] : u \in Queues} \cup {pcbFree_h}
        PROVE  \E q : IsRing(pcb, t, q)
    BY <2>2 DEF Rings
  <2> QED
    BY <2>1, <2>3 DEF RingsClosed
<1> QED
  BY <1>1, SpecPcbInv, PTL

(* The children of a process are linked both ways and know their parent,   *)
(* whichever of its four cases outChild was in before.                     *)
THEOREM SpecSiblingsLinked ==
  Spec => []SiblingsLinked
<1>1. ASSUME PcbInv PROVE SiblingsLinked
  <2>1. ASSUME NEW p \in Pcbs
        PROVE  LET c == Siblings(pcb, p) IN
               \A i \in 1..Len(c) :
                 /\ pcb[c[i]].p_prnt = p
                 /\ pcb[c[i]].p_prevsib = IF i = 1 THEN NULL ELSE c[i - 1]
    <3>1. IsFamily(pcb, p, Siblings(pcb, p))
      BY <1>1 DEF PcbInv, Tree, ChildLists
    <3> QED
      BY <3>1 DEF IsFamily
  <2> QED
    BY <2>1 DEF SiblingsLinked
<1> QED
  BY <1>1, SpecPcbInv, PTL

(* pcb.c implements the queues, the children and the pool of ProcLists.    *)
THEOREM SpecImplementsLists ==
  Spec => ImplementsLists
<1>1. Init => Lists!Init
  <2> SUFFICES ASSUME Init PROVE Lists!Init
    OBVIOUS
  <2>1. /\ FreeList \in [1..MAXPROC -> Pcbs]
        /\ IsInjective(FreeList)
        /\ QueueLists = [t \in Queues |-> <<>>]
        /\ ChildLists = [p \in Pcbs |-> <<>>]
    BY PcbInit
  <2>2. FreeList \in {f \in [1..Lists!MAXPROC -> Pcbs] : Lists!IsInjective(f)}
    <3>1. Lists!MAXPROC = MAXPROC
      BY DEF Lists!MAXPROC, MAXPROC, Cardinality, Lists!Cardinality
    <3>2. \A f : Lists!IsInjective(f) = IsInjective(f)
      BY DEF Lists!IsInjective, IsInjective
    <3> QED
      BY <2>1, <3>1, <3>2
  <2> QED
    BY <2>1, <2>2 DEF Init, Lists!Init, FreeList, QueueLists, ChildLists
<1>2. PcbInv /\ [Next]_vars => [Lists!Next]_(Lists!vars)
  BY PcbStep
<1> QED
  BY <1>1, <1>2, SpecPcbInv, PTL DEF Spec, ImplementsLists, Lists!Spec
=============================================================================
