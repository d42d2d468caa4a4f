----------------------------- MODULE AslProofs ------------------------------
(***************************************************************************)
(* The active semaphore list of phase1/asl.c, for any number of process    *)
(* blocks and any semaphores: the list stays sorted, no descriptor is lost *)
(* and one is free whenever insertBlocked needs it, so that the list       *)
(* implements the queues of module SemQueues.                              *)
(***************************************************************************)
EXTENDS Asl, QueueProofs

Nexts(m) == [x \in Semds |-> m[x].s_next]

Descriptors == [s_next : Semds \cup {NULL}, s_semAdd : 0..MAXINT, s_procQ : Seq(Pcbs)]

(* The descriptors from h on are L, sorted between the two sentinels.      *)
IsList(m, h, L) ==
  /\ IsWalk(Nexts(m), h, NULL, L)
  /\ Len(L) >= 2
  /\ m[L[1]].s_semAdd = 0
  /\ m[L[Len(L)]].s_semAdd = MAXINT
  /\ \A i, j \in 1..Len(L) : i < j => m[L[i]].s_semAdd < m[L[j]].s_semAdd

(* Every descriptor of L that is not a sentinel holds the queue of a       *)
(* semaphore, and somebody waits in it.                                    *)
InUse(m, w, L) ==
  \A d \in ToSet(L) :
    \/ m[d].s_semAdd \in {0, MAXINT}
    \/ /\ m[d].s_semAdd \in Sems
       /\ m[d].s_procQ # <<>>
       /\ IsInjective(m[d].s_procQ)
       /\ \A p \in ToSet(m[d].s_procQ) : w[p] = m[d].s_semAdd

(* A descriptor is in the list or on the stack of the free ones.           *)
IsAsl(m, h, f, w, L, F) ==
  /\ m \in [Semds -> Descriptors]
  /\ w \in [Pcbs -> Sems \cup {NULL}]
  /\ IsList(m, h, L)
  /\ IsWalk(Nexts(m), f, NULL, F)
  /\ ToSet(L) \cap ToSet(F) = {}
  /\ ToSet(L) \cup ToSet(F) = Semds
  /\ InUse(m, w, L)

List == Chain(semd_h)
Free == Chain(semdFree_h)

(* The invariant.                                                          *)
AslInv == IsAsl(semd, semd_h, semdFree_h, p_semAdd, List, Free)

-----------------------------------------------------------------------------
(* A walk does not see the links of the blocks that it does not meet.      *)
LEMMA WalkKept ==
  ASSUME NEW m, NEW n, NEW x, NEW q, IsWalk(Nexts(m), x, NULL, q),
         \A d \in ToSet(q) : n[d].s_next = m[d].s_next
  PROVE  IsWalk(Nexts(n), x, NULL, q)
<1>1. q \in Seq(Semds) /\ \A i \in 1..Len(q) : q[i] \in ToSet(q) /\ q[i] \in Semds
  BY MemberPosition, ElementOfSeq DEF IsWalk, Nexts
<1>2. \A i \in 1..Len(q) : Nexts(n)[q[i]] = Nexts(m)[q[i]]
  BY <1>1 DEF Nexts
<1>3. DOMAIN Nexts(n) = DOMAIN Nexts(m)
  BY DEF Nexts
<1> QED
  BY <1>2, <1>3 DEF IsWalk

(* What a walk says of the descriptors it meets.                           *)
LEMMA WalkMeets ==
  ASSUME NEW m, NEW x, NEW q, IsWalk(Nexts(m), x, NULL, q)
  PROVE  /\ q \in Seq(Semds)
         /\ Len(q) \in Nat
         /\ IsInjective(q)
         /\ \A i, j \in 1..Len(q) : q[i] = q[j] => i = j
         /\ ToSet(q) \subseteq Semds
         /\ \A i \in 1..Len(q) :
              /\ q[i] \in Semds
              /\ q[i] \in ToSet(q)
              /\ m[q[i]].s_next = IF i = Len(q) THEN NULL ELSE q[i + 1]
         /\ \A d \in ToSet(q) : \E i \in 1..Len(q) : q[i] = d
         /\ x = IF q = <<>> THEN NULL ELSE q[1]
         /\ q # <<>> => Len(q) >= 1
<1>1. q \in Seq(Semds) /\ IsInjective(q)
  BY DEF IsWalk, Nexts
<1>2. /\ Len(q) \in Nat
      /\ \A i, j \in 1..Len(q) : q[i] = q[j] => i = j
      /\ \A i \in 1..Len(q) : q[i] \in Semds
  BY <1>1, LenProperties, InjectivePositions, ElementOfSeq
<1>3. /\ ToSet(q) \subseteq Semds
      /\ \A i \in 1..Len(q) : q[i] \in ToSet(q)
      /\ \A d \in ToSet(q) : \E i \in 1..Len(q) : q[i] = d
      /\ q # <<>> => Len(q) >= 1
  BY <1>1, MemberPosition
<1>4. \A i \in 1..Len(q) : m[q[i]].s_next = IF i = Len(q) THEN NULL ELSE q[i + 1]
  BY <1>2 DEF IsWalk, Nexts
<1> QED
  BY <1>1, <1>2, <1>3, <1>4 DEF IsWalk

(* And what makes a walk.                                                  *)
LEMMA WalkMade ==
  ASSUME NEW m, NEW x, NEW q \in Seq(Semds),
         \A i, j \in 1..Len(q) : q[i] = q[j] => i = j,
         \A i \in 1..Len(q) : m[q[i]].s_next = IF i = Len(q) THEN NULL ELSE q[i + 1],
         x = IF q = <<>> THEN NULL ELSE q[1]
  PROVE  IsWalk(Nexts(m), x, NULL, q)
<1>1. IsInjective(q)
  BY InjectivePositions
<1>2. \A i \in 1..Len(q) : q[i] \in Semds
  BY ElementOfSeq
<1>3. MAXPROC \in Nat /\ \A d \in Semds : d # NULL
  BY AslAssumption, FS_CardinalityType DEF MAXPROC, Semds, NULL
<1>4. \A i \in 1..Len(q) : q[i] # NULL /\ Nexts(m)[q[i]] = IF i = Len(q) THEN NULL ELSE q[i + 1]
  BY <1>2, <1>3 DEF Nexts
<1>5. DOMAIN Nexts(m) = Semds
  BY DEF Nexts
<1> QED
  BY <1>1, <1>4, <1>5 DEF IsWalk

(* What the constants say.                                                 *)
LEMMA Addresses ==
  /\ MAXPROC \in Nat
  /\ IsFiniteSet(Semds) /\ Cardinality(Semds) = MAXPROC + 2
  /\ NULL \notin Semds
  /\ MAXINT \in Nat /\ NULL = MAXINT /\ NULL \notin Sems
  /\ \A s \in Sems : s \in Nat /\ 0 < s /\ s < MAXINT
<1>1. MAXPROC \in Nat
  BY AslAssumption, FS_CardinalityType DEF MAXPROC
<1>2. IsFiniteSet(Semds) /\ Cardinality(Semds) = MAXPROC + 2
  BY <1>1, FS_Interval DEF Semds
<1>3. NULL \notin Semds
  BY <1>1, AslAssumption DEF Semds, NULL, MAXPROC
<1>4. MAXINT \in Nat /\ NULL = MAXINT /\ NULL \notin Sems
  BY AslAssumption DEF NULL
<1>5. \A s \in Sems : s \in Nat /\ 0 < s /\ s < MAXINT
  BY AslAssumption
<1> QED
  BY <1>1, <1>2, <1>3, <1>4, <1>5

(* The loop over a walk finds it.                                          *)
LEMMA ChainIs ==
  ASSUME NEW x, NEW q, IsWalk(Nexts(semd), x, NULL, q)
  PROVE  Chain(x) = q
<1>1. IsFiniteSet(DOMAIN Nexts(semd))
  BY Addresses DEF Nexts
<1>2. Chain(x) = Walk(Nexts(semd), x, NULL)
  BY DEF Chain, Nexts
<1> QED
  BY <1>1, <1>2, WalkIs
-----------------------------------------------------------------------------
(* searchSemd stops between the addresses below s and the others.          *)
LEMMA SearchStops ==
  ASSUME IsList(semd, semd_h, List), semd \in [Semds -> Descriptors], NEW s \in Sems
  PROVE  \E k \in 1..(Len(List) - 1) :
           /\ SearchSemd(s) = List[k]
           /\ Following(s) = List[k + 1]
           /\ semd[List[k]].s_semAdd < s
           /\ s <= semd[List[k + 1]].s_semAdd
<1> DEFINE L == List
           key(i) == semd[L[i]].s_semAdd
           Stops(i) == key(i + 1) >= s
           First(i) == Stops(i) /\ \A j \in 1..(i - 1) : ~Stops(j)
           T == {i \in 1..(Len(L) - 1) : Stops(i)}
           k == CHOOSE i \in 1..(Len(L) - 1) : First(i)
<1>1. /\ Len(L) \in Nat /\ Len(L) >= 2
      /\ \A i \in 1..Len(L) : L[i] \in Semds
      /\ \A i \in 1..Len(L) - 1 : semd[L[i]].s_next = L[i + 1]
  <2>1. IsWalk(Nexts(semd), semd_h, NULL, L) /\ Len(L) >= 2
    BY DEF IsList
  <2> HIDE DEF L
  <2>2. /\ Len(L) \in Nat
        /\ \A i \in 1..Len(L) : /\ L[i] \in Semds
                                /\ semd[L[i]].s_next = IF i = Len(L) THEN NULL ELSE L[i + 1]
    BY <2>1, WalkMeets
  <2>3. \A i \in 1..Len(L) - 1 : i \in 1..Len(L) /\ i # Len(L)
    BY <2>2
  <2> QED
    BY <2>1, <2>2, <2>3
<1>2. \A i \in 1..Len(L) : key(i) \in Nat
  BY <1>1, Addresses DEF Descriptors
<1>3. key(1) = 0 /\ key(Len(L)) = MAXINT /\ s \in Nat /\ 0 < s /\ s < MAXINT /\ MAXINT \in Nat
  BY Addresses DEF IsList
<1>4. SearchSemd(s) = L[k]
  BY DEF SearchSemd, List
<1> HIDE DEF key, L
<1>5. T \subseteq Nat /\ T # {}
  <2>1. Len(L) - 1 \in T
    BY <1>1, <1>3
  <2>2. T \subseteq Nat
    BY <1>1
  <2> HIDE DEF T
  <2> QED
    BY <2>1, <2>2
<1>6. \E i \in 1..(Len(L) - 1) : First(i)
  <2>1. PICK i \in T : \A j \in T : i <= j
    BY <1>5, Least
  <2>2. \A j \in 1..(i - 1) : ~Stops(j)
    BY <2>1, <1>1
  <2> QED
    BY <2>1, <2>2
<1>7. k \in 1..(Len(L) - 1) /\ First(k)
  BY <1>6
<1> HIDE DEF k
<1>8. key(k) < s
  <2>1. CASE k = 1
    BY <2>1, <1>3
  <2>2. CASE k # 1
    <3>1. k - 1 \in 1..(k - 1) /\ k \in 1..Len(L) /\ (k - 1) + 1 = k
      BY <2>2, <1>7, <1>1
    <3>2. ~Stops(k - 1)
      BY <3>1, <1>7
    <3> QED
      BY <3>1, <3>2, <1>2, <1>3
  <2> QED
    BY <2>1, <2>2
<1>9. s <= key(k + 1)
  BY <1>7, <1>3, <1>2, <1>1
<1>10. Following(s) = L[k + 1]
  BY <1>4, <1>7, <1>1 DEF Following
<1> QED
  BY <1>4, <1>7, <1>8, <1>9, <1>10 DEF key, L

-----------------------------------------------------------------------------
(* A function on 1..n is a sequence of length n.                           *)
LEMMA SequenceMade ==
  ASSUME NEW S, NEW n \in Nat, NEW q \in [1..n -> S]
  PROVE  q \in Seq(S) /\ Len(q) = n
<1>1. q \in Seq(S)
  BY SeqDef
<1>2. Len(q) \in Nat /\ 1..Len(q) = 1..n
  BY <1>1, LenProperties
<1>3. \A i \in Int : i \in 1..Len(q) <=> i \in 1..n
  BY <1>2
<1>4. n <= Len(q)
  BY <1>2, <1>3
<1>5. Len(q) <= n
  BY <1>2, <1>3
<1> QED
  BY <1>1, <1>2, <1>4, <1>5

(* Only the links and the addresses of its own descriptors make a list.    *)
LEMMA ListKept ==
  ASSUME NEW m, NEW n, NEW h, NEW L, IsList(m, h, L),
         \A d \in ToSet(L) : n[d].s_next = m[d].s_next /\ n[d].s_semAdd = m[d].s_semAdd
  PROVE  IsList(n, h, L)
<1>1. IsWalk(Nexts(n), h, NULL, L)
  BY WalkKept DEF IsList
<1>2. Len(L) \in Nat /\ Len(L) >= 2 /\ \A i \in 1..Len(L) : L[i] \in ToSet(L)
  BY WalkMeets DEF IsList
<1>3. 1 \in 1..Len(L) /\ Len(L) \in 1..Len(L)
  BY <1>2
<1>4. \A i \in 1..Len(L) : n[L[i]].s_semAdd = m[L[i]].s_semAdd
  BY <1>2
<1> QED
  BY <1>1, <1>2, <1>3, <1>4 DEF IsList

(* insertBlocked: a free descriptor comes between two of the list.         *)
OpensAt(m, n, L, k, d) ==
  /\ d \in Semds
  /\ d \notin ToSet(L)
  /\ n[d].s_next = L[k + 1]
  /\ m[L[k]].s_semAdd < n[d].s_semAdd
  /\ n[d].s_semAdd < m[L[k + 1]].s_semAdd
  /\ \A x \in ToSet(L) : /\ n[x].s_next = IF x = L[k] THEN d ELSE m[x].s_next
                         /\ n[x].s_semAdd = m[x].s_semAdd

(* Such a change makes a longer list of the old one.                       *)
LEMMA ListOpened ==
  ASSUME NEW m \in [Semds -> Descriptors], NEW n \in [Semds -> Descriptors],
         NEW h, NEW L, IsList(m, h, L),
         NEW k \in 1..(Len(L) - 1), NEW d, OpensAt(m, n, L, k, d)
  PROVE  \E K : IsList(n, h, K) /\ ToSet(K) = ToSet(L) \cup {d}
<1>0. /\ d \in Semds
      /\ d \notin ToSet(L)
      /\ n[d].s_next = L[k + 1]
      /\ m[L[k]].s_semAdd < n[d].s_semAdd
      /\ n[d].s_semAdd < m[L[k + 1]].s_semAdd
      /\ \A x \in ToSet(L) : /\ n[x].s_next = IF x = L[k] THEN d ELSE m[x].s_next
                             /\ n[x].s_semAdd = m[x].s_semAdd
  BY DEF OpensAt
<1> DEFINE N == Len(L)
           K == [i \in 1..(N + 1) |-> IF i <= k THEN L[i] ELSE IF i = k + 1 THEN d ELSE L[i - 1]]
<1>1. /\ N \in Nat /\ N >= 2
      /\ \A i, j \in 1..N : L[i] = L[j] => i = j
      /\ \A i \in 1..N : L[i] \in Semds /\ L[i] \in ToSet(L) /\ L[i] # d
      /\ \A i \in 1..N : m[L[i]].s_next = IF i = N THEN NULL ELSE L[i + 1]
      /\ \A x \in ToSet(L) : \E i \in 1..N : L[i] = x
      /\ h = L[1]
  BY <1>0, WalkMeets DEF IsList
<1>2. k \in 1..N /\ k + 1 \in 1..N /\ k \in Nat /\ k + 1 <= N /\ k >= 1
  BY <1>1
<1>3. \A i \in 1..(N + 1) : \/ i <= k /\ i \in 1..N
                            \/ i = k + 1
                            \/ i > k + 1 /\ i - 1 \in 1..N
  BY <1>1, <1>2
<1>4. \A i \in 1..(N + 1) : K[i] \in Semds
  BY <1>0, <1>1, <1>2, <1>3
<1>5. K \in Seq(Semds) /\ Len(K) = N + 1
  <2>1. N + 1 \in Nat /\ K \in [1..(N + 1) -> Semds]
    BY <1>1, <1>4
  <2> HIDE DEF K
  <2> QED
    BY <2>1, SequenceMade
<1>6. /\ \A i \in 1..k : K[i] = L[i]
      /\ K[k + 1] = d
      /\ \A i \in (k + 2)..(N + 1) : K[i] = L[i - 1]
  BY <1>1, <1>2
<1> HIDE DEF N, K
<1>7. \A i, j \in 1..Len(K) : K[i] = K[j] => i = j
  <2> SUFFICES ASSUME NEW i \in 1..(N + 1), NEW j \in 1..(N + 1), K[i] = K[j], i < j PROVE FALSE
    BY <1>1, <1>5
  <2>1. CASE i <= k /\ j <= k
    <3>1. i \in 1..k /\ j \in 1..k /\ i \in 1..N /\ j \in 1..N /\ i # j
      BY <2>1, <1>1, <1>2
    <3>2. L[i] = L[j]
      BY <3>1, <1>6
    <3> QED
      BY <3>1, <3>2, <1>1
  <2>2. CASE i <= k /\ j = k + 1
    <3>1. i \in 1..k /\ i \in 1..N
      BY <2>2, <1>1, <1>2
    <3>2. K[i] = L[i] /\ L[i] # d
      BY <3>1, <1>1, <1>6
    <3>3. K[j] = d
      BY <2>2, <1>6
    <3> QED
      BY <3>2, <3>3
  <2>3. CASE i <= k /\ j > k + 1
    <3>1. i \in 1..k /\ i \in 1..N /\ j \in (k + 2)..(N + 1) /\ j - 1 \in 1..N /\ i # j - 1
      BY <2>3, <1>1, <1>2
    <3> QED
      BY <3>1, <1>1, <1>6
  <2>4. CASE i = k + 1 /\ j > k + 1
    <3>1. j \in (k + 2)..(N + 1) /\ j - 1 \in 1..N
      BY <2>4, <1>1, <1>2
    <3> QED
      BY <2>4, <3>1, <1>1, <1>6
  <2>5. CASE i > k + 1 /\ j > k + 1
    <3>1. /\ i \in (k + 2)..(N + 1) /\ i - 1 \in 1..N
          /\ j \in (k + 2)..(N + 1) /\ j - 1 \in 1..N
          /\ i - 1 # j - 1
      BY <2>5, <1>1, <1>2
    <3> QED
      BY <3>1, <1>1, <1>6
  <2> QED
    BY <2>1, <2>2, <2>3, <2>4, <2>5, <1>1, <1>2
<1>8. \A i \in 1..Len(K) : n[K[i]].s_next = IF i = Len(K) THEN NULL ELSE K[i + 1]
  <2> SUFFICES ASSUME NEW i \in 1..(N + 1)
               PROVE  n[K[i]].s_next = IF i = N + 1 THEN NULL ELSE K[i + 1]
    BY <1>5
  <2>1. CASE i < k
    <3>1. i \in 1..k /\ i + 1 \in 1..k /\ i \in 1..N /\ i # N /\ i # N + 1 /\ i # k
      BY <2>1, <1>1, <1>2
    <3>2. L[i] # L[k] /\ L[i] \in ToSet(L) /\ m[L[i]].s_next = L[i + 1]
      BY <3>1, <1>1, <1>2
    <3>3. n[L[i]].s_next = L[i + 1]
      BY <3>2, <1>0
    <3>4. K[i] = L[i] /\ K[i + 1] = L[i + 1]
      BY <3>1, <1>6
    <3> QED
      BY <3>1, <3>3, <3>4
  <2>2. CASE i = k
    <3>1. k \in 1..k /\ k # N + 1
      BY <1>1, <1>2
    <3> QED
      BY <1>0, <3>1, <2>2, <1>1, <1>2, <1>6
  <2>3. CASE i = k + 1
    <3>1. k + 2 \in (k + 2)..(N + 1) /\ (k + 1) + 1 = k + 2 /\ k + 2 - 1 = k + 1 /\ k + 1 # N + 1
      BY <1>1, <1>2
    <3> QED
      BY <1>0, <3>1, <2>3, <1>6
  <2>4. CASE i > k + 1
    <3>1. i \in (k + 2)..(N + 1) /\ i - 1 \in 1..N /\ i - 1 # k
          /\ (i = N + 1 <=> i - 1 = N) /\ (i - 1) + 1 = i /\ (i + 1) - 1 = i
          /\ (i # N + 1 => i + 1 \in (k + 2)..(N + 1))
      BY <2>4, <1>1, <1>2
    <3>2. L[i - 1] # L[k]
      BY <3>1, <1>1, <1>2
    <3>3. n[K[i]].s_next = IF i - 1 = N THEN NULL ELSE L[i]
      <4>1. K[i] = L[i - 1]
        BY <3>1, <1>6
      <4>2. n[L[i - 1]].s_next = m[L[i - 1]].s_next
        BY <1>0, <3>1, <3>2, <1>1
      <4>3. m[L[i - 1]].s_next = IF i - 1 = N THEN NULL ELSE L[(i - 1) + 1]
        BY <3>1, <1>1
      <4> QED
        BY <3>1, <4>1, <4>2, <4>3
    <3> QED
      BY <3>1, <3>3, <1>6
  <2> QED
    BY <2>1, <2>2, <2>3, <2>4, <1>1, <1>2
<1>9. h = IF K = <<>> THEN NULL ELSE K[1]
  <2>1. K # <<>> /\ K[1] = L[1]
    BY <1>1, <1>2, <1>5, <1>6
  <2> QED
    BY <2>1, <1>1
<1>10. IsWalk(Nexts(n), h, NULL, K)
  BY <1>5, <1>7, <1>8, <1>9, WalkMade
<1>11. /\ m[L[1]].s_semAdd = 0
       /\ m[L[N]].s_semAdd = MAXINT
       /\ \A i, j \in 1..N : i < j => m[L[i]].s_semAdd < m[L[j]].s_semAdd
       /\ \A i \in 1..N : m[L[i]].s_semAdd \in Nat /\ n[L[i]].s_semAdd = m[L[i]].s_semAdd
       /\ n[d].s_semAdd \in Nat
  <2>1. \A x \in Semds : m[x].s_semAdd \in Nat /\ n[x].s_semAdd \in Nat
    BY Addresses DEF Descriptors
  <2> QED
    BY <1>0, <2>1, <1>1 DEF IsList, N
<1>12. n[K[1]].s_semAdd = 0 /\ n[K[Len(K)]].s_semAdd = MAXINT
  <2>1. 1 \in 1..k /\ 1 \in 1..N /\ N + 1 \in (k + 2)..(N + 1) /\ N \in 1..N /\ (N + 1) - 1 = N
    BY <1>1, <1>2
  <2> QED
    BY <2>1, <1>5, <1>6, <1>11
<1>13. ASSUME NEW i \in 1..Len(K), NEW j \in 1..Len(K), i < j
       PROVE  n[K[i]].s_semAdd < n[K[j]].s_semAdd
  <2> DEFINE key(x) == m[L[x]].s_semAdd
             new(x) == n[K[x]].s_semAdd
             s == n[d].s_semAdd
  <2>0. i \in 1..(N + 1) /\ j \in 1..(N + 1) /\ i < j
    BY <1>13, <1>5
  <2>1. /\ \A x \in 1..k : x \in 1..N
        /\ \A x \in (k + 2)..(N + 1) : x - 1 \in 1..N
    BY <1>1, <1>2
  <2>2. \A x \in 1..k : new(x) = key(x)
    BY <2>1, <1>6, <1>11
  <2>3. \A x \in (k + 2)..(N + 1) : new(x) = key(x - 1)
    BY <2>1, <1>6, <1>11
  <2>4. new(k + 1) = s /\ key(k) < s /\ s < key(k + 1) /\ s \in Nat
    BY <1>0, <1>6, <1>11
  <2>5. /\ \A x \in 1..N : key(x) \in Nat
        /\ \A x, y \in 1..N : x < y => key(x) < key(y)
    BY <1>11
  <2> HIDE DEF key, new, s
  <2>6. new(i) < new(j)
    <3>1. CASE i <= k /\ j <= k
      <4>1. i \in 1..k /\ j \in 1..k
        BY <2>0, <3>1, <1>1, <1>2
      <4> QED
        BY <4>1, <2>0, <2>1, <2>2, <2>5
    <3>2. CASE i <= k /\ j = k + 1
      <4>1. i \in 1..k /\ (i = k \/ i < k)
        BY <2>0, <3>2, <1>1, <1>2
      <4>2. key(i) \in Nat /\ key(k) \in Nat /\ (i = k \/ key(i) < key(k))
        BY <4>1, <2>1, <2>5, <1>2
      <4> QED
        BY <4>1, <4>2, <3>2, <2>2, <2>4
    <3>3. CASE i <= k /\ j > k + 1
      <4>1. i \in 1..k /\ j \in (k + 2)..(N + 1) /\ i < j - 1
        BY <2>0, <3>3, <1>1, <1>2
      <4> QED
        BY <4>1, <2>1, <2>2, <2>3, <2>5
    <3>4. CASE i = k + 1 /\ j > k + 1
      <4>1. j \in (k + 2)..(N + 1) /\ (j - 1 = k + 1 \/ k + 1 < j - 1) /\ j - 1 \in 1..N
        BY <2>0, <3>4, <1>1, <1>2
      <4>2. /\ key(j - 1) \in Nat /\ key(k + 1) \in Nat
            /\ j - 1 = k + 1 \/ key(k + 1) < key(j - 1)
        BY <4>1, <2>5, <1>2
      <4> QED
        BY <4>1, <4>2, <3>4, <2>3, <2>4
    <3>5. CASE i > k + 1 /\ j > k + 1
      <4>1. i \in (k + 2)..(N + 1) /\ j \in (k + 2)..(N + 1) /\ i - 1 < j - 1
        BY <2>0, <3>5, <1>1, <1>2
      <4> QED
        BY <4>1, <2>1, <2>3, <2>5
    <3> QED
      BY <2>0, <3>1, <3>2, <3>3, <3>4, <3>5, <1>1, <1>2
  <2> QED
    BY <2>6 DEF new
<1>14. IsList(n, h, K)
  BY <1>1, <1>5, <1>10, <1>12, <1>13 DEF IsList
<1>15. ToSet(K) = ToSet(L) \cup {d}
  <2>1. /\ \A x \in ToSet(K) : \E i \in 1..(N + 1) : K[i] = x
        /\ \A i \in 1..(N + 1) : K[i] \in ToSet(K)
    BY <1>5, MemberPosition
  <2>2. ASSUME NEW x \in ToSet(K) PROVE x \in ToSet(L) \cup {d}
    <3>1. PICK i \in 1..(N + 1) : K[i] = x
      BY <2>1
    <3>2. CASE i <= k
      <4>1. i \in 1..k /\ i \in 1..N
        BY <3>2, <1>1, <1>2
      <4> QED
        BY <4>1, <3>1, <1>1, <1>6
    <3>3. CASE i = k + 1
      BY <3>1, <3>3, <1>6
    <3>4. CASE i > k + 1
      <4>1. i \in (k + 2)..(N + 1) /\ i - 1 \in 1..N
        BY <3>4, <1>1, <1>2
      <4> QED
        BY <4>1, <3>1, <1>1, <1>6
    <3> QED
      BY <3>2, <3>3, <3>4, <1>1, <1>2
  <2>3. ASSUME NEW x \in ToSet(L) PROVE x \in ToSet(K)
    <3>1. PICK i \in 1..N : L[i] = x
      BY <1>1
    <3>2. CASE i <= k
      <4>1. i \in 1..k /\ i \in 1..(N + 1)
        BY <3>2, <1>1, <1>2
      <4> QED
        BY <4>1, <3>1, <2>1, <1>6
    <3>3. CASE i > k
      <4>1. i + 1 \in (k + 2)..(N + 1) /\ i + 1 \in 1..(N + 1) /\ (i + 1) - 1 = i
        BY <3>3, <1>1, <1>2
      <4>2. K[i + 1] = L[i]
        BY <4>1, <1>6
      <4> QED
        BY <4>1, <4>2, <3>1, <2>1
    <3> QED
      BY <3>2, <3>3, <1>1, <1>2
  <2>4. d \in ToSet(K)
    <3>1. k + 1 \in 1..(N + 1)
      BY <1>1, <1>2
    <3> QED
      BY <3>1, <2>1, <1>6
  <2> QED
    BY <2>2, <2>3, <2>4
<1> QED
  BY <1>14, <1>15

(* outBlocked: the descriptor of an emptied queue leaves the list.         *)
LEMMA ListClosed ==
  ASSUME NEW m \in [Semds -> Descriptors], NEW n \in [Semds -> Descriptors],
         NEW h, NEW L, IsList(m, h, L),
         NEW k \in 1..(Len(L) - 1), k + 1 # Len(L),
         \A x \in ToSet(L) \ {L[k + 1]} :
           /\ n[x].s_next = IF x = L[k] THEN m[L[k + 1]].s_next ELSE m[x].s_next
           /\ n[x].s_semAdd = m[x].s_semAdd
  PROVE  \E K : IsList(n, h, K) /\ ToSet(K) = ToSet(L) \ {L[k + 1]}
<1> DEFINE N == Len(L)
           d == L[k + 1]
           K == [i \in 1..(N - 1) |-> IF i <= k THEN L[i] ELSE L[i + 1]]
<1>1. /\ N \in Nat /\ N >= 2
      /\ \A i, j \in 1..N : L[i] = L[j] => i = j
      /\ \A i \in 1..N : L[i] \in Semds /\ L[i] \in ToSet(L)
      /\ \A i \in 1..N : m[L[i]].s_next = IF i = N THEN NULL ELSE L[i + 1]
      /\ \A x \in ToSet(L) : \E i \in 1..N : L[i] = x
      /\ h = L[1]
  BY WalkMeets DEF IsList
<1>2. k \in 1..N /\ k + 1 \in 1..N /\ k \in Nat /\ k + 1 <= N - 1 /\ k >= 1
  BY <1>1
<1>3. \A i \in 1..(N - 1) : IF i <= k THEN i \in 1..N ELSE i + 1 \in 1..N
  BY <1>1, <1>2
<1>4. \A i \in 1..(N - 1) : K[i] \in Semds
  BY <1>1, <1>3
<1>5. K \in Seq(Semds) /\ Len(K) = N - 1
  <2>1. N - 1 \in Nat /\ K \in [1..(N - 1) -> Semds]
    BY <1>1, <1>4
  <2> HIDE DEF K
  <2> QED
    BY <2>1, SequenceMade
<1>6. /\ \A i \in 1..k : K[i] = L[i]
      /\ \A i \in (k + 1)..(N - 1) : K[i] = L[i + 1]
  BY <1>1, <1>2
<1>7. /\ \A i \in 1..k : i \in 1..N /\ i # k + 1
      /\ \A i \in (k + 1)..(N - 1) : i + 1 \in 1..N /\ i + 1 # k + 1 /\ i + 1 # k
      /\ \A i \in 1..(N - 1) : i \in 1..k \/ i \in (k + 1)..(N - 1)
  BY <1>1, <1>2
<1> HIDE DEF N, K, d
<1>8. \A i \in 1..N : i # k + 1 => L[i] \in ToSet(L) \ {d}
  BY <1>1, <1>2 DEF d
<1>9. /\ \A i \in 1..N : i # k + 1 => n[L[i]].s_semAdd = m[L[i]].s_semAdd
      /\ \A i \in 1..N : i # k + 1 /\ i # k => n[L[i]].s_next = m[L[i]].s_next
      /\ n[L[k]].s_next = m[d].s_next
      /\ k # k + 1
  <2>1. \A i \in 1..N : i # k => L[i] # L[k]
    BY <1>1, <1>2
  <2>2. k # k + 1
    BY <1>2
  <2> QED
    BY <2>1, <2>2, <1>2, <1>8 DEF d
<1>10. \A i, j \in 1..Len(K) : K[i] = K[j] => i = j
  <2> SUFFICES ASSUME NEW i \in 1..(N - 1), NEW j \in 1..(N - 1), K[i] = K[j], i < j PROVE FALSE
    BY <1>1, <1>5
  <2>1. CASE i \in 1..k /\ j \in 1..k
    <3>1. L[i] = L[j]
      BY <2>1, <1>6
    <3> QED
      BY <2>1, <3>1, <1>1, <1>7
  <2>2. CASE i \in 1..k /\ j \in (k + 1)..(N - 1)
    <3>1. L[i] = L[j + 1]
      BY <2>2, <1>6
    <3>2. i # j + 1
      OBVIOUS
    <3> QED
      BY <2>2, <3>1, <3>2, <1>1, <1>7
  <2>3. CASE i \in (k + 1)..(N - 1) /\ j \in (k + 1)..(N - 1)
    <3>1. L[i + 1] = L[j + 1]
      BY <2>3, <1>6
    <3>2. i + 1 # j + 1
      OBVIOUS
    <3> QED
      BY <2>3, <3>1, <3>2, <1>1, <1>7
  <2> QED
    BY <2>1, <2>2, <2>3, <1>1, <1>2
<1>11. \A i \in 1..Len(K) : n[K[i]].s_next = IF i = Len(K) THEN NULL ELSE K[i + 1]
  <2> SUFFICES ASSUME NEW i \in 1..(N - 1)
               PROVE  n[K[i]].s_next = IF i = N - 1 THEN NULL ELSE K[i + 1]
    BY <1>5
  <2>1. CASE i < k
    <3>1. i \in 1..k /\ i + 1 \in 1..k /\ i # N /\ i # N - 1 /\ i # k
      BY <2>1, <1>1, <1>2
    <3>2. n[L[i]].s_next = m[L[i]].s_next /\ m[L[i]].s_next = L[i + 1]
      BY <3>1, <1>1, <1>7, <1>9
    <3> QED
      BY <3>1, <3>2, <1>6
  <2>2. CASE i = k
    <3>1. k \in 1..k /\ k + 1 \in (k + 1)..(N - 1) /\ k + 1 # N /\ k # N - 1
      BY <1>1, <1>2
    <3>2. m[d].s_next = L[(k + 1) + 1]
      BY <3>1, <1>1, <1>2 DEF d
    <3> QED
      BY <3>1, <3>2, <2>2, <1>6, <1>9
  <2>3. CASE i > k
    <3>1. i \in (k + 1)..(N - 1) /\ (i # N - 1 => i + 1 \in (k + 1)..(N - 1))
          /\ (i = N - 1 <=> i + 1 = N)
      BY <2>3, <1>1, <1>2
    <3>2. /\ n[L[i + 1]].s_next = m[L[i + 1]].s_next
          /\ m[L[i + 1]].s_next = IF i + 1 = N THEN NULL ELSE L[(i + 1) + 1]
      BY <3>1, <1>1, <1>7, <1>9
    <3> QED
      BY <3>1, <3>2, <1>6
  <2> QED
    BY <2>1, <2>2, <2>3, <1>1, <1>2
<1>12. h = IF K = <<>> THEN NULL ELSE K[1]
  <2>1. 1 \in 1..k /\ N - 1 # 0
    BY <1>1, <1>2
  <2>2. K # <<>> /\ K[1] = L[1]
    BY <2>1, <1>5, <1>6
  <2> QED
    BY <2>2, <1>1
<1>13. IsWalk(Nexts(n), h, NULL, K)
  BY <1>5, <1>10, <1>11, <1>12, WalkMade
<1>14. /\ m[L[1]].s_semAdd = 0
       /\ m[L[N]].s_semAdd = MAXINT
       /\ \A i, j \in 1..N : i < j => m[L[i]].s_semAdd < m[L[j]].s_semAdd
  BY DEF IsList, N
<1>15. n[K[1]].s_semAdd = 0 /\ n[K[Len(K)]].s_semAdd = MAXINT
  <2>1. 1 \in 1..k /\ N - 1 \in (k + 1)..(N - 1) /\ (N - 1) + 1 = N
    BY <1>1, <1>2
  <2>2. K[1] = L[1] /\ K[N - 1] = L[N]
    BY <2>1, <1>6
  <2> QED
    BY <2>1, <2>2, <1>5, <1>7, <1>9, <1>14
<1>16. \A i, j \in 1..Len(K) : i < j => n[K[i]].s_semAdd < n[K[j]].s_semAdd
  <2> DEFINE key(x) == m[L[x]].s_semAdd
             new(x) == n[K[x]].s_semAdd
  <2>1. \A x \in 1..k : new(x) = key(x)
    BY <1>6, <1>7, <1>9
  <2>2. \A x \in (k + 1)..(N - 1) : new(x) = key(x + 1)
    BY <1>6, <1>7, <1>9
  <2>3. \A x, y \in 1..N : x < y => key(x) < key(y)
    BY <1>14
  <2> HIDE DEF key, new
  <2>4. ASSUME NEW i \in 1..(N - 1), NEW j \in 1..(N - 1), i < j PROVE new(i) < new(j)
    <3>1. CASE i \in 1..k /\ j \in 1..k
      BY <2>4, <3>1, <2>1, <2>3, <1>7
    <3>2. CASE i \in 1..k /\ j \in (k + 1)..(N - 1)
      <4>1. i < j + 1
        BY <2>4
      <4> QED
        BY <4>1, <3>2, <2>1, <2>2, <2>3, <1>7
    <3>3. CASE i \in (k + 1)..(N - 1) /\ j \in (k + 1)..(N - 1)
      <4>1. i + 1 < j + 1
        BY <2>4
      <4> QED
        BY <4>1, <3>3, <2>2, <2>3, <1>7
    <3> QED
      BY <2>4, <3>1, <3>2, <3>3, <1>1, <1>2
  <2> QED
    BY <2>4, <1>5 DEF new
<1>17. IsList(n, h, K)
  <2>1. Len(K) >= 2
    BY <1>1, <1>2, <1>5
  <2> QED
    BY <2>1, <1>13, <1>15, <1>16 DEF IsList
<1>18. ToSet(K) = ToSet(L) \ {d}
  <2>1. /\ \A x \in ToSet(K) : \E i \in 1..(N - 1) : K[i] = x
        /\ \A i \in 1..(N - 1) : K[i] \in ToSet(K)
    BY <1>5, MemberPosition
  <2>2. ASSUME NEW x \in ToSet(K) PROVE x \in ToSet(L) \ {d}
    <3>1. PICK i \in 1..(N - 1) : K[i] = x
      BY <2>1
    <3>2. CASE i \in 1..k
      BY <3>1, <3>2, <1>6, <1>7, <1>8
    <3>3. CASE i \in (k + 1)..(N - 1)
      BY <3>1, <3>3, <1>6, <1>7, <1>8
    <3> QED
      BY <3>2, <3>3, <1>7
  <2>3. ASSUME NEW x \in ToSet(L) \ {d} PROVE x \in ToSet(K)
    <3>1. PICK i \in 1..N : L[i] = x
      BY <1>1
    <3>2. i # k + 1
      BY <3>1 DEF d
    <3>3. CASE i <= k
      <4>1. i \in 1..k /\ i \in 1..(N - 1)
        BY <3>3, <1>1, <1>2
      <4> QED
        BY <4>1, <3>1, <2>1, <1>6
    <3>4. CASE i > k
      <4>1. i - 1 \in (k + 1)..(N - 1) /\ i - 1 \in 1..(N - 1) /\ (i - 1) + 1 = i
        BY <3>2, <3>4, <1>1, <1>2
      <4>2. K[i - 1] = L[i]
        BY <4>1, <1>6
      <4> QED
        BY <4>1, <4>2, <3>1, <2>1
    <3> QED
      BY <3>3, <3>4, <1>1, <1>2
  <2> QED
    BY <2>2, <2>3
<1> QED
  BY <1>17, <1>18 DEF d

(* allocateSemd: the top of the stack leaves it.                           *)
LEMMA FreePopped ==
  ASSUME NEW m, NEW f, NEW F, IsWalk(Nexts(m), f, NULL, F), f # NULL
  PROVE  /\ f \in ToSet(F)
         /\ f \in Semds
         /\ IsWalk(Nexts(m), m[f].s_next, NULL, Tail(F))
         /\ ToSet(Tail(F)) = ToSet(F) \ {f}
<1>1. /\ F \in Seq(Semds) /\ Len(F) \in Nat /\ IsInjective(F)
      /\ F # <<>> /\ f = F[1] /\ Len(F) >= 1
      /\ \A i \in 1..Len(F) : m[F[i]].s_next = IF i = Len(F) THEN NULL ELSE F[i + 1]
      /\ \A i \in 1..Len(F) : F[i] \in Semds /\ F[i] \in ToSet(F)
  BY WalkMeets
<1>0. PICK t : t = Tail(F)
  OBVIOUS
<1>2. /\ Head(F) = F[1]
      /\ t \in Seq(Semds)
      /\ IsInjective(t)
      /\ ToSet(t) = ToSet(F) \ {f}
  BY <1>0, <1>1, RemoveHead
<1>3. /\ Len(t) = Len(F) - 1
      /\ \A i \in 1..Len(t) : t[i] = F[i + 1]
  BY <1>0, <1>1, HeadTailProperties
<1>4. \A i, j \in 1..Len(t) : t[i] = t[j] => i = j
  BY <1>2, InjectivePositions
<1>5. ASSUME NEW i \in 1..Len(t)
      PROVE  m[t[i]].s_next = IF i = Len(t) THEN NULL ELSE t[i + 1]
  <2>1. /\ i + 1 \in 1..Len(F)
        /\ i = Len(t) <=> i + 1 = Len(F)
        /\ i # Len(t) => i + 1 \in 1..Len(t)
    BY <1>1, <1>3
  <2>2. m[F[i + 1]].s_next = IF i + 1 = Len(F) THEN NULL ELSE F[(i + 1) + 1]
    BY <2>1, <1>1
  <2> QED
    BY <2>1, <2>2, <1>3
<1>6. m[f].s_next = IF t = <<>> THEN NULL ELSE t[1]
  <2>1. 1 \in 1..Len(F)
    BY <1>1
  <2>2. CASE Len(F) = 1
    <3>1. t = <<>>
      BY <2>2, <1>2, <1>3, EmptySeq
    <3> QED
      BY <2>1, <2>2, <3>1, <1>1
  <2>3. CASE Len(F) # 1
    <3>1. 1 \in 1..Len(t) /\ t # <<>>
      BY <2>3, <1>1, <1>2, <1>3, EmptySeq
    <3> QED
      BY <2>1, <2>3, <3>1, <1>1, <1>3
  <2> QED
    BY <2>2, <2>3
<1>7. IsWalk(Nexts(m), m[f].s_next, NULL, t)
  BY <1>2, <1>4, <1>5, <1>6, WalkMade
<1> QED
  BY <1>0, <1>1, <1>2, <1>7

(* freeSemd: a descriptor is pushed on the stack.                          *)
LEMMA FreePushed ==
  ASSUME NEW m, NEW f, NEW F, IsWalk(Nexts(m), f, NULL, F),
         NEW d \in Semds, d \notin ToSet(F), m[d].s_next = f
  PROVE  \E G : IsWalk(Nexts(m), d, NULL, G) /\ ToSet(G) = ToSet(F) \cup {d}
<1> DEFINE G == <<d>> \o F
<1>1. /\ F \in Seq(Semds) /\ Len(F) \in Nat /\ IsInjective(F)
      /\ f = IF F = <<>> THEN NULL ELSE F[1]
      /\ F # <<>> => Len(F) >= 1
      /\ \A i \in 1..Len(F) : m[F[i]].s_next = IF i = Len(F) THEN NULL ELSE F[i + 1]
  BY WalkMeets
<1>2. G \in Seq(Semds) /\ IsInjective(G) /\ ToSet(G) = ToSet(F) \cup {d}
  BY <1>1, InsertHead
<1>3. /\ Len(G) = Len(F) + 1
      /\ G[1] = d
      /\ \A i \in 2..(Len(F) + 1) : G[i] = F[i - 1]
  <2>1. <<d>> \in Seq(Semds) /\ Len(<<d>>) = 1 /\ <<d>>[1] = d
    OBVIOUS
  <2>2. PICK o : o = <<d>>
    OBVIOUS
  <2>3. /\ Len(o \o F) = Len(o) + Len(F)
        /\ \A i \in 1..Len(o) + Len(F) :
             (o \o F)[i] = IF i <= Len(o) THEN o[i] ELSE F[i - Len(o)]
    BY <1>1, <2>1, <2>2, ConcatProperties
  <2> QED
    BY <2>1, <2>2, <2>3, <1>1
<1> HIDE DEF G
<1>4. \A i, j \in 1..Len(G) : G[i] = G[j] => i = j
  BY <1>2, InjectivePositions
<1>5. ASSUME NEW i \in 1..Len(G)
      PROVE  m[G[i]].s_next = IF i = Len(G) THEN NULL ELSE G[i + 1]
  <2>1. CASE i = 1
    <3>1. CASE F = <<>>
      BY <2>1, <3>1, <1>1, <1>3
    <3>2. CASE F # <<>>
      <4>1. Len(F) >= 1 /\ 2 \in 2..(Len(F) + 1) /\ 1 # Len(F) + 1
        BY <3>2, <1>1
      <4> QED
        BY <2>1, <3>2, <4>1, <1>1, <1>3
    <3> QED
      BY <3>1, <3>2
  <2>2. CASE i # 1
    <3>1. /\ i \in 2..(Len(F) + 1) /\ i - 1 \in 1..Len(F)
          /\ i = Len(G) <=> i - 1 = Len(F)
          /\ i # Len(G) => i + 1 \in 2..(Len(F) + 1)
          /\ (i - 1) + 1 = i /\ (i + 1) - 1 = i
      BY <2>2, <1>1, <1>3
    <3>2. m[F[i - 1]].s_next = IF i - 1 = Len(F) THEN NULL ELSE F[(i - 1) + 1]
      BY <3>1, <1>1
    <3> QED
      BY <3>1, <3>2, <1>3
  <2> QED
    BY <2>1, <2>2
<1>6. d = IF G = <<>> THEN NULL ELSE G[1]
  <2>1. G # <<>>
    BY <1>1, <1>3
  <2> QED
    BY <2>1, <1>3
<1>7. IsWalk(Nexts(m), d, NULL, G)
  BY <1>2, <1>4, <1>5, <1>6, WalkMade
<1> QED
  BY <1>2, <1>7

-----------------------------------------------------------------------------
(* The queue of each semaphore, as the nucleus sees it.                    *)
Waiting == [s \in Sems |-> IF Active(s) THEN ProcQ(s) ELSE <<>>]

(* Q are the queues in the descriptors of L.                               *)
Holds(m, L, Q) ==
  /\ Q \in [Sems -> Seq(Pcbs)]
  /\ \A s \in Sems :
       /\ \A d \in ToSet(L) : m[d].s_semAdd = s => Q[s] = m[d].s_procQ
       /\ (\A d \in ToSet(L) : m[d].s_semAdd # s) => Q[s] = <<>>

(* A list of descriptors determines the queues.                            *)
LEMMA OneHolds ==
  ASSUME NEW m, NEW L, NEW Q, NEW R, Holds(m, L, Q), Holds(m, L, R)
  PROVE  Q = R
<1>1. ASSUME NEW s \in Sems PROVE Q[s] = R[s]
  BY DEF Holds
<1> QED
  BY <1>1 DEF Holds

(* The descriptors of the list, and the addresses in them.                 *)
LEMMA ListMeets ==
  ASSUME NEW m \in [Semds -> Descriptors], NEW h, NEW L, IsList(m, h, L)
  PROVE  /\ ToSet(L) \subseteq Semds
         /\ \A d \in ToSet(L) : m[d].s_semAdd \in Nat
         /\ \A d, e \in ToSet(L) : m[d].s_semAdd = m[e].s_semAdd => d = e
         /\ \A k \in 1..(Len(L) - 1), d \in ToSet(L) :
              \/ d = L[k]
              \/ d = L[k + 1]
              \/ m[d].s_semAdd < m[L[k]].s_semAdd
              \/ m[L[k + 1]].s_semAdd < m[d].s_semAdd
<1>1. /\ Len(L) \in Nat
      /\ ToSet(L) \subseteq Semds
      /\ \A i \in 1..Len(L) : L[i] \in Semds
      /\ \A d \in ToSet(L) : \E i \in 1..Len(L) : L[i] = d
  BY WalkMeets DEF IsList
<1>2. \A d \in Semds : m[d].s_semAdd \in Nat
  BY Addresses DEF Descriptors
<1>3. \A i, j \in 1..Len(L) : i < j => m[L[i]].s_semAdd < m[L[j]].s_semAdd
  BY DEF IsList
<1>4. ASSUME NEW d \in ToSet(L), NEW e \in ToSet(L), m[d].s_semAdd = m[e].s_semAdd
      PROVE  d = e
  <2>1. PICK i \in 1..Len(L), j \in 1..Len(L) : L[i] = d /\ L[j] = e
    BY <1>1
  <2>2. ~(i < j) /\ ~(j < i)
    BY <2>1, <1>1, <1>2, <1>3, <1>4
  <2>3. i = j
    BY <2>2, <1>1
  <2> QED
    BY <2>1, <2>3
<1>5. ASSUME NEW k \in 1..(Len(L) - 1), NEW d \in ToSet(L), d # L[k], d # L[k + 1]
      PROVE  m[d].s_semAdd < m[L[k]].s_semAdd \/ m[L[k + 1]].s_semAdd < m[d].s_semAdd
  <2>1. PICK i \in 1..Len(L) : L[i] = d
    BY <1>1
  <2>2. k \in 1..Len(L) /\ k + 1 \in 1..Len(L) /\ (i < k \/ k + 1 < i)
    BY <2>1, <1>1, <1>5
  <2> QED
    BY <2>1, <2>2, <1>3
<1> QED
  BY <1>1, <1>2, <1>4, <1>5

(* What the invariant says of the semaphore s: searchSemd finds its        *)
(* descriptor, or the place for one.                                       *)
LEMMA Search ==
  ASSUME AslInv, NEW s \in Sems
  PROVE  \E k \in 1..(Len(List) - 1) :
           /\ SearchSemd(s) = List[k]
           /\ Following(s) = List[k + 1]
           /\ semd[List[k]].s_semAdd < s
           /\ List[k] \in ToSet(List)
           /\ List[k + 1] \in ToSet(List)
           /\ Active(s) <=> semd[List[k + 1]].s_semAdd = s
           /\ Active(s) => k + 1 # Len(List)
           /\ ~Active(s) => /\ s < semd[List[k + 1]].s_semAdd
                            /\ \A d \in ToSet(List) : semd[d].s_semAdd # s
<1>1. IsList(semd, semd_h, List) /\ semd \in [Semds -> Descriptors]
  BY DEF AslInv, IsAsl
<1>2. PICK k \in 1..(Len(List) - 1) :
        /\ SearchSemd(s) = List[k]
        /\ Following(s) = List[k + 1]
        /\ semd[List[k]].s_semAdd < s
        /\ s <= semd[List[k + 1]].s_semAdd
  BY <1>1, SearchStops
<1>3. Len(List) \in Nat /\ \A i \in 1..Len(List) : List[i] \in ToSet(List)
  BY <1>1, WalkMeets DEF IsList
<1>4. List[k] \in ToSet(List) /\ List[k + 1] \in ToSet(List)
  BY <1>3
<1>5. Active(s) <=> semd[List[k + 1]].s_semAdd = s
  BY <1>2 DEF Active
<1>6. s \in Nat /\ s < MAXINT /\ MAXINT \in Nat
  BY Addresses
<1>7. Active(s) => k + 1 # Len(List)
  BY <1>1, <1>5, <1>6 DEF IsList
<1>8. /\ \A d \in ToSet(List) : semd[d].s_semAdd \in Nat
      /\ \A d \in ToSet(List) :
           \/ d = List[k]
           \/ d = List[k + 1]
           \/ semd[d].s_semAdd < semd[List[k]].s_semAdd
           \/ semd[List[k + 1]].s_semAdd < semd[d].s_semAdd
  BY <1>1, ListMeets
<1>9. ASSUME ~Active(s)
      PROVE  /\ s < semd[List[k + 1]].s_semAdd
             /\ \A d \in ToSet(List) : semd[d].s_semAdd # s
  <2>1. s < semd[List[k + 1]].s_semAdd
    BY <1>2, <1>4, <1>5, <1>6, <1>8, <1>9
  <2>2. ASSUME NEW d \in ToSet(List) PROVE semd[d].s_semAdd # s
    BY <2>1, <1>2, <1>4, <1>6, <1>8
  <2> QED
    BY <2>1, <2>2
<1> QED
  BY <1>2, <1>4, <1>5, <1>7, <1>9

(* A descriptor in use, and the queue of its semaphore.                    *)
LEMMA Found ==
  ASSUME AslInv, NEW s \in Sems, NEW d \in ToSet(List), semd[d].s_semAdd = s
  PROVE  /\ Active(s)
         /\ Following(s) = d
         /\ ProcQ(s) = semd[d].s_procQ
         /\ d \in Semds
         /\ semd[d].s_procQ \in Seq(Pcbs)
         /\ semd[d].s_procQ # <<>>
         /\ IsInjective(semd[d].s_procQ)
         /\ \A p \in ToSet(semd[d].s_procQ) : p_semAdd[p] = s
<1>1. /\ IsList(semd, semd_h, List)
      /\ semd \in [Semds -> Descriptors]
      /\ InUse(semd, p_semAdd, List)
  BY DEF AslInv, IsAsl
<1>2. PICK k \in 1..(Len(List) - 1) :
        /\ Following(s) = List[k + 1]
        /\ List[k + 1] \in ToSet(List)
        /\ Active(s) <=> semd[List[k + 1]].s_semAdd = s
        /\ ~Active(s) => \A e \in ToSet(List) : semd[e].s_semAdd # s
  BY Search
<1>3. /\ ToSet(List) \subseteq Semds
      /\ \A e, g \in ToSet(List) : semd[e].s_semAdd = semd[g].s_semAdd => e = g
  BY <1>1, ListMeets
<1>4. Active(s) /\ Following(s) = d
  BY <1>2, <1>3
<1>5. ProcQ(s) = semd[d].s_procQ
  BY <1>4 DEF ProcQ
<1>6. d \in Semds /\ semd[d].s_procQ \in Seq(Pcbs)
  BY <1>1, <1>3 DEF Descriptors
<1>7. s # 0 /\ s # MAXINT
  BY Addresses
<1> QED
  BY <1>1, <1>4, <1>5, <1>6, <1>7 DEF InUse

WaitingHere == Holds(semd, List, Waiting)

(* The queues found by searching are those of the descriptors.             *)
LEMMA WaitingHolds == AslInv => WaitingHere
<1> SUFFICES ASSUME AslInv PROVE Holds(semd, List, Waiting)
  BY DEF WaitingHere
<1>1. ASSUME NEW s \in Sems
      PROVE  /\ Waiting[s] \in Seq(Pcbs)
             /\ \A d \in ToSet(List) : semd[d].s_semAdd = s => Waiting[s] = semd[d].s_procQ
             /\ (\A d \in ToSet(List) : semd[d].s_semAdd # s) => Waiting[s] = <<>>
  <2>1. PICK k \in 1..(Len(List) - 1) :
          /\ List[k + 1] \in ToSet(List)
          /\ Active(s) <=> semd[List[k + 1]].s_semAdd = s
          /\ ~Active(s) => \A e \in ToSet(List) : semd[e].s_semAdd # s
    BY Search
  <2>2. CASE Active(s)
    <3>1. Waiting[s] = ProcQ(s)
      BY <2>2 DEF Waiting
    <3>2. \A d \in ToSet(List) :
            semd[d].s_semAdd = s => ProcQ(s) = semd[d].s_procQ /\ semd[d].s_procQ \in Seq(Pcbs)
      BY Found
    <3> QED
      BY <2>1, <2>2, <3>1, <3>2
  <2>3. CASE ~Active(s)
    <3>1. Waiting[s] = <<>>
      BY <2>3 DEF Waiting
    <3>2. <<>> \in Seq(Pcbs)
      BY EmptySeq
    <3> QED
      BY <2>1, <2>3, <3>1, <3>2
  <2> QED
    BY <2>2, <2>3
<1>2. Waiting \in [Sems -> Seq(Pcbs)]
  <2>1. Waiting = [s \in Sems |-> Waiting[s]]
    BY DEF Waiting
  <2> HIDE DEF Waiting
  <2> QED
    BY <2>1, <1>1
<1> QED
  BY <1>1, <1>2 DEF Holds

(* What has to be shown of a step: that the new table is a list and a      *)
(* stack, and which queues it holds.                                       *)
LEMMA InvNext ==
  ASSUME NEW L, NEW F, NEW Q,
         IsAsl(semd', semd_h', semdFree_h', p_semAdd', L, F),
         Holds(semd', L, Q)
  PROVE  AslInv' /\ List' = L /\ Free' = F /\ Waiting' = Q
<1>1. IsFiniteSet(DOMAIN Nexts(semd'))
  BY Addresses DEF Nexts
<1>2. /\ Walk(Nexts(semd'), semd_h', NULL) = L
      /\ Walk(Nexts(semd'), semdFree_h', NULL) = F
  BY <1>1, WalkIs DEF IsAsl, IsList
<1>3. List' = L /\ Free' = F
  BY <1>2 DEF List, Free, Chain, Nexts
<1>4. AslInv'
  BY <1>3 DEF AslInv
<1>5. AslInv' => WaitingHere'
  BY WaitingHolds, PTL
<1>6. Waiting' = Q
  BY <1>3, <1>4, <1>5, OneHolds DEF WaitingHere
<1> QED
  BY <1>3, <1>4, <1>6

-----------------------------------------------------------------------------
(* The assignments of insertBlocked and outBlocked to the descriptors.     *)
QueueSet(m, d, v) == [m EXCEPT ![d].s_procQ = v]
NextSet(m, d, v) == [m EXCEPT ![d].s_next = v]
Set(m, d, r) == [m EXCEPT ![d] = r]

(* s_procQ is set, and nothing else.                                       *)
LEMMA QueueSetFields ==
  ASSUME NEW m \in [Semds -> Descriptors], NEW d \in Semds, NEW v \in Seq(Pcbs)
  PROVE  /\ QueueSet(m, d, v) \in [Semds -> Descriptors]
         /\ \A x \in Semds :
              /\ QueueSet(m, d, v)[x].s_next = m[x].s_next
              /\ QueueSet(m, d, v)[x].s_semAdd = m[x].s_semAdd
              /\ QueueSet(m, d, v)[x].s_procQ = IF x = d THEN v ELSE m[x].s_procQ
<1> DEFINE r == [m[d] EXCEPT !.s_procQ = v]
           n == QueueSet(m, d, v)
<1>1. /\ r \in Descriptors
      /\ r.s_next = m[d].s_next
      /\ r.s_semAdd = m[d].s_semAdd
      /\ r.s_procQ = v
  <2>1. m[d] \in Descriptors
    OBVIOUS
  <2> QED
    BY <2>1 DEF Descriptors
<1>2. /\ n \in [Semds -> Descriptors]
      /\ \A x \in Semds : n[x] = IF x = d THEN r ELSE m[x]
  BY <1>1 DEF QueueSet
<1> HIDE DEF r, n
<1> QED
  BY <1>1, <1>2 DEF n

(* s_next is set, and nothing else.                                        *)
LEMMA NextSetFields ==
  ASSUME NEW m \in [Semds -> Descriptors], NEW d \in Semds, NEW v \in Semds \cup {NULL}
  PROVE  /\ NextSet(m, d, v) \in [Semds -> Descriptors]
         /\ \A x \in Semds :
              /\ NextSet(m, d, v)[x].s_next = IF x = d THEN v ELSE m[x].s_next
              /\ NextSet(m, d, v)[x].s_semAdd = m[x].s_semAdd
              /\ NextSet(m, d, v)[x].s_procQ = m[x].s_procQ
<1> DEFINE r == [m[d] EXCEPT !.s_next = v]
           n == NextSet(m, d, v)
<1>1. /\ r \in Descriptors
      /\ r.s_next = v
      /\ r.s_semAdd = m[d].s_semAdd
      /\ r.s_procQ = m[d].s_procQ
  <2>1. m[d] \in Descriptors
    OBVIOUS
  <2> QED
    BY <2>1 DEF Descriptors
<1>2. /\ n \in [Semds -> Descriptors]
      /\ \A x \in Semds : n[x] = IF x = d THEN r ELSE m[x]
  BY <1>1 DEF NextSet
<1> HIDE DEF r, n
<1> QED
  BY <1>1, <1>2 DEF n

(* The fields of every descriptor after one has been filled.               *)
LEMMA SetFields ==
  ASSUME NEW m \in [Semds -> Descriptors], NEW d \in Semds,
         NEW b \in Semds \cup {NULL}, NEW s \in 0..MAXINT, NEW q \in Seq(Pcbs)
  PROVE  LET n == Set(m, d, [s_next |-> b, s_semAdd |-> s, s_procQ |-> q]) IN
         /\ n \in [Semds -> Descriptors]
         /\ \A x \in Semds :
              /\ n[x].s_next = IF x = d THEN b ELSE m[x].s_next
              /\ n[x].s_semAdd = IF x = d THEN s ELSE m[x].s_semAdd
              /\ n[x].s_procQ = IF x = d THEN q ELSE m[x].s_procQ
<1> DEFINE r == [s_next |-> b, s_semAdd |-> s, s_procQ |-> q]
           n == Set(m, d, r)
<1>1. /\ r \in Descriptors
      /\ r.s_next = b /\ r.s_semAdd = s /\ r.s_procQ = q
  BY DEF Descriptors
<1>2. /\ n \in [Semds -> Descriptors]
      /\ \A x \in Semds : n[x] = IF x = d THEN r ELSE m[x]
  BY <1>1 DEF Set
<1> HIDE DEF r, n
<1>3. \A x \in Semds :
        /\ n[x].s_next = IF x = d THEN b ELSE m[x].s_next
        /\ n[x].s_semAdd = IF x = d THEN s ELSE m[x].s_semAdd
        /\ n[x].s_procQ = IF x = d THEN q ELSE m[x].s_procQ
  BY <1>1, <1>2
<1> QED
  BY <1>2, <1>3 DEF n, r

(* When p comes to the semaphore s or leaves it, only the descriptor of s  *)
(* has to be looked at.                                                    *)
TouchedFor(s, m, L, n, K, u) ==
  \A d \in ToSet(K) :
    \/ /\ n[d].s_semAdd = s
       /\ n[d].s_procQ # <<>>
       /\ IsInjective(n[d].s_procQ)
       /\ \A x \in ToSet(n[d].s_procQ) : x \in Pcbs /\ u[x] = s
    \/ /\ d \in ToSet(L)
       /\ m[d].s_semAdd # s
       /\ n[d].s_semAdd = m[d].s_semAdd
       /\ n[d].s_procQ = m[d].s_procQ

MovesAt(s, w, u) ==
  \E p \in Pcbs : w[p] \in {s, NULL} /\ \A x \in Pcbs : x # p => u[x] = w[x]

(* An operation on one semaphore keeps the descriptors in use.             *)
LEMMA InUseKept ==
  ASSUME NEW m, NEW n, NEW w \in [Pcbs -> Sems \cup {NULL}], NEW L, NEW K,
         NEW s \in Sems, NEW u, InUse(m, w, L), MovesAt(s, w, u), TouchedFor(s, m, L, n, K, u),
         m \in [Semds -> Descriptors], ToSet(L) \subseteq Semds
  PROVE  InUse(n, u, K)
<1>1. PICK p \in Pcbs : w[p] \in {s, NULL} /\ \A x \in Pcbs : x # p => u[x] = w[x]
  BY DEF MovesAt
<1>2. ASSUME NEW d \in ToSet(K)
      PROVE  \/ n[d].s_semAdd \in {0, MAXINT}
             \/ /\ n[d].s_semAdd \in Sems
                /\ n[d].s_procQ # <<>>
                /\ IsInjective(n[d].s_procQ)
                /\ \A x \in ToSet(n[d].s_procQ) : u[x] = n[d].s_semAdd
  <2>1. CASE d \in ToSet(L) /\ m[d].s_semAdd # s
             /\ n[d].s_semAdd = m[d].s_semAdd /\ n[d].s_procQ = m[d].s_procQ
    <3>1. CASE m[d].s_semAdd \in {0, MAXINT}
      BY <2>1, <3>1
    <3>2. CASE m[d].s_semAdd \notin {0, MAXINT}
      <4>1. /\ m[d].s_semAdd \in Sems
            /\ m[d].s_procQ # <<>>
            /\ IsInjective(m[d].s_procQ)
            /\ \A x \in ToSet(m[d].s_procQ) : w[x] = m[d].s_semAdd
        BY <2>1, <3>2 DEF InUse
      <4>2. ToSet(m[d].s_procQ) \subseteq Pcbs
        <5>1. m[d].s_procQ \in Seq(Pcbs)
          BY <2>1 DEF Descriptors
        <5> QED
          BY <5>1, MemberPosition
      <4>3. w[p] # m[d].s_semAdd
        BY <1>1, <2>1, <3>2, Addresses
      <4>4. \A x \in ToSet(m[d].s_procQ) : u[x] = m[d].s_semAdd
        BY <1>1, <4>1, <4>2, <4>3
      <4> QED
        BY <2>1, <4>1, <4>4
    <3> QED
      BY <3>1, <3>2
  <2>2. CASE /\ n[d].s_semAdd = s
             /\ n[d].s_procQ # <<>>
             /\ IsInjective(n[d].s_procQ)
             /\ \A x \in ToSet(n[d].s_procQ) : x \in Pcbs /\ u[x] = s
    BY <2>2
  <2> QED
    BY <2>1, <2>2 DEF TouchedFor
<1>3. InUse(n, u, K)
  BY <1>2 DEF InUse
<1> QED
  BY <1>3

(* insertBlocked on a semaphore in use, and outBlocked on one that stays   *)
(* in use: the queue of its descriptor changes.                            *)
LEMMA QueueStep ==
  ASSUME AslInv, NEW s \in Sems, NEW d \in ToSet(List), semd[d].s_semAdd = s,
         NEW q \in Seq(Pcbs), q # <<>>, IsInjective(q),
         NEW p \in Pcbs, p_semAdd[p] \in {s, NULL}, NEW v \in {s, NULL},
         \A x \in ToSet(q) : p_semAdd'[x] = s,
         semd' = QueueSet(semd, d, q),
         p_semAdd' = [p_semAdd EXCEPT ![p] = v],
         UNCHANGED <<semd_h, semdFree_h>>
  PROVE  AslInv' /\ Waiting' = [Waiting EXCEPT ![s] = q]
<1>1. /\ semd \in [Semds -> Descriptors]
      /\ p_semAdd \in [Pcbs -> Sems \cup {NULL}]
      /\ IsList(semd, semd_h, List)
      /\ IsWalk(Nexts(semd), semdFree_h, NULL, Free)
      /\ ToSet(List) \cap ToSet(Free) = {}
      /\ ToSet(List) \cup ToSet(Free) = Semds
      /\ InUse(semd, p_semAdd, List)
  BY DEF AslInv, IsAsl
<1>2. PICK n : n = QueueSet(semd, d, q)
  OBVIOUS
<1>3. /\ n \in [Semds -> Descriptors]
      /\ \A x \in Semds : /\ n[x].s_next = semd[x].s_next
                          /\ n[x].s_semAdd = semd[x].s_semAdd
                          /\ n[x].s_procQ = IF x = d THEN q ELSE semd[x].s_procQ
  BY <1>1, <1>2, QueueSetFields
<1>4. /\ ToSet(List) \subseteq Semds /\ ToSet(Free) \subseteq Semds
      /\ \A e, g \in ToSet(List) : semd[e].s_semAdd = semd[g].s_semAdd => e = g
  BY <1>1, ListMeets
<1>5. IsList(n, semd_h, List)
  BY <1>1, <1>3, <1>4, ListKept
<1>6. IsWalk(Nexts(n), semdFree_h, NULL, Free)
  BY <1>1, <1>3, <1>4, WalkKept
<1>7. InUse(n, p_semAdd', List) /\ p_semAdd' \in [Pcbs -> Sems \cup {NULL}]
  <2> PICK u : u = p_semAdd'
    OBVIOUS
  <2>2. \A x \in ToSet(q) : x \in Pcbs
    BY MemberPosition
  <2>3. ASSUME NEW e \in ToSet(List)
        PROVE  \/ /\ n[e].s_semAdd = s
                  /\ n[e].s_procQ # <<>>
                  /\ IsInjective(n[e].s_procQ)
                  /\ \A x \in ToSet(n[e].s_procQ) :
                       x \in Pcbs /\ u[x] = s
               \/ /\ e \in ToSet(List)
                  /\ semd[e].s_semAdd # s
                  /\ n[e].s_semAdd = semd[e].s_semAdd
                  /\ n[e].s_procQ = semd[e].s_procQ
    <3>1. CASE e = d
      <4>1. n[e].s_procQ = q /\ n[e].s_semAdd = s
        BY <3>1, <1>3, <1>4
      <4> QED
        BY <4>1, <2>2
    <3>2. CASE e # d
      BY <3>2, <1>3, <1>4
    <3> QED
      BY <3>1, <3>2
  <2>4. TouchedFor(s, semd, List, n, List, u)
    BY <2>3 DEF TouchedFor
  <2>5. u \in [Pcbs -> Sems \cup {NULL}] /\ \A x \in Pcbs : x # p => u[x] = p_semAdd[x]
    BY <1>1
  <2>6. InUse(n, u, List)
    <3>1. MovesAt(s, p_semAdd, u)
      BY <2>5 DEF MovesAt
    <3> QED
      BY <1>1, <1>4, <2>4, <3>1, InUseKept
  <2> QED
    BY <2>5, <2>6
<1>8. IsAsl(semd', semd_h', semdFree_h', p_semAdd', List, Free)
  BY <1>1, <1>2, <1>3, <1>5, <1>6, <1>7 DEF IsAsl
<1>9. Holds(n, List, [Waiting EXCEPT ![s] = q])
  <2>1. Holds(semd, List, Waiting)
    BY WaitingHolds DEF WaitingHere
  <2> DEFINE R == [Waiting EXCEPT ![s] = q]
  <2>2. /\ R \in [Sems -> Seq(Pcbs)]
        /\ \A t \in Sems : R[t] = IF t = s THEN q ELSE Waiting[t]
    BY <2>1 DEF Holds
  <2> HIDE DEF R
  <2>3. ASSUME NEW t \in Sems
        PROVE  /\ \A e \in ToSet(List) : n[e].s_semAdd = t => R[t] = n[e].s_procQ
               /\ (\A e \in ToSet(List) : n[e].s_semAdd # t) => R[t] = <<>>
    <3>1. CASE t = s
      BY <3>1, <2>2, <1>3, <1>4
    <3>2. CASE t # s
      <4>1. n[d].s_semAdd = s /\ R[t] = Waiting[t]
        BY <3>2, <2>2, <1>3, <1>4
      <4>2. \A e \in ToSet(List) : /\ n[e].s_semAdd = semd[e].s_semAdd
                                   /\ e # d => n[e].s_procQ = semd[e].s_procQ
        BY <1>3, <1>4
      <4>3. /\ \A e \in ToSet(List) : semd[e].s_semAdd = t => Waiting[t] = semd[e].s_procQ
            /\ (\A e \in ToSet(List) : semd[e].s_semAdd # t) => Waiting[t] = <<>>
        BY <2>1 DEF Holds
      <4> QED
        BY <3>2, <4>1, <4>2, <4>3
    <3> QED
      BY <3>1, <3>2
  <2>4. Holds(n, List, R)
    BY <2>2, <2>3 DEF Holds
  <2> QED
    BY <2>4 DEF R
<1> QED
  BY <1>2, <1>8, <1>9, InvNext

(* insertBlocked on a semaphore nobody waits for.                          *)
LEMMA OpenStep ==
  ASSUME AslInv, NEW s \in Sems, ~Active(s), semdFree_h # NULL,
         NEW p \in Pcbs, p_semAdd[p] = NULL,
         semd' = NextSet(Set(semd, semdFree_h,
                             [s_next |-> Following(s), s_semAdd |-> s, s_procQ |-> <<p>>]),
                         SearchSemd(s), semdFree_h),
         semdFree_h' = semd[semdFree_h].s_next,
         p_semAdd' = [p_semAdd EXCEPT ![p] = s],
         UNCHANGED semd_h
  PROVE  AslInv' /\ Waiting' = [Waiting EXCEPT ![s] = <<p>>]
<1>1. /\ semd \in [Semds -> Descriptors]
      /\ p_semAdd \in [Pcbs -> Sems \cup {NULL}]
      /\ IsList(semd, semd_h, List)
      /\ IsWalk(Nexts(semd), semdFree_h, NULL, Free)
      /\ ToSet(List) \cap ToSet(Free) = {}
      /\ ToSet(List) \cup ToSet(Free) = Semds
      /\ InUse(semd, p_semAdd, List)
  BY DEF AslInv, IsAsl
<1>2. PICK new : new = semdFree_h
  OBVIOUS
<1>3. PICK k \in 1..(Len(List) - 1) :
        /\ SearchSemd(s) = List[k]
        /\ Following(s) = List[k + 1]
        /\ semd[List[k]].s_semAdd < s
        /\ List[k] \in ToSet(List)
        /\ List[k + 1] \in ToSet(List)
        /\ s < semd[List[k + 1]].s_semAdd
        /\ \A d \in ToSet(List) : semd[d].s_semAdd # s
  BY Search
<1>4. PICK up, down : up = List[k] /\ down = List[k + 1]
  OBVIOUS
<1>5. PICK q : q = <<p>>
  OBVIOUS
<1>6. q \in Seq(Pcbs) /\ q # <<>> /\ IsInjective(q) /\ ToSet(q) = {p}
  <2>1. <<>> \in Seq(Pcbs) /\ ToSet(<<>>) = {} /\ IsInjective(<<>>)
    BY EmptySeq, EmptyQueue
  <2>2. q = Append(<<>>, p)
    BY <1>5
  <2>3. PICK e : e = <<>>
    OBVIOUS
  <2>4. /\ e \in Seq(Pcbs) /\ ToSet(e) = {} /\ IsInjective(e)
        /\ q = Append(e, p)
    BY <2>1, <2>2, <2>3
  <2> QED
    BY <2>4, InsertTail
<1>7. /\ new \in ToSet(Free)
      /\ new \in Semds
      /\ IsWalk(Nexts(semd), semd[new].s_next, NULL, Tail(Free))
      /\ ToSet(Tail(Free)) = ToSet(Free) \ {new}
  BY <1>1, <1>2, FreePopped
<1>8. /\ new \notin ToSet(List) /\ up \in ToSet(List) /\ down \in ToSet(List)
      /\ up # new /\ up \in Semds /\ down \in Semds
      /\ s \in 0..MAXINT
  BY <1>1, <1>3, <1>4, <1>7, Addresses
<1>9. PICK a : a = Set(semd, new, [s_next |-> down, s_semAdd |-> s, s_procQ |-> q])
  OBVIOUS
<1>10. PICK n : n = NextSet(a, up, new)
  OBVIOUS
<1>11. semd' = n
  BY <1>2, <1>3, <1>4, <1>5, <1>9, <1>10
<1>12. /\ a \in [Semds -> Descriptors]
       /\ \A x \in Semds :
            /\ a[x].s_next = IF x = new THEN down ELSE semd[x].s_next
            /\ a[x].s_semAdd = IF x = new THEN s ELSE semd[x].s_semAdd
            /\ a[x].s_procQ = IF x = new THEN q ELSE semd[x].s_procQ
  <2>1. down \in Semds \cup {NULL}
    BY <1>8
  <2> QED
    BY <1>1, <1>6, <1>7, <1>8, <1>9, <2>1, SetFields
<1>13. /\ n \in [Semds -> Descriptors]
       /\ \A x \in Semds :
            /\ n[x].s_next = IF x = up THEN new ELSE a[x].s_next
            /\ n[x].s_semAdd = a[x].s_semAdd
            /\ n[x].s_procQ = a[x].s_procQ
  <2>1. new \in Semds \cup {NULL}
    BY <1>7
  <2> QED
    BY <1>8, <1>10, <1>12, <2>1, NextSetFields
<1>14. /\ n[new].s_next = down /\ n[new].s_semAdd = s /\ n[new].s_procQ = q
       /\ \A x \in Semds \ {new} :
            /\ n[x].s_next = IF x = up THEN new ELSE semd[x].s_next
            /\ n[x].s_semAdd = semd[x].s_semAdd
            /\ n[x].s_procQ = semd[x].s_procQ
  BY <1>7, <1>8, <1>12, <1>13
<1>15. ToSet(List) \subseteq Semds \ {new} /\ ToSet(Free) \ {new} \subseteq Semds \ ToSet(List)
  BY <1>1, <1>8
<1>16. PICK K : IsList(n, semd_h, K) /\ ToSet(K) = ToSet(List) \cup {new}
  <2>1. /\ n[new].s_next = List[k + 1]
        /\ semd[List[k]].s_semAdd < n[new].s_semAdd
        /\ n[new].s_semAdd < semd[List[k + 1]].s_semAdd
    BY <1>3, <1>4, <1>14
  <2>2. \A x \in ToSet(List) : /\ n[x].s_next = IF x = List[k] THEN new ELSE semd[x].s_next
                               /\ n[x].s_semAdd = semd[x].s_semAdd
    BY <1>4, <1>14, <1>15
  <2>3. IsList(semd, semd_h, List) /\ semd \in [Semds -> Descriptors]
    BY <1>1
  <2>4. n \in [Semds -> Descriptors] /\ new \in Semds /\ new \notin ToSet(List)
    BY <1>7, <1>8, <1>13
  <2>5. PICK L : L = List
    OBVIOUS
  <2> QED
    <3>1. IsList(semd, semd_h, L) /\ k \in 1..(Len(L) - 1)
      BY <2>3, <2>5
    <3>2. OpensAt(semd, n, L, k, new)
      BY <2>1, <2>2, <2>4, <2>5 DEF OpensAt
    <3>3. \E K : IsList(n, semd_h, K) /\ ToSet(K) = ToSet(L) \cup {new}
      BY <2>3, <2>4, <3>1, <3>2, ListOpened
    <3> QED
      BY <2>5, <3>3
<1>17. IsWalk(Nexts(n), semdFree_h', NULL, Tail(Free))
  <2>1. \A x \in ToSet(Tail(Free)) : n[x].s_next = semd[x].s_next
    BY <1>7, <1>8, <1>14, <1>15
  <2>2. semdFree_h' = semd[new].s_next
    BY <1>2
  <2> QED
    BY <1>7, <2>1, <2>2, WalkKept
<1>18. ToSet(K) \cap ToSet(Tail(Free)) = {} /\ ToSet(K) \cup ToSet(Tail(Free)) = Semds
  BY <1>1, <1>7, <1>16
<1>19. InUse(n, p_semAdd', K) /\ p_semAdd' \in [Pcbs -> Sems \cup {NULL}]
  <2>1. PICK u : u = p_semAdd'
    OBVIOUS
  <2>2. /\ u \in [Pcbs -> Sems \cup {NULL}]
        /\ u[p] = s
        /\ \A x \in Pcbs : x # p => u[x] = p_semAdd[x]
    BY <1>1, <2>1
  <2>3. MovesAt(s, p_semAdd, u)
    BY <2>2 DEF MovesAt
  <2>4. TouchedFor(s, semd, List, n, K, u)
    BY <1>3, <1>6, <1>14, <1>15, <1>16, <2>2 DEF TouchedFor
  <2>5. InUse(n, u, K)
    BY <1>1, <1>15, <2>3, <2>4, InUseKept
  <2> QED
    BY <2>1, <2>2, <2>5
<1>20. IsAsl(semd', semd_h', semdFree_h', p_semAdd', K, Tail(Free))
  BY <1>11, <1>13, <1>16, <1>17, <1>18, <1>19 DEF IsAsl
<1>21. Holds(n, K, [Waiting EXCEPT ![s] = q])
  <2>1. Holds(semd, List, Waiting)
    BY WaitingHolds DEF WaitingHere
  <2> DEFINE R == [Waiting EXCEPT ![s] = q]
  <2>2. /\ R \in [Sems -> Seq(Pcbs)]
        /\ \A t \in Sems : R[t] = IF t = s THEN q ELSE Waiting[t]
    BY <2>1, <1>6 DEF Holds
  <2> HIDE DEF R
  <2>3. ASSUME NEW t \in Sems
        PROVE  /\ \A e \in ToSet(K) : n[e].s_semAdd = t => R[t] = n[e].s_procQ
               /\ (\A e \in ToSet(K) : n[e].s_semAdd # t) => R[t] = <<>>
    <3>1. \A e \in ToSet(List) : n[e].s_semAdd = semd[e].s_semAdd /\ n[e].s_procQ = semd[e].s_procQ
      BY <1>14, <1>15
    <3>2. CASE t = s
      BY <3>1, <3>2, <2>2, <1>3, <1>14, <1>16
    <3>3. CASE t # s
      <4>1. R[t] = Waiting[t]
        BY <3>3, <2>2
      <4>2. /\ \A e \in ToSet(List) : semd[e].s_semAdd = t => Waiting[t] = semd[e].s_procQ
            /\ (\A e \in ToSet(List) : semd[e].s_semAdd # t) => Waiting[t] = <<>>
        BY <2>1 DEF Holds
      <4> QED
        BY <3>1, <3>3, <4>1, <4>2, <1>14, <1>16
    <3> QED
      BY <3>2, <3>3
  <2>4. Holds(n, K, R)
    BY <2>2, <2>3 DEF Holds
  <2> QED
    BY <2>4 DEF R
<1> QED
  BY <1>5, <1>11, <1>20, <1>21, InvNext

(* outBlocked when the process after the head leaves: the descriptor goes  *)
(* back to the stack, whoever is still in its queue.                       *)
LEMMA CloseStep ==
  ASSUME AslInv, NEW s \in Sems, Active(s), NEW p \in Pcbs, p_semAdd[p] = s,
         semd' = Set(NextSet(semd, SearchSemd(s), semd[Following(s)].s_next),
                     Following(s), FreedSemd),
         semdFree_h' = Following(s),
         p_semAdd' = [p_semAdd EXCEPT ![p] = NULL],
         UNCHANGED semd_h
  PROVE  AslInv' /\ Waiting' = [Waiting EXCEPT ![s] = <<>>]
<1>1. /\ semd \in [Semds -> Descriptors]
      /\ p_semAdd \in [Pcbs -> Sems \cup {NULL}]
      /\ IsList(semd, semd_h, List)
      /\ IsWalk(Nexts(semd), semdFree_h, NULL, Free)
      /\ ToSet(List) \cap ToSet(Free) = {}
      /\ ToSet(List) \cup ToSet(Free) = Semds
      /\ InUse(semd, p_semAdd, List)
  BY DEF AslInv, IsAsl
<1>2. PICK k \in 1..(Len(List) - 1) :
        /\ SearchSemd(s) = List[k]
        /\ Following(s) = List[k + 1]
        /\ semd[List[k]].s_semAdd < s
        /\ List[k] \in ToSet(List)
        /\ List[k + 1] \in ToSet(List)
        /\ semd[List[k + 1]].s_semAdd = s
        /\ k + 1 # Len(List)
  BY Search
<1>3. PICK up, d : up = List[k] /\ d = List[k + 1]
  OBVIOUS
<1>4. /\ up \in ToSet(List) /\ d \in ToSet(List) /\ up \in Semds /\ d \in Semds
      /\ d \notin ToSet(Free) /\ up \notin ToSet(Free)
      /\ up # d
      /\ \A e \in ToSet(List) : e # d => semd[e].s_semAdd # s
      /\ ToSet(List) \subseteq Semds /\ ToSet(Free) \subseteq Semds
      /\ s \in Nat
  <2>1. \A e, g \in ToSet(List) : semd[e].s_semAdd = semd[g].s_semAdd => e = g
    BY <1>1, ListMeets
  <2>2. s \in Nat
    BY Addresses
  <2>3. semd[d].s_semAdd = s /\ semd[up].s_semAdd < s
    BY <1>2, <1>3
  <2>4. up # d
    BY <2>2, <2>3
  <2> QED
    BY <1>1, <1>2, <1>3, <2>1, <2>2, <2>3, <2>4
<1>5. semd[d].s_next \in Semds \cup {NULL} /\ semdFree_h \in Semds \cup {NULL}
  <2>1. semd[d].s_next \in Semds \cup {NULL}
    BY <1>1, <1>4 DEF Descriptors
  <2>2. semdFree_h \in Semds \cup {NULL}
    <3>1. /\ semdFree_h = IF Free = <<>> THEN NULL ELSE Free[1]
          /\ Len(Free) \in Nat /\ Free # <<>> => Len(Free) >= 1
          /\ \A i \in 1..Len(Free) : Free[i] \in Semds
      BY <1>1, WalkMeets
    <3> QED
      BY <3>1
  <2> QED
    BY <2>1, <2>2
<1>6. PICK a : a = NextSet(semd, up, semd[d].s_next)
  OBVIOUS
<1>7. PICK n : n = Set(a, d, [s_next |-> semdFree_h, s_semAdd |-> NULL, s_procQ |-> <<>>])
  OBVIOUS
<1>8. semd' = n
  BY <1>2, <1>3, <1>6, <1>7 DEF FreedSemd
<1>9. /\ a \in [Semds -> Descriptors]
      /\ \A x \in Semds :
           /\ a[x].s_next = IF x = up THEN semd[d].s_next ELSE semd[x].s_next
           /\ a[x].s_semAdd = semd[x].s_semAdd
           /\ a[x].s_procQ = semd[x].s_procQ
  BY <1>1, <1>4, <1>5, <1>6, NextSetFields
<1>10. /\ n \in [Semds -> Descriptors]
       /\ \A x \in Semds :
            /\ n[x].s_next = IF x = d THEN semdFree_h ELSE a[x].s_next
            /\ n[x].s_semAdd = IF x = d THEN NULL ELSE a[x].s_semAdd
            /\ n[x].s_procQ = IF x = d THEN <<>> ELSE a[x].s_procQ
  <2>1. PICK z, e : z = NULL /\ e = <<>>
    OBVIOUS
  <2>2. z \in 0..MAXINT /\ e \in Seq(Pcbs)
    BY <2>1, Addresses, EmptySeq
  <2>3. n = Set(a, d, [s_next |-> semdFree_h, s_semAdd |-> z, s_procQ |-> e])
    BY <1>7, <2>1
  <2>4. /\ n \in [Semds -> Descriptors]
        /\ \A x \in Semds :
             /\ n[x].s_next = IF x = d THEN semdFree_h ELSE a[x].s_next
             /\ n[x].s_semAdd = IF x = d THEN z ELSE a[x].s_semAdd
             /\ n[x].s_procQ = IF x = d THEN e ELSE a[x].s_procQ
    BY <1>4, <1>5, <1>9, <2>2, <2>3, SetFields
  <2> QED
    BY <2>1, <2>4
<1>11. /\ n[d].s_next = semdFree_h
       /\ \A x \in Semds \ {d} :
            /\ n[x].s_next = IF x = up THEN semd[d].s_next ELSE semd[x].s_next
            /\ n[x].s_semAdd = semd[x].s_semAdd
            /\ n[x].s_procQ = semd[x].s_procQ
  BY <1>4, <1>9, <1>10
<1>12. PICK K : IsList(n, semd_h, K) /\ ToSet(K) = ToSet(List) \ {d}
  <2>1. \A x \in ToSet(List) \ {List[k + 1]} :
          /\ n[x].s_next = IF x = List[k] THEN semd[List[k + 1]].s_next ELSE semd[x].s_next
          /\ n[x].s_semAdd = semd[x].s_semAdd
    BY <1>3, <1>4, <1>11
  <2> QED
    BY <1>1, <1>2, <1>3, <1>10, <2>1, ListClosed
<1>13. PICK G : IsWalk(Nexts(n), d, NULL, G) /\ ToSet(G) = ToSet(Free) \cup {d}
  <2>1. IsWalk(Nexts(n), semdFree_h, NULL, Free)
    <3>1. \A x \in ToSet(Free) : n[x].s_next = semd[x].s_next
      BY <1>4, <1>11
    <3> QED
      BY <1>1, <3>1, WalkKept
  <2> QED
    BY <1>4, <1>11, <2>1, FreePushed
<1>14. ToSet(K) \cap ToSet(G) = {} /\ ToSet(K) \cup ToSet(G) = Semds
  BY <1>1, <1>4, <1>12, <1>13
<1>15. InUse(n, p_semAdd', K) /\ p_semAdd' \in [Pcbs -> Sems \cup {NULL}]
  <2>1. PICK u : u = p_semAdd'
    OBVIOUS
  <2>2. /\ u \in [Pcbs -> Sems \cup {NULL}]
        /\ \A x \in Pcbs : x # p => u[x] = p_semAdd[x]
    BY <1>1, <2>1
  <2>3. MovesAt(s, p_semAdd, u)
    BY <2>2 DEF MovesAt
  <2>4. TouchedFor(s, semd, List, n, K, u)
    BY <1>4, <1>11, <1>12 DEF TouchedFor
  <2>5. InUse(n, u, K)
    BY <1>1, <1>4, <2>3, <2>4, InUseKept
  <2> QED
    BY <2>1, <2>2, <2>5
<1>16. IsAsl(semd', semd_h', semdFree_h', p_semAdd', K, G)
  <2>1. semdFree_h' = d
    BY <1>2, <1>3
  <2> QED
    BY <2>1, <1>8, <1>10, <1>12, <1>13, <1>14, <1>15 DEF IsAsl
<1>17. Holds(n, K, [Waiting EXCEPT ![s] = <<>>])
  <2>1. Holds(semd, List, Waiting)
    BY WaitingHolds DEF WaitingHere
  <2> DEFINE R == [Waiting EXCEPT ![s] = <<>>]
  <2>2. /\ R \in [Sems -> Seq(Pcbs)]
        /\ \A t \in Sems : R[t] = IF t = s THEN <<>> ELSE Waiting[t]
    BY <2>1, EmptySeq DEF Holds
  <2> HIDE DEF R
  <2>3. ASSUME NEW t \in Sems
        PROVE  /\ \A e \in ToSet(K) : n[e].s_semAdd = t => R[t] = n[e].s_procQ
               /\ (\A e \in ToSet(K) : n[e].s_semAdd # t) => R[t] = <<>>
    <3>1. \A e \in ToSet(K) : /\ n[e].s_semAdd = semd[e].s_semAdd
                              /\ n[e].s_procQ = semd[e].s_procQ
                              /\ n[e].s_semAdd # s
      BY <1>4, <1>11, <1>12
    <3>2. CASE t = s
      BY <3>1, <3>2, <2>2
    <3>3. CASE t # s
      <4>1. R[t] = Waiting[t]
        BY <3>3, <2>2
      <4>2. /\ \A e \in ToSet(List) : semd[e].s_semAdd = t => Waiting[t] = semd[e].s_procQ
            /\ (\A e \in ToSet(List) : semd[e].s_semAdd # t) => Waiting[t] = <<>>
        BY <2>1 DEF Holds
      <4>3. semd[d].s_semAdd # t
        BY <3>3, <1>2, <1>3
      <4> QED
        BY <3>1, <4>1, <4>2, <4>3, <1>12
    <3> QED
      BY <3>2, <3>3
  <2>4. Holds(n, K, R)
    BY <2>2, <2>3 DEF Holds
  <2> QED
    BY <2>4 DEF R
<1> QED
  BY <1>8, <1>16, <1>17, InvNext

-----------------------------------------------------------------------------
(* The list is empty at first, and the stack full.                         *)
LEMMA AslInit ==
  ASSUME Init
  PROVE  AslInv /\ Waiting = [s \in Sems |-> <<>>]
<1> DEFINE N == MAXPROC
           L == <<N + 2, N + 1>>
           F == [i \in 1..N |-> N + 1 - i]
<1>1. N \in Nat /\ Semds = 1..(N + 2)
  BY Addresses DEF Semds
<1>2. /\ semd_h = N + 2
      /\ semdFree_h = IF N = 0 THEN NULL ELSE N
      /\ semd = [d \in Semds |->
           [s_next |-> IF d \in {1, N + 1} THEN NULL ELSE d - 1,
            s_semAdd |-> IF d = N + 2 THEN 0 ELSE MAXINT,
            s_procQ |-> <<>>]]
      /\ p_semAdd = [p \in Pcbs |-> NULL]
  BY DEF Init
<1> HIDE DEF N
<1>3. \A d \in Semds : /\ semd[d].s_next = IF d \in {1, N + 1} THEN NULL ELSE d - 1
                       /\ semd[d].s_semAdd = IF d = N + 2 THEN 0 ELSE MAXINT
                       /\ semd[d].s_procQ = <<>>
  BY <1>2
<1>4. semd \in [Semds -> Descriptors]
  <2>1. \A d \in Semds : (IF d \in {1, N + 1} THEN NULL ELSE d - 1) \in Semds \cup {NULL}
    BY <1>1
  <2>2. \A d \in Semds : (IF d = N + 2 THEN 0 ELSE MAXINT) \in 0..MAXINT
    BY Addresses
  <2>3. <<>> \in Seq(Pcbs)
    BY EmptySeq
  <2> QED
    BY <1>2, <2>1, <2>2, <2>3 DEF Descriptors
<1>5. /\ L \in Seq(Semds) /\ Len(L) = 2 /\ L[1] = N + 2 /\ L[2] = N + 1
      /\ N + 1 \in Semds /\ N + 2 \in Semds
  BY <1>1
<1> HIDE DEF L
<1>6. IsList(semd, semd_h, L)
  <2>1. \A i, j \in 1..Len(L) : L[i] = L[j] => i = j
    BY <1>1, <1>5
  <2>2. \A i \in 1..Len(L) : semd[L[i]].s_next = IF i = Len(L) THEN NULL ELSE L[i + 1]
    <3>1. semd[N + 2].s_next = N + 1 /\ semd[N + 1].s_next = NULL
      BY <1>1, <1>3, <1>5
    <3>2. \A i \in 1..Len(L) : i = 1 \/ i = 2
      BY <1>5
    <3> QED
      BY <3>1, <3>2, <1>5
  <2>3. semd_h = IF L = <<>> THEN NULL ELSE L[1]
    <3>1. L # <<>>
      BY <1>5, EmptySeq
    <3> QED
      BY <3>1, <1>2, <1>5
  <2>4. IsWalk(Nexts(semd), semd_h, NULL, L)
    BY <1>5, <2>1, <2>2, <2>3, WalkMade
  <2>5. semd[L[1]].s_semAdd = 0 /\ semd[L[2]].s_semAdd = MAXINT
    BY <1>1, <1>3, <1>5
  <2>6. 0 < MAXINT
    BY AslAssumption, Addresses DEF MAXPROC
  <2>7. \A i, j \in 1..Len(L) : i < j => i = 1 /\ j = 2
    BY <1>5
  <2>8. \A i, j \in 1..Len(L) : i < j => semd[L[i]].s_semAdd < semd[L[j]].s_semAdd
    BY <2>5, <2>6, <2>7
  <2> QED
    BY <1>5, <2>4, <2>5, <2>8 DEF IsList
<1>7. F \in Seq(Semds) /\ Len(F) = N
  <2>1. F \in [1..N -> Semds]
    BY <1>1
  <2> HIDE DEF F
  <2> QED
    BY <1>1, <2>1, SequenceMade
<1>8. \A i \in 1..N : F[i] = N + 1 - i
  OBVIOUS
<1> HIDE DEF F
<1>9. IsWalk(Nexts(semd), semdFree_h, NULL, F)
  <2>1. \A i, j \in 1..Len(F) : F[i] = F[j] => i = j
    BY <1>1, <1>7, <1>8
  <2>2. \A i \in 1..Len(F) : semd[F[i]].s_next = IF i = Len(F) THEN NULL ELSE F[i + 1]
    <3> SUFFICES ASSUME NEW i \in 1..N
                 PROVE  semd[F[i]].s_next = IF i = N THEN NULL ELSE F[i + 1]
      BY <1>7
    <3>1. N + 1 - i \in Semds /\ (N + 1 - i = 1 <=> i = N) /\ N + 1 - i # N + 1
      BY <1>1
    <3>2. semd[F[i]].s_next = IF i = N THEN NULL ELSE (N + 1 - i) - 1
      BY <3>1, <1>3, <1>8
    <3>3. i # N => i + 1 \in 1..N /\ (N + 1 - i) - 1 = N + 1 - (i + 1)
      BY <1>1
    <3> QED
      BY <3>2, <3>3, <1>8
  <2>3. semdFree_h = IF F = <<>> THEN NULL ELSE F[1]
    <3>1. CASE N = 0
      BY <3>1, <1>2, <1>7, EmptySeq
    <3>2. CASE N # 0
      <4>1. F # <<>> /\ 1 \in 1..N /\ N + 1 - 1 = N
        BY <3>2, <1>1, <1>7
      <4> QED
        BY <4>1, <3>2, <1>2, <1>8
    <3> QED
      BY <3>1, <3>2
  <2> QED
    BY <1>7, <2>1, <2>2, <2>3, WalkMade
<1>10. /\ \A d : d \in ToSet(L) <=> d = N + 1 \/ d = N + 2
       /\ \A d : d \in ToSet(F) <=> d \in 1..N
  <2>1. /\ \A i \in 1..Len(L) : L[i] \in ToSet(L)
        /\ \A d \in ToSet(L) : \E i \in 1..Len(L) : L[i] = d
    BY <1>5, MemberPosition
  <2>2. 1 \in 1..Len(L) /\ 2 \in 1..Len(L) /\ \A i \in 1..Len(L) : i = 1 \/ i = 2
    BY <1>5
  <2>3. \A d : d \in ToSet(L) <=> d = N + 1 \/ d = N + 2
    BY <2>1, <2>2, <1>5
  <2>4. /\ \A i \in 1..N : F[i] \in ToSet(F)
        /\ \A d \in ToSet(F) : \E i \in 1..N : F[i] = d
    BY <1>7, MemberPosition
  <2>5. ASSUME NEW d \in ToSet(F) PROVE d \in 1..N
    BY <2>4, <1>1, <1>8
  <2>6. ASSUME NEW d \in 1..N PROVE d \in ToSet(F)
    <3>1. N + 1 - d \in 1..N /\ N + 1 - (N + 1 - d) = d
      BY <1>1
    <3>2. F[N + 1 - d] = d
      BY <3>1, <1>8
    <3> QED
      BY <3>1, <3>2, <2>4
  <2> QED
    BY <2>3, <2>5, <2>6
<1>11. ToSet(L) \cap ToSet(F) = {} /\ ToSet(L) \cup ToSet(F) = Semds
  <2>1. \A d : d \in Semds <=> d = N + 1 \/ d = N + 2 \/ d \in 1..N
    BY <1>1
  <2>2. N + 1 \notin 1..N /\ N + 2 \notin 1..N
    BY <1>1
  <2> QED
    BY <1>10, <2>1, <2>2
<1>12. \A d \in ToSet(L) : semd[d].s_semAdd \in {0, MAXINT}
  BY <1>3, <1>11
<1>13. IsAsl(semd, semd_h, semdFree_h, p_semAdd, L, F)
  <2>1. p_semAdd \in [Pcbs -> Sems \cup {NULL}]
    BY <1>2
  <2> QED
    BY <2>1, <1>4, <1>6, <1>9, <1>11, <1>12 DEF IsAsl, InUse
<1>14. List = L /\ Free = F
  BY <1>6, <1>9, ChainIs DEF List, Free, IsList
<1>15. AslInv
  BY <1>13, <1>14 DEF AslInv
<1>16. \A s \in Sems : \A d \in ToSet(L) : semd[d].s_semAdd # s
  BY <1>12, Addresses
<1>17. Holds(semd, L, Waiting)
  BY <1>14, <1>15, WaitingHolds DEF WaitingHere
<1>18. Waiting = [s \in Sems |-> <<>>]
  BY <1>16, <1>17 DEF Holds
<1> QED
  BY <1>15, <1>18

(* There is a descriptor for every process, so that one is free while a    *)
(* process does not wait.                                                  *)
LEMMA SomeFree ==
  ASSUME AslInv, NEW p \in Pcbs, p_semAdd[p] = NULL
  PROVE  semdFree_h # NULL
<1> SUFFICES ASSUME semdFree_h = NULL PROVE FALSE
  OBVIOUS
<1>1. /\ semd \in [Semds -> Descriptors]
      /\ p_semAdd \in [Pcbs -> Sems \cup {NULL}]
      /\ IsList(semd, semd_h, List)
      /\ IsWalk(Nexts(semd), semdFree_h, NULL, Free)
      /\ ToSet(List) \cup ToSet(Free) = Semds
      /\ InUse(semd, p_semAdd, List)
  BY DEF AslInv, IsAsl
<1>2. Free = <<>>
  <2>1. /\ semdFree_h = IF Free = <<>> THEN NULL ELSE Free[1]
        /\ Free # <<>> => Len(Free) >= 1
        /\ Len(Free) \in Nat
        /\ \A i \in 1..Len(Free) : Free[i] \in Semds
    BY <1>1, WalkMeets
  <2> QED
    BY <2>1, Addresses
<1>3. ToSet(List) = Semds
  BY <1>1, <1>2, EmptyQueue
<1>4. /\ List \in Seq(Semds) /\ IsInjective(List) /\ Len(List) = MAXPROC + 2
      /\ \A i \in 1..Len(List) : List[i] \in ToSet(List)
      /\ MAXPROC \in Nat
  <2>1. List \in Seq(Semds) /\ IsInjective(List) /\ \A i \in 1..Len(List) : List[i] \in ToSet(List)
    BY <1>1, WalkMeets DEF IsList
  <2> QED
    BY <2>1, <1>3, QueueSize, Addresses
<1> DEFINE S == 2..(MAXPROC + 1)
           T == Pcbs \ {p}
           first == [i \in S |-> Head(semd[List[i]].s_procQ)]
<1>5. ASSUME NEW i \in S
      PROVE  /\ List[i] \in ToSet(List)
             /\ Head(semd[List[i]].s_procQ) \in T
             /\ p_semAdd[Head(semd[List[i]].s_procQ)] = semd[List[i]].s_semAdd
  <2>1. 1 \in 1..Len(List) /\ i \in 1..Len(List) /\ Len(List) \in 1..Len(List)
        /\ 1 < i /\ i < Len(List)
    BY <1>4
  <2>2. semd[List[1]].s_semAdd = 0 /\ semd[List[Len(List)]].s_semAdd = MAXINT
    BY <1>1 DEF IsList
  <2>3. /\ semd[List[1]].s_semAdd < semd[List[i]].s_semAdd
        /\ semd[List[i]].s_semAdd < semd[List[Len(List)]].s_semAdd
    BY <1>1, <2>1 DEF IsList
  <2>4. semd[List[i]].s_semAdd \notin {0, MAXINT}
    BY <2>2, <2>3, Addresses
  <2>5. List[i] \in ToSet(List) /\ List[i] \in Semds
    BY <1>3, <1>4, <2>1
  <2>6. PICK q : q = semd[List[i]].s_procQ
    OBVIOUS
  <2>7. /\ semd[List[i]].s_semAdd \in Sems
        /\ q # <<>> /\ IsInjective(q) /\ q \in Seq(Pcbs)
        /\ \A x \in ToSet(q) : p_semAdd[x] = semd[List[i]].s_semAdd
    BY <1>1, <2>4, <2>5, <2>6 DEF InUse, Descriptors
  <2>8. Head(q) \in Pcbs /\ Head(q) \in ToSet(q)
    BY <2>7, RemoveHead
  <2> QED
    BY <2>5, <2>6, <2>7, <2>8, Addresses
<1>6. first \in [S -> T]
  BY <1>5
<1>7. IsFiniteSet(S) /\ Cardinality(S) = MAXPROC
  <2>1. 2 \in Int /\ MAXPROC + 1 \in Int
    BY <1>4
  <2>2. IsFiniteSet(S) /\ Cardinality(S) = IF 2 > MAXPROC + 1 THEN 0 ELSE (MAXPROC + 1) - 2 + 1
    BY <2>1, FS_Interval
  <2> QED
    BY <2>2, <1>4
<1>8. IsFiniteSet(T) /\ Cardinality(T) < MAXPROC
  <2>1. IsFiniteSet(T) /\ Cardinality(T) = Cardinality(Pcbs) - 1
    BY AslAssumption, FS_RemoveElement
  <2> QED
    BY <2>1, <1>4 DEF MAXPROC
<1> HIDE DEF S, T
<1>9. PICK i \in S, j \in S : i # j /\ first[i] = first[j]
  <2>1. Cardinality(T) < Cardinality(S)
    BY <1>7, <1>8
  <2> HIDE DEF first
  <2>2. \E i, j \in S : i # j /\ first[i] = first[j]
    BY <1>6, <1>7, <1>8, <2>1, FS_PigeonHole
  <2> QED
    BY <2>2
<1>10. semd[List[i]].s_semAdd = semd[List[j]].s_semAdd
  BY <1>5, <1>9
<1>11. List[i] = List[j]
  BY <1>1, <1>5, <1>10, ListMeets
<1> QED
  BY <1>4, <1>9, <1>11, InjectivePositions DEF S

-----------------------------------------------------------------------------
(* The steps of module SemQueues, in terms of Waiting.                     *)
LEMMA QueueNames ==
  ASSUME NEW s, NEW p
  PROVE  /\ Queues!Insert(s, p) <=> /\ p_semAdd[p] = NULL
                                    /\ Waiting' = [Waiting EXCEPT ![s] = Append(@, p)]
                                    /\ p_semAdd' = [p_semAdd EXCEPT ![p] = s]
                                    /\ result' = 0
         /\ Queues!Leave(s, p) <=> /\ Waiting' = [Waiting EXCEPT ![s] = QueueAfterOut(@, p)]
                                   /\ p_semAdd' = [p_semAdd EXCEPT ![p] = NULL]
                                   /\ result' = p
         /\ Queues!Fail <=> result' = NULL /\ Waiting' = Waiting /\ p_semAdd' = p_semAdd
         /\ Queues!Out(p) <=> /\ p_semAdd[p] # NULL
                              /\ IF p \in ToSet(Waiting[p_semAdd[p]])
                                 THEN Queues!Leave(p_semAdd[p], p)
                                 ELSE Queues!Fail
         /\ Queues!WakeFirst(s) <=> IF Waiting[s] # <<>>
                                    THEN Queues!Leave(s, Head(Waiting[s]))
                                    ELSE Queues!Fail
<1>1. \A q, x : Queues!QueueAfterOut(q, x) = QueueAfterOut(q, x)
  BY DEF Queues!QueueAfterOut, QueueAfterOut, Queues!AfterHead, AfterHead,
         Queues!TakenOut, TakenOut, Queues!RemoveAt, RemoveAt
<1>2. \A q : Queues!ToSet(q) = ToSet(q)
  BY DEF Queues!ToSet, ToSet
<1>3. Queues!Insert(s, p) <=> /\ p_semAdd[p] = NULL
                              /\ Waiting' = [Waiting EXCEPT ![s] = Append(@, p)]
                              /\ p_semAdd' = [p_semAdd EXCEPT ![p] = s]
                              /\ result' = 0
  BY DEF Queues!Insert, Waiting
<1>4. Queues!Leave(s, p) <=> /\ Waiting' = [Waiting EXCEPT ![s] = QueueAfterOut(@, p)]
                             /\ p_semAdd' = [p_semAdd EXCEPT ![p] = NULL]
                             /\ result' = p
  BY <1>1 DEF Queues!Leave, Waiting
<1>5. Queues!Fail <=> result' = NULL /\ Waiting' = Waiting /\ p_semAdd' = p_semAdd
  BY DEF Queues!Fail, Waiting
<1>6. Queues!Out(p) <=> /\ p_semAdd[p] # NULL
                        /\ IF p \in ToSet(Waiting[p_semAdd[p]])
                           THEN Queues!Leave(p_semAdd[p], p)
                           ELSE Queues!Fail
  BY <1>2 DEF Queues!Out, Waiting
<1>7. Queues!WakeFirst(s) <=> IF Waiting[s] # <<>>
                              THEN Queues!Leave(s, Head(Waiting[s]))
                              ELSE Queues!Fail
  BY DEF Queues!WakeFirst, Waiting
<1> QED
  BY <1>3, <1>4, <1>5, <1>6, <1>7

(* The queue of s in both views.                                           *)
LEMMA WaitingAt ==
  ASSUME AslInv, NEW s \in Sems
  PROVE  /\ Waiting \in [Sems -> Seq(Pcbs)]
         /\ Waiting[s] = IF Active(s) THEN ProcQ(s) ELSE <<>>
         /\ Active(s) <=> Waiting[s] # <<>>
         /\ Active(s) => /\ Following(s) \in ToSet(List)
                         /\ Following(s) \in Semds
                         /\ semd[Following(s)].s_semAdd = s
                         /\ semd[Following(s)].s_procQ = Waiting[s]
                         /\ IsInjective(Waiting[s])
                         /\ \A p \in ToSet(Waiting[s]) : p_semAdd[p] = s
<1>1. Waiting \in [Sems -> Seq(Pcbs)]
  BY WaitingHolds DEF WaitingHere, Holds
<1>2. Waiting[s] = IF Active(s) THEN ProcQ(s) ELSE <<>>
  BY DEF Waiting
<1>3. ASSUME Active(s)
      PROVE  /\ Following(s) \in ToSet(List)
             /\ Following(s) \in Semds
             /\ semd[Following(s)].s_semAdd = s
             /\ semd[Following(s)].s_procQ = Waiting[s]
             /\ Waiting[s] # <<>>
             /\ IsInjective(Waiting[s])
             /\ \A p \in ToSet(Waiting[s]) : p_semAdd[p] = s
  <2>1. Following(s) \in ToSet(List)
    BY Search
  <2>2. PICK d \in ToSet(List) : d = Following(s) /\ semd[d].s_semAdd = s
    BY <1>3, <2>1 DEF Active
  <2>3. /\ ProcQ(s) = semd[d].s_procQ
        /\ d \in Semds
        /\ semd[d].s_procQ # <<>>
        /\ IsInjective(semd[d].s_procQ)
        /\ \A p \in ToSet(semd[d].s_procQ) : p_semAdd[p] = s
    BY <2>2, Found
  <2> QED
    BY <1>2, <1>3, <2>1, <2>2, <2>3
<1> QED
  BY <1>1, <1>2, <1>3

(* insertBlocked keeps the invariant, and is a step of the queues.         *)
LEMMA InsertBlockedStep ==
  ASSUME AslInv, NEW s \in Sems, NEW p \in Pcbs, InsertBlocked(s, p)
  PROVE  AslInv' /\ Queues!Insert(s, p)
<1>1. p_semAdd[p] = NULL /\ semd_h' = semd_h
  BY DEF InsertBlocked
<1>2. semdFree_h # NULL
  BY <1>1, SomeFree
<1>3. CASE Active(s)
  <2>1. /\ semd' = [semd EXCEPT ![Following(s)].s_procQ = Append(@, p)]
        /\ p_semAdd' = [p_semAdd EXCEPT ![p] = s]
        /\ result' = 0
        /\ semdFree_h' = semdFree_h
    BY <1>3 DEF InsertBlocked
  <2>2. PICK d : d = Following(s)
    OBVIOUS
  <2>3. PICK q : q = Waiting[s]
    OBVIOUS
  <2>4. PICK r : r = Append(q, p)
    OBVIOUS
  <2>5. /\ d \in ToSet(List) /\ semd[d].s_semAdd = s /\ semd[d].s_procQ = q
        /\ q \in Seq(Pcbs) /\ IsInjective(q)
        /\ \A x \in ToSet(q) : p_semAdd[x] = s
    BY <1>3, <2>2, <2>3, WaitingAt
  <2>6. p \notin ToSet(q)
    BY <1>1, <2>5, Addresses
  <2>7. /\ r \in Seq(Pcbs) /\ r # <<>> /\ IsInjective(r)
        /\ ToSet(r) = ToSet(q) \cup {p}
    BY <2>4, <2>5, <2>6, InsertTail
  <2>8. semd' = QueueSet(semd, d, r)
    BY <2>1, <2>2, <2>4, <2>5 DEF QueueSet
  <2>9. \A x \in ToSet(r) : p_semAdd'[x] = s
    <3>1. p_semAdd \in [Pcbs -> Sems \cup {NULL}]
      BY DEF AslInv, IsAsl
    <3>2. ToSet(q) \subseteq Pcbs
      BY <2>5, MemberPosition
    <3> QED
      BY <2>1, <2>5, <2>7, <3>1, <3>2
  <2>10. AslInv' /\ Waiting' = [Waiting EXCEPT ![s] = r]
    <3>1. p_semAdd[p] \in {s, NULL} /\ UNCHANGED <<semd_h, semdFree_h>>
      BY <1>1, <2>1
    <3>2. PICK v \in {s, NULL} : v = s
      OBVIOUS
    <3>3. p_semAdd' = [p_semAdd EXCEPT ![p] = v]
      BY <2>1, <3>2
    <3> QED
      BY <2>5, <2>7, <2>8, <2>9, <3>1, <3>3, QueueStep
  <2> QED
    BY <1>1, <2>1, <2>3, <2>4, <2>10, QueueNames
<1>4. CASE ~Active(s)
  <2>1. /\ semdFree_h' = semd[semdFree_h].s_next
        /\ semd' = [semd EXCEPT
             ![semdFree_h] = [s_next |-> Following(s), s_semAdd |-> s, s_procQ |-> <<p>>],
             ![SearchSemd(s)].s_next = semdFree_h]
        /\ p_semAdd' = [p_semAdd EXCEPT ![p] = s]
        /\ result' = 0
    BY <1>2, <1>4 DEF InsertBlocked, NoneFree
  <2>2. semd' = NextSet(Set(semd, semdFree_h,
                            [s_next |-> Following(s), s_semAdd |-> s, s_procQ |-> <<p>>]),
                        SearchSemd(s), semdFree_h)
    BY <2>1 DEF NextSet, Set
  <2>3. AslInv' /\ Waiting' = [Waiting EXCEPT ![s] = <<p>>]
    BY <1>1, <1>2, <1>4, <2>1, <2>2, OpenStep
  <2>4. Append(Waiting[s], p) = <<p>>
    <3>1. Waiting[s] = <<>>
      BY <1>4, WaitingAt
    <3> QED
      BY <3>1
  <2> QED
    BY <1>1, <2>1, <2>3, <2>4, QueueNames
<1> QED
  BY <1>3, <1>4

(* A call that finds nothing to do.                                        *)
LEMMA FailStep ==
  ASSUME AslInv, UNCHANGED <<semd, semd_h, semdFree_h, p_semAdd>>
  PROVE  AslInv' /\ Waiting' = Waiting
<1>1. Holds(semd', List, Waiting)
  BY WaitingHolds DEF WaitingHere
<1>2. IsAsl(semd', semd_h', semdFree_h', p_semAdd', List, Free)
  BY DEF AslInv
<1> QED
  BY <1>1, <1>2, InvNext

(* What outBlocked does to the list and to the queues.                     *)
LEMMA OutBlockedEffect ==
  ASSUME AslInv, NEW p \in Pcbs, OutBlocked(p)
  PROVE  /\ AslInv'
         /\ p_semAdd[p] # NULL
         /\ IF p \in ToSet(Waiting[p_semAdd[p]])
            THEN Queues!Leave(p_semAdd[p], p)
            ELSE Queues!Fail
<1>1. PICK s : s = p_semAdd[p]
  OBVIOUS
<1>2. s # NULL /\ s \in Sems /\ semd_h' = semd_h
  <2>1. p_semAdd \in [Pcbs -> Sems \cup {NULL}]
    BY DEF AslInv, IsAsl
  <2> QED
    BY <1>1, <2>1 DEF OutBlocked
<1>3. (p \in ToSet(Waiting[s])) <=> Active(s) /\ p \in ToSet(ProcQ(s))
  BY <1>2, WaitingAt, EmptyQueue
<1>4. CASE p \notin ToSet(Waiting[s])
  <2>1. result' = NULL /\ UNCHANGED <<semd, semd_h, semdFree_h, p_semAdd>>
    BY <1>1, <1>3, <1>4 DEF OutBlocked
  <2>2. AslInv' /\ Waiting' = Waiting
    BY <2>1, FailStep
  <2>3. Queues!Fail
    BY <2>1, <2>2, QueueNames
  <2> QED
    BY <1>1, <1>2, <1>4, <2>2, <2>3
<1>5. CASE p \in ToSet(Waiting[s])
  <2>1. Active(s) /\ ProcQ(s) = Waiting[s]
    BY <1>2, <1>3, <1>5, WaitingAt
  <2>2. PICK q : q = Waiting[s]
    OBVIOUS
  <2>3. PICK d : d = Following(s)
    OBVIOUS
  <2>4. /\ d \in ToSet(List) /\ d \in Semds /\ semd[d].s_semAdd = s /\ semd[d].s_procQ = q
        /\ q \in Seq(Pcbs) /\ IsInjective(q) /\ q # <<>>
        /\ \A x \in ToSet(q) : p_semAdd[x] = s
    BY <1>2, <2>1, <2>2, <2>3, WaitingAt
  <2>5. p_semAdd' = [p_semAdd EXCEPT ![p] = NULL] /\ result' = p
    BY <1>1, <1>3, <1>5 DEF OutBlocked
  <2>6. AslInv' /\ Waiting' = [Waiting EXCEPT ![s] = QueueAfterOut(q, p)]
    <3>1. CASE AfterHead(q) = p
      <4>1. /\ semd' = [semd EXCEPT ![SearchSemd(s)].s_next = semd[Following(s)].s_next,
                                    ![Following(s)] = FreedSemd]
            /\ semdFree_h' = Following(s)
        BY <1>1, <1>3, <1>5, <2>1, <2>2, <3>1 DEF OutBlocked
      <4>2. semd' = Set(NextSet(semd, SearchSemd(s), semd[Following(s)].s_next),
                        Following(s), FreedSemd)
        BY <4>1 DEF Set, NextSet
      <4>3. AslInv' /\ Waiting' = [Waiting EXCEPT ![s] = <<>>]
        BY <1>1, <1>2, <2>1, <2>5, <4>1, <4>2, CloseStep
      <4> QED
        BY <3>1, <4>3 DEF QueueAfterOut
    <3>2. CASE AfterHead(q) # p
      <4>1. semd' = [semd EXCEPT ![Following(s)].s_procQ = TakenOut(ProcQ(s), p)]
            /\ semdFree_h' = semdFree_h
        BY <1>1, <1>3, <1>5, <2>1, <2>2, <3>2 DEF OutBlocked
      <4>2. PICK r : r = TakenOut(q, p)
        OBVIOUS
      <4>3. semd' = QueueSet(semd, d, r)
        BY <2>1, <2>2, <2>3, <4>1, <4>2 DEF QueueSet
      <4>4. /\ r \in Seq(Pcbs) /\ IsInjective(r)
            /\ ToSet(r) = ToSet(q) \ {p}
            /\ Len(r) = Len(q) - 1
        BY <1>5, <2>2, <2>4, <4>2, RemoveMember
      <4>5. r # <<>>
        <5>1. Len(q) \in Nat /\ Len(q) >= 1
              /\ \A x \in ToSet(q) : \E i \in 1..Len(q) : q[i] = x
          BY <2>4, MemberPosition
        <5>2. Len(q) # 1
          <6> SUFFICES ASSUME Len(q) = 1 PROVE FALSE
            OBVIOUS
          <6>1. PICK i \in 1..1 : q[i] = p
            BY <1>5, <2>2, <5>1
          <6>2. AfterHead(q) = p
            BY <6>1 DEF AfterHead
          <6> QED
            BY <6>2, <3>2
        <5>3. Len(r) # 0
          BY <4>4, <5>1, <5>2
        <5> QED
          BY <4>4, <5>3, EmptySeq
      <4>6. \A x \in ToSet(r) : p_semAdd'[x] = s
        <5>1. p_semAdd \in [Pcbs -> Sems \cup {NULL}]
          BY DEF AslInv, IsAsl
        <5>2. ToSet(q) \subseteq Pcbs
          BY <2>4, MemberPosition
        <5> QED
          BY <2>4, <2>5, <4>4, <5>1, <5>2
      <4>7. AslInv' /\ Waiting' = [Waiting EXCEPT ![s] = r]
        <5>1. p_semAdd[p] \in {s, NULL} /\ UNCHANGED <<semd_h, semdFree_h>>
          BY <1>1, <1>2, <4>1
        <5>2. PICK v \in {s, NULL} : v = NULL
          OBVIOUS
        <5>3. p_semAdd' = [p_semAdd EXCEPT ![p] = v]
          BY <2>5, <5>2
        <5> QED
          BY <1>2, <2>4, <4>3, <4>4, <4>5, <4>6, <5>1, <5>3, QueueStep
      <4> QED
        BY <3>2, <4>2, <4>7 DEF QueueAfterOut
    <3> QED
      BY <3>1, <3>2
  <2>7. Queues!Leave(s, p)
    BY <2>2, <2>5, <2>6, QueueNames
  <2> QED
    BY <1>1, <1>2, <1>5, <2>6, <2>7
<1> QED
  BY <1>4, <1>5

(* outBlocked keeps the invariant, and is a step of the queues.            *)
LEMMA OutBlockedStep ==
  ASSUME AslInv, NEW p \in Pcbs, OutBlocked(p)
  PROVE  AslInv' /\ Queues!Out(p)
BY OutBlockedEffect, QueueNames

(* removeBlocked calls outBlocked with the head of the queue.              *)
LEMMA RemoveBlockedStep ==
  ASSUME AslInv, NEW s \in Sems, RemoveBlocked(s)
  PROVE  AslInv' /\ Queues!WakeFirst(s)
<1>1. CASE Active(s)
  <2>1. PICK q : q = Waiting[s]
    OBVIOUS
  <2>2. /\ q \in Seq(Pcbs) /\ q # <<>> /\ IsInjective(q) /\ ProcQ(s) = q
        /\ \A x \in ToSet(q) : p_semAdd[x] = s
    BY <1>1, <2>1, WaitingAt
  <2>3. PICK p : p = Head(q)
    OBVIOUS
  <2>4. p \in Pcbs /\ p \in ToSet(q) /\ p_semAdd[p] = s
    BY <2>2, <2>3, RemoveHead
  <2>5. OutBlocked(p)
    BY <1>1, <2>2, <2>3 DEF RemoveBlocked
  <2>6. AslInv' /\ Queues!Leave(s, p)
    BY <2>1, <2>4, <2>5, OutBlockedEffect
  <2> QED
    BY <2>1, <2>2, <2>3, <2>6, QueueNames
<1>2. CASE ~Active(s)
  <2>1. result' = NULL /\ UNCHANGED <<semd, semd_h, semdFree_h, p_semAdd>>
    BY <1>2 DEF RemoveBlocked
  <2>2. AslInv' /\ Waiting' = Waiting
    BY <2>1, FailStep
  <2>3. Waiting[s] = <<>>
    BY <1>2, WaitingAt
  <2> QED
    BY <2>1, <2>2, <2>3, QueueNames
<1> QED
  BY <1>1, <1>2

(* Every step keeps the invariant, and is a step of the queues.            *)
LEMMA AslStep ==
  ASSUME AslInv, [Next]_vars
  PROVE  AslInv' /\ [Queues!Next]_(Queues!vars)
<1>1. ASSUME NEW s \in Sems, NEW p \in Pcbs, InsertBlocked(s, p)
      PROVE  AslInv' /\ [Queues!Next]_(Queues!vars)
  BY <1>1, InsertBlockedStep DEF Queues!Next
<1>2. ASSUME NEW p \in Pcbs, OutBlocked(p)
      PROVE  AslInv' /\ [Queues!Next]_(Queues!vars)
  BY <1>2, OutBlockedStep DEF Queues!Next
<1>3. ASSUME NEW s \in Sems, RemoveBlocked(s)
      PROVE  AslInv' /\ [Queues!Next]_(Queues!vars)
  BY <1>3, RemoveBlockedStep DEF Queues!Next
<1>4. CASE UNCHANGED vars
  <2>1. UNCHANGED <<semd, semd_h, semdFree_h, p_semAdd, result>>
    BY <1>4 DEF vars
  <2>2. AslInv' /\ Waiting' = Waiting
    BY <2>1, FailStep
  <2>3. UNCHANGED Queues!vars
    BY <2>1, <2>2 DEF Queues!vars, Waiting
  <2> QED
    BY <2>2, <2>3
<1> QED
  BY <1>1, <1>2, <1>3, <1>4 DEF Next
-----------------------------------------------------------------------------
(* The list and the stack are well formed after all callable histories,    *)
(* whatever the number of process blocks and of semaphores.                *)
THEOREM SpecAslInv ==
  Spec => []AslInv
<1>1. Init => AslInv
  BY AslInit
<1>2. AslInv /\ [Next]_vars => AslInv'
  BY AslStep
<1> QED
  BY <1>1, <1>2, PTL DEF Spec

(* searchSemd's list rises strictly from the sentinel 0 to MAXINT.         *)
THEOREM SpecListSorted ==
  Spec => []ListSorted
<1>1. ASSUME AslInv PROVE ListSorted
  <2>1. IsList(semd, semd_h, List)
    BY <1>1 DEF AslInv, IsAsl
  <2>2. Len(List) \in Nat
    BY <2>1, WalkMeets DEF IsList
  <2>3. semd[Last(List)].s_semAdd = MAXINT
    BY <2>1 DEF IsList, Last
  <2>4. \A i \in 1..(Len(List) - 1) : semd[List[i]].s_semAdd < semd[List[i + 1]].s_semAdd
    <3>1. \A i \in 1..(Len(List) - 1) : i \in 1..Len(List) /\ i + 1 \in 1..Len(List) /\ i < i + 1
      BY <2>2
    <3> QED
      BY <2>1, <3>1 DEF IsList
  <2> QED
    BY <2>3, <2>4 DEF ListSorted, List
<1> QED
  BY <1>1, SpecAslInv, PTL

(* Every descriptor is in the list or on the stack, once, and those in the *)
(* list between the sentinels hold processes that wait for their address.  *)
THEOREM SpecDescriptorsConserved ==
  Spec => []DescriptorsConserved
<1>1. ASSUME AslInv PROVE DescriptorsConserved
  <2>1. /\ semd \in [Semds -> Descriptors]
        /\ IsList(semd, semd_h, List)
        /\ IsWalk(Nexts(semd), semdFree_h, NULL, Free)
        /\ ToSet(List) \cap ToSet(Free) = {}
        /\ ToSet(List) \cup ToSet(Free) = Semds
        /\ InUse(semd, p_semAdd, List)
    BY <1>1 DEF AslInv, IsAsl
  <2>2. /\ List \in Seq(Semds) /\ IsInjective(List) /\ Len(List) \in Nat
        /\ Free \in Seq(Semds) /\ IsInjective(Free)
        /\ \A i \in 1..Len(List) : List[i] \in ToSet(List)
    BY <2>1, WalkMeets DEF IsList
  <2>3. PICK all : all = List \o Free
    OBVIOUS
  <2>4. all \in Seq(Semds) /\ IsInjective(all) /\ ToSet(all) = Semds
    <3>1. /\ List \in Seq(Semds) /\ Free \in Seq(Semds)
          /\ IsInjective(List) /\ IsInjective(Free)
          /\ ToSet(List) \cap ToSet(Free) = {}
      BY <2>1, <2>2
    <3> HIDE DEF List, Free
    <3>2. /\ List \o Free \in Seq(Semds)
          /\ IsInjective(List \o Free)
          /\ ToSet(List \o Free) = ToSet(List) \cup ToSet(Free)
      BY <3>1, JoinQueues
    <3> QED
      BY <2>1, <2>3, <3>2
  <2>5. Len(all) = MAXPROC + 2
    BY <2>4, QueueSize, Addresses
  <2>6. ASSUME NEW i \in 2..(Len(List) - 1)
        PROVE  /\ semd[List[i]].s_procQ # <<>>
               /\ \A p \in ToSet(semd[List[i]].s_procQ) : p_semAdd[p] = semd[List[i]].s_semAdd
    <3>1. 1 \in 1..Len(List) /\ i \in 1..Len(List) /\ Len(List) \in 1..Len(List)
          /\ 1 < i /\ i < Len(List)
      BY <2>2
    <3>2. semd[List[1]].s_semAdd = 0 /\ semd[List[Len(List)]].s_semAdd = MAXINT
      BY <2>1 DEF IsList
    <3>3. /\ semd[List[1]].s_semAdd < semd[List[i]].s_semAdd
          /\ semd[List[i]].s_semAdd < semd[List[Len(List)]].s_semAdd
      BY <2>1, <3>1 DEF IsList
    <3>4. semd[List[i]].s_semAdd \notin {0, MAXINT}
      BY <3>2, <3>3, Addresses
    <3> QED
      BY <2>1, <2>2, <3>1, <3>4 DEF InUse
  <2> QED
    BY <2>3, <2>4, <2>5, <2>6 DEF DescriptorsConserved, List, Free
<1> QED
  BY <1>1, SpecAslInv, PTL

(* asl.c implements a queue for every semaphore: no descriptor is missing, *)
(* superfluous or of another semaphore when a process comes or leaves.     *)
THEOREM SpecImplementsQueues ==
  Spec => ImplementsQueues
<1>1. Init => Queues!Init
  BY AslInit DEF Init, Queues!Init, Waiting
<1>2. AslInv /\ [Next]_vars => [Queues!Next]_(Queues!vars)
  BY AslStep
<1> QED
  BY <1>1, <1>2, SpecAslInv, PTL DEF Spec, ImplementsQueues, Queues!Spec
=============================================================================
