---------------------------- MODULE QueueProofs -----------------------------
(***************************************************************************)
(* What the queue operations return, as facts about the set of processes   *)
(* in a queue.  A process queue holds a process once (IsInjective), since  *)
(* a pcb has one pair of link fields.                                      *)
(***************************************************************************)
EXTENDS QueueOps, Walks, Integers, SequenceTheorems, FiniteSetTheorems, TLAPS

(* mkEmptyProcQ: nobody is in the empty queue.                             *)
LEMMA EmptyQueue == ToSet(<<>>) = {} /\ IsInjective(<<>>)
  BY DEF ToSet, IsInjective

(* The members of a queue, by position.                                    *)
LEMMA MemberPosition ==
  ASSUME NEW S, NEW q \in Seq(S)
  PROVE  /\ ToSet(q) \subseteq S
         /\ \A i \in 1..Len(q) : q[i] \in ToSet(q)
         /\ \A x \in ToSet(q) : \E i \in 1..Len(q) : q[i] = x
         /\ (q # <<>>) <=> (ToSet(q) # {})
         /\ Len(q) \in Nat
         /\ q # <<>> => Len(q) >= 1
<1>1. /\ Len(q) \in Nat
      /\ q \in [1..Len(q) -> S]
      /\ DOMAIN q = 1..Len(q)
  BY LenProperties
<1>2. q # <<>> => Len(q) \in Nat \ {0}
  BY EmptySeq
<1>3. ToSet(q) = {q[i] : i \in 1..Len(q)}
  BY <1>1 DEF ToSet
<1>4. q # <<>> => q[1] \in ToSet(q)
  <2> SUFFICES ASSUME q # <<>> PROVE q[1] \in ToSet(q)
    OBVIOUS
  <2>1. 1 \in 1..Len(q)
    BY <1>1, <1>2
  <2> QED
    BY <2>1, <1>3
<1>5. q = <<>> => ToSet(q) = {}
  BY EmptyQueue
<1>6. q # <<>> => Len(q) >= 1
  BY <1>2
<1> QED
  BY <1>1, <1>3, <1>4, <1>5, <1>6

(* A queue holds each process once: its positions are told apart by it.    *)
LEMMA InjectivePositions ==
  ASSUME NEW S, NEW q \in Seq(S)
  PROVE  IsInjective(q) <=> \A i, j \in 1..Len(q) : q[i] = q[j] => i = j
  BY LenProperties DEF IsInjective

(* insertProcQ: p becomes the tail.                                        *)
LEMMA InsertTail ==
  ASSUME NEW S, NEW q \in Seq(S), IsInjective(q), NEW p \in S, p \notin ToSet(q)
  PROVE  /\ Append(q, p) \in Seq(S)
         /\ Append(q, p) # <<>>
         /\ IsInjective(Append(q, p))
         /\ ToSet(Append(q, p)) = ToSet(q) \cup {p}
<1> DEFINE r == Append(q, p)
<1>1. /\ r \in Seq(S)
      /\ r # <<>>
      /\ Len(r) = Len(q) + 1
      /\ \A i \in 1..Len(q) : r[i] = q[i]
      /\ r[Len(q) + 1] = p
  BY AppendProperties
<1>2. Len(q) \in Nat
  BY LenProperties
<1> HIDE DEF r
<1>3. \A i \in 1..Len(q) : q[i] # p
  BY MemberPosition
<1>4. IsInjective(r)
  BY <1>1, <1>2, <1>3, InjectivePositions
<1>5. ToSet(r) = ToSet(q) \cup {p}
  <2>1. ASSUME NEW x \in ToSet(r) PROVE x \in ToSet(q) \cup {p}
    BY <1>1, <1>2, MemberPosition
  <2>2. ASSUME NEW x \in ToSet(q) PROVE x \in ToSet(r)
    <3>1. PICK i \in 1..Len(q) : q[i] = x
      BY <2>2, MemberPosition
    <3> QED
      BY <3>1, <1>1, <1>2, MemberPosition
  <2>3. p \in ToSet(r)
    <3>1. Len(q) + 1 \in 1..Len(r)
      BY <1>1, <1>2
    <3> QED
      BY <3>1, <1>1, MemberPosition
  <2> QED
    BY <2>1, <2>2, <2>3
<1> QED
  BY <1>1, <1>4, <1>5 DEF r

(* Two queues with no common member, one behind the other.                 *)
LEMMA JoinQueues ==
  ASSUME NEW S, NEW q \in Seq(S), NEW r \in Seq(S), IsInjective(q), IsInjective(r),
         ToSet(q) \cap ToSet(r) = {}
  PROVE  /\ q \o r \in Seq(S)
         /\ IsInjective(q \o r)
         /\ ToSet(q \o r) = ToSet(q) \cup ToSet(r)
<1> DEFINE t == q \o r
<1>1. /\ t \in Seq(S)
      /\ Len(t) = Len(q) + Len(r)
      /\ \A i \in 1..Len(q) + Len(r) : t[i] = IF i <= Len(q) THEN q[i] ELSE r[i - Len(q)]
  BY ConcatProperties
<1>2. Len(q) \in Nat /\ Len(r) \in Nat
  BY LenProperties
<1> HIDE DEF t
<1>3. \A i \in 1..Len(q), j \in 1..Len(r) : q[i] # r[j]
  <2> SUFFICES ASSUME NEW i \in 1..Len(q), NEW j \in 1..Len(r), q[i] = r[j] PROVE FALSE
    OBVIOUS
  <2>1. q[i] \in ToSet(q) /\ r[j] \in ToSet(r)
    BY MemberPosition
  <2> QED
    BY <2>1
<1>4. IsInjective(t)
  <2> SUFFICES ASSUME NEW i \in 1..Len(t), NEW j \in 1..Len(t), t[i] = t[j]
               PROVE  i = j
    BY <1>1, InjectivePositions
  <2>1. CASE i <= Len(q) /\ j <= Len(q)
    BY <2>1, <1>1, <1>2, InjectivePositions
  <2>2. CASE ~(i <= Len(q)) /\ ~(j <= Len(q))
    <3>1. i - Len(q) \in 1..Len(r) /\ j - Len(q) \in 1..Len(r)
      BY <2>2, <1>1, <1>2
    <3>2. r[i - Len(q)] = r[j - Len(q)]
      BY <2>2, <1>1, <1>2
    <3>3. i - Len(q) = j - Len(q)
      BY <3>1, <3>2, InjectivePositions
    <3> QED
      BY <3>3, <1>2
  <2>3. CASE i <= Len(q) /\ ~(j <= Len(q))
    BY <2>3, <1>1, <1>2, <1>3
  <2>4. CASE ~(i <= Len(q)) /\ j <= Len(q)
    BY <2>4, <1>1, <1>2, <1>3
  <2> QED
    BY <2>1, <2>2, <2>3, <2>4
<1>5. ToSet(t) = ToSet(q) \cup ToSet(r)
  <2>1. ASSUME NEW x \in ToSet(t) PROVE x \in ToSet(q) \cup ToSet(r)
    <3>1. PICK i \in 1..Len(t) : t[i] = x
      BY <1>1, MemberPosition
    <3>2. CASE i <= Len(q)
      BY <3>1, <3>2, <1>1, <1>2, MemberPosition
    <3>3. CASE ~(i <= Len(q))
      BY <3>1, <3>3, <1>1, <1>2, MemberPosition
    <3> QED
      BY <3>2, <3>3
  <2>2. ASSUME NEW x \in ToSet(q) PROVE x \in ToSet(t)
    <3>1. PICK i \in 1..Len(q) : q[i] = x
      BY MemberPosition
    <3>2. i \in 1..Len(t) /\ t[i] = x
      BY <3>1, <1>1, <1>2
    <3> QED
      BY <3>2, <1>1, MemberPosition
  <2>3. ASSUME NEW x \in ToSet(r) PROVE x \in ToSet(t)
    <3>1. PICK i \in 1..Len(r) : r[i] = x
      BY MemberPosition
    <3>2. i + Len(q) \in 1..Len(q) + Len(r) /\ ~(i + Len(q) <= Len(q))
          /\ (i + Len(q)) - Len(q) = i
      BY <1>2
    <3>3. i + Len(q) \in 1..Len(t) /\ t[i + Len(q)] = x
      BY <3>1, <3>2, <1>1
    <3> QED
      BY <3>3, <1>1, MemberPosition
  <2> QED
    BY <2>1, <2>2, <2>3
<1> QED
  BY <1>1, <1>4, <1>5 DEF t

(* insertChild: p becomes the first.                                       *)
LEMMA InsertHead ==
  ASSUME NEW S, NEW q \in Seq(S), IsInjective(q), NEW p \in S, p \notin ToSet(q)
  PROVE  /\ <<p>> \o q \in Seq(S)
         /\ IsInjective(<<p>> \o q)
         /\ ToSet(<<p>> \o q) = ToSet(q) \cup {p}
<1> DEFINE o == <<p>>
<1>1. o \in Seq(S) /\ ToSet(o) = {p} /\ IsInjective(o)
  BY DEF ToSet, IsInjective
<1>2. ToSet(o) \cap ToSet(q) = {}
  BY <1>1
<1> HIDE DEF o
<1>3. /\ o \o q \in Seq(S)
      /\ IsInjective(o \o q)
      /\ ToSet(o \o q) = ToSet(o) \cup ToSet(q)
  BY <1>1, <1>2, JoinQueues
<1>4. ToSet(o) \cup ToSet(q) = ToSet(q) \cup {p}
  BY <1>1
<1> QED
  BY <1>3, <1>4 DEF o

(* removeProcQ, removeChild: the head leaves.                              *)
LEMMA RemoveHead ==
  ASSUME NEW S, NEW q \in Seq(S), q # <<>>, IsInjective(q)
  PROVE  /\ Head(q) \in S
         /\ Head(q) \in ToSet(q)
         /\ Head(q) = q[1]
         /\ Tail(q) \in Seq(S)
         /\ IsInjective(Tail(q))
         /\ ToSet(Tail(q)) = ToSet(q) \ {Head(q)}
<1> DEFINE t == Tail(q)
<1>1. /\ Head(q) \in S
      /\ t \in Seq(S)
      /\ Len(t) = Len(q) - 1
      /\ \A i \in 1..Len(t) : t[i] = q[i + 1]
  BY HeadTailProperties
<1>2. Head(q) = q[1] /\ Len(q) \in Nat /\ Len(q) >= 1
  BY MemberPosition
<1> HIDE DEF t
<1>3. \A i, j \in 1..Len(q) : q[i] = q[j] => i = j
  BY InjectivePositions
<1>4. IsInjective(t)
  <2> SUFFICES ASSUME NEW i \in 1..Len(t), NEW j \in 1..Len(t), t[i] = t[j]
               PROVE  i = j
    BY <1>1, InjectivePositions
  <2> QED
    BY <1>1, <1>2, <1>3
<1>5. ToSet(t) = ToSet(q) \ {Head(q)}
  <2>1. ASSUME NEW x \in ToSet(t) PROVE x \in ToSet(q) \ {Head(q)}
    <3>1. PICK i \in 1..Len(t) : t[i] = x
      BY <1>1, MemberPosition
    <3>2. i + 1 \in 1..Len(q) /\ 1 \in 1..Len(q) /\ q[i + 1] = x
      BY <3>1, <1>1, <1>2
    <3> QED
      BY <3>2, <1>2, <1>3, MemberPosition
  <2>2. ASSUME NEW x \in ToSet(q) \ {Head(q)} PROVE x \in ToSet(t)
    <3>1. PICK i \in 1..Len(q) : q[i] = x
      BY MemberPosition
    <3>2. i # 1
      BY <3>1, <1>2
    <3>3. i - 1 \in 1..Len(t) /\ t[i - 1] = x
      BY <3>1, <3>2, <1>1, <1>2
    <3> QED
      BY <3>3, <1>1, MemberPosition
  <2> QED
    BY <2>1, <2>2
<1>6. Head(q) \in ToSet(q)
  BY <1>2, MemberPosition
<1> QED
  BY <1>1, <1>2, <1>4, <1>5, <1>6 DEF t

(* outProcQ, outChild: the position of p is closed, the others keep their  *)
(* order.                                                                  *)
LEMMA TakenOutPositions ==
  ASSUME NEW S, NEW q \in Seq(S), NEW p \in ToSet(q)
  PROVE  \E k \in 1..Len(q) :
           /\ q[k] = p
           /\ TakenOut(q, p) \in Seq(S)
           /\ Len(TakenOut(q, p)) = Len(q) - 1
           /\ \A i \in 1..Len(q) - 1 :
                TakenOut(q, p)[i] = IF i < k THEN q[i] ELSE q[i + 1]
<1> DEFINE k == CHOOSE i \in DOMAIN q : q[i] = p
           a == SubSeq(q, 1, k - 1)
           b == SubSeq(q, k + 1, Len(q))
           t == a \o b
<1>1. /\ Len(q) \in Nat
      /\ DOMAIN q = 1..Len(q)
      /\ \A i \in 1..Len(q) : q[i] \in S
  BY LenProperties, ElementOfSeq
<1>2. k \in 1..Len(q) /\ q[k] = p
  <2>1. \E i \in DOMAIN q : q[i] = p
    BY DEF ToSet
  <2> QED
    BY <2>1, <1>1
<1> HIDE DEF k
<1>3. /\ a \in Seq(S)
      /\ Len(a) = k - 1
      /\ \A i \in 1..k - 1 : a[i] = q[i]
  <2>1. /\ a \in Seq(S)
        /\ Len(a) = IF 1 <= k - 1 THEN (k - 1) - 1 + 1 ELSE 0
        /\ \A i \in 1..(k - 1) - 1 + 1 : a[i] = q[1 + i - 1]
    <3>1. \A i \in 1..k - 1 : q[i] \in S
      BY <1>1, <1>2
    <3>2. 1 \in Int /\ k - 1 \in Int
      BY <1>2
    <3> QED
      BY <3>1, <3>2, SubSeqProperties
  <2> QED
    BY <2>1, <1>1, <1>2
<1>4. /\ b \in Seq(S)
      /\ Len(b) = Len(q) - k
      /\ \A i \in 1..Len(q) - k : b[i] = q[k + i]
  <2>1. /\ b \in Seq(S)
        /\ Len(b) = IF k + 1 <= Len(q) THEN Len(q) - (k + 1) + 1 ELSE 0
        /\ \A i \in 1..Len(q) - (k + 1) + 1 : b[i] = q[k + 1 + i - 1]
    <3>1. \A i \in k + 1..Len(q) : q[i] \in S
      BY <1>1, <1>2
    <3>2. k + 1 \in Int /\ Len(q) \in Int
      BY <1>1, <1>2
    <3> QED
      BY <3>1, <3>2, SubSeqProperties
  <2>0. ASSUME NEW n \in Nat, NEW m \in 1..n
        PROVE  /\ n - (m + 1) + 1 = n - m
               /\ (IF m + 1 <= n THEN n - (m + 1) + 1 ELSE 0) = n - m
               /\ \A i \in 1..n - m : m + 1 + i - 1 = m + i
    OBVIOUS
  <2>2. /\ Len(q) - (k + 1) + 1 = Len(q) - k
        /\ (IF k + 1 <= Len(q) THEN Len(q) - (k + 1) + 1 ELSE 0) = Len(q) - k
        /\ \A i \in 1..Len(q) - k : k + 1 + i - 1 = k + i
    BY <1>1, <1>2, <2>0
  <2> HIDE DEF b
  <2>3. Len(b) = Len(q) - k
    BY <2>1, <2>2
  <2>4. \A i \in 1..Len(q) - k : b[i] = q[k + i]
    BY <2>1, <2>2
  <2> QED
    BY <2>1, <2>3, <2>4
<1> HIDE DEF a, b
<1>5. /\ t \in Seq(S)
      /\ Len(t) = Len(a) + Len(b)
      /\ \A i \in 1..Len(a) + Len(b) : t[i] = IF i <= Len(a) THEN a[i] ELSE b[i - Len(a)]
  BY <1>3, <1>4, ConcatProperties
<1> HIDE DEF t
<1>6. Len(t) = Len(q) - 1
  BY <1>1, <1>2, <1>3, <1>4, <1>5
<1>7. ASSUME NEW i \in 1..Len(q) - 1
      PROVE  t[i] = IF i < k THEN q[i] ELSE q[i + 1]
  <2>1. i \in 1..Len(a) + Len(b)
    BY <1>5, <1>6
  <2>2. CASE i < k
    BY <2>1, <2>2, <1>1, <1>2, <1>3, <1>5
  <2>3. CASE ~(i < k)
    <3>1. /\ i - Len(a) \in 1..Len(q) - k
          /\ k + (i - Len(a)) = i + 1
          /\ ~(i <= Len(a))
      BY <2>3, <1>1, <1>2, <1>3
    <3> QED
      BY <3>1, <2>1, <2>3, <1>4, <1>5
  <2> QED
    BY <2>2, <2>3
<1>8. TakenOut(q, p) = t
  BY DEF TakenOut, RemoveAt, k, a, b, t
<1> QED
  BY <1>2, <1>5, <1>6, <1>7, <1>8

(* outProcQ, outChild: p leaves the queue it is in.                        *)
LEMMA RemoveMember ==
  ASSUME NEW S, NEW q \in Seq(S), IsInjective(q), NEW p \in ToSet(q)
  PROVE  /\ TakenOut(q, p) \in Seq(S)
         /\ IsInjective(TakenOut(q, p))
         /\ ToSet(TakenOut(q, p)) = ToSet(q) \ {p}
         /\ Len(TakenOut(q, p)) = Len(q) - 1
<1> DEFINE t == TakenOut(q, p)
<1>1. Len(q) \in Nat
  BY LenProperties
<1>2. PICK k \in 1..Len(q) :
        /\ q[k] = p
        /\ t \in Seq(S)
        /\ Len(t) = Len(q) - 1
        /\ \A i \in 1..Len(q) - 1 : t[i] = IF i < k THEN q[i] ELSE q[i + 1]
  BY TakenOutPositions
<1> HIDE DEF t
<1>3. \A i, j \in 1..Len(q) : q[i] = q[j] => i = j
  BY InjectivePositions
<1>4. IsInjective(t)
  <2> SUFFICES ASSUME NEW i \in 1..Len(t), NEW j \in 1..Len(t), t[i] = t[j]
               PROVE  i = j
    BY <1>2, InjectivePositions
  <2> QED
    BY <1>1, <1>2, <1>3
<1>5. ToSet(t) = ToSet(q) \ {p}
  <2>1. ASSUME NEW x \in ToSet(t) PROVE x \in ToSet(q) \ {p}
    <3>1. PICK i \in 1..Len(t) : t[i] = x
      BY <1>2, MemberPosition
    <3>2. \E j \in 1..Len(q) : j # k /\ q[j] = x
      BY <3>1, <1>1, <1>2
    <3> QED
      BY <3>2, <1>2, <1>3, MemberPosition
  <2>2. ASSUME NEW x \in ToSet(q) \ {p} PROVE x \in ToSet(t)
    <3>1. PICK i \in 1..Len(q) : q[i] = x
      BY MemberPosition
    <3>2. i # k
      BY <3>1, <1>2
    <3>3. \E j \in 1..Len(t) : t[j] = x
      <4>1. CASE i < k
        BY <4>1, <3>1, <1>1, <1>2
      <4>2. CASE i > k
        <5>1. i - 1 \in 1..Len(t) /\ (i - 1) + 1 = i /\ ~(i - 1 < k)
          BY <4>2, <1>1, <1>2
        <5> QED
          BY <5>1, <3>1, <1>2
      <4> QED
        BY <4>1, <4>2, <3>2
    <3> QED
      BY <3>3, <1>2, MemberPosition
  <2> QED
    BY <2>1, <2>2
<1> QED
  BY <1>2, <1>4, <1>5 DEF t

(* outBlocked: p leaves the queue, perhaps with others.                    *)
LEMMA LeaveQueue ==
  ASSUME NEW S, NEW q \in Seq(S), IsInjective(q), NEW p \in ToSet(q)
  PROVE  /\ QueueAfterOut(q, p) \in Seq(S)
         /\ IsInjective(QueueAfterOut(q, p))
         /\ ToSet(QueueAfterOut(q, p)) \subseteq ToSet(q) \ {p}
<1>1. CASE AfterHead(q) = p
  BY <1>1, EmptyQueue, EmptySeq DEF QueueAfterOut
<1>2. CASE AfterHead(q) # p
  BY <1>2, RemoveMember DEF QueueAfterOut
<1> QED
  BY <1>1, <1>2

(* removeBlocked, which calls outBlocked with the head of the queue, loses *)
(* nobody: the head follows itself only when it is alone.                  *)
LEMMA RemoveBlockedHead ==
  ASSUME NEW S, NEW q \in Seq(S), IsInjective(q), q # <<>>
  PROVE  /\ QueueAfterOut(q, Head(q)) \in Seq(S)
         /\ IsInjective(QueueAfterOut(q, Head(q)))
         /\ ToSet(QueueAfterOut(q, Head(q))) = ToSet(q) \ {Head(q)}
<1>1. Head(q) \in ToSet(q) /\ Head(q) = q[1]
  BY RemoveHead
<1>2. Len(q) \in Nat /\ Len(q) >= 1
  BY MemberPosition
<1>3. CASE Len(q) = 1
  <2>1. \A x \in ToSet(q) : x = Head(q)
    BY <1>1, <1>3, MemberPosition
  <2>2. AfterHead(q) = Head(q)
    BY <1>1, <1>3 DEF AfterHead
  <2> QED
    BY <2>1, <2>2, EmptyQueue, EmptySeq DEF QueueAfterOut
<1>4. CASE Len(q) # 1
  <2>0. \A n \in Nat : n >= 1 /\ n # 1 => 1 \in 1..n /\ 2 \in 1..n
    OBVIOUS
  <2>1. 1 \in 1..Len(q) /\ 2 \in 1..Len(q)
    BY <2>0, <1>2, <1>4
  <2>2. q[2] # q[1]
    BY <2>1, InjectivePositions
  <2>3. AfterHead(q) # Head(q)
    BY <2>2, <1>1, <1>4 DEF AfterHead
  <2> QED
    BY <2>3, <1>1, RemoveMember DEF QueueAfterOut
<1> QED
  BY <1>3, <1>4

(* What removeBlocked leaves is in the order in which it came.             *)
LEMMA RemoveBlockedIsTail ==
  ASSUME NEW S, NEW q \in Seq(S), IsInjective(q), q # <<>>
  PROVE  QueueAfterOut(q, Head(q)) = Tail(q)
<1>1. Len(q) \in Nat /\ Len(q) >= 1 /\ Head(q) = q[1]
  BY MemberPosition, RemoveHead
<1>2. /\ Tail(q) \in Seq(S)
      /\ Len(Tail(q)) = Len(q) - 1
      /\ \A i \in 1..Len(Tail(q)) : Tail(q)[i] = q[i + 1]
  BY HeadTailProperties
<1>3. CASE Len(q) = 1
  <2>1. AfterHead(q) = Head(q)
    BY <1>1, <1>3 DEF AfterHead
  <2>2. Len(Tail(q)) = 0
    BY <1>2, <1>3
  <2>3. Tail(q) = <<>>
    BY <1>2, <2>2, EmptySeq
  <2> QED
    BY <2>1, <2>3 DEF QueueAfterOut
<1>4. CASE Len(q) # 1
  <2>0. \A n \in Nat : n >= 1 /\ n # 1 => 1 \in 1..n /\ 2 \in 1..n
    OBVIOUS
  <2>1. 1 \in 1..Len(q) /\ 2 \in 1..Len(q)
    BY <2>0, <1>1, <1>4
  <2>2. \A i, j \in 1..Len(q) : q[i] = q[j] => i = j
    BY InjectivePositions
  <2>3. AfterHead(q) # Head(q)
    BY <2>1, <2>2, <1>1, <1>4 DEF AfterHead
  <2>4. (CHOOSE i \in DOMAIN q : q[i] = Head(q)) = 1
    <3>1. DOMAIN q = 1..Len(q)
      BY LenProperties
    <3>2. \A i \in DOMAIN q : q[i] = Head(q) <=> i = 1
      BY <3>1, <2>1, <2>2, <1>1
    <3> QED
      BY <3>1, <3>2, <2>1
  <2>5. TakenOut(q, Head(q)) = SubSeq(q, 1, 1 - 1) \o SubSeq(q, 1 + 1, Len(q))
    BY <2>4, Zenon DEF TakenOut, RemoveAt
  <2>6. SubSeq(q, 1, 1 - 1) = <<>>
    BY SubSeqEmpty
  <2>7. SubSeq(q, 1 + 1, Len(q)) = Tail(q)
    BY TailIsSubSeq
  <2>8. <<>> \o Tail(q) = Tail(q)
    BY <1>2, ConcatEmptySeq
  <2> QED
    BY <2>3, <2>5, <2>6, <2>7, <2>8 DEF QueueAfterOut
<1> QED
  BY <1>3, <1>4

(* The number of the processes in a queue is its length.                   *)
LEMMA QueueSize ==
  ASSUME NEW S, NEW q \in Seq(S), IsInjective(q)
  PROVE  IsFiniteSet(ToSet(q)) /\ Cardinality(ToSet(q)) = Len(q)
<1>1. Len(q) \in Nat /\ DOMAIN q = 1..Len(q)
  BY LenProperties
<1>2. q \in [1..Len(q) -> ToSet(q)]
  <2>1. \A i \in 1..Len(q) : q[i] \in ToSet(q)
    BY MemberPosition
  <2>2. q \in [1..Len(q) -> S]
    BY LenProperties
  <2> QED
    BY <2>1, <2>2
<1>3. q \in Bijection(1..Len(q), ToSet(q))
  BY <1>1, <1>2, InjectivePositions, MemberPosition
     DEF Bijection, Injection, Surjection, IsInjective
<1>4. ExistsBijection(1..Len(q), ToSet(q))
  BY <1>3 DEF ExistsBijection
<1> QED
  BY <1>1, <1>4, FS_CountingElements, FS_NatBijection

(* The stack of activations: the return of the innermost one.              *)
LEMMA PopStack ==
  ASSUME NEW S, NEW q \in Seq(S), q # <<>>
  PROVE  /\ Front(q) \in Seq(S)
         /\ Len(Front(q)) = Len(q) - 1
         /\ \A i \in 1..Len(q) - 1 : Front(q)[i] = q[i]
         /\ Last(q) \in S
         /\ Last(q) = q[Len(q)]
         /\ Len(q) \in Nat /\ Len(q) >= 1
<1>1. Len(q) \in Nat /\ Len(q) >= 1
  BY MemberPosition
<1>2. \A i \in 1..Len(q) : q[i] \in S
  BY ElementOfSeq
<1>3. /\ Front(q) \in Seq(S)
      /\ Len(Front(q)) = IF 1 <= Len(q) - 1 THEN (Len(q) - 1) - 1 + 1 ELSE 0
      /\ \A i \in 1..(Len(q) - 1) - 1 + 1 : Front(q)[i] = q[1 + i - 1]
  <2>1. \A i \in 1..Len(q) - 1 : q[i] \in S
    BY <1>1, <1>2
  <2>2. 1 \in Int /\ Len(q) - 1 \in Int
    BY <1>1
  <2> QED
    BY <2>1, <2>2, SubSeqProperties DEF Front
<1>0. ASSUME NEW n \in Nat \ {0}
      PROVE  /\ (n - 1) - 1 + 1 = n - 1
             /\ (IF 1 <= n - 1 THEN (n - 1) - 1 + 1 ELSE 0) = n - 1
             /\ \A i \in 1..n - 1 : 1 + i - 1 = i
             /\ n \in 1..n
  OBVIOUS
<1>4. /\ (Len(q) - 1) - 1 + 1 = Len(q) - 1
      /\ (IF 1 <= Len(q) - 1 THEN (Len(q) - 1) - 1 + 1 ELSE 0) = Len(q) - 1
      /\ \A i \in 1..Len(q) - 1 : 1 + i - 1 = i
      /\ Len(q) \in 1..Len(q)
  <2>1. Len(q) \in Nat \ {0}
    BY <1>1
  <2> QED
    BY <2>1, <1>0
<1>5. Len(Front(q)) = Len(q) - 1
  BY <1>3, <1>4
<1>6. \A i \in 1..Len(q) - 1 : Front(q)[i] = q[i]
  BY <1>3, <1>4
<1>7. Last(q) = q[Len(q)] /\ Last(q) \in S
  BY <1>2, <1>4 DEF Last
<1> QED
  BY <1>1, <1>3, <1>5, <1>6, <1>7

(* The least member of a set of numbers: what stands for induction here.   *)
LEMMA Least ==
  ASSUME NEW T, T \subseteq Nat, T # {}
  PROVE  \E x \in T : \A y \in T : x <= y
<1> DEFINE R == {ss \in Nat \X Nat : ss[1] < ss[2]}
<1>1. IsWellFoundedOn(R, Nat)
  BY NatLessThanWellFounded, Zenon DEF OpToRel
<1> HIDE DEF R
<1>2. PICK x \in T : \A y \in T : ~ (<<y, x>> \in R)
  BY <1>1, WFMin
<1>3. \A y \in T : ~(y < x)
  BY <1>2 DEF R
<1> QED
  BY <1>3

(* A walk of N steps meets one block after the other.                      *)
LEMMA WalkDefined ==
  ASSUME NEW next, NEW x, NEW N \in Nat
  PROVE  \E f : f = [i \in 0..N |-> IF i = 0 THEN x ELSE next[f[i - 1]]]
<1> DEFINE Ok(n) == \E f : f = [i \in 0..n |-> IF i = 0 THEN x ELSE next[f[i - 1]]]
           T == {n \in Nat : ~Ok(n)}
<1> SUFFICES ASSUME T # {} PROVE FALSE
  OBVIOUS
<1>1. PICK n \in T : \A k \in T : n <= k
  BY Least
<1>2. n # 0
  <2> SUFFICES Ok(0)
    OBVIOUS
  <2> WITNESS [i \in 0..0 |-> x]
  <2> QED
    OBVIOUS
<1>3. n - 1 \in Nat /\ n \in Nat
  BY <1>2
<1>4. n - 1 \notin T
  <2> HIDE DEF T
  <2> QED
    BY <1>1, <1>3
<1>5. PICK f : f = [i \in 0..(n - 1) |-> IF i = 0 THEN x ELSE next[f[i - 1]]]
  BY <1>3, <1>4
<1> DEFINE g == [i \in 0..n |-> IF i = n THEN next[f[n - 1]] ELSE f[i]]
<1>6. g = [i \in 0..n |-> IF i = 0 THEN x ELSE next[g[i - 1]]]
  <2>1. ASSUME NEW i \in 0..n
        PROVE  g[i] = IF i = 0 THEN x ELSE next[g[i - 1]]
    <3>1. i # 0 => i - 1 \in 0..n /\ i - 1 # n
      BY <1>3
    <3>2. i # n => i \in 0..(n-1)
      BY <1>3
    <3>3. CASE i = n
      BY <3>1, <3>3, <1>2
    <3>4. CASE i # n
      <4>1. f[i] = IF i = 0 THEN x ELSE next[f[i - 1]]
        BY <1>5, <3>2, <3>4
      <4> QED
        BY <4>1, <3>1, <3>4
    <3> QED
      BY <3>3, <3>4
  <2> QED
    BY <2>1
<1>7. Ok(n)
  BY <1>6
<1> QED
  BY <1>1, <1>7

(* q is what a walk from x to e meets.                                     *)
IsWalk(next, x, e, q) ==
  /\ q \in Seq(DOMAIN next)
  /\ IsInjective(q)
  /\ x = IF q = <<>> THEN e ELSE q[1]
  /\ \A i \in 1..Len(q) :
       /\ q[i] # e
       /\ next[q[i]] = IF i = Len(q) THEN e ELSE q[i + 1]

(* A loop over the blocks meets q and nothing else, whatever the links of  *)
(* the blocks that are not on its way.                                     *)
LEMMA WalkIs ==
  ASSUME NEW next, NEW x, NEW e, NEW q, IsWalk(next, x, e, q), IsFiniteSet(DOMAIN next)
  PROVE  Walk(next, x, e) = q
<1> DEFINE N == Cardinality(DOMAIN next)
           f == CHOOSE f : f = [i \in 0..N |-> IF i = 0 THEN x ELSE next[f[i - 1]]]
           Stop(i) == /\ f[i] = e \/ i = N
                      /\ \A j \in 0..(i - 1) : f[j] # e
           n == CHOOSE i \in 0..N : Stop(i)
<1>1. /\ q \in Seq(DOMAIN next)
      /\ Len(q) \in Nat
      /\ \A i \in 1..Len(q) : q[i] # e /\ next[q[i]] = IF i = Len(q) THEN e ELSE q[i + 1]
      /\ x = IF q = <<>> THEN e ELSE q[1]
  BY LenProperties DEF IsWalk
<1>2. N \in Nat /\ Len(q) <= N
  <2>1. ToSet(q) \subseteq DOMAIN next
    BY <1>1, MemberPosition
  <2>2. IsFiniteSet(ToSet(q)) /\ Cardinality(ToSet(q)) = Len(q)
    BY <1>1, QueueSize DEF IsWalk
  <2>3. Cardinality(ToSet(q)) <= Cardinality(DOMAIN next)
    BY <2>1, FS_Subset
  <2> QED
    BY <2>2, <2>3, FS_CardinalityType
<1> HIDE DEF N
<1>3. f = [i \in 0..N |-> IF i = 0 THEN x ELSE next[f[i - 1]]]
  BY <1>2, WalkDefined
<1> HIDE DEF f
<1>4. \A i \in 0..Len(q) : f[i] = IF i = Len(q) THEN e ELSE q[i + 1]
  <2> DEFINE Is(i) == f[i] = IF i = Len(q) THEN e ELSE q[i + 1]
             T == {i \in Nat : i <= Len(q) /\ ~Is(i)}
  <2> SUFFICES ASSUME T # {} PROVE FALSE
    BY <1>1
  <2>1. PICK k \in T : \A i \in T : k <= i
    BY Least
  <2>2. k \in Nat /\ k <= Len(q) /\ k \in 0..N
    BY <2>1, <1>1, <1>2
  <2>3. k # 0
    <3> SUFFICES Is(0)
      BY <2>1
    <3>1. 0 \in 0..N /\ f[0] = x
      BY <1>2, <1>3
    <3>2. q = <<>> <=> Len(q) = 0
      BY <1>1, EmptySeq
    <3> QED
      BY <3>1, <3>2, <1>1
  <2>4. Is(k - 1)
    <3>1. k - 1 \in Nat /\ k - 1 <= Len(q) /\ ~(k <= k - 1)
      BY <2>2, <2>3, <1>1
    <3>2. k - 1 \notin T
      <4> HIDE DEF T
      <4> QED
        BY <2>1, <3>1
    <3> QED
      BY <3>1, <3>2
  <2>5. f[k] = next[f[k - 1]]
    BY <2>2, <2>3, <1>3
  <2>6. k \in 1..Len(q) /\ k - 1 # Len(q) /\ (k - 1) + 1 = k
    BY <2>2, <2>3, <1>1
  <2>7. Is(k)
    BY <2>4, <2>5, <2>6, <1>1
  <2> QED
    BY <2>1, <2>7
<1>5. n = Len(q)
  <2>1. Len(q) \in 0..N /\ Stop(Len(q))
    BY <1>1, <1>2, <1>4
  <2>2. ASSUME NEW i \in 0..N, Stop(i) PROVE i = Len(q)
    BY <2>2, <1>1, <1>2, <1>4
  <2> HIDE DEF Stop
  <2> QED
    BY <2>1, <2>2
<1>6. Walk(next, x, e) = [i \in 1..n |-> f[i - 1]]
  BY DEF Walk, N, f
<1>7. \A i \in 1..Len(q) : f[i - 1] = q[i]
  BY <1>1, <1>4
<1>8. q = [i \in 1..Len(q) |-> q[i]]
  BY <1>1, LenProperties
<1> QED
  BY <1>5, <1>6, <1>7, <1>8
=============================================================================
