---------------------------- MODULE HoldBackProofs ----------------------------
(***************************************************************************)
(* The hold-back queue, for any clients and any bounds: what is held back  *)
(* once stays held back, the vectors count what was delivered, and without *)
(* duplicates of the network the group chat implements CausalMulticast.    *)
(***************************************************************************)
EXTENDS HoldBack, Lemmas

Vector == [Client -> Nat]

LEMMA MessageFields ==
    ASSUME NEW m \in Message
    PROVE  /\ m.from \in Client /\ m.num \in Nat
           /\ m.deps \in Vector /\ m.blank \in BOOLEAN
  BY DEF Message, Vector

-----------------------------------------------------------------------------
(* The loop of deliver_messages().                                         *)
LEMMA CountedZero ==
    ASSUME NEW counts \in Vector, NEW q
    PROVE  Counted(counts, q, 0) = counts
<1>1. \A d \in Client : {i \in 1 .. 0 : q[i].from = d} = {}
  OBVIOUS
<1>2. Cardinality({}) = 0
  BY FS_EmptySet
<1> QED
  BY <1>1, <1>2 DEF Counted, Vector

LEMMA CountedOne ==
    ASSUME NEW counts \in Vector, NEW q, q[1].from \in Client
    PROVE  Counted(counts, q, 1) = [counts EXCEPT ![q[1].from] = @ + 1]
<1> DEFINE C(d) == {i \in 1 .. 1 : q[i].from = d}
<1>1. \A d \in Client : C(d) = IF q[1].from = d THEN {1} ELSE {}
  OBVIOUS
<1>2. Cardinality({}) = 0 /\ Cardinality({1}) = 1
  BY FS_EmptySet, FS_Singleton
<1>3. \A d \in Client : Cardinality(C(d)) = IF q[1].from = d THEN 1 ELSE 0
  BY <1>1, <1>2
<1>4. Counted(counts, q, 1) = [d \in Client |-> counts[d] + Cardinality(C(d))]
  BY DEF Counted
<1> HIDE DEF C
<1> QED
  BY <1>3, <1>4 DEF Vector

LEMMA DeliverableIs ==
    ASSUME NEW counts \in Vector, NEW q \in Seq(Message)
    PROVE  LET k == Deliverable(counts, q) IN
           /\ k \in 0 .. Len(q)
           /\ \A i \in 1 .. k : NoGreater(q[i].deps, Counted(counts, q, i - 1))
           /\ k < Len(q) => ~NoGreater(q[k + 1].deps, Counted(counts, q, k))
<1> DEFINE Ok(i) == NoGreater(q[i].deps, Counted(counts, q, i - 1))
           K == {k \in 0 .. Len(q) : \A i \in 1 .. k : Ok(i)}
           top == Deliverable(counts, q)
<1>1. top = Max(K) /\ Len(q) \in Nat
  BY DEF Deliverable
<1> HIDE DEF Ok
<1>2. 0 \in K /\ K \in SUBSET (0 .. Len(q))
  BY <1>1
<1>3. top \in K /\ \A k \in K : k <= top
  BY <1>1, <1>2, GreatestExists
<1>4. ASSUME top < Len(q) PROVE ~Ok(top + 1)
  <2> SUFFICES ASSUME Ok(top + 1) PROVE FALSE
    OBVIOUS
  <2>1. top + 1 \in K
    BY <1>1, <1>3, <1>4
  <2> QED
    BY <1>1, <1>3, <2>1
<1>5. (top + 1) - 1 = top
  BY <1>1, <1>3
<1> QED
  BY <1>3, <1>4, <1>5 DEF Ok

-----------------------------------------------------------------------------
(* deliver_messages() stops at the head of the queue, so a queue that is   *)
(* not empty has a head that depends on something not delivered.           *)
HeadHeld ==
    \A c \in Client :
        queue[c] # << >> => ~NoGreater(Head(queue[c]).deps, DELIVERED[c])

(* The three things that handle_group_receive() may do with a message.     *)
Dropped(c) ==
    /\ queue' = [queue EXCEPT ![c] = << >>]
    /\ UNCHANGED <<DELIVERED, log>>

Held(c, m) ==
    /\ ~(queue[c] = << >> /\ NoGreater(m.deps, DELIVERED[c]))
    /\ queue' = [queue EXCEPT ![c] = Append(queue[c], m)]
    /\ UNCHANGED <<DELIVERED, log>>

Delivered(c, m) ==
    /\ queue[c] = << >> /\ NoGreater(m.deps, DELIVERED[c])
    /\ queue' = queue
    /\ DELIVERED' = [DELIVERED EXCEPT ![c] =
                        [DELIVERED[c] EXCEPT ![m.from] = DELIVERED[c][m.from] + 1]]
    /\ log' = [log EXCEPT ![c] = Append(log[c], m)]

Received(c, m) == Dropped(c) \/ Held(c, m) \/ Delivered(c, m)

LEMMA OneAtMost ==
    ASSUME TypeOK, HeadHeld, NEW c \in Client, NEW m \in Message,
           NEW q, q = Append(queue[c], m)
    PROVE  LET k == Deliverable(DELIVERED[c], q) IN
           IF queue[c] = << >> /\ NoGreater(m.deps, DELIVERED[c]) THEN k = 1 ELSE k = 0
<1> DEFINE k == Deliverable(DELIVERED[c], q)
<1>1. queue[c] \in Seq(Message) /\ DELIVERED[c] \in Vector /\ q \in Seq(Message)
  BY DEF TypeOK, Vector
<1>2. /\ k \in 0 .. Len(q)
      /\ \A i \in 1 .. k : NoGreater(q[i].deps, Counted(DELIVERED[c], q, i - 1))
      /\ k < Len(q) => ~NoGreater(q[k + 1].deps, Counted(DELIVERED[c], q, k))
  BY <1>1, DeliverableIs
<1>3. Counted(DELIVERED[c], q, 0) = DELIVERED[c]
  BY <1>1, CountedZero
<1> HIDE DEF k
<1>4. k > 0 => NoGreater(q[1].deps, DELIVERED[c])
  <2> HAVE k > 0
  <2>1. 1 \in 1 .. k /\ 1 - 1 = 0
    BY <1>2
  <2> QED
    BY <1>2, <1>3, <2>1
<1>5. k = 0 => ~NoGreater(q[1].deps, DELIVERED[c])
  <2> HAVE k = 0
  <2>1. k < Len(q) /\ k + 1 = 1
    BY <1>1
  <2> QED
    BY <1>2, <1>3, <2>1
<1>6. CASE queue[c] = << >>
  <2>1. q[1] = m /\ Len(q) = 1
    BY <1>1, <1>6
  <2> QED
    BY <1>2, <1>4, <1>5, <1>6, <2>1 DEF k
<1>7. CASE queue[c] # << >>
  <2>1. q[1] = Head(queue[c])
    BY <1>1, <1>7
  <2> QED
    BY <1>2, <1>4, <1>7, <2>1 DEF k, HeadHeld
<1> QED
  BY <1>6, <1>7

(* The loop never takes more than one message, the one just received.      *)
LEMMA ReceiveCases ==
    ASSUME TypeOK, HeadHeld, NEW c \in Client, NEW m \in Message,
           handle_group_receive(c, m)
    PROVE  Received(c, m)
<1> DEFINE q == Append(queue[c], m)
           k == Deliverable(DELIVERED[c], q)
<1>1. /\ queue[c] \in Seq(Message) /\ DELIVERED[c] \in Vector /\ q \in Seq(Message)
      /\ Len(q) \in Nat /\ m.from \in Client
      /\ queue \in [Client -> Seq(Message)] /\ log \in [Client -> Seq(Message)]
      /\ DELIVERED \in [Client -> Vector]
  BY MessageFields DEF TypeOK, Vector
<1>2. IF queue[c] = << >> /\ NoGreater(m.deps, DELIVERED[c]) THEN k = 1 ELSE k = 0
  BY OneAtMost
<1>3. \/ Dropped(c)
      \/ /\ queue' = [queue EXCEPT ![c] = SubSeq(q, k + 1, Len(q))]
         /\ DELIVERED' = [DELIVERED EXCEPT ![c] = Counted(DELIVERED[c], q, k)]
         /\ log' = [log EXCEPT ![c] = log[c] \o SubSeq(q, 1, k)]
  BY DEF handle_group_receive, append_to_holdback_queue, Dropped
<1>6. q = Append(queue[c], m)
  OBVIOUS
<1> HIDE DEF k, q
<1>4. CASE ~Dropped(c) /\ queue[c] = << >> /\ NoGreater(m.deps, DELIVERED[c])
  <2>1. k = 1
    BY <1>2, <1>4
  <2>2. q = <<m>> /\ q[1] = m /\ Len(q) = 1
    BY <1>4, <1>6
  <2>3. SubSeq(q, 2, 1) = << >>
    BY SubSeqEmpty
  <2>4. SubSeq(q, 1, 1) = q
    BY <1>1, <2>2, SubSeqFull
  <2>5. Counted(DELIVERED[c], q, 1) =
           [DELIVERED[c] EXCEPT ![m.from] = DELIVERED[c][m.from] + 1]
    BY <1>1, <2>2, CountedOne, ZenonT(30)
  <2>6. queue' = [queue EXCEPT ![c] = << >>]
    BY <1>3, <1>4, <2>1, <2>2, <2>3
  <2>7. log' = [log EXCEPT ![c] = Append(log[c], m)]
    <3>1. Append(log[c], m) = log[c] \o <<m>>
      BY <1>1, AppendIsConcat
    <3> QED
      BY <1>3, <1>4, <2>1, <2>2, <2>4, <3>1
  <2>8. DELIVERED' = [DELIVERED EXCEPT ![c] =
                        [DELIVERED[c] EXCEPT ![m.from] = DELIVERED[c][m.from] + 1]]
    BY <1>3, <1>4, <2>1, <2>5
  <2> QED
    BY <1>1, <1>4, <2>6, <2>7, <2>8 DEF Received, Delivered
<1>5. CASE ~Dropped(c) /\ ~(queue[c] = << >> /\ NoGreater(m.deps, DELIVERED[c]))
  <2>1. k = 0
    BY <1>2, <1>5
  <2>2. SubSeq(q, 1, Len(q)) = q /\ SubSeq(q, 1, 0) = << >>
    BY <1>1, SubSeqFull, SubSeqEmpty
  <2>3. queue' = [queue EXCEPT ![c] = Append(queue[c], m)]
    <3>1. k + 1 = 1
      BY <2>1
    <3>2. queue' = [queue EXCEPT ![c] = q]
      BY <1>3, <1>5, <2>2, <3>1
    <3> QED
      BY <1>6, <3>2
  <2>4. log' = log
    <3>1. log' = [log EXCEPT ![c] = log[c] \o << >>]
      BY <1>3, <1>5, <2>1, <2>2
    <3>2. log[c] \o << >> = log[c]
      BY <1>1, ConcatEmptySeq
    <3> QED
      BY <1>1, <3>1, <3>2
  <2>5. DELIVERED' = DELIVERED
    <3>1. Counted(DELIVERED[c], q, 0) = DELIVERED[c]
      BY <1>1, CountedZero
    <3> QED
      BY <1>1, <1>3, <1>5, <2>1, <3>1
  <2> QED
    BY <1>5, <2>3, <2>4, <2>5 DEF Received, Held
<1> QED
  BY <1>4, <1>5 DEF Received
-----------------------------------------------------------------------------
(* The copies of messages at a client: those delivered (l), those held     *)
(* back (q) and those on their way to it (n).                              *)
IdsOf(q) == {IdOf(q[i]) : i \in 1 .. Len(q)}
AllIds(l, q, n) == IdsOf(l) \cup IdsOf(q) \cup IdsOf(n)

(* There are no more copies than messages but for d duplicates.            *)
Few(l, q, n, d) == Len(l) + Len(q) + Len(n) <= Cardinality(AllIds(l, q, n)) + d

Copies == \A c \in Client : Few(log[c], queue[c], net[c], spent.dup)

LEMMA IdsFinite ==
    ASSUME NEW q \in Seq(Message), NEW I \in SUBSET (1 .. Len(q))
    PROVE  LET S == {IdOf(q[i]) : i \in I} IN
           /\ IsFiniteSet(I) /\ IsFiniteSet(S)
           /\ Cardinality(I) \in Nat /\ Cardinality(S) \in Nat
           /\ Cardinality(S) <= Cardinality(I)
<1> DEFINE S == {IdOf(q[i]) : i \in I}
           f == [i \in I |-> IdOf(q[i])]
<1>1. Len(q) \in Nat
  OBVIOUS
<1>2. IsFiniteSet(1 .. Len(q))
  BY <1>1, UpToSize
<1>3. IsFiniteSet(I) /\ Cardinality(I) \in Nat
  BY <1>2, FS_Subset, FS_CardinalityType
<1>4. f \in [I -> S] /\ \A y \in S : \E x \in I : f[x] = y
  OBVIOUS
<1> HIDE DEF f, S
<1>5. IsFiniteSet(S) /\ Cardinality(S) \in Nat /\ Cardinality(S) <= Cardinality(I)
  BY <1>3, <1>4, ImageSize
<1> QED
  BY <1>3, <1>5 DEF S

LEMMA IdsSize ==
    ASSUME NEW q \in Seq(Message)
    PROVE  /\ IsFiniteSet(IdsOf(q)) /\ Cardinality(IdsOf(q)) \in Nat
           /\ Cardinality(IdsOf(q)) <= Len(q)
<1>1. Len(q) \in Nat
  OBVIOUS
<1>2. Cardinality(1 .. Len(q)) = Len(q)
  BY <1>1, UpToSize
<1> QED
  BY <1>2, IdsFinite DEF IdsOf

LEMMA IdsEmpty == IdsOf(<< >>) = {}
  BY DEF IdsOf

LEMMA IdsAppend ==
    ASSUME NEW q \in Seq(Message), NEW m \in Message
    PROVE  IdsOf(Append(q, m)) = IdsOf(q) \cup {IdOf(m)}
<1> DEFINE r == Append(q, m)
<1>1. /\ Len(q) \in Nat /\ Len(r) = Len(q) + 1
      /\ \A i \in 1 .. Len(q) : r[i] = q[i]
      /\ r[Len(q) + 1] = m
  BY AppendProperties
<1> HIDE DEF r
<1>2. \A x : (\E i \in 1 .. Len(r) : x = IdOf(r[i]))
               <=> (\E i \in 1 .. Len(q) : x = IdOf(q[i])) \/ x = IdOf(m)
  BY <1>1
<1> QED
  BY <1>2 DEF IdsOf, r

LEMMA IdsRemove ==
    ASSUME NEW q \in Seq(Message), NEW k \in 1 .. Len(q)
    PROVE  /\ RemoveAt(q, k) \in Seq(Message)
           /\ Len(RemoveAt(q, k)) = Len(q) - 1
           /\ IdsOf(q) = IdsOf(RemoveAt(q, k)) \cup {IdOf(q[k])}
           /\ \A i \in 1 .. Len(q) - 1 : \E j \in 1 .. Len(q) : RemoveAt(q, k)[i] = q[j]
<1> DEFINE r == RemoveAt(q, k)
<1>0. Len(q) \in Nat
  OBVIOUS
<1>1. /\ r \in Seq(Message) /\ Len(r) = Len(q) - 1
      /\ \A i \in 1 .. k-1 : r[i] = q[i]
      /\ \A i \in k .. Len(q) - 1 : r[i] = q[i+1]
  BY RemovedAt
<1> HIDE DEF r
<1>2. \A i \in 1 .. Len(q) - 1 : \E j \in 1 .. Len(q) : r[i] = q[j]
  BY <1>0, <1>1
<1>3. \A i \in 1 .. Len(q) : i = k \/ \E j \in 1 .. Len(r) : r[j] = q[i]
  <2> TAKE i \in 1 .. Len(q)
  <2>1. CASE i < k
    BY <1>0, <1>1, <2>1
  <2>2. CASE i > k
    <3>1. i - 1 \in k .. Len(q) - 1 /\ (i - 1) + 1 = i
      BY <1>0, <1>1, <2>2
    <3>2. r[i - 1] = q[i] /\ i - 1 \in 1 .. Len(r)
      BY <1>0, <1>1, <3>1
    <3> QED
      BY <3>2
  <2> QED
    BY <2>1, <2>2
<1>4. IdsOf(q) = IdsOf(r) \cup {IdOf(q[k])}
  BY <1>1, <1>2, <1>3 DEF IdsOf
<1> QED
  BY <1>1, <1>2, <1>4 DEF r

(* What is taken away with at most r copies had at most r messages.        *)
LEMMA FewerCopies ==
    ASSUME NEW A, NEW B, NEW R, IsFiniteSet(B), IsFiniteSet(R), A \subseteq B \cup R,
           NEW n \in Nat, NEW k \in Nat, NEW r \in Nat, NEW d \in Nat,
           n <= Cardinality(A) + d, Cardinality(R) <= r, k + r <= n
    PROVE  k <= Cardinality(B) + d
<1>1. /\ IsFiniteSet(B \cup R) /\ Cardinality(B \cup R) \in Nat
      /\ Cardinality(B) \in Nat /\ Cardinality(R) \in Nat
      /\ Cardinality(B \cup R) <= Cardinality(B) + Cardinality(R)
  BY UnionSize
<1>2. Cardinality(A) \in Nat /\ Cardinality(A) <= Cardinality(B \cup R)
  BY <1>1, FS_Subset, FS_CardinalityType
<1> QED
  BY <1>1, <1>2

LEMMA CopiesFinite ==
    ASSUME NEW l \in Seq(Message), NEW q \in Seq(Message), NEW n \in Seq(Message)
    PROVE  /\ IsFiniteSet(AllIds(l, q, n)) /\ Cardinality(AllIds(l, q, n)) \in Nat
           /\ Len(l) + Len(q) + Len(n) \in Nat
<1>1. IsFiniteSet(IdsOf(l)) /\ IsFiniteSet(IdsOf(q)) /\ IsFiniteSet(IdsOf(n))
  BY IdsSize
<1>2. IsFiniteSet(AllIds(l, q, n))
  BY <1>1, FS_Union DEF AllIds
<1>3. Len(l) \in Nat /\ Len(q) \in Nat /\ Len(n) \in Nat
  OBVIOUS
<1> QED
  BY <1>2, <1>3, FS_CardinalityType

LEMMA FewKept ==
    ASSUME NEW l \in Seq(Message), NEW q \in Seq(Message), NEW n \in Seq(Message),
           NEW k \in Seq(Message), NEW p \in Seq(Message), NEW o \in Seq(Message),
           NEW d \in Nat, Few(l, q, n, d),
           NEW R, IsFiniteSet(R), NEW r \in Nat, Cardinality(R) <= r,
           AllIds(l, q, n) \subseteq AllIds(k, p, o) \cup R,
           Len(k) + Len(p) + Len(o) + r <= Len(l) + Len(q) + Len(n)
    PROVE  Few(k, p, o, d)
<1> DEFINE A == AllIds(l, q, n)
           B == AllIds(k, p, o)
           was == Len(l) + Len(q) + Len(n)
           is == Len(k) + Len(p) + Len(o)
<1>1. IsFiniteSet(B) /\ is \in Nat /\ was \in Nat
  BY CopiesFinite
<1>2. was <= Cardinality(A) + d
  BY DEF Few
<1>3. A \subseteq B \cup R /\ is + r <= was
  OBVIOUS
<1> HIDE DEF A, B, was, is
<1>4. is <= Cardinality(B) + d
  BY <1>1, <1>2, <1>3, FewerCopies
<1> QED
  BY <1>4 DEF Few, B, is

(* The queue of a client, or what is on its way to it, is lost.            *)
LEMMA FewDropped ==
    ASSUME NEW l \in Seq(Message), NEW q \in Seq(Message), NEW n \in Seq(Message),
           NEW d \in Nat, Few(l, q, n, d)
    PROVE  Few(l, << >>, n, d) /\ Few(l, q, << >>, d)
<1>1. /\ IsFiniteSet(IdsOf(q)) /\ Cardinality(IdsOf(q)) <= Len(q) /\ Len(q) \in Nat
      /\ IsFiniteSet(IdsOf(n)) /\ Cardinality(IdsOf(n)) <= Len(n) /\ Len(n) \in Nat
      /\ Len(l) \in Nat /\ << >> \in Seq(Message)
  BY IdsSize
<1>2. /\ AllIds(l, q, n) \subseteq AllIds(l, << >>, n) \cup IdsOf(q)
      /\ AllIds(l, q, n) \subseteq AllIds(l, q, << >>) \cup IdsOf(n)
  BY DEF AllIds
<1>3. /\ Len(l) + Len(<< >>) + Len(n) + Len(q) <= Len(l) + Len(q) + Len(n)
      /\ Len(l) + Len(q) + Len(<< >>) + Len(n) <= Len(l) + Len(q) + Len(n)
  BY <1>1
<1>4. Few(l, << >>, n, d)
  BY <1>1, <1>2, <1>3, FewKept
<1>5. Few(l, q, << >>, d)
  BY <1>1, <1>2, <1>3, FewKept
<1> QED
  BY <1>4, <1>5

(* A datagram is lost, held back or delivered.                             *)
LEMMA FewTaken ==
    ASSUME NEW l \in Seq(Message), NEW q \in Seq(Message), NEW n \in Seq(Message),
           NEW d \in Nat, Few(l, q, n, d), NEW i \in 1 .. Len(n)
    PROVE  /\ Few(l, q, RemoveAt(n, i), d)
           /\ Few(l, Append(q, n[i]), RemoveAt(n, i), d)
           /\ Few(Append(l, n[i]), q, RemoveAt(n, i), d)
<1> DEFINE o == RemoveAt(n, i)
           R == {IdOf(n[i])}
<1>1. /\ o \in Seq(Message) /\ Len(o) = Len(n) - 1 /\ n[i] \in Message
      /\ IdsOf(n) = IdsOf(o) \cup R
  BY IdsRemove
<1>2. IsFiniteSet(R) /\ Cardinality(R) = 1 /\ IsFiniteSet({}) /\ Cardinality({}) = 0
  BY FS_Singleton, FS_EmptySet
<1>3. Len(l) \in Nat /\ Len(q) \in Nat /\ Len(n) \in Nat
  OBVIOUS
<1> HIDE DEF o
<1>4. Few(l, q, o, d)
  <2>1. AllIds(l, q, n) \subseteq AllIds(l, q, o) \cup R
    BY <1>1 DEF AllIds
  <2>2. Len(l) + Len(q) + Len(o) + 1 <= Len(l) + Len(q) + Len(n)
    BY <1>1, <1>3
  <2>3. 1 \in Nat /\ Cardinality(R) <= 1
    BY <1>2
  <2> HIDE DEF R
  <2> QED
    BY <1>1, <1>2, <2>1, <2>2, <2>3, FewKept
<1>5. Few(l, Append(q, n[i]), o, d)
  <2> DEFINE p == Append(q, n[i])
  <2>1. p \in Seq(Message) /\ Len(p) = Len(q) + 1 /\ IdsOf(p) = IdsOf(q) \cup R
    BY <1>1, IdsAppend, AppendProperties
  <2> HIDE DEF p, R
  <2>2. AllIds(l, q, n) \subseteq AllIds(l, p, o) \cup {}
    BY <1>1, <2>1 DEF AllIds
  <2>3. Len(l) + Len(p) + Len(o) + 0 <= Len(l) + Len(q) + Len(n)
    BY <1>1, <1>3, <2>1
  <2>4. 0 \in Nat /\ Cardinality({}) <= 0
    BY <1>2
  <2>5. Few(l, p, o, d)
    BY <1>1, <1>2, <2>1, <2>2, <2>3, <2>4, FewKept
  <2> QED
    BY <2>5 DEF p
<1>6. Few(Append(l, n[i]), q, o, d)
  <2> DEFINE k == Append(l, n[i])
  <2>1. k \in Seq(Message) /\ Len(k) = Len(l) + 1 /\ IdsOf(k) = IdsOf(l) \cup R
    BY <1>1, IdsAppend, AppendProperties
  <2> HIDE DEF k, R
  <2>2. AllIds(l, q, n) \subseteq AllIds(k, q, o) \cup {}
    BY <1>1, <2>1 DEF AllIds
  <2>3. Len(k) + Len(q) + Len(o) + 0 <= Len(l) + Len(q) + Len(n)
    BY <1>1, <1>3, <2>1
  <2>4. 0 \in Nat /\ Cardinality({}) <= 0
    BY <1>2
  <2>5. Few(k, q, o, d)
    BY <1>1, <1>2, <2>1, <2>2, <2>3, <2>4, FewKept
  <2> QED
    BY <2>5 DEF k
<1> QED
  BY <1>4, <1>5, <1>6 DEF o

(* A message is sent for the first time, or comes again.                   *)
LEMMA FewAppended ==
    ASSUME NEW l \in Seq(Message), NEW q \in Seq(Message), NEW n \in Seq(Message),
           NEW d \in Nat, Few(l, q, n, d), NEW m \in Message
    PROVE  /\ IdOf(m) \notin AllIds(l, q, n) => Few(l, q, Append(n, m), d)
           /\ IdOf(m) \in AllIds(l, q, n) => Few(l, q, Append(n, m), d + 1)
<1> DEFINE o == Append(n, m)
           A == AllIds(l, q, n)
           B == AllIds(l, q, o)
<1>1. o \in Seq(Message) /\ Len(o) = Len(n) + 1 /\ IdsOf(o) = IdsOf(n) \cup {IdOf(m)}
  BY IdsAppend, AppendProperties
<1>2. Len(l) \in Nat /\ Len(q) \in Nat /\ Len(n) \in Nat
  OBVIOUS
<1>3. IsFiniteSet(A) /\ Cardinality(A) \in Nat
  BY CopiesFinite
<1>4. B = A \cup {IdOf(m)}
  BY <1>1 DEF AllIds
<1>5. Len(l) + Len(q) + Len(n) <= Cardinality(A) + d
  BY DEF Few
<1> HIDE DEF o, A, B
<1>6. ASSUME IdOf(m) \notin A PROVE Few(l, q, o, d)
  <2>1. Cardinality(B) = Cardinality(A) + 1
    BY <1>3, <1>4, <1>6, FS_AddElement
  <2> QED
    BY <1>1, <1>2, <1>3, <1>5, <2>1 DEF Few, B
<1>7. ASSUME IdOf(m) \in A PROVE Few(l, q, o, d + 1)
  <2>1. B = A
    BY <1>4, <1>7
  <2> QED
    BY <1>1, <1>2, <1>3, <1>5, <2>1 DEF Few, B
<1> QED
  BY <1>6, <1>7 DEF o, A

LEMMA FewMore ==
    ASSUME NEW l \in Seq(Message), NEW q \in Seq(Message), NEW n \in Seq(Message),
           NEW d \in Nat, Few(l, q, n, d)
    PROVE  Few(l, q, n, d + 1)
<1> DEFINE k == Cardinality(AllIds(l, q, n))
           was == Len(l) + Len(q) + Len(n)
<1>1. k \in Nat /\ was \in Nat
  BY CopiesFinite
<1>2. was <= k + d
  BY DEF Few
<1> HIDE DEF k, was
<1>3. was <= k + (d + 1)
  BY <1>1, <1>2
<1> QED
  BY <1>3 DEF Few, k, was

(* Without duplicates, what is on its way has not been delivered.          *)
LEMMA NotTwice ==
    ASSUME NEW l \in Seq(Message), NEW n \in Seq(Message),
           Few(l, << >>, n, 0), NEW i \in 1 .. Len(n)
    PROVE  IdOf(n[i]) \notin IdsOf(l)
<1> SUFFICES ASSUME IdOf(n[i]) \in IdsOf(l) PROVE FALSE
  OBVIOUS
<1> DEFINE o == RemoveAt(n, i)
<1>1. o \in Seq(Message) /\ Len(o) = Len(n) - 1 /\ IdsOf(n) = IdsOf(o) \cup {IdOf(n[i])}
  BY IdsRemove
<1>2. Len(l) \in Nat /\ Len(n) \in Nat
  OBVIOUS
<1> HIDE DEF o
<1>3. AllIds(l, << >>, n) = IdsOf(l) \cup IdsOf(o)
  BY <1>1, IdsEmpty DEF AllIds
<1>4. /\ Cardinality(IdsOf(l)) \in Nat /\ Cardinality(IdsOf(l)) <= Len(l)
      /\ Cardinality(IdsOf(o)) \in Nat /\ Cardinality(IdsOf(o)) <= Len(o)
      /\ IsFiniteSet(IdsOf(l)) /\ IsFiniteSet(IdsOf(o))
  BY <1>1, IdsSize
<1>5. /\ Cardinality(IdsOf(l) \cup IdsOf(o)) \in Nat
      /\ Cardinality(IdsOf(l) \cup IdsOf(o)) <= Cardinality(IdsOf(l)) + Cardinality(IdsOf(o))
  BY <1>4, UnionSize
<1>6. Len(l) + 0 + Len(n) <= Cardinality(IdsOf(l) \cup IdsOf(o)) + 0
  BY <1>3 DEF Few
<1> QED
  BY <1>1, <1>2, <1>4, <1>5, <1>6

-----------------------------------------------------------------------------
(* What is on its way, held back or delivered has been sent.               *)
Known ==
    \A c \in Client :
        /\ \A i \in 1 .. Len(net[c]) : net[c][i] \in sent
        /\ \A i \in 1 .. Len(queue[c]) : queue[c][i] \in sent
        /\ \A i \in 1 .. Len(log[c]) : log[c][i] \in sent

(* The messages of a client are numbered from 0 to SEND_SEQ - 1.           *)
SentOnce ==
    /\ \A m \in sent : m.num = m.deps[m.from] /\ m.num < SEND_SEQ[m.from]
    /\ \A c \in Client : \A k \in 0 .. SEND_SEQ[c] - 1 : \E m \in sent : IdOf(m) = <<c, k>>
    /\ \A m, n \in sent : IdOf(m) = IdOf(n) => m = n

FromUpTo(l, d, k) == {i \in 1 .. k : l[i].from = d}

(* DELIVERED counts deliveries.                                            *)
CountsOf(counts, l) ==
    \A d \in Client : counts[d] = Cardinality(FromUpTo(l, d, Len(l)))
Counts == \A c \in Client : CountsOf(DELIVERED[c], log[c])

(* Without duplicates it says which messages they were.                    *)
IdsUpTo(counts, l) ==
    \A d \in Client : \A k \in Nat : <<d, k>> \in IdsOf(l) <=> k < counts[d]
LogIds == spent.dup = 0 => \A c \in Client : IdsUpTo(DELIVERED[c], log[c])

InSequence(l) ==
    \A i \in DOMAIN l : l[i].num = Cardinality(FromUpTo(l, l[i].from, i - 1))

LEMMA NoGapIs == NoGap <=> (spent.dup = 0 => \A c \in Client : InSequence(log[c]))
  BY DEF NoGap, InSequence, FromUpTo

IInv ==
    /\ TypeOK /\ HeadHeld /\ Known /\ SentOnce
    /\ Counts /\ Copies /\ LogIds /\ NoGap

(* One more delivery.                                                      *)
LEMMA FromAppended ==
    ASSUME NEW l \in Seq(Message), NEW m \in Message, NEW d \in Client
    PROVE  /\ \A k \in 0 .. Len(l) : FromUpTo(Append(l, m), d, k) = FromUpTo(l, d, k)
           /\ Cardinality(FromUpTo(Append(l, m), d, Len(l) + 1)) =
                 Cardinality(FromUpTo(l, d, Len(l))) + (IF m.from = d THEN 1 ELSE 0)
           /\ Cardinality(FromUpTo(l, d, Len(l))) \in Nat
<1> DEFINE k == Append(l, m)
           A == FromUpTo(l, d, Len(l))
           B == FromUpTo(k, d, Len(l) + 1)
<1>1. /\ Len(l) \in Nat /\ Len(k) = Len(l) + 1
      /\ \A i \in 1 .. Len(l) : k[i] = l[i]
      /\ k[Len(l) + 1] = m
  BY AppendProperties
<1> HIDE DEF k
<1>2. \A j \in 0 .. Len(l) : FromUpTo(k, d, j) = FromUpTo(l, d, j)
  BY <1>1 DEF FromUpTo
<1>3. A \in SUBSET (1 .. Len(l))
  BY DEF FromUpTo
<1>4. IsFiniteSet(A) /\ Cardinality(A) \in Nat
  BY <1>1, <1>3, UpToSize, FS_Subset, FS_CardinalityType
<1>5. B = IF m.from = d THEN A \cup {Len(l) + 1} ELSE A
  <2>1. \A i : i \in B <=> i \in A \/ (i = Len(l) + 1 /\ m.from = d)
    BY <1>1 DEF FromUpTo
  <2> HIDE DEF A, B
  <2> QED
    BY <2>1
<1>6. Len(l) + 1 \notin A
  BY <1>1, <1>3
<1> HIDE DEF A
<1>7. Cardinality(A \cup {Len(l) + 1}) = Cardinality(A) + 1
  BY <1>4, <1>6, FS_AddElement
<1> HIDE DEF B
<1>8. Cardinality(B) = Cardinality(A) + (IF m.from = d THEN 1 ELSE 0)
  BY <1>4, <1>5, <1>7
<1> QED
  BY <1>2, <1>4, <1>8 DEF A, B, k

LEMMA CountsAppended ==
    ASSUME NEW l \in Seq(Message), NEW m \in Message, NEW counts \in Vector,
           CountsOf(counts, l)
    PROVE  CountsOf([counts EXCEPT ![m.from] = counts[m.from] + 1], Append(l, m))
<1> SUFFICES ASSUME NEW d \in Client
             PROVE  [counts EXCEPT ![m.from] = counts[m.from] + 1][d] =
                       Cardinality(FromUpTo(Append(l, m), d, Len(Append(l, m))))
  BY DEF CountsOf
<1>1. Len(Append(l, m)) = Len(l) + 1
  BY AppendProperties
<1>2. Cardinality(FromUpTo(Append(l, m), d, Len(l) + 1)) =
         Cardinality(FromUpTo(l, d, Len(l))) + (IF m.from = d THEN 1 ELSE 0)
  BY FromAppended
<1>3. counts[d] = Cardinality(FromUpTo(l, d, Len(l))) /\ counts[d] \in Nat
  BY DEF CountsOf, Vector
<1>4. [counts EXCEPT ![m.from] = counts[m.from] + 1][d] =
         IF m.from = d THEN counts[d] + 1 ELSE counts[d]
  BY DEF Vector
<1> QED
  BY <1>1, <1>2, <1>3, <1>4

(* A message that depends on no more than is delivered, and is not         *)
(* delivered itself, is the next one of its sender.                        *)
LEMMA NextOne ==
    ASSUME NEW l \in Seq(Message), NEW m \in Message, NEW counts \in Vector,
           IdsUpTo(counts, l), m.num = m.deps[m.from], NoGreater(m.deps, counts),
           IdOf(m) \notin IdsOf(l)
    PROVE  m.num = counts[m.from]
<1>1. m.from \in Client /\ m.num \in Nat
  BY MessageFields
<1>2. m.num <= counts[m.from] /\ counts[m.from] \in Nat
  BY <1>1 DEF NoGreater, Vector
<1>3. ~(m.num < counts[m.from])
  BY <1>1 DEF IdsUpTo, IdOf
<1> QED
  BY <1>1, <1>2, <1>3

LEMMA IdsUpToAppended ==
    ASSUME NEW l \in Seq(Message), NEW m \in Message, NEW counts \in Vector,
           IdsUpTo(counts, l), m.num = counts[m.from]
    PROVE  IdsUpTo([counts EXCEPT ![m.from] = counts[m.from] + 1], Append(l, m))
<1> DEFINE next == [counts EXCEPT ![m.from] = counts[m.from] + 1]
<1> SUFFICES ASSUME NEW d \in Client, NEW k \in Nat
             PROVE  <<d, k>> \in IdsOf(Append(l, m)) <=> k < next[d]
  BY DEF IdsUpTo
<1>1. IdsOf(Append(l, m)) = IdsOf(l) \cup {<<m.from, m.num>>}
  BY IdsAppend DEF IdOf
<1>2. <<d, k>> \in IdsOf(l) <=> k < counts[d]
  BY DEF IdsUpTo
<1>3. counts[d] \in Nat /\ next[d] = IF m.from = d THEN counts[d] + 1 ELSE counts[d]
  BY DEF Vector
<1> HIDE DEF next
<1>4. <<d, k>> = <<m.from, m.num>> <=> d = m.from /\ k = m.num
  OBVIOUS
<1> QED
  BY <1>1, <1>2, <1>3, <1>4

LEMMA InSequenceAppended ==
    ASSUME NEW l \in Seq(Message), NEW m \in Message, InSequence(l),
           m.num = Cardinality(FromUpTo(l, m.from, Len(l)))
    PROVE  InSequence(Append(l, m))
<1> DEFINE k == Append(l, m)
<1>1. /\ Len(l) \in Nat /\ Len(k) = Len(l) + 1 /\ k \in Seq(Message)
      /\ \A i \in 1 .. Len(l) : k[i] = l[i]
      /\ k[Len(l) + 1] = m
  BY AppendProperties
<1>2. m.from \in Client /\ \A i \in 1 .. Len(l) : l[i].from \in Client
  BY MessageFields
<1>3. \A d \in Client : \A j \in 0 .. Len(l) : FromUpTo(k, d, j) = FromUpTo(l, d, j)
  BY FromAppended
<1> HIDE DEF k
<1> SUFFICES ASSUME NEW i \in 1 .. Len(l) + 1
             PROVE  k[i].num = Cardinality(FromUpTo(k, k[i].from, i - 1))
  BY <1>1 DEF InSequence, k
<1>4. CASE i = Len(l) + 1
  <2>1. i - 1 = Len(l) /\ Len(l) \in 0 .. Len(l)
    BY <1>1, <1>4
  <2> QED
    BY <1>1, <1>2, <1>3, <1>4, <2>1
<1>5. CASE i # Len(l) + 1
  <2>1. i \in 1 .. Len(l) /\ i - 1 \in 0 .. Len(l)
    BY <1>1, <1>5
  <2>2. l[i].num = Cardinality(FromUpTo(l, l[i].from, i - 1))
    BY <2>1 DEF InSequence
  <2> QED
    BY <1>1, <1>2, <1>3, <2>1, <2>2
<1> QED
  BY <1>4, <1>5

LEMMA Types ==
    ASSUME TypeOK
    PROVE  /\ spent.dup \in Nat
           /\ \A c \in Client : /\ net[c] \in Seq(Message) /\ queue[c] \in Seq(Message)
                                 /\ log[c] \in Seq(Message) /\ DELIVERED[c] \in Vector
                                 /\ SEND_SEQ[c] \in Nat
<1>1. spent.dup \in Nat
  BY BoundAssumption DEF TypeOK
<1>2. \A c \in Client : /\ net[c] \in Seq(Message) /\ queue[c] \in Seq(Message)
                        /\ log[c] \in Seq(Message) /\ DELIVERED[c] \in Vector
                        /\ SEND_SEQ[c] \in Nat
  BY BoundAssumption DEF TypeOK, Vector
<1> QED
  BY <1>1, <1>2

Spent == [blank : 0 .. MaxBlank, reorder : 0 .. MaxReorder,
          loss : 0 .. MaxLoss, dup : 0 .. MaxDup]

LEMMA SpentGrows ==
    ASSUME NEW s \in Spent
    PROVE  /\ s.blank < MaxBlank => [s EXCEPT !.blank = @ + 1] \in Spent
           /\ s.reorder < MaxReorder => [s EXCEPT !.reorder = @ + 1] \in Spent
           /\ s.loss < MaxLoss => [s EXCEPT !.loss = @ + 1] \in Spent
           /\ s.dup < MaxDup => [s EXCEPT !.dup = @ + 1] \in Spent
<1>1. /\ MaxBlank \in Nat /\ MaxReorder \in Nat /\ MaxLoss \in Nat /\ MaxDup \in Nat
  BY BoundAssumption
<1>2. s.blank < MaxBlank => s.blank + 1 \in 0 .. MaxBlank
  BY <1>1 DEF Spent
<1>3. s.reorder < MaxReorder => s.reorder + 1 \in 0 .. MaxReorder
  BY <1>1 DEF Spent
<1>4. s.loss < MaxLoss => s.loss + 1 \in 0 .. MaxLoss
  BY <1>1 DEF Spent
<1>5. s.dup < MaxDup => s.dup + 1 \in 0 .. MaxDup
  BY <1>1 DEF Spent
<1> QED
  BY <1>2, <1>3, <1>4, <1>5 DEF Spent

LEMMA LogKept ==
    ASSUME Counts, LogIds, NoGap, UNCHANGED <<DELIVERED, log>>,
           spent'.dup = 0 => spent.dup = 0
    PROVE  Counts' /\ LogIds' /\ NoGap'
<1>1. Counts'
  BY DEF Counts
<1>2. LogIds'
  BY DEF LogIds
<1>3. NoGap'
  BY DEF NoGap
<1> QED
  BY <1>1, <1>2, <1>3

LEMMA SentKept ==
    ASSUME SentOnce, UNCHANGED <<sent, SEND_SEQ>>
    PROVE  SentOnce'
  BY DEF SentOnce, IdOf

LEMMA InitIInv == Init => IInv
<1> SUFFICES ASSUME Init PROVE IInv
  OBVIOUS
<1> USE DEF Init
<1>1. TypeOK
  BY BoundAssumption DEF TypeOK
<1>2. HeadHeld /\ Known
  BY DEF HeadHeld, Known
<1>3. SentOnce
  BY DEF SentOnce
<1>4. \A c, d \in Client : FromUpTo(log[c], d, Len(log[c])) = {}
  BY DEF FromUpTo
<1>5. Counts
  BY <1>4, FS_EmptySet DEF Counts, CountsOf
<1>6. Copies
  <2>1. << >> \in Seq(Message)
    OBVIOUS
  <2>2. Cardinality(AllIds(<< >>, << >>, << >>)) \in Nat
    BY <2>1, CopiesFinite
  <2> QED
    BY <2>2 DEF Copies, Few
<1>7. LogIds
  BY IdsEmpty DEF LogIds, IdsUpTo
<1>8. NoGap
  BY DEF NoGap
<1> QED
  BY <1>1, <1>2, <1>3, <1>5, <1>6, <1>7, <1>8 DEF IInv
-----------------------------------------------------------------------------
LEMMA JoinKeeps ==
    ASSUME IInv, NEW c \in Client, Join(c)
    PROVE  IInv'
<1> USE DEF Join
<1>1. TypeOK'
  BY DEF IInv, TypeOK
<1>2. HeadHeld' /\ Known' /\ SentOnce'
  BY SentKept DEF IInv, HeadHeld, NoGreater, Known
<1>3. Counts' /\ LogIds' /\ NoGap'
  BY LogKept DEF IInv
<1>4. Copies'
  BY DEF IInv, Copies
<1> QED
  BY <1>1, <1>2, <1>3, <1>4 DEF IInv

LEMMA LeaveKeeps ==
    ASSUME IInv, NEW c \in Client, Leave(c)
    PROVE  IInv'
<1>1. /\ status' \in [Client -> {"out", "in", "gone"}]
      /\ queue' = [queue EXCEPT ![c] = << >>] /\ net' = [net EXCEPT ![c] = << >>]
      /\ UNCHANGED <<SEND_SEQ, DELIVERED, sent, log, spent>>
  BY DEF Leave, IInv, TypeOK
<1>2. /\ net \in [Client -> Seq(Message)] /\ queue \in [Client -> Seq(Message)]
      /\ log \in [Client -> Seq(Message)]
  BY DEF IInv, TypeOK
<1>3. /\ queue'[c] = << >> /\ net'[c] = << >> /\ log'[c] = log[c]
      /\ \A d \in Client \ {c} :
           log'[d] = log[d] /\ queue'[d] = queue[d] /\ net'[d] = net[d]
  BY <1>1, <1>2
<1>4. TypeOK'
  BY <1>1 DEF IInv, TypeOK
<1>5. HeadHeld'
  BY <1>1, <1>3 DEF IInv, HeadHeld, NoGreater
<1>6. Known' /\ SentOnce'
  BY <1>1, <1>3, SentKept DEF IInv, Known
<1>7. Counts' /\ LogIds' /\ NoGap'
  BY <1>1, LogKept DEF IInv
<1>8. Copies'
  <2> SUFFICES ASSUME NEW d \in Client
               PROVE  Few(log'[d], queue'[d], net'[d], spent'.dup)
    BY DEF Copies
  <2>1. Few(log[d], queue[d], net[d], spent.dup) /\ << >> \in Seq(Message)
    BY DEF IInv, Copies
  <2>2. Few(log[d], << >>, net[d], spent.dup)
    BY <2>1, Types, FewDropped DEF IInv
  <2>3. Few(log[d], << >>, << >>, spent.dup)
    BY <2>1, <2>2, Types, FewDropped DEF IInv
  <2> QED
    BY <1>1, <1>3, <2>1, <2>3
<1> QED
  BY <1>4, <1>5, <1>6, <1>7, <1>8 DEF IInv

(* A datagram is taken from the network.                                   *)
LEMMA Taken ==
    ASSUME TypeOK, NEW c \in Client, NEW i \in DOMAIN net[c], Take(c, i)
    PROVE  /\ i \in 1 .. Len(net[c]) /\ net[c][i] \in Message
           /\ net' \in [Client -> Seq(Message)]
           /\ net'[c] = RemoveAt(net[c], i)
           /\ \A d \in Client \ {c} : net'[d] = net[d]
           /\ \A j \in 1 .. Len(net'[c]) : \E k \in 1 .. Len(net[c]) : net'[c][j] = net[c][k]
<1>1. net \in [Client -> Seq(Message)]
  BY DEF TypeOK
<1>2. i \in 1 .. Len(net[c]) /\ net[c] \in Seq(Message) /\ net[c][i] \in Message
  BY <1>1
<1> DEFINE r == RemoveAt(net[c], i)
<1>4. /\ r \in Seq(Message)
      /\ Len(r) = Len(net[c]) - 1
      /\ \A j \in 1 .. Len(net[c]) - 1 : \E k \in 1 .. Len(net[c]) : r[j] = net[c][k]
  BY <1>2, IdsRemove
<1>5. net' = [net EXCEPT ![c] = r]
  BY DEF Take
<1> HIDE DEF r
<1>6. net' \in [Client -> Seq(Message)] /\ net'[c] = r
  BY <1>1, <1>4, <1>5
<1>7. \A d \in Client \ {c} : net'[d] = net[d]
  BY <1>1, <1>5
<1> QED
  BY <1>2, <1>4, <1>6, <1>7 DEF r

(* A datagram is lost.                                                     *)
LEMMA LoseKeeps ==
    ASSUME IInv, NEW c \in Client, NEW i \in DOMAIN net[c], Lose(c, i)
    PROVE  IInv'
<1>1. /\ spent.loss < MaxLoss /\ spent' = [spent EXCEPT !.loss = @ + 1]
      /\ Take(c, i)
      /\ UNCHANGED <<status, SEND_SEQ, DELIVERED, queue, sent, log>>
  BY DEF Lose
<1>2. /\ i \in 1 .. Len(net[c])
      /\ net' \in [Client -> Seq(Message)]
      /\ net'[c] = RemoveAt(net[c], i)
      /\ \A d \in Client \ {c} : net'[d] = net[d]
      /\ \A j \in 1 .. Len(net'[c]) : \E k \in 1 .. Len(net[c]) : net'[c][j] = net[c][k]
  BY <1>1, Taken DEF IInv
<1>3. spent \in Spent
  BY DEF IInv, TypeOK, Spent
<1>4. TypeOK'
  <2>1. spent' \in Spent
    BY <1>1, <1>3, SpentGrows
  <2> QED
    BY <1>1, <1>2, <2>1 DEF IInv, TypeOK, Spent
<1>5. HeadHeld' /\ SentOnce'
  BY <1>1, SentKept DEF IInv, HeadHeld, NoGreater
<1>6. Known'
  BY <1>1, <1>2, SMTT(30) DEF IInv, Known
<1>7. spent'.dup = spent.dup
  BY <1>1 DEF IInv, TypeOK
<1>8. Counts' /\ LogIds' /\ NoGap'
  BY <1>1, <1>7, LogKept DEF IInv
<1>9. Copies'
  <2> SUFFICES ASSUME NEW d \in Client
               PROVE  Few(log'[d], queue'[d], net'[d], spent'.dup)
    BY DEF Copies
  <2>1. Few(log[d], queue[d], net[d], spent.dup)
    BY DEF IInv, Copies
  <2>2. d = c => Few(log[d], queue[d], RemoveAt(net[d], i), spent.dup)
    BY <1>2, <2>1, Types, FewTaken DEF IInv
  <2> QED
    BY <1>1, <1>2, <1>7, <2>1, <2>2
<1> QED
  BY <1>4, <1>5, <1>6, <1>8, <1>9 DEF IInv

(* A datagram comes again.                                                 *)
LEMMA DuplicateKeeps ==
    ASSUME IInv, NEW c \in Client, NEW i \in DOMAIN net[c], Duplicate(c, i)
    PROVE  IInv'
<1>1. /\ spent.dup < MaxDup /\ spent' = [spent EXCEPT !.dup = @ + 1]
      /\ net' = [net EXCEPT ![c] = Append(net[c], net[c][i])]
      /\ UNCHANGED <<status, SEND_SEQ, DELIVERED, queue, sent, log>>
  BY DEF Duplicate
<1>2. net \in [Client -> Seq(Message)] /\ spent \in Spent /\ spent.dup \in Nat
  BY Types DEF IInv, TypeOK, Spent
<1>3. i \in 1 .. Len(net[c]) /\ net[c] \in Seq(Message) /\ net[c][i] \in Message
  BY <1>2
<1> DEFINE m == net[c][i]
           o == Append(net[c], m)
<1>4. /\ o \in Seq(Message) /\ Len(net[c]) \in Nat /\ Len(o) = Len(net[c]) + 1
      /\ \A j \in 1 .. Len(net[c]) : o[j] = net[c][j]
      /\ o[Len(net[c]) + 1] = m
  BY <1>3, AppendProperties
<1>5. /\ net' \in [Client -> Seq(Message)] /\ net'[c] = o
      /\ \A d \in Client \ {c} : net'[d] = net[d]
  BY <1>1, <1>2, <1>4
<1>6. TypeOK'
  <2>1. spent' \in Spent
    BY <1>1, <1>2, SpentGrows
  <2> QED
    BY <1>1, <1>5, <2>1 DEF IInv, TypeOK, Spent
<1>7. HeadHeld' /\ SentOnce'
  BY <1>1, SentKept DEF IInv, HeadHeld, NoGreater
<1>8. Known'
  <2> HIDE DEF o
  <2>1. \A j \in 1 .. Len(o) : o[j] \in sent
    BY <1>3, <1>4, SMTT(30) DEF IInv, Known
  <2> QED
    BY <1>1, <1>5, <2>1 DEF IInv, Known
<1>9. spent'.dup = spent.dup + 1
  BY <1>1, <1>2 DEF Spent
<1>10. Counts' /\ LogIds' /\ NoGap'
  BY <1>1, <1>2, <1>9, LogKept DEF IInv
<1>11. Copies'
  <2> SUFFICES ASSUME NEW d \in Client
               PROVE  Few(log'[d], queue'[d], net'[d], spent'.dup)
    BY DEF Copies
  <2>1. Few(log[d], queue[d], net[d], spent.dup)
    BY DEF IInv, Copies
  <2>2. CASE d = c
    <3>1. IdOf(m) \in AllIds(log[c], queue[c], net[c])
      BY <1>3 DEF AllIds, IdsOf
    <3>2. Few(log[c], queue[c], o, spent.dup + 1)
      BY <1>2, <1>3, <2>1, <2>2, <3>1, Types, FewAppended DEF IInv
    <3> QED
      BY <1>1, <1>5, <1>9, <2>2, <3>2
  <2>3. CASE d # c
    <3>2. Few(log[d], queue[d], net[d], spent.dup + 1)
      BY <1>2, <2>1, Types, FewMore DEF IInv
    <3> QED
      BY <1>1, <1>5, <1>9, <2>3, <3>2
  <2> QED
    BY <2>2, <2>3
<1> QED
  BY <1>6, <1>7, <1>8, <1>10, <1>11 DEF IInv

(* A message is sent.                                                      *)
NewMessage(c, b) ==
    [from |-> c, num |-> SEND_SEQ[c], deps |-> DEPENDENCY(c), blank |-> b]

LEMMA NewMessageIs ==
    ASSUME IInv, NEW c \in Client, NEW b \in BOOLEAN
    PROVE  LET m == NewMessage(c, b) IN
           /\ m \in Message /\ m.from = c /\ m.num = SEND_SEQ[c] /\ m.num = m.deps[m.from]
           /\ \A n \in sent : IdOf(n) # IdOf(m)
           /\ \A d \in Client : IdOf(m) \notin AllIds(log[d], queue[d], net[d])
<1> DEFINE m == NewMessage(c, b)
<1>1. DELIVERED[c] \in Vector /\ SEND_SEQ[c] \in Nat
  BY Types DEF IInv
<1>2. DEPENDENCY(c) \in Vector /\ DEPENDENCY(c)[c] = SEND_SEQ[c]
  BY <1>1 DEF DEPENDENCY, Vector
<1>3. m \in Message
  BY <1>1, <1>2 DEF NewMessage, Message, Vector
<1>4. m.from = c /\ m.num = SEND_SEQ[c] /\ m.deps = DEPENDENCY(c)
  BY DEF NewMessage
<1> HIDE DEF m
<1>5. \A n \in sent : IdOf(n) # IdOf(m)
  <2> SUFFICES ASSUME NEW n \in sent, IdOf(n) = IdOf(m) PROVE FALSE
    OBVIOUS
  <2>1. n \in Message
    BY DEF IInv, TypeOK
  <2>2. n.from = c /\ n.num = SEND_SEQ[c]
    BY <1>4 DEF IdOf
  <2>3. n.num < SEND_SEQ[n.from]
    BY DEF IInv, SentOnce
  <2> QED
    BY <1>1, <2>2, <2>3
<1>6. \A d \in Client : IdOf(m) \notin AllIds(log[d], queue[d], net[d])
  BY <1>5 DEF IInv, Known, AllIds, IdsOf
<1> QED
  BY <1>2, <1>3, <1>4, <1>5, <1>6 DEF m

LEMMA SendKeeps ==
    ASSUME IInv, NEW c \in Client, NEW b \in BOOLEAN, Send(c, b)
    PROVE  IInv'
<1> DEFINE m == NewMessage(c, b)
<1>1. /\ status[c] = "in" /\ SEND_SEQ[c] < MaxSend
      /\ b => spent.blank < MaxBlank
      /\ spent' = [spent EXCEPT !.blank = IF b THEN @ + 1 ELSE @]
      /\ SEND_SEQ' = [SEND_SEQ EXCEPT ![c] = SEND_SEQ[c] + 1]
      /\ sent' = sent \cup {m}
      /\ net' = [d \in Client |-> IF status[d] = "in" THEN Append(net[d], m) ELSE net[d]]
      /\ UNCHANGED <<status, DELIVERED, queue, log>>
  BY DEF Send, NewMessage
<1>2. /\ m \in Message /\ m.from = c /\ m.num = SEND_SEQ[c] /\ m.num = m.deps[m.from]
      /\ \A n \in sent : IdOf(n) # IdOf(m)
      /\ \A d \in Client : IdOf(m) \notin AllIds(log[d], queue[d], net[d])
  BY NewMessageIs
<1> HIDE DEF m
<1>3. /\ net \in [Client -> Seq(Message)] /\ spent \in Spent /\ spent.dup \in Nat
      /\ SEND_SEQ \in [Client -> 0 .. MaxSend] /\ MaxSend \in Nat
      /\ SEND_SEQ[c] \in Nat
  BY Types, BoundAssumption DEF IInv, TypeOK, Spent
<1>4. \A d \in Client :
         /\ net[d] \in Seq(Message) /\ Append(net[d], m) \in Seq(Message)
         /\ net'[d] = IF status[d] = "in" THEN Append(net[d], m) ELSE net[d]
  BY <1>1, <1>2, <1>3, AppendProperties
<1>5. net' \in [Client -> Seq(Message)]
  BY <1>1, <1>4
<1>6. SEND_SEQ' \in [Client -> 0 .. MaxSend]
  <2>1. SEND_SEQ[c] + 1 \in 0 .. MaxSend
    BY <1>1, <1>3
  <2> QED
    BY <1>1, <1>3, <2>1
<1>7. spent' \in Spent /\ spent'.dup = spent.dup
  <2>1. CASE b
    BY <1>1, <1>3, <2>1, SpentGrows DEF Spent
  <2>2. CASE ~b
    BY <1>1, <1>3, <2>2 DEF Spent
  <2> QED
    BY <2>1, <2>2
<1>8. TypeOK'
  BY <1>1, <1>2, <1>5, <1>6, <1>7 DEF IInv, TypeOK, Spent
<1>9. HeadHeld'
  BY <1>1 DEF IInv, HeadHeld, NoGreater
<1>10. Known'
  <2> SUFFICES ASSUME NEW d \in Client
               PROVE  /\ \A i \in 1 .. Len(net'[d]) : net'[d][i] \in sent'
                      /\ \A i \in 1 .. Len(queue'[d]) : queue'[d][i] \in sent'
                      /\ \A i \in 1 .. Len(log'[d]) : log'[d][i] \in sent'
    BY DEF Known
  <2>1. /\ \A i \in 1 .. Len(net[d]) : net[d][i] \in sent
        /\ \A i \in 1 .. Len(queue[d]) : queue[d][i] \in sent
        /\ \A i \in 1 .. Len(log[d]) : log[d][i] \in sent
    BY DEF IInv, Known
  <2>2. \A i \in 1 .. Len(Append(net[d], m)) : Append(net[d], m)[i] \in sent \cup {m}
    BY <1>2, <1>4, <2>1, AppendProperties
  <2> QED
    BY <1>1, <1>4, <2>1, <2>2
<1>11. SentOnce'
  <2>0. SentOnce /\ \A n \in sent : n \in Message /\ n.from \in Client
    BY MessageFields DEF IInv, TypeOK
  <2>1. ASSUME NEW n \in sent' PROVE n.num = n.deps[n.from] /\ n.num < SEND_SEQ'[n.from]
    <3>1. CASE n = m
      BY <1>1, <1>2, <1>3, <3>1
    <3>2. CASE n # m
      <4>1. /\ n \in Message /\ n.num = n.deps[n.from] /\ n.num < SEND_SEQ[n.from]
            /\ n.from \in Client /\ n.num \in Nat
        BY <1>1, <2>0, <3>2, MessageFields DEF SentOnce
      <4>2. SEND_SEQ[n.from] \in Nat /\ SEND_SEQ'[n.from] \in Nat
            /\ SEND_SEQ[n.from] <= SEND_SEQ'[n.from]
        BY <1>1, <1>3, <4>1
      <4> QED
        BY <4>1, <4>2
    <3> QED
      BY <3>1, <3>2
  <2>2. ASSUME NEW d \in Client, NEW k \in 0 .. SEND_SEQ'[d] - 1
        PROVE  \E n \in sent' : IdOf(n) = <<d, k>>
    <3>1. CASE d = c /\ k = SEND_SEQ[c]
      BY <1>1, <1>2, <3>1 DEF IdOf
    <3>2. CASE ~(d = c /\ k = SEND_SEQ[c])
      <4>1. SEND_SEQ[d] \in Nat /\ k \in 0 .. SEND_SEQ[d] - 1
        BY <1>1, <1>3, <3>2
      <4> QED
        BY <1>1, <2>0, <4>1 DEF SentOnce
    <3> QED
      BY <3>1, <3>2
  <2>3. \A n, o \in sent' : IdOf(n) = IdOf(o) => n = o
    BY <1>1, <1>2, <2>0 DEF SentOnce
  <2> QED
    BY <2>1, <2>2, <2>3 DEF SentOnce, IdOf
<1>12. Counts' /\ LogIds' /\ NoGap'
  BY <1>1, <1>7, LogKept DEF IInv
<1>13. Copies'
  <2> SUFFICES ASSUME NEW d \in Client
               PROVE  Few(log'[d], queue'[d], net'[d], spent'.dup)
    BY DEF Copies
  <2>1. Few(log[d], queue[d], net[d], spent.dup)
    BY DEF IInv, Copies
  <2>2. Few(log[d], queue[d], Append(net[d], m), spent.dup)
    BY <1>2, <2>1, Types, FewAppended DEF IInv
  <2> QED
    BY <1>1, <1>4, <1>7, <2>1, <2>2
<1> QED
  BY <1>8, <1>9, <1>10, <1>11, <1>12, <1>13 DEF IInv

-----------------------------------------------------------------------------
(* A datagram arrives, in order or early, and is dropped, held back or     *)
(* delivered.                                                              *)
Arrives(c, i) ==
    /\ i \in 1 .. Len(net[c])
    /\ Take(c, i)
    /\ Received(c, net[c][i])
    /\ spent' \in Spent /\ spent'.dup = spent.dup
    /\ UNCHANGED <<status, SEND_SEQ, sent>>

LEMMA ReceiveArrives ==
    ASSUME IInv, NEW c \in Client, Receive(c)
    PROVE  Arrives(c, 1)
<1>1. /\ net[c] # << >> /\ Take(c, 1) /\ handle_group_receive(c, Head(net[c]))
      /\ UNCHANGED <<status, SEND_SEQ, sent, spent>>
  BY DEF Receive
<1>2. net[c] \in Seq(Message) /\ spent \in Spent
  BY DEF IInv, TypeOK, Spent
<1>3. 1 \in 1 .. Len(net[c]) /\ Head(net[c]) = net[c][1] /\ net[c][1] \in Message
  BY <1>1, <1>2
<1>4. Received(c, net[c][1])
  BY <1>1, <1>3, ReceiveCases DEF IInv
<1> QED
  BY <1>1, <1>2, <1>3, <1>4 DEF Arrives

LEMMA ReceiveEarlyArrives ==
    ASSUME IInv, NEW c \in Client, NEW i \in DOMAIN net[c], ReceiveEarly(c, i)
    PROVE  Arrives(c, i)
<1>1. /\ spent.reorder < MaxReorder /\ spent' = [spent EXCEPT !.reorder = @ + 1]
      /\ Take(c, i) /\ handle_group_receive(c, net[c][i])
      /\ UNCHANGED <<status, SEND_SEQ, sent>>
  BY DEF ReceiveEarly
<1>2. net[c] \in Seq(Message) /\ spent \in Spent
  BY DEF IInv, TypeOK, Spent
<1>3. i \in 1 .. Len(net[c]) /\ net[c][i] \in Message
  BY <1>1, <1>2
<1>4. Received(c, net[c][i])
  BY <1>1, <1>3, ReceiveCases DEF IInv
<1>5. spent' \in Spent /\ spent'.dup = spent.dup
  BY <1>1, <1>2, SpentGrows DEF Spent
<1> QED
  BY <1>1, <1>3, <1>4, <1>5 DEF Arrives

(* What Take and the three cases leave at each client.                     *)
LEMMA ArrivesIs ==
    ASSUME IInv, NEW c \in Client, NEW i, Arrives(c, i)
    PROVE  LET m == net[c][i]
               o == RemoveAt(net[c], i)
           IN
           /\ m \in Message /\ m \in sent /\ o \in Seq(Message) /\ net'[c] = o
           /\ \A j \in 1 .. Len(o) : \E k \in 1 .. Len(net[c]) : o[j] = net[c][k]
           /\ \A d \in Client \ {c} :
                 /\ net'[d] = net[d] /\ queue'[d] = queue[d]
                 /\ DELIVERED'[d] = DELIVERED[d] /\ log'[d] = log[d]
           /\ \/ /\ Dropped(c) /\ queue'[c] = << >>
                 /\ DELIVERED'[c] = DELIVERED[c] /\ log'[c] = log[c]
              \/ /\ Held(c, m) /\ queue'[c] = Append(queue[c], m)
                 /\ DELIVERED'[c] = DELIVERED[c] /\ log'[c] = log[c]
              \/ /\ Delivered(c, m) /\ queue'[c] = queue[c] /\ log'[c] = Append(log[c], m)
                 /\ DELIVERED'[c] = [DELIVERED[c] EXCEPT ![m.from] = DELIVERED[c][m.from] + 1]
           /\ TypeOK'
<1> DEFINE m == net[c][i]
           o == RemoveAt(net[c], i)
<1>1. /\ i \in 1 .. Len(net[c]) /\ Take(c, i) /\ Received(c, m)
      /\ spent' \in Spent /\ UNCHANGED <<status, SEND_SEQ, sent>>
  BY DEF Arrives
<1>2. /\ net \in [Client -> Seq(Message)] /\ queue \in [Client -> Seq(Message)]
      /\ log \in [Client -> Seq(Message)] /\ DELIVERED \in [Client -> Vector]
  BY DEF IInv, TypeOK, Vector
<1>3. i \in DOMAIN net[c] /\ m \in Message
  BY <1>1, <1>2
<1>4. /\ net' \in [Client -> Seq(Message)] /\ net'[c] = o
      /\ \A d \in Client \ {c} : net'[d] = net[d]
      /\ \A j \in 1 .. Len(net'[c]) : \E k \in 1 .. Len(net[c]) : net'[c][j] = net[c][k]
  BY <1>1, <1>3, Taken DEF IInv
<1>5. m \in sent
  BY <1>1 DEF IInv, Known
<1>6. m.from \in Client
  BY <1>3, MessageFields
<1>7. o \in Seq(Message)
  BY <1>4
<1> HIDE DEF m, o
<1>8. /\ queue' \in [Client -> Seq(Message)] /\ log' \in [Client -> Seq(Message)]
      /\ DELIVERED' \in [Client -> Vector]
      /\ \A d \in Client \ {c} :
            /\ queue'[d] = queue[d]
            /\ DELIVERED'[d] = DELIVERED[d] /\ log'[d] = log[d]
      /\ \/ /\ Dropped(c) /\ queue'[c] = << >>
            /\ DELIVERED'[c] = DELIVERED[c] /\ log'[c] = log[c]
         \/ /\ Held(c, m) /\ queue'[c] = Append(queue[c], m)
            /\ DELIVERED'[c] = DELIVERED[c] /\ log'[c] = log[c]
         \/ /\ Delivered(c, m) /\ queue'[c] = queue[c] /\ log'[c] = Append(log[c], m)
            /\ DELIVERED'[c] = [DELIVERED[c] EXCEPT ![m.from] = DELIVERED[c][m.from] + 1]
  <2>1. CASE Dropped(c)
    BY <1>2, <2>1 DEF Dropped
  <2>2. CASE Held(c, m)
    <3>1. Append(queue[c], m) \in Seq(Message)
      BY <1>2, <1>3
    <3> QED
      BY <1>2, <2>2, <3>1 DEF Held
  <2>3. CASE Delivered(c, m)
    <3>1. Append(log[c], m) \in Seq(Message)
      BY <1>2, <1>3
    <3>2. [DELIVERED[c] EXCEPT ![m.from] = DELIVERED[c][m.from] + 1] \in Vector
      BY <1>2, <1>6 DEF Vector
    <3> QED
      BY <1>2, <2>3, <3>1, <3>2 DEF Delivered
  <2> QED
    BY <1>1, <2>1, <2>2, <2>3 DEF Received
<1>9. TypeOK'
  BY <1>1, <1>4, <1>8 DEF IInv, TypeOK, Vector, Spent
<1> QED
  BY <1>3, <1>4, <1>5, <1>7, <1>8, <1>9 DEF m, o

LEMMA ArrivesKeeps ==
    ASSUME IInv, NEW c \in Client, NEW i, Arrives(c, i)
    PROVE  IInv'
<1> DEFINE m == net[c][i]
           o == RemoveAt(net[c], i)
<1>1. /\ m \in Message /\ m \in sent /\ o \in Seq(Message) /\ net'[c] = o
      /\ \A j \in 1 .. Len(o) : \E k \in 1 .. Len(net[c]) : o[j] = net[c][k]
      /\ \A d \in Client \ {c} :
            /\ net'[d] = net[d] /\ queue'[d] = queue[d]
            /\ DELIVERED'[d] = DELIVERED[d] /\ log'[d] = log[d]
      /\ \/ /\ Dropped(c) /\ queue'[c] = << >>
            /\ DELIVERED'[c] = DELIVERED[c] /\ log'[c] = log[c]
         \/ /\ Held(c, m) /\ queue'[c] = Append(queue[c], m)
            /\ DELIVERED'[c] = DELIVERED[c] /\ log'[c] = log[c]
         \/ /\ Delivered(c, m) /\ queue'[c] = queue[c] /\ log'[c] = Append(log[c], m)
            /\ DELIVERED'[c] = [DELIVERED[c] EXCEPT ![m.from] = DELIVERED[c][m.from] + 1]
      /\ TypeOK'
  BY ArrivesIs
<1>2. /\ i \in 1 .. Len(net[c]) /\ spent'.dup = spent.dup /\ UNCHANGED <<SEND_SEQ, sent>>
  BY DEF Arrives
<1>3. /\ spent.dup \in Nat
      /\ \A d \in Client : /\ net[d] \in Seq(Message) /\ queue[d] \in Seq(Message)
                            /\ log[d] \in Seq(Message) /\ DELIVERED[d] \in Vector
  BY Types DEF IInv
<1>4. SentOnce'
  BY <1>2, SentKept DEF IInv
<1>5. Known'
  <2> SUFFICES ASSUME NEW d \in Client
               PROVE  /\ \A j \in 1 .. Len(net'[d]) : net'[d][j] \in sent
                      /\ \A j \in 1 .. Len(queue'[d]) : queue'[d][j] \in sent
                      /\ \A j \in 1 .. Len(log'[d]) : log'[d][j] \in sent
    BY <1>2 DEF Known
  <2>1. /\ \A j \in 1 .. Len(net[d]) : net[d][j] \in sent
        /\ \A j \in 1 .. Len(queue[d]) : queue[d][j] \in sent
        /\ \A j \in 1 .. Len(log[d]) : log[d][j] \in sent
    BY DEF IInv, Known
  <2> HIDE DEF m, o
  <2>2. \A q \in Seq(Message) :
           (\A j \in 1 .. Len(q) : q[j] \in sent)
             => \A j \in 1 .. Len(Append(q, m)) : Append(q, m)[j] \in sent
    BY <1>1, AppendProperties
  <2>3. /\ \A j \in 1 .. Len(Append(queue[d], m)) : Append(queue[d], m)[j] \in sent
        /\ \A j \in 1 .. Len(Append(log[d], m)) : Append(log[d], m)[j] \in sent
    BY <1>3, <2>1, <2>2
  <2>4. CASE d = c
    <3>1. \A j \in 1 .. Len(net'[d]) : net'[d][j] \in sent
      BY <1>1, <2>1, <2>4
    <3>2. \A j \in 1 .. Len(queue'[d]) : queue'[d][j] \in sent
      <4>1. queue'[c] \in {<< >>, queue[c], Append(queue[c], m)}
        BY <1>1
      <4>2. \A j \in 1 .. Len(<< >>) : << >>[j] \in sent
        OBVIOUS
      <4> QED
        BY <2>1, <2>3, <2>4, <4>1, <4>2
    <3>3. \A j \in 1 .. Len(log'[d]) : log'[d][j] \in sent
      BY <1>1, <2>1, <2>3, <2>4
    <3> QED
      BY <3>1, <3>2, <3>3
  <2>5. CASE d # c
    BY <1>1, <2>1, <2>5
  <2> QED
    BY <2>4, <2>5
<1>6. Few(log[c], queue[c], net[c], spent.dup)
  BY DEF IInv, Copies
<1>7. Copies'
  <2> SUFFICES ASSUME NEW d \in Client
               PROVE  Few(log'[d], queue'[d], net'[d], spent.dup)
    BY <1>2 DEF Copies
  <2>1. Few(log[d], queue[d], net[d], spent.dup)
    BY DEF IInv, Copies
  <2>2. /\ Few(log[c], queue[c], o, spent.dup)
        /\ Few(log[c], Append(queue[c], m), o, spent.dup)
        /\ Few(Append(log[c], m), queue[c], o, spent.dup)
    BY <1>2, <1>3, <1>6, FewTaken
  <2> HIDE DEF m, o
  <2>3. Few(log[c], << >>, o, spent.dup)
    BY <1>1, <1>3, <2>2, FewDropped
  <2> QED
    BY <1>1, <2>1, <2>2, <2>3
<1>8. HeadHeld'
  <2> SUFFICES ASSUME NEW d \in Client, queue'[d] # << >>
               PROVE  ~NoGreater(Head(queue'[d]).deps, DELIVERED'[d])
    BY DEF HeadHeld, NoGreater
  <2> HIDE DEF m, o
  <2>1. queue[d] # << >> => ~NoGreater(Head(queue[d]).deps, DELIVERED[d])
    BY DEF IInv, HeadHeld
  <2>2. CASE d # c
    BY <1>1, <2>1, <2>2
  <2>3. CASE d = c
    <3>1. /\ Held(c, m) /\ queue'[c] = Append(queue[c], m) /\ DELIVERED'[c] = DELIVERED[c]
      BY <1>1, <2>3 DEF Delivered
    <3>2. CASE queue[c] = << >>
      <4>1. Append(queue[c], m) = <<m>>
        BY <3>2
      <4> QED
        BY <2>3, <3>1, <3>2, <4>1 DEF Held
    <3>3. CASE queue[c] # << >>
      <4>1. Head(Append(queue[c], m)) = Head(queue[c])
        BY <1>1, <1>3, <3>3
      <4> QED
        BY <2>1, <2>3, <3>1, <3>3, <4>1
    <3> QED
      BY <3>2, <3>3
  <2> QED
    BY <2>2, <2>3
<1>9. Counts'
  <2> SUFFICES ASSUME NEW d \in Client PROVE CountsOf(DELIVERED'[d], log'[d])
    BY DEF Counts
  <2> HIDE DEF m, o
  <2>1. CountsOf(DELIVERED[d], log[d])
    BY DEF IInv, Counts
  <2>2. CountsOf([DELIVERED[d] EXCEPT ![m.from] = DELIVERED[d][m.from] + 1], Append(log[d], m))
    BY <1>1, <1>3, <2>1, CountsAppended
  <2> QED
    BY <1>1, <2>1, <2>2
<1>10. LogIds' /\ NoGap'
  <2> SUFFICES ASSUME spent.dup = 0, NEW d \in Client
               PROVE  IdsUpTo(DELIVERED'[d], log'[d]) /\ InSequence(log'[d])
    <3>1. spent'.dup = 0 => \A d \in Client : InSequence(log'[d])
      BY <1>2
    <3>2. NoGap'
      BY <3>1, NoGapIs DEF NoGap, InSequence, FromUpTo
    <3> QED
      BY <1>2, <3>2 DEF LogIds
  <2>1. IdsUpTo(DELIVERED[d], log[d]) /\ InSequence(log[d])
    BY NoGapIs DEF IInv, LogIds
  <2>2. ASSUME Delivered(c, m), d = c
        PROVE  /\ IdsUpTo([DELIVERED[d] EXCEPT ![m.from] = DELIVERED[d][m.from] + 1],
                           Append(log[d], m))
               /\ InSequence(Append(log[d], m))
    <3>1. queue[c] = << >> /\ NoGreater(m.deps, DELIVERED[c])
      BY <2>2 DEF Delivered
    <3>2. IdOf(m) \notin IdsOf(log[c])
      BY <1>2, <1>3, <1>6, <3>1, NotTwice
    <3>3. m.num = m.deps[m.from] /\ m.from \in Client
      BY <1>1, MessageFields DEF IInv, SentOnce
    <3> HIDE DEF m
    <3>4. m.num = DELIVERED[c][m.from]
      BY <1>1, <1>3, <2>1, <2>2, <3>1, <3>2, <3>3, NextOne
    <3>5. m.num = Cardinality(FromUpTo(log[c], m.from, Len(log[c])))
      BY <3>3, <3>4 DEF IInv, Counts, CountsOf
    <3> QED
      BY <1>1, <1>3, <2>1, <2>2, <3>4, <3>5, IdsUpToAppended, InSequenceAppended
  <2> HIDE DEF m, o
  <2> QED
    BY <1>1, <2>1, <2>2
<1> QED
  BY <1>1, <1>4, <1>5, <1>7, <1>8, <1>9, <1>10 DEF IInv

LEMMA StutterKeeps == IInv /\ UNCHANGED vars => IInv'
<1> SUFFICES ASSUME IInv, UNCHANGED vars PROVE IInv'
  OBVIOUS
<1> USE DEF vars
<1>1. TypeOK'
  BY DEF IInv, TypeOK
<1>2. HeadHeld' /\ Known' /\ SentOnce'
  BY SentKept DEF IInv, HeadHeld, NoGreater, Known
<1>3. Counts' /\ LogIds' /\ NoGap'
  BY LogKept DEF IInv
<1>4. Copies'
  BY DEF IInv, Copies
<1> QED
  BY <1>1, <1>2, <1>3, <1>4 DEF IInv

LEMMA NextKeeps == IInv /\ [Next]_vars => IInv'
<1> SUFFICES ASSUME IInv, [Next]_vars PROVE IInv'
  OBVIOUS
<1>1. CASE UNCHANGED vars
  BY <1>1, StutterKeeps
<1>2. ASSUME NEW c \in Client, Join(c) PROVE IInv'
  BY <1>2, JoinKeeps
<1>3. ASSUME NEW c \in Client, Leave(c) PROVE IInv'
  BY <1>3, LeaveKeeps
<1>4. ASSUME NEW c \in Client, Receive(c) PROVE IInv'
  BY <1>4, ReceiveArrives, ArrivesKeeps
<1>5. ASSUME NEW c \in Client, NEW b \in BOOLEAN, Send(c, b) PROVE IInv'
  BY <1>5, SendKeeps
<1>6. ASSUME NEW c \in Client, NEW i \in DOMAIN net[c], ReceiveEarly(c, i) PROVE IInv'
  BY <1>6, ReceiveEarlyArrives, ArrivesKeeps
<1>7. ASSUME NEW c \in Client, NEW i \in DOMAIN net[c], Lose(c, i) PROVE IInv'
  BY <1>7, LoseKeeps
<1>8. ASSUME NEW c \in Client, NEW i \in DOMAIN net[c], Duplicate(c, i) PROVE IInv'
  BY <1>8, DuplicateKeeps
<1> QED
  BY <1>1, <1>2, <1>3, <1>4, <1>5, <1>6, <1>7, <1>8 DEF Next

LEMMA Invariance == Spec => []IInv
<1>1. Init => IInv
  BY InitIInv
<1>2. IInv /\ [Next]_vars => IInv'
  BY NextKeeps
<1> QED
  BY <1>1, <1>2, PTL DEF Spec

(* The types of HoldBack; no vector that is sent goes below zero.          *)
THEOREM TypeCorrect == Spec => []TypeOK
<1>1. IInv => TypeOK
  BY DEF IInv
<1> QED
  BY <1>1, Invariance, PTL

(* Without duplicates each client delivers the messages of each sender in  *)
(* the order they were sent in and without a gap.                          *)
THEOREM FifoOrder == Spec => []NoGap
<1>1. IInv => NoGap
  BY DEF IInv
<1> QED
  BY <1>1, Invariance, PTL

-----------------------------------------------------------------------------
(* All that a step may do to one client's queue and log.                   *)
HeldBack ==
    \A c \in Client : queue[c] # << >> =>
        /\ log'[c] = log[c]
        /\ IsPrefix(queue[c], queue'[c]) \/ queue'[c] = << >>

LEMMA IsPrefixAppend ==
    ASSUME NEW q \in Seq(Message), NEW m \in Message
    PROVE  IsPrefix(q, q) /\ IsPrefix(q, Append(q, m))
<1>1. /\ Append(q, m) \in Seq(Message) /\ Len(q) \in Nat
      /\ Len(Append(q, m)) = Len(q) + 1
      /\ \A i \in 1 .. Len(q) : Append(q, m)[i] = q[i]
  BY AppendProperties
<1>2. q = SubSeq(q, 1, Len(q))
  BY SubSeqFull
<1>3. q = SubSeq(Append(q, m), 1, Len(q))
  BY <1>1, SubSeqProperties
<1> QED
  BY <1>1, <1>2, <1>3 DEF IsPrefix

LEMMA QueueOnlyHolds ==
    ASSUME IInv, Next
    PROVE  HeldBack
<1>0. /\ queue \in [Client -> Seq(Message)]
      /\ \A c \in Client : queue[c] \in Seq(Message)
  BY DEF IInv, TypeOK
<1>1. ASSUME NEW c \in Client, Leave(c) PROVE HeldBack
  BY <1>0, <1>1, IsPrefixAppend DEF Leave, HeldBack
<1>2. ASSUME NEW c \in Client, NEW i, Arrives(c, i) PROVE HeldBack
  <2> SUFFICES ASSUME NEW d \in Client, queue[d] # << >>
               PROVE  /\ log'[d] = log[d]
                      /\ IsPrefix(queue[d], queue'[d]) \/ queue'[d] = << >>
    BY DEF HeldBack
  <2>1. /\ net[c][i] \in Message
        /\ \A e \in Client \ {c} : queue'[e] = queue[e] /\ log'[e] = log[e]
        /\ \/ queue'[c] = << >> /\ log'[c] = log[c]
           \/ queue'[c] = Append(queue[c], net[c][i]) /\ log'[c] = log[c]
           \/ Delivered(c, net[c][i])
    BY <1>2, ArrivesIs
  <2>2. CASE d # c
    BY <1>0, <2>1, <2>2, IsPrefixAppend
  <2>3. CASE d = c
    BY <1>0, <2>1, <2>3, IsPrefixAppend DEF Delivered
  <2> QED
    BY <2>2, <2>3
<1>3. ASSUME UNCHANGED <<queue, log>> PROVE HeldBack
  BY <1>0, <1>3, IsPrefixAppend DEF HeldBack
<1> QED
  BY <1>1, <1>2, <1>3, ReceiveArrives, ReceiveEarlyArrives
     DEF Next, Join, Send, Lose, Duplicate

(* deliver_messages() looks at the head of the queue alone: a message held *)
(* back is never delivered, and nothing else is before the queue is lost.  *)
THEOREM HoldsBackForGood == Spec => HeldBackForGood
<1>1. IInv /\ [Next]_vars => [HeldBack]_vars
  BY QueueOnlyHolds
<1>2. [HeldBack]_vars <=> [\A c \in Client : queue[c] # << >> =>
          /\ log'[c] = log[c]
          /\ IsPrefix(queue[c], queue'[c]) \/ queue'[c] = << >>]_vars
  BY DEF HeldBack
<1> QED
  BY <1>1, <1>2, Invariance, PTL DEF Spec, HeldBackForGood

-----------------------------------------------------------------------------
(* Deliveries from one sender are counted at most d times too often.       *)
LEMMA CountedTwice ==
    ASSUME NEW l \in Seq(Message), NEW q \in Seq(Message), NEW n \in Seq(Message),
           NEW d \in Nat, Few(l, q, n, d), NEW e \in Client
    PROVE  LET P == FromUpTo(l, e, Len(l))
               nums == {l[i].num : i \in P}
           IN  /\ Cardinality(nums) \in Nat /\ Cardinality(P) \in Nat
               /\ Cardinality(nums) <= Cardinality(P)
               /\ Cardinality(P) <= Cardinality(nums) + d
<1> DEFINE P == FromUpTo(l, e, Len(l))
           O == (1 .. Len(l)) \ P
           nums == {l[i].num : i \in P}
           B == {<<e, x>> : x \in nums}
           S == {IdOf(l[i]) : i \in O}
           R == S \cup (IdsOf(q) \cup IdsOf(n))
           r == Cardinality(O) + (Len(q) + Len(n))
           was == Len(l) + Len(q) + Len(n)
           A == AllIds(l, q, n)
<1>1. /\ Len(l) \in Nat /\ Len(q) \in Nat /\ Len(n) \in Nat
      /\ P \in SUBSET (1 .. Len(l)) /\ O \in SUBSET (1 .. Len(l))
  BY DEF FromUpTo
<1>2. /\ IsFiniteSet(P) /\ Cardinality(P) \in Nat
      /\ IsFiniteSet(S) /\ IsFiniteSet(O) /\ Cardinality(O) \in Nat
      /\ Cardinality(S) \in Nat /\ Cardinality(S) <= Cardinality(O)
  <2> HIDE DEF P, O
  <2> QED
    BY <1>1, IdsFinite
<1>3. Cardinality(P) + Cardinality(O) = Len(l)
  <2>1. /\ IsFiniteSet(1 .. Len(l)) /\ Cardinality(1 .. Len(l)) = Len(l)
    BY <1>1, UpToSize
  <2> HIDE DEF P
  <2>2. Cardinality(O) = Cardinality(1 .. Len(l)) - Cardinality((1 .. Len(l)) \cap P)
    BY <2>1, FS_Difference
  <2>3. (1 .. Len(l)) \cap P = P
    BY <1>1
  <2>4. Cardinality(O) = Len(l) - Cardinality(P)
    BY <2>1, <2>2, <2>3
  <2> HIDE DEF O
  <2> QED
    BY <1>1, <1>2, <2>4
<1>4. IsFiniteSet(nums) /\ Cardinality(nums) \in Nat /\ Cardinality(nums) <= Cardinality(P)
  <2> DEFINE f == [i \in P |-> l[i].num]
  <2>1. f \in [P -> nums] /\ \A y \in nums : \E x \in P : f[x] = y
    OBVIOUS
  <2> HIDE DEF f, P, nums
  <2> QED
    BY <1>2, <2>1, ImageSize
<1>5. IsFiniteSet(B) /\ Cardinality(B) \in Nat /\ Cardinality(B) <= Cardinality(nums)
  <2> DEFINE f == [x \in nums |-> <<e, x>>]
  <2> HIDE DEF nums
  <2>1. f \in [nums -> B] /\ \A y \in B : \E x \in nums : f[x] = y
    OBVIOUS
  <2> HIDE DEF f, B
  <2> QED
    BY <1>4, <2>1, ImageSize
<1>6. IsFiniteSet(R) /\ Cardinality(R) <= r
  <2>1. /\ IsFiniteSet(IdsOf(q)) /\ Cardinality(IdsOf(q)) <= Len(q)
        /\ IsFiniteSet(IdsOf(n)) /\ Cardinality(IdsOf(n)) <= Len(n)
    BY IdsSize
  <2> DEFINE T == IdsOf(q) \cup IdsOf(n)
  <2>2. /\ IsFiniteSet(T) /\ Cardinality(T) \in Nat
        /\ Cardinality(IdsOf(q)) \in Nat /\ Cardinality(IdsOf(n)) \in Nat
        /\ Cardinality(T) <= Cardinality(IdsOf(q)) + Cardinality(IdsOf(n))
    BY <2>1, UnionSize
  <2>3. R = S \cup T
    OBVIOUS
  <2> HIDE DEF S, T, O, R
  <2>4. /\ IsFiniteSet(R) /\ Cardinality(R) \in Nat
        /\ Cardinality(R) <= Cardinality(S) + Cardinality(T)
    BY <1>2, <2>2, <2>3, UnionSize
  <2> QED
    BY <1>1, <1>2, <2>1, <2>2, <2>4
<1>7. A \subseteq B \cup R
  <2> SUFFICES ASSUME NEW i \in 1 .. Len(l) PROVE IdOf(l[i]) \in B \cup S
    BY DEF AllIds, IdsOf
  <2>1. CASE i \in P
    <3>1. l[i].num \in nums /\ l[i].from = e
      BY <2>1 DEF FromUpTo
    <3> QED
      BY <3>1 DEF IdOf
  <2>2. CASE i \notin P
    <3>1. i \in O
      BY <2>2
    <3> QED
      BY <3>1
  <2> QED
    BY <2>1, <2>2
<1>8. was <= Cardinality(A) + d
  BY DEF Few
<1> HIDE DEF P, O, B, S, R, nums, A
<1>9. /\ r \in Nat /\ was \in Nat /\ Cardinality(P) + r <= was
  BY <1>1, <1>2, <1>3
<1> HIDE DEF r, was
<1>10. Cardinality(P) <= Cardinality(B) + d
  BY <1>2, <1>5, <1>6, <1>7, <1>8, <1>9, FewerCopies
<1> QED
  BY <1>2, <1>4, <1>5, <1>10 DEF P, nums

(* Every entry of DELIVERED, and so of a vector that is sent, counts the   *)
(* different messages delivered, and too many by the duplicates at most.   *)
THEOREM VectorsCount == Spec => []CountsRight
<1>1. IInv => CountsRight
  <2> SUFFICES ASSUME IInv, NEW c \in Client, NEW d \in Client
               PROVE  LET nums == {log[c][i].num :
                                      i \in {j \in DOMAIN log[c] : log[c][j].from = d}}
                      IN  /\ DELIVERED[c][d] >= Cardinality(nums)
                          /\ DELIVERED[c][d] <= Cardinality(nums) + spent.dup
    BY DEF CountsRight
  <2> DEFINE P == FromUpTo(log[c], d, Len(log[c]))
             nums == {log[c][i].num : i \in P}
  <2>1. Few(log[c], queue[c], net[c], spent.dup) /\ DELIVERED[c][d] = Cardinality(P)
    BY DEF IInv, Copies, Counts, CountsOf
  <2>2. /\ Cardinality(nums) \in Nat /\ Cardinality(P) \in Nat
        /\ Cardinality(nums) <= Cardinality(P)
        /\ Cardinality(P) <= Cardinality(nums) + spent.dup
    BY <2>1, Types, CountedTwice DEF IInv
  <2>3. {j \in DOMAIN log[c] : log[c][j].from = d} = P
    BY Types DEF IInv, FromUpTo
  <2> HIDE DEF P
  <2> QED
    BY <2>1, <2>2, <2>3, Types DEF IInv
<1> QED
  BY <1>1, Invariance, PTL

-----------------------------------------------------------------------------
(* What the refinement mapping makes of the messages and of a log.         *)
Promise(m) == [id |-> IdOf(m), past |-> PastOf(m)]
Promises == {Promise(m) : m \in sent}
Names(l) == [i \in DOMAIN l |-> IdOf(l[i])]
Logs == [c \in Client |-> Names(log[c])]

LEMMA NamesAppended ==
    ASSUME NEW l \in Seq(Message), NEW m \in Message
    PROVE  Names(Append(l, m)) = Append(Names(l), IdOf(m))
<1> DEFINE k == Append(l, m)
<1>1. /\ Len(l) \in Nat /\ Len(k) = Len(l) + 1 /\ DOMAIN l = 1 .. Len(l)
      /\ DOMAIN k = 1 .. Len(k)
      /\ \A i \in 1 .. Len(l) : k[i] = l[i]
      /\ k[Len(l) + 1] = m
  BY AppendProperties
<1> HIDE DEF k
<1> DEFINE E == {IdOf(x) : x \in Message}
<1>2. Names(l) \in Seq(E) /\ Len(Names(l)) = Len(l)
      /\ \A i \in 1 .. Len(l) : Names(l)[i] = IdOf(l[i])
  BY <1>1 DEF Names
<1>3. IdOf(m) \in E
  OBVIOUS
<1> HIDE DEF E
<1> DEFINE a == Append(Names(l), IdOf(m))
<1>4. /\ a \in Seq(E) /\ Len(a) = Len(l) + 1
      /\ \A i \in 1 .. Len(l) : a[i] = Names(l)[i]
      /\ a[Len(l) + 1] = IdOf(m)
  BY <1>2, <1>3, AppendProperties
<1> HIDE DEF a
<1>5. a = [i \in 1 .. Len(a) |-> a[i]]
  BY <1>4
<1>6. Names(k) = [i \in 1 .. Len(l) + 1 |-> IdOf(k[i])]
  BY <1>1 DEF Names
<1>7. \A i \in 1 .. Len(l) + 1 : a[i] = IdOf(k[i])
  <2> TAKE i \in 1 .. Len(l) + 1
  <2>1. i \in 1 .. Len(l) \/ i = Len(l) + 1
    BY <1>1
  <2> QED
    BY <1>1, <1>2, <1>4, <2>1
<1>8. Names(k) = a
  BY <1>4, <1>5, <1>6, <1>7
<1> QED
  BY <1>8 DEF k, a

LEMMA NamesRange ==
    ASSUME NEW l \in Seq(Message)
    PROVE  Range(Names(l)) = IdsOf(l)
  BY DEF Range, Names, IdsOf

LEMMA PastIs ==
    ASSUME NEW m \in Message, NEW x
    PROVE  x \in PastOf(m) <=> \E d \in Client : \E k \in Nat : x = <<d, k>> /\ k < m.deps[d]
<1>1. \A d \in Client : m.deps[d] \in Nat
  BY MessageFields DEF Vector
<1>2. x \in PastOf(m) <=> \E d \in Client : x \in {d} \X (0 .. m.deps[d] - 1)
  BY DEF PastOf
<1>3. \A d \in Client :
         x \in {d} \X (0 .. m.deps[d] - 1) <=> \E k \in 0 .. m.deps[d] - 1 : x = <<d, k>>
  OBVIOUS
<1>4. \A d \in Client : \A k : k \in 0 .. m.deps[d] - 1 <=> k \in Nat /\ k < m.deps[d]
  BY <1>1
<1> QED
  BY <1>2, <1>3, <1>4

(* The messages of c, in the sense of CausalMulticast.                     *)
SendsOf(c) == {p \in Promises : p.id[1] = c}

LEMMA SendsAre ==
    ASSUME IInv, NEW c \in Client
    PROVE  /\ Cardinality(SendsOf(c)) = SEND_SEQ[c]
           /\ {p.id : p \in SendsOf(c)} = {<<c, k>> : k \in 0 .. SEND_SEQ[c] - 1}
<1> DEFINE S == SendsOf(c)
           n == SEND_SEQ[c]
           f == [p \in S |-> p.id[2]]
<1>0. n \in Nat
  BY Types DEF IInv
<1>1. \A p \in S : \E m \in sent : m.from = c /\ p = Promise(m) /\ p.id = <<c, m.num>>
  BY DEF SendsOf, Promises, Promise, IdOf
<1>2. \A m \in sent : m.num \in Nat
  BY MessageFields DEF IInv, TypeOK
<1>3. \A p \in S : p.id[2] \in 0 .. n - 1 /\ p.id = <<c, p.id[2]>>
  <2> TAKE p \in S
  <2>1. PICK m \in sent : m.from = c /\ p.id = <<c, m.num>>
    BY <1>1
  <2>2. m.num \in Nat /\ m.num < n
    BY <1>2, <2>1 DEF IInv, SentOnce
  <2> QED
    BY <1>0, <2>1, <2>2
<1>4. \A k \in 0 .. n - 1 : \E p \in S : p.id = <<c, k>>
  <2> TAKE k \in 0 .. n - 1
  <2>1. PICK m \in sent : IdOf(m) = <<c, k>>
    BY DEF IInv, SentOnce
  <2>2. Promise(m) \in S /\ Promise(m).id = <<c, k>>
    BY <2>1 DEF SendsOf, Promises, Promise
  <2> QED
    BY <2>2
<1>5. \A p, q \in S : p.id = q.id => p = q
  <2> TAKE p, q \in S
  <2>1. PICK m \in sent : p = Promise(m)
    BY <1>1
  <2>2. PICK o \in sent : q = Promise(o)
    BY <1>1
  <2>3. p.id = IdOf(m) /\ q.id = IdOf(o)
    BY <2>1, <2>2 DEF Promise
  <2>4. p.id = q.id => m = o
    BY <2>3 DEF IInv, SentOnce
  <2> QED
    BY <2>1, <2>2, <2>4
<1> HIDE DEF S, n
<1>6. f \in Bijection(S, 0 .. n - 1)
  <2>1. f \in [S -> 0 .. n - 1]
    BY <1>3
  <2>2. \A p, q \in S : f[p] = f[q] => p = q
    BY <1>3, <1>5
  <2>3. \A k \in 0 .. n - 1 : \E p \in S : f[p] = k
    BY <1>3, <1>4
  <2>4. f \in Injection(S, 0 .. n - 1)
    BY <2>1, <2>2, Fun_IsInj
  <2>5. f \in Surjection(S, 0 .. n - 1)
    BY <2>1, <2>3, Fun_IsSurj
  <2> QED
    BY <2>4, <2>5 DEF Bijection
<1>7. Cardinality(S) = n
  <2>1. IsFiniteSet(0 .. n - 1) /\ Cardinality(0 .. n - 1) = n
    BY <1>0, FS_Interval
  <2>2. f \in Bijection(S, 0 .. n - 1) => ExistsBijection(S, 0 .. n - 1)
    BY DEF ExistsBijection
  <2>3. ExistsBijection(0 .. n - 1, S)
    BY <1>6, <2>2, Fun_ExistsBijSymmetric
  <2> QED
    BY <2>1, <2>3, FS_Bijection
<1>8. {p.id : p \in S} = {<<c, k>> : k \in 0 .. n - 1}
  <2>1. ASSUME NEW p \in S PROVE p.id \in {<<c, k>> : k \in 0 .. n - 1}
    BY <1>3
  <2>2. ASSUME NEW k \in 0 .. n - 1 PROVE <<c, k>> \in {p.id : p \in S}
    <3>1. PICK p \in S : p.id = <<c, k>>
      BY <1>4
    <3> QED
      BY <3>1
  <2> QED
    BY <2>1, <2>2
<1> QED
  BY <1>7, <1>8 DEF S, n

(* A message that is sent has the past that CausalMulticast gives it.      *)
LEMMA SendRefines ==
    ASSUME IInv, IInv', spent.dup = 0, NEW c \in Client, NEW b \in BOOLEAN, Send(c, b)
    PROVE  Causal!Send(c)
<1> DEFINE m == NewMessage(c, b)
<1>1. /\ m \in Message /\ IdOf(m) = <<c, SEND_SEQ[c]>> /\ m.deps = DEPENDENCY(c)
  BY NewMessageIs DEF NewMessage, IdOf
<1>2. sent' = sent \cup {m} /\ log' = log
  BY DEF Send, NewMessage
<1> HIDE DEF m
<1>3. Promises' = Promises \cup {Promise(m)}
  BY <1>2 DEF Promises, Promise, PastOf, IdOf
<1>4. Logs' = Logs
  BY <1>2 DEF Logs, Names, IdOf
<1>5. Logs[c] = Names(log[c]) /\ Range(Logs[c]) = IdsOf(log[c])
  BY Types, NamesRange DEF IInv, Logs
<1>6. PastOf(m) = IdsOf(log[c]) \cup {<<c, k>> : k \in 0 .. SEND_SEQ[c] - 1}
  <2> DEFINE own == {<<c, k>> : k \in 0 .. SEND_SEQ[c] - 1}
  <2>0. /\ DELIVERED[c] \in Vector /\ SEND_SEQ[c] \in Nat /\ IdsUpTo(DELIVERED[c], log[c])
        /\ log[c] \in Seq(Message)
    BY Types DEF IInv, LogIds
  <2>1. \A d \in Client : m.deps[d] = IF d = c THEN SEND_SEQ[c] ELSE DELIVERED[c][d]
    BY <1>1, <2>0 DEF DEPENDENCY, Vector
  <2>2. ASSUME NEW x \in PastOf(m) PROVE x \in IdsOf(log[c]) \cup own
    <3>1. PICK d \in Client : \E k \in Nat : x = <<d, k>> /\ k < m.deps[d]
      BY <1>1, PastIs
    <3>2. PICK k \in Nat : x = <<d, k>> /\ k < m.deps[d]
      BY <3>1
    <3>3. CASE d = c
      BY <2>0, <2>1, <3>2, <3>3
    <3>4. CASE d # c
      BY <2>0, <2>1, <3>2, <3>4 DEF IdsUpTo
    <3> QED
      BY <3>3, <3>4
  <2>3. ASSUME NEW x \in own PROVE x \in PastOf(m)
    <3>1. PICK k \in 0 .. SEND_SEQ[c] - 1 : x = <<c, k>>
      OBVIOUS
    <3>2. k \in Nat /\ k < m.deps[c]
      BY <2>0, <2>1, <3>1
    <3> QED
      BY <1>1, <3>1, <3>2, PastIs
  <2>4. ASSUME NEW x \in IdsOf(log[c]) PROVE x \in PastOf(m)
    <3>1. PICK i \in 1 .. Len(log[c]) : x = IdOf(log[c][i])
      BY DEF IdsOf
    <3>2. log[c][i] \in sent /\ log[c][i] \in Message
      BY <2>0, <3>1 DEF IInv, Known
    <3> DEFINE d == log[c][i].from
               k == log[c][i].num
    <3>3. d \in Client /\ k \in Nat /\ x = <<d, k>> /\ k < SEND_SEQ[d]
      BY <3>1, <3>2, MessageFields DEF IInv, SentOnce, IdOf
    <3> HIDE DEF d, k
    <3>4. k < DELIVERED[c][d]
      BY <2>0, <3>3 DEF IdsUpTo
    <3>5. k < m.deps[d]
      BY <2>1, <3>3, <3>4
    <3> QED
      BY <1>1, <3>3, <3>5, PastIs
  <2> HIDE DEF own
  <2>5. PastOf(m) = IdsOf(log[c]) \cup own
    BY <2>2, <2>3, <2>4
  <2> QED
    BY <2>5 DEF own
<1>7. /\ Cardinality(SendsOf(c)) = SEND_SEQ[c]
      /\ {p.id : p \in SendsOf(c)} = {<<c, k>> : k \in 0 .. SEND_SEQ[c] - 1}
  BY SendsAre
<1>8. Promise(m) = [id   |-> <<c, Cardinality(SendsOf(c))>>,
                    past |-> Range(Logs[c]) \cup {p.id : p \in SendsOf(c)}]
  BY <1>1, <1>5, <1>6, <1>7 DEF Promise
<1>9. /\ Promises' = Promises \cup
            {[id   |-> <<c, Cardinality(SendsOf(c))>>,
              past |-> Range(Logs[c]) \cup {p.id : p \in SendsOf(c)}]}
      /\ Logs' = Logs
  BY <1>3, <1>4, <1>8
<1> QED
  BY <1>9 DEF Causal!Send, Causal!Sends, SendsOf, Promises, Promise, Logs, Names,
              Range, Causal!Range, Cardinality, Causal!Cardinality

(* A message is delivered once, and after its past.                        *)
LEMMA DeliveredRefines ==
    ASSUME IInv, spent.dup = 0, NEW c \in Client, NEW i, Arrives(c, i),
           Delivered(c, net[c][i])
    PROVE  Causal!Deliver(c)
<1> DEFINE m == net[c][i]
<1>1. /\ i \in 1 .. Len(net[c]) /\ sent' = sent /\ m \in sent /\ m \in Message
  BY ArrivesIs DEF Arrives
<1>2. /\ queue[c] = << >> /\ NoGreater(m.deps, DELIVERED[c])
      /\ log' = [log EXCEPT ![c] = Append(log[c], m)]
  BY DEF Delivered
<1>3. /\ log \in [Client -> Seq(Message)] /\ log[c] \in Seq(Message)
      /\ net[c] \in Seq(Message) /\ DELIVERED[c] \in Vector
      /\ IdsUpTo(DELIVERED[c], log[c])
  BY Types DEF IInv, TypeOK, LogIds
<1>4. Few(log[c], << >>, net[c], 0)
  BY <1>2 DEF IInv, Copies
<1>5. IdOf(m) \notin IdsOf(log[c])
  BY <1>1, <1>3, <1>4, NotTwice
<1> HIDE DEF m
<1>6. PastOf(m) \subseteq IdsOf(log[c])
  <2> SUFFICES ASSUME NEW x \in PastOf(m) PROVE x \in IdsOf(log[c])
    OBVIOUS
  <2>1. PICK d \in Client : \E k \in Nat : x = <<d, k>> /\ k < m.deps[d]
    BY <1>1, PastIs
  <2>2. PICK k \in Nat : x = <<d, k>> /\ k < m.deps[d]
    BY <2>1
  <2>3. m.deps[d] <= DELIVERED[c][d] /\ m.deps[d] \in Nat /\ DELIVERED[c][d] \in Nat
    BY <1>1, <1>2, <1>3, MessageFields DEF NoGreater, Vector
  <2> QED
    BY <1>3, <2>2, <2>3 DEF IdsUpTo
<1>7. Range(Logs[c]) = IdsOf(log[c]) /\ Promise(m) \in Promises
  BY <1>1, <1>3, NamesRange DEF Logs, Promises
<1>8. Logs' = [Logs EXCEPT ![c] = Append(Logs[c], Promise(m).id)]
  <2>1. \A d \in Client : Logs'[d] = Names(log'[d]) /\ Logs[d] = Names(log[d])
    BY DEF Logs, Names, IdOf
  <2>2. log'[c] = Append(log[c], m) /\ \A d \in Client \ {c} : log'[d] = log[d]
    BY <1>2, <1>3
  <2>3. Names(log'[c]) = Append(Names(log[c]), Promise(m).id)
    BY <1>1, <1>3, <2>2, NamesAppended DEF Promise
  <2>4. /\ Logs'[c] = Append(Logs[c], Promise(m).id)
        /\ \A d \in Client \ {c} : Logs'[d] = Logs[d]
    BY <2>1, <2>2, <2>3
  <2>5. /\ Logs = [d \in Client |-> Logs[d]] /\ Logs' = [d \in Client |-> Logs'[d]]
    BY DEF Logs
  <2> QED
    BY <2>4, <2>5
<1>9. Promises' = Promises
  BY <1>1 DEF Promises, Promise, PastOf, IdOf
<1>10. \E p \in Promises :
          /\ p.id \notin Range(Logs[c])
          /\ p.past \subseteq Range(Logs[c])
          /\ Logs' = [Logs EXCEPT ![c] = Append(Logs[c], p.id)]
          /\ Promises' = Promises
  BY <1>5, <1>6, <1>7, <1>8, <1>9 DEF Promise
<1> QED
  BY <1>10 DEF Causal!Deliver, Promises, Promise, Logs, Names, Range, Causal!Range

LEMMA NextRefines ==
    ASSUME IInv, IInv', spent.dup = 0, [Next]_vars
    PROVE  [Causal!Next]_Causal!vars
<1>1. ASSUME NEW c \in Client, NEW b \in BOOLEAN, Send(c, b) PROVE Causal!Next
  BY <1>1, SendRefines DEF Causal!Next
<1>2. ASSUME UNCHANGED <<sent, log>> PROVE UNCHANGED Causal!vars
  BY <1>2 DEF Causal!vars, PastOf, IdOf
<1>3. ASSUME NEW c \in Client, NEW i, Arrives(c, i) PROVE [Causal!Next]_Causal!vars
  <2>1. CASE Delivered(c, net[c][i])
    BY <1>3, <2>1, DeliveredRefines DEF Causal!Next
  <2>2. CASE ~Delivered(c, net[c][i])
    BY <1>2, <1>3, <2>2 DEF Arrives, Received, Dropped, Held
  <2> QED
    BY <2>1, <2>2
<1>4. ASSUME NEW c \in Client, Join(c) \/ Leave(c) PROVE UNCHANGED <<sent, log>>
  BY <1>4 DEF Join, Leave
<1>5. ASSUME NEW c \in Client, NEW i, Lose(c, i) \/ Duplicate(c, i)
      PROVE UNCHANGED <<sent, log>>
  BY <1>5 DEF Lose, Duplicate
<1>6. CASE UNCHANGED vars
  BY <1>2, <1>6 DEF vars
<1>7. CASE Next
  BY <1>1, <1>2, <1>3, <1>4, <1>5, <1>7, ReceiveArrives, ReceiveEarlyArrives DEF Next
<1> QED
  BY <1>6, <1>7

(* Unless the network duplicates, and whatever it loses or reorders, the   *)
(* group chat keeps the promise of CausalMulticast.                        *)
THEOREM CausalOrder == MaxDup = 0 => (Spec => CausalSpec)
<1> SUFFICES ASSUME MaxDup = 0 PROVE Spec => CausalSpec
  OBVIOUS
<1>1. Init => Causal!Init
  <2> SUFFICES ASSUME Init PROVE Causal!Init
    OBVIOUS
  <2>1. \A c \in Client : [i \in DOMAIN log[c] |-> IdOf(log[c][i])] = << >>
    BY DEF Init
  <2> QED
    BY <2>1 DEF Init, Causal!Init
<1>2. IInv => spent.dup = 0
  BY DEF IInv, TypeOK
<1>3. IInv /\ IInv' /\ [Next]_vars => [Causal!Next]_Causal!vars
  BY <1>2, NextRefines
<1> QED
  BY <1>1, <1>3, Invariance, PTL DEF Spec, CausalSpec, Causal!Spec
=============================================================================
