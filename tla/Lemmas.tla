-------------------------------- MODULE Lemmas --------------------------------
(***************************************************************************)
(* Lemmas about the operators of the libraries (least and greatest         *)
(* numbers, positions of sequences, sizes of images) and those of          *)
(* ServerList, for lists over any set E of records with a natural number   *)
(* as id.                                                                  *)
(***************************************************************************)
EXTENDS ServerList, Integers, TLAPS, WellFoundedInduction, SequenceTheorems,
        FiniteSetTheorems, FunctionTheorems

LessThan == {ss \in Nat \X Nat : ss[1] < ss[2]}

LEMMA LessThanWellFounded == IsWellFoundedOn(LessThan, Nat)
  BY NatLessThanWellFounded, Zenon DEF OpToRel, LessThan

(* Min() of the library, on the sets of positions and of IDs used here.    *)
LEMMA LeastExists ==
    ASSUME NEW S \in SUBSET Nat, S # {}
    PROVE  Min(S) \in S /\ \A x \in S : Min(S) <= x
<1>1. PICK x \in S : \A y \in S : ~ (<<y, x>> \in LessThan)
  BY LessThanWellFounded, WFMin
<1>2. ASSUME NEW y \in S PROVE x <= y
  <2>1. <<y, x>> \notin LessThan /\ <<y, x>> \in Nat \X Nat
    BY <1>1
  <2>2. <<y, x>>[1] = y /\ <<y, x>>[2] = x
    OBVIOUS
  <2>3. ~(y < x)
    BY <2>1, <2>2 DEF LessThan
  <2> QED
    BY <2>3
<1>3. \A y \in S : x <= y
  BY <1>2
<1> QED
  BY <1>3 DEF Min

LEMMA MinIs ==
    ASSUME NEW S \in SUBSET Nat, NEW x \in S, \A y \in S : x <= y
    PROVE  Min(S) = x
<1>1. Min(S) \in S /\ Min(S) <= x
  BY LeastExists
<1>2. x <= Min(S) /\ x \in Nat /\ Min(S) \in Nat
  BY <1>1
<1> QED
  BY <1>1, <1>2

(* Max() of the library, on a nonempty set of numbers up to n.             *)
LEMMA GreatestExists ==
    ASSUME NEW n \in Nat, NEW S \in SUBSET (0 .. n), S # {}
    PROVE  Max(S) \in S /\ \A x \in S : x <= Max(S)
<1> DEFINE T == {k \in 0 .. n : n - k \in S}
<1>1. T \in SUBSET Nat /\ T # {}
  <2>1. PICK x \in S : TRUE
    OBVIOUS
  <2>2. n - x \in 0 .. n /\ n - (n - x) = x
    OBVIOUS
  <2>3. n - x \in T
    BY <2>2
  <2>4. T \in SUBSET Nat
    OBVIOUS
  <2> QED
    BY <2>3, <2>4
<1>2. Min(T) \in T /\ \A k \in T : Min(T) <= k
  BY <1>1, LeastExists
<1>3. n - Min(T) \in S
  BY <1>2
<1>4. ASSUME NEW x \in S PROVE n - Min(T) >= x
  <2>1. n - x \in 0 .. n /\ n - (n - x) = x
    OBVIOUS
  <2>2. n - x \in T
    BY <2>1
  <2>3. Min(T) <= n - x /\ Min(T) \in 0 .. n
    BY <1>2, <2>2
  <2> QED
    BY <2>1, <2>3
<1>5. \E x \in S : \A y \in S : x >= y
  BY <1>3, <1>4
<1> QED
  BY <1>5 DEF Max

-----------------------------------------------------------------------------
(* What a concatenation holds, with the index of its second part shifted.  *)
LEMMA ConcatAt ==
    ASSUME NEW E, NEW a \in Seq(E), NEW c \in Seq(E)
    PROVE  /\ a \o c \in Seq(E) /\ Len(a \o c) = Len(a) + Len(c)
           /\ \A i \in 1 .. Len(a) : (a \o c)[i] = a[i]
           /\ \A i \in Len(a) + 1 .. Len(a) + Len(c) : (a \o c)[i] = c[i - Len(a)]
<1>1. /\ a \o c \in Seq(E) /\ Len(a \o c) = Len(a) + Len(c)
      /\ \A i \in 1 .. Len(a) + Len(c) : (a \o c)[i] =
            IF i <= Len(a) THEN a[i] ELSE c[i - Len(a)]
  BY ConcatProperties
<1> DEFINE d == a \o c
<1>2. \A i \in 1 .. Len(a) + Len(c) : d[i] =
            IF i <= Len(a) THEN a[i] ELSE c[i - Len(a)]
  BY <1>1
<1> HIDE DEF d
<1>3. Len(a) \in Nat /\ Len(c) \in Nat
  OBVIOUS
<1>4. /\ \A i \in 1 .. Len(a) : d[i] = a[i]
      /\ \A i \in Len(a) + 1 .. Len(a) + Len(c) : d[i] = c[i - Len(a)]
  BY <1>2, <1>3
<1> QED
  BY <1>1, <1>4 DEF d

LEMMA InsertedAt ==
    ASSUME NEW E, NEW l \in Seq(E), NEW e \in E, NEW k \in 1 .. Len(l)
    PROVE  /\ InsertAt(l, k, e) \in Seq(E)
           /\ Len(InsertAt(l, k, e)) = Len(l) + 1
           /\ \A i \in 1 .. k-1 : InsertAt(l, k, e)[i] = l[i]
           /\ InsertAt(l, k, e)[k] = e
           /\ \A i \in k+1 .. Len(l) + 1 : InsertAt(l, k, e)[i] = l[i-1]
<1> DEFINE a == SubSeq(l, 1, k-1)
           b == a \o <<e>>
           c == SubSeq(l, k, Len(l))
           d == b \o c
<1>0. Len(l) \in Nat /\ k \in 1 .. Len(l)
  OBVIOUS
<1>1. a \in Seq(E) /\ Len(a) = k-1 /\ \A i \in 1 .. k-1 : a[i] = l[i]
  BY SubSeqProperties
<1>2. /\ c \in Seq(E) /\ Len(c) = Len(l) - k + 1
      /\ \A i \in 1 .. Len(l) - k + 1 : c[i] = l[k + i - 1]
  BY SubSeqProperties
<1>3. InsertAt(l, k, e) = d
  BY DEF InsertAt
<1>4. <<e>> \in Seq(E) /\ Len(<<e>>) = 1 /\ <<e>>[1] = e
  OBVIOUS
<1> HIDE DEF a, c
<1>5. /\ b \in Seq(E) /\ Len(b) = Len(a) + 1
      /\ \A i \in 1 .. Len(a) : b[i] = a[i]
      /\ \A i \in Len(a)+1 .. Len(a)+1 : b[i] = <<e>>[i - Len(a)]
  BY <1>1, <1>4, ConcatAt
<1> HIDE DEF b
<1>6. b \in Seq(E) /\ Len(b) = k /\ b[k] = e /\ \A i \in 1 .. k-1 : b[i] = l[i]
  BY <1>0, <1>1, <1>4, <1>5
<1>7. /\ d \in Seq(E) /\ Len(d) = Len(b) + Len(c)
      /\ \A i \in 1 .. Len(b) : d[i] = b[i]
      /\ \A i \in Len(b)+1 .. Len(b)+Len(c) : d[i] = c[i - Len(b)]
  BY <1>2, <1>6, ConcatAt
<1> HIDE DEF d
<1>8. \A i \in k+1 .. Len(l) + 1 : d[i] = l[i-1]
  <2> TAKE i \in k+1 .. Len(l) + 1
  <2>1. d[i] = c[i - k]
    BY <1>0, <1>2, <1>6, <1>7
  <2>2. i - k \in 1 .. Len(l) - k + 1 /\ k + (i - k) - 1 = i - 1
    BY <1>0
  <2> QED
    BY <1>2, <2>1, <2>2
<1>9. d[k] = e /\ \A i \in 1 .. k-1 : d[i] = l[i]
  BY <1>0, <1>6, <1>7
<1> QED
  BY <1>0, <1>2, <1>3, <1>6, <1>7, <1>8, <1>9

LEMMA RemovedAt ==
    ASSUME NEW E, NEW l \in Seq(E), NEW k \in 1 .. Len(l)
    PROVE  /\ RemoveAt(l, k) \in Seq(E)
           /\ Len(RemoveAt(l, k)) = Len(l) - 1
           /\ \A i \in 1 .. k-1 : RemoveAt(l, k)[i] = l[i]
           /\ \A i \in k .. Len(l) - 1 : RemoveAt(l, k)[i] = l[i+1]
<1> DEFINE a == SubSeq(l, 1, k-1)
           c == SubSeq(l, k+1, Len(l))
           d == a \o c
<1>0. Len(l) \in Nat /\ k \in 1 .. Len(l)
  OBVIOUS
<1>1. a \in Seq(E) /\ Len(a) = k-1 /\ \A i \in 1 .. k-1 : a[i] = l[i]
  BY SubSeqProperties
<1>2. /\ c \in Seq(E) /\ Len(c) = Len(l) - k
      /\ \A i \in 1 .. Len(l) - k : c[i] = l[k + i]
  BY SubSeqProperties
<1>3. RemoveAt(l, k) = d
  BY DEF RemoveAt
<1> HIDE DEF a, c
<1>4. /\ d \in Seq(E) /\ Len(d) = Len(a) + Len(c)
      /\ \A i \in 1 .. Len(a) : d[i] = a[i]
      /\ \A i \in Len(a)+1 .. Len(a)+Len(c) : d[i] = c[i - Len(a)]
  BY <1>1, <1>2, ConcatAt
<1> HIDE DEF d
<1>5. \A i \in 1 .. k-1 : d[i] = l[i]
  BY <1>0, <1>1, <1>4
<1>6. \A i \in k .. Len(l) - 1 : d[i] = l[i+1]
  <2> TAKE i \in k .. Len(l) - 1
  <2>1. d[i] = c[i - (k-1)]
    BY <1>0, <1>1, <1>2, <1>4
  <2>2. i - (k-1) \in 1 .. Len(l) - k /\ k + (i - (k-1)) = i + 1
    BY <1>0
  <2> QED
    BY <1>2, <2>1, <2>2
<1> QED
  BY <1>0, <1>1, <1>2, <1>3, <1>4, <1>5, <1>6

-----------------------------------------------------------------------------
LEMMA UpToSize ==
    ASSUME NEW n \in Nat
    PROVE  IsFiniteSet(1 .. n) /\ Cardinality(1 .. n) = n
<1>1. /\ IsFiniteSet(1 .. n)
      /\ Cardinality(1 .. n) = IF 1 > n THEN 0 ELSE n - 1 + 1
  BY FS_Interval
<1> QED
  BY <1>1

(* R holds nothing but the values that f takes on a finite set.            *)
LEMMA ImageSize ==
    ASSUME NEW S, IsFiniteSet(S), NEW R, NEW f \in [S -> R],
           \A y \in R : \E x \in S : f[x] = y
    PROVE  /\ IsFiniteSet(R) /\ Cardinality(R) \in Nat
           /\ Cardinality(R) <= Cardinality(S)
<1>1. f \in Surjection(S, R)
  BY Fun_IsSurj
<1>2. IsFiniteSet(R) /\ Cardinality(R) <= Cardinality(S)
  BY <1>1, FS_Surjection
<1> QED
  BY <1>2, FS_CardinalityType

LEMMA UnionSize ==
    ASSUME NEW A, NEW B, IsFiniteSet(A), IsFiniteSet(B)
    PROVE  /\ IsFiniteSet(A \cup B) /\ Cardinality(A \cup B) \in Nat
           /\ Cardinality(A) \in Nat /\ Cardinality(B) \in Nat
           /\ Cardinality(A \cup B) <= Cardinality(A) + Cardinality(B)
<1>1. /\ IsFiniteSet(A \cup B)
      /\ Cardinality(A \cup B) = Cardinality(A) + Cardinality(B) - Cardinality(A \cap B)
  BY FS_Union
<1>2. IsFiniteSet(A \cap B)
  BY FS_Intersection
<1>3. /\ Cardinality(A) \in Nat /\ Cardinality(B) \in Nat
      /\ Cardinality(A \cap B) \in Nat /\ Cardinality(A \cup B) \in Nat
  BY <1>1, <1>2, FS_CardinalityType
<1> QED
  BY <1>1, <1>3

-----------------------------------------------------------------------------
(* A sorted list holds every ID once.                                      *)
LEMMA SortedPositions ==
    ASSUME NEW E, \A e \in E : e.id \in Nat,
           NEW l \in Seq(E), TailSorted(l), NEW k \in 2 .. Len(l)
    PROVE  /\ At(l, l[k].id) = {k}
           /\ Above(l, l[k].id) = k+1 .. Len(l)
<1>1. \A i \in 2 .. Len(l) : l[i] \in E /\ l[i].id \in Nat
  OBVIOUS
<1>2. \A i \in 2 .. Len(l) : i < k => l[i].id < l[k].id
  BY DEF TailSorted
<1>3. \A i \in 2 .. Len(l) : k < i => l[k].id < l[i].id
  BY DEF TailSorted
<1>4. At(l, l[k].id) = {k}
  BY <1>1, <1>2, <1>3 DEF At
<1>5. Above(l, l[k].id) = k+1 .. Len(l)
  BY <1>1, <1>2, <1>3 DEF Above
<1> QED
  BY <1>4, <1>5

(* get_successor() and get_predecessor() of a server in a sorted list are  *)
(* the positions next to its own, the successor of the last one excepted.  *)
LEMMA Neighbours ==
    ASSUME NEW E, \A e \in E : e.id \in Nat,
           NEW l \in Seq(E), TailSorted(l), NEW k \in 2 .. Len(l)
    PROVE  /\ get_successor(l[k].id, l) = IF k = Len(l) THEN 2 ELSE k + 1
           /\ get_predecessor(l[k].id, l) = k - 1
<1>1. At(l, l[k].id) = {k} /\ Above(l, l[k].id) = k+1 .. Len(l)
  BY SortedPositions
<1>2. Min({k}) = k
  BY MinIs
<1>3. CASE k = Len(l)
  <2>1. k+1 .. Len(l) = {}
    BY <1>3
  <2> QED
    BY <1>1, <1>2, <1>3, <2>1 DEF get_successor, get_predecessor
<1>4. CASE k # Len(l)
  <2>1. k+1 \in k+1 .. Len(l) /\ k+1 .. Len(l) \in SUBSET Nat
    BY <1>4
  <2>2. Min(k+1 .. Len(l)) = k+1
    BY <2>1, MinIs
  <2> QED
    BY <1>1, <1>2, <1>4, <2>1, <2>2 DEF get_successor, get_predecessor
<1> QED
  BY <1>3, <1>4

-----------------------------------------------------------------------------
(* m is the list l with the record e inserted at position k.               *)
Inserted(l, e, k, m) ==
    /\ k \in 2 .. Len(m) /\ m[k] = e
    /\ Len(m) = Len(l) + 1
    /\ \A i \in 1 .. k-1 : m[i] = l[i]
    /\ \A i \in k+1 .. Len(m) : m[i] = l[i-1]

LEMMA InsertAtInserts ==
    ASSUME NEW E, NEW l \in Seq(E), NEW e \in E, NEW k \in 2 .. Len(l)
    PROVE  InsertAt(l, k, e) \in Seq(E) /\ Inserted(l, e, k, InsertAt(l, k, e))
<1> DEFINE m == InsertAt(l, k, e)
<1>1. Len(l) \in Nat /\ k \in 1 .. Len(l)
  OBVIOUS
<1>2. /\ m \in Seq(E) /\ Len(m) = Len(l) + 1
      /\ \A i \in 1 .. k-1 : m[i] = l[i]
      /\ m[k] = e
      /\ \A i \in k+1 .. Len(l) + 1 : m[i] = l[i-1]
  BY <1>1, InsertedAt
<1> HIDE DEF m
<1>3. Inserted(l, e, k, m)
  BY <1>1, <1>2 DEF Inserted
<1> QED
  BY <1>2, <1>3 DEF m

(* append_server_sorted() inserts a new server somewhere after the head    *)
(* and keeps the list sorted.                                              *)
LEMMA AppendedSorted ==
    ASSUME NEW E, \A x \in E : x.id \in Nat,
           NEW l \in Seq(E), l # << >>, TailSorted(l),
           NEW e \in E, ~server_info_exist(e.id, l)
    PROVE  LET m == append_server_sorted(l, e) IN
           /\ m \in Seq(E) /\ TailSorted(m)
           /\ \E k \in 2 .. Len(m) : Inserted(l, e, k, m)
<1> DEFINE m == append_server_sorted(l, e)
           k == IF Above(l, e.id) = {} THEN Len(l) + 1 ELSE Min(Above(l, e.id))
<1>1. /\ Len(l) \in Nat \ {0} /\ e.id \in Nat
      /\ \A i \in 1 .. Len(l) : l[i] \in E /\ l[i].id \in Nat
  OBVIOUS
<1>2. \A i \in 1 .. Len(l) : l[i].id # e.id
  BY DEF server_info_exist
<1>3. Above(l, e.id) \in SUBSET (2 .. Len(l))
  BY DEF Above
<1>4. k \in 2 .. Len(l) + 1 /\ \A i \in 2 .. k-1 : i \notin Above(l, e.id)
  <2>1. CASE Above(l, e.id) = {}
    BY <1>1, <2>1
  <2>2. CASE Above(l, e.id) # {}
    <3>1. k \in Above(l, e.id) /\ \A x \in Above(l, e.id) : k <= x
      BY <1>3, <2>2, LeastExists
    <3> QED
      BY <1>1, <1>3, <3>1, SMTT(30)
  <2> QED
    BY <2>1, <2>2
<1>5. \A i \in 2 .. k-1 : l[i].id < e.id
  <2> HIDE DEF k
  <2> TAKE i \in 2 .. k-1
  <2>1. i \in 2 .. Len(l) /\ i \in 1 .. Len(l) /\ i \notin Above(l, e.id)
    BY <1>1, <1>4
  <2>2. ~(l[i].id > e.id) /\ l[i].id # e.id
    BY <1>2, <2>1 DEF Above
  <2> QED
    BY <1>1, <2>1, <2>2
<1>6. \A i \in k .. Len(l) : e.id < l[i].id
  <2>1. CASE Above(l, e.id) = {}
    BY <1>1, <2>1
  <2>2. CASE Above(l, e.id) # {}
    <3>1. k \in Above(l, e.id)
      BY <1>3, <2>2, LeastExists
    <3>2. k \in 2 .. Len(l) /\ e.id < l[k].id
      BY <3>1 DEF Above
    <3>3. \A i \in k .. Len(l) : i = k \/ l[k].id < l[i].id
      BY <3>2 DEF TailSorted
    <3> QED
      BY <1>1, <3>2, <3>3, SMTT(30)
  <2> QED
    BY <2>1, <2>2
<1>7. m \in Seq(E) /\ Inserted(l, e, k, m)
  <2>1. CASE Above(l, e.id) = {}
    <3>1. m = Append(l, e) /\ k = Len(l) + 1
      BY <2>1 DEF append_server_sorted
    <3> QED
      BY <1>1, <3>1 DEF Inserted
  <2>2. CASE Above(l, e.id) # {}
    <3>1. m = InsertAt(l, k, e)
      BY <2>2 DEF append_server_sorted
    <3>2. k \in 2 .. Len(l)
      BY <1>3, <2>2, LeastExists
    <3> HIDE DEF k, m
    <3>3. InsertAt(l, k, e) \in Seq(E) /\ Inserted(l, e, k, InsertAt(l, k, e))
      BY <3>2, InsertAtInserts
    <3> QED
      BY <3>1, <3>3, Zenon
  <2> QED
    BY <2>1, <2>2
<1> HIDE DEF k, m
<1>8. TailSorted(m)
  <2> SUFFICES ASSUME NEW i \in 2 .. Len(m), NEW j \in 2 .. Len(m), i < j
               PROVE  m[i].id < m[j].id
    BY DEF TailSorted
  <2>1. CASE j < k
    <3>1. m[i] = l[i] /\ m[j] = l[j] /\ i \in 2 .. Len(l) /\ j \in 2 .. Len(l)
      BY <1>1, <1>4, <1>7, <2>1 DEF Inserted
    <3> QED
      BY <3>1 DEF TailSorted
  <2>2. CASE j = k
    <3>1. m[i] = l[i] /\ m[j] = e /\ i \in 2 .. k-1
      BY <1>1, <1>4, <1>7, <2>2 DEF Inserted
    <3> QED
      BY <1>5, <3>1
  <2>3. CASE i = k
    <3>1. m[i] = e /\ m[j] = l[j-1] /\ j-1 \in k .. Len(l)
      BY <1>1, <1>4, <1>7, <2>3 DEF Inserted
    <3> QED
      BY <1>6, <3>1
  <2>4. CASE i < k /\ k < j
    <3>1. m[i] = l[i] /\ m[j] = l[j-1] /\ j-1 \in k .. Len(l) /\ i \in 2 .. k-1
      BY <1>1, <1>4, <1>7, <2>4 DEF Inserted
    <3>2. l[i].id < e.id /\ e.id < l[j-1].id
      BY <1>5, <1>6, <3>1
    <3>3. i \in 1 .. Len(l) /\ j-1 \in 1 .. Len(l)
      BY <1>1, <1>4, <3>1
    <3>4. l[i].id \in Nat /\ l[j-1].id \in Nat
      BY <1>1, <3>3
    <3> QED
      BY <1>1, <3>1, <3>2, <3>4, SMTT(30)
  <2>5. CASE k < i
    <3>1. /\ m[i] = l[i-1] /\ m[j] = l[j-1] /\ i-1 < j-1
          /\ i-1 \in 2 .. Len(l) /\ j-1 \in 2 .. Len(l)
      BY <1>1, <1>4, <1>7, <2>5 DEF Inserted
    <3> QED
      BY <3>1 DEF TailSorted
  <2> QED
    BY <1>4, <2>1, <2>2, <2>3, <2>4, <2>5
<1>9. k \in 2 .. Len(m)
  BY <1>7 DEF Inserted
<1> QED
  BY <1>7, <1>8, <1>9 DEF m

(* delete_server() removes the server and keeps the list sorted.           *)
LEMMA DeletedSorted ==
    ASSUME NEW E, \A x \in E : x.id \in Nat,
           NEW l \in Seq(E), TailSorted(l), NEW k \in 2 .. Len(l)
    PROVE  LET m == delete_server(l, l[k].id) IN
           /\ m \in Seq(E) /\ TailSorted(m) /\ Len(m) = Len(l) - 1
           /\ \A i \in 1 .. k-1 : m[i] = l[i]
           /\ \A i \in k .. Len(l) - 1 : m[i] = l[i+1]
<1> DEFINE m == delete_server(l, l[k].id)
<1>1. At(l, l[k].id) = {k} /\ Min({k}) = k
  <2>1. At(l, l[k].id) = {k}
    BY SortedPositions
  <2>2. Min({k}) = k
    BY MinIs
  <2> QED
    BY <2>1, <2>2
<1>2. m = RemoveAt(l, k)
  BY <1>1 DEF delete_server
<1>3. k \in 1 .. Len(l) /\ Len(l) \in Nat
  OBVIOUS
<1> HIDE DEF m
<1>4. /\ m \in Seq(E) /\ Len(m) = Len(l) - 1
      /\ \A i \in 1 .. k-1 : m[i] = l[i]
      /\ \A i \in k .. Len(l) - 1 : m[i] = l[i+1]
  BY <1>2, <1>3, RemovedAt
<1>5. TailSorted(m)
  <2> SUFFICES ASSUME NEW i \in 2 .. Len(m), NEW j \in 2 .. Len(m), i < j
               PROVE  m[i].id < m[j].id
    BY DEF TailSorted
  <2> DEFINE At0(x) == IF x < k THEN x ELSE x + 1
  <2>1. m[i] = l[At0(i)] /\ m[j] = l[At0(j)]
    BY <1>3, <1>4
  <2>2. At0(i) \in 2 .. Len(l) /\ At0(j) \in 2 .. Len(l) /\ At0(i) < At0(j)
    BY <1>3, <1>4
  <2> HIDE DEF At0
  <2> QED
    BY <2>1, <2>2 DEF TailSorted
<1> QED
  BY <1>4, <1>5 DEF m

-----------------------------------------------------------------------------
(* A list that names no server twice.                                      *)
Distinct(l) == \A m, n \in DOMAIN l : l[m].id = l[n].id => m = n

(* append_server() adds the record at the end unless its ID is listed.     *)
AddedLast(l, e, m) ==
    /\ Len(m) = Len(l) + 1 /\ m[Len(l) + 1] = e
    /\ \A i \in 1 .. Len(l) : m[i] = l[i]

LEMMA Appended ==
    ASSUME NEW E, NEW l \in Seq(E), NEW e \in E, NEW m, m = append_server(l, e)
    PROVE  /\ m \in Seq(E)
           /\ server_info_exist(e.id, l) => m = l
           /\ ~server_info_exist(e.id, l) => AddedLast(l, e, m)
           /\ Distinct(l) => Distinct(m)
<1>1. Len(l) \in Nat /\ DOMAIN l = 1 .. Len(l)
  OBVIOUS
<1>2. CASE server_info_exist(e.id, l)
  <2>1. m = l
    BY <1>2 DEF append_server
  <2> QED
    BY <1>1, <1>2, <2>1
<1>3. CASE ~server_info_exist(e.id, l)
  <2>1. m = Append(l, e)
    BY <1>3 DEF append_server
  <2>2. /\ Append(l, e) \in Seq(E) /\ Len(Append(l, e)) = Len(l) + 1
        /\ \A i \in 1 .. Len(l) : Append(l, e)[i] = l[i]
        /\ Append(l, e)[Len(l) + 1] = e
    BY AppendProperties
  <2>3. /\ m \in Seq(E) /\ Len(m) = Len(l) + 1
        /\ \A i \in 1 .. Len(l) : m[i] = l[i]
        /\ m[Len(l) + 1] = e
    BY <2>1, <2>2, Zenon
  <2>4. ASSUME Distinct(l) PROVE Distinct(m)
    <3>1. \A i \in 1 .. Len(l) : l[i].id # e.id
      BY <1>3 DEF server_info_exist
    <3>2. DOMAIN m = 1 .. Len(l) + 1
      BY <2>3
    <3>3. \A i \in 1 .. Len(l) + 1 : i \in 1 .. Len(l) \/ i = Len(l) + 1
      BY <1>1
    <3> QED
      BY <1>1, <2>3, <2>4, <3>1, <3>2, <3>3 DEF Distinct
  <2>5. AddedLast(l, e, m)
    BY <2>3 DEF AddedLast
  <2> QED
    BY <1>3, <2>3, <2>4, <2>5
<1> QED
  BY <1>2, <1>3

(* append_server_sorted() adds it somewhere after the head.                *)
LEMMA SortedIn ==
    ASSUME NEW E, NEW l \in Seq(E), Len(l) > 0, NEW e \in E,
           NEW m, m = append_server_sorted(l, e)
    PROVE  /\ m \in Seq(E)
           /\ server_info_exist(e.id, l) => m = l
           /\ ~server_info_exist(e.id, l) => \E k \in 2 .. Len(m) : Inserted(l, e, k, m)
<1>1. Len(l) \in Nat \ {0}
  OBVIOUS
<1>2. CASE server_info_exist(e.id, l)
  BY <1>2 DEF append_server_sorted
<1>3. CASE ~server_info_exist(e.id, l) /\ Above(l, e.id) = {}
  <2>1. m = Append(l, e)
    BY <1>3 DEF append_server_sorted
  <2>2. /\ Append(l, e) \in Seq(E) /\ Len(Append(l, e)) = Len(l) + 1
        /\ \A i \in 1 .. Len(l) : Append(l, e)[i] = l[i]
        /\ Append(l, e)[Len(l) + 1] = e
    BY AppendProperties
  <2>3. /\ m \in Seq(E) /\ Len(m) = Len(l) + 1
        /\ \A i \in 1 .. Len(l) : m[i] = l[i]
        /\ m[Len(l) + 1] = e
    BY <2>1, <2>2, Zenon
  <2>4. Inserted(l, e, Len(l) + 1, m) /\ Len(l) + 1 \in 2 .. Len(m)
    BY <1>1, <2>3 DEF Inserted
  <2> QED
    BY <1>3, <2>3, <2>4
<1>4. CASE ~server_info_exist(e.id, l) /\ Above(l, e.id) # {}
  <2> DEFINE k == Min(Above(l, e.id))
  <2>1. m = InsertAt(l, k, e)
    BY <1>4 DEF append_server_sorted
  <2>2. Above(l, e.id) \in SUBSET Nat /\ Above(l, e.id) \subseteq 2 .. Len(l)
    BY DEF Above
  <2>3. k \in 2 .. Len(l)
    BY <1>4, <2>2, LeastExists
  <2> HIDE DEF k
  <2>4. InsertAt(l, k, e) \in Seq(E) /\ Inserted(l, e, k, InsertAt(l, k, e))
    BY <2>3, InsertAtInserts
  <2>5. m \in Seq(E) /\ Inserted(l, e, k, m)
    BY <2>1, <2>4, Zenon
  <2> QED
    BY <1>4, <2>5 DEF Inserted
<1> QED
  BY <1>2, <1>3, <1>4

(* Such a list names after its head what the old one named, and e.         *)
Among(l, e, k, m) ==
    /\ Len(l) \in Nat /\ Len(m) = Len(l) + 1 /\ m[1] = l[1] /\ m[k] = e
    /\ \A n \in 2 .. Len(m) : n = k \/ \E j \in 2 .. Len(l) : m[n] = l[j]
    /\ \A j \in 2 .. Len(l) : \E n \in 2 .. Len(m) : n # k /\ m[n] = l[j]
    /\ Distinct(l) /\ ~server_info_exist(e.id, l) => Distinct(m)

LEMMA InsertedAmong ==
    ASSUME NEW E, NEW l \in Seq(E), NEW e \in E, NEW m \in Seq(E),
           NEW k \in 2 .. Len(m), Inserted(l, e, k, m)
    PROVE  Among(l, e, k, m)
<1>1. Len(l) \in Nat /\ Len(m) = Len(l) + 1 /\ k \in 2 .. Len(l) + 1 /\ m[k] = e
  BY DEF Inserted
<1> DEFINE Old(n) == IF n < k THEN n ELSE n - 1
           New(j) == IF j < k THEN j ELSE j + 1
<1>2. \A n \in 1 .. Len(m) : n # k => Old(n) \in 1 .. Len(l) /\ m[n] = l[Old(n)]
  <2> TAKE n \in 1 .. Len(m)
  <2>1. CASE n < k
    <3>1. n \in 1 .. k-1 /\ n \in 1 .. Len(l) /\ Old(n) = n
      BY <1>1, <2>1
    <3> QED
      BY <3>1 DEF Inserted
  <2>2. CASE n > k
    <3>1. n \in k+1 .. Len(m) /\ n-1 \in 1 .. Len(l) /\ Old(n) = n-1
      BY <1>1, <2>2
    <3> QED
      BY <3>1 DEF Inserted
  <2> QED
    BY <1>1, <2>1, <2>2
<1>3. \A n \in 2 .. Len(m) : n # k => Old(n) \in 2 .. Len(l)
  BY <1>1
<1>4. \A j \in 2 .. Len(l) : New(j) \in 2 .. Len(m) /\ New(j) # k /\ m[New(j)] = l[j]
  <2> TAKE j \in 2 .. Len(l)
  <2>1. New(j) \in 2 .. Len(m) /\ New(j) # k /\ Old(New(j)) = j
    BY <1>1
  <2>2. New(j) \in 1 .. Len(m)
    BY <1>1, <2>1
  <2> QED
    BY <1>2, <2>1, <2>2
<1>5. m[1] = l[1]
  <2>1. 1 \in 1 .. k-1
    BY <1>1
  <2> QED
    BY <2>1 DEF Inserted
<1>6. ASSUME Distinct(l), ~server_info_exist(e.id, l)
      PROVE  Distinct(m)
  <2>1. DOMAIN m = 1 .. Len(m) /\ DOMAIN l = 1 .. Len(l)
    OBVIOUS
  <2>2. \A i \in 1 .. Len(l) : l[i].id # e.id
    BY <1>6 DEF server_info_exist
  <2>3. \A a, b \in 1 .. Len(m) : a # k /\ b # k /\ Old(a) = Old(b) => a = b
    BY <1>1
  <2> HIDE DEF Old
  <2> SUFFICES ASSUME NEW a \in 1 .. Len(m), NEW b \in 1 .. Len(m), m[a].id = m[b].id
               PROVE  a = b
    BY <2>1 DEF Distinct
  <2>4. CASE a # k /\ b # k
    BY <1>2, <1>6, <2>1, <2>3, <2>4 DEF Distinct
  <2>5. CASE a = k \/ b = k
    BY <1>1, <1>2, <2>2, <2>5
  <2> QED
    BY <2>4, <2>5
<1> HIDE DEF Old, New
<1>7. \A n \in 2 .. Len(m) : n = k \/ \E j \in 2 .. Len(l) : m[n] = l[j]
  <2> TAKE n \in 2 .. Len(m)
  <2>1. n \in 1 .. Len(m)
    BY <1>1
  <2> QED
    BY <1>2, <1>3, <2>1
<1> QED
  BY <1>1, <1>4, <1>5, <1>6, <1>7 DEF Among

(* delete_server() removes that server from a list that names it once.     *)
Shortened(l, k, m) ==
    /\ Len(m) = Len(l) - 1
    /\ \A i \in 1 .. k-1 : m[i] = l[i]
    /\ \A i \in k .. Len(l) - 1 : m[i] = l[i+1]

LEMMA Deleted ==
    ASSUME NEW E, NEW l \in Seq(E), Distinct(l), NEW k \in 2 .. Len(l),
           NEW m, m = delete_server(l, l[k].id)
    PROVE  /\ Min(At(l, l[k].id)) = k
           /\ m \in Seq(E) /\ Shortened(l, k, m)
           /\ Distinct(m)
<1>1. Len(l) \in Nat /\ DOMAIN l = 1 .. Len(l) /\ k \in 1 .. Len(l)
  OBVIOUS
<1>2. At(l, l[k].id) = {k}
  BY <1>1 DEF At, Distinct
<1>3. Min(At(l, l[k].id)) = k
  <2>1. Min({k}) = k
    BY <1>1, MinIs
  <2> QED
    BY <1>2, <2>1
<1>4. m = RemoveAt(l, k)
  BY <1>3 DEF delete_server
<1>5. /\ m \in Seq(E) /\ Len(m) = Len(l) - 1
      /\ \A i \in 1 .. k-1 : m[i] = l[i]
      /\ \A i \in k .. Len(l) - 1 : m[i] = l[i+1]
  BY <1>1, <1>4, RemovedAt
<1>6. Distinct(m)
  <2> DEFINE n == Len(l)
             Old(i) == IF i < k THEN i ELSE i + 1
  <2>0. DOMAIN m = 1 .. Len(m)
    BY <1>5
  <2>1. n \in Nat /\ k \in 2 .. n /\ DOMAIN m = 1 .. n - 1 /\ DOMAIN l = 1 .. n
    BY <1>1, <1>5, <2>0
  <2>2. /\ \A i \in 1 .. k-1 : m[i] = l[i]
        /\ \A i \in k .. n - 1 : m[i] = l[i+1]
    BY <1>5
  <2> HIDE DEF n
  <2>3. ASSUME NEW i \in 1 .. n - 1
        PROVE  Old(i) \in 1 .. n /\ m[i] = l[Old(i)]
    <3>1. CASE i < k
      <4>1. i \in 1 .. k-1 /\ i \in 1 .. n /\ Old(i) = i
        BY <2>1, <3>1
      <4> QED
        BY <2>2, <4>1
    <3>2. CASE ~(i < k)
      <4>1. i \in k .. n - 1 /\ i+1 \in 1 .. n /\ Old(i) = i+1
        BY <2>1, <3>2
      <4> QED
        BY <2>2, <4>1
    <3> QED
      BY <3>1, <3>2
  <2>4. \A a, b \in 1 .. n - 1 : Old(a) = Old(b) => a = b
    BY <2>1
  <2> HIDE DEF Old
  <2> QED
    BY <2>1, <2>3, <2>4 DEF Distinct
<1> QED
  BY <1>3, <1>5, <1>6 DEF Shortened
=============================================================================
