--------------------------- MODULE LeaderRingProofs ---------------------------
(***************************************************************************)
(* The ring that the leader maintains is always mended by the one message  *)
(* to the one peer that new_server(), ring_reconstruction() and            *)
(* ring_status() send: for any set of server IDs.                          *)
(***************************************************************************)
EXTENDS LeaderRing, Lemmas

EntrySet == [id : Peer \cup {Head0}]

LEMMA IdsAreNat == \A e \in EntrySet : e.id \in Nat
  BY HeadAssumption, PeerAssumption DEF EntrySet

(* Position of the ring predecessor of position k in a list of length n.   *)
Before(k, n) == IF k = 2 THEN n ELSE k - 1

LEMMA DistinctIds ==
    ASSUME NEW l \in Seq(EntrySet), TailSorted(l),
           NEW i \in 2 .. Len(l), NEW j \in 2 .. Len(l), i # j
    PROVE  l[i].id # l[j].id
<1>1. l[i].id \in Nat /\ l[j].id \in Nat
  BY IdsAreNat
<1>2. i < j \/ j < i
  OBVIOUS
<1> QED
  BY <1>1, <1>2 DEF TailSorted

(* The reference definition of the ring agrees with the list.              *)
LEMMA NextInList ==
    ASSUME NEW l \in Seq(EntrySet), TailSorted(l), NEW k \in 2 .. Len(l)
    PROVE  NextOf(l[k].id, Ids(l)) = l[After(k, Len(l))].id
<1> DEFINE G == {q \in Ids(l) : q > l[k].id}
<1>1. /\ Ids(l) \in SUBSET Nat /\ G \in SUBSET Nat
      /\ \A i \in 2 .. Len(l) : l[i].id \in Ids(l) /\ l[i].id \in Nat
  BY IdsAreNat DEF Ids
<1>2. CASE k = Len(l)
  <2>1. G = {}
    BY <1>1, <1>2 DEF Ids, TailSorted
  <2>2. 2 \in 2 .. Len(l) /\ l[2].id \in Ids(l)
    BY <1>1
  <2>3. \A q \in Ids(l) : l[2].id <= q
    BY <1>1, <2>2 DEF Ids, TailSorted
  <2>4. Min(Ids(l)) = l[2].id
    BY <1>1, <2>2, <2>3, MinIs
  <2> QED
    BY <1>2, <2>1, <2>4 DEF NextOf, After
<1>3. CASE k # Len(l)
  <2>1. k+1 \in 2 .. Len(l) /\ l[k+1].id \in G
    BY <1>1, <1>3 DEF TailSorted
  <2>2. ASSUME NEW q \in G PROVE l[k+1].id <= q
    <3>1. PICK i \in 2 .. Len(l) : q = l[i].id
      BY DEF Ids
    <3>2. k < i
      <4>1. i < k => l[i].id < l[k].id
        BY DEF TailSorted
      <4> QED
        BY <1>1, <3>1, <4>1
    <3>3. i = k+1 \/ l[k+1].id < l[i].id
      BY <2>1, <3>2 DEF TailSorted
    <3> QED
      BY <1>1, <2>1, <3>1, <3>3
  <2>3. \A q \in G : l[k+1].id <= q
    BY <2>2
  <2>4. Min(G) = l[k+1].id
    BY <1>1, <2>1, <2>3, MinIs
  <2>5. G # {}
    BY <2>1
  <2> QED
    BY <1>3, <2>4, <2>5 DEF NextOf, After
<1> QED
  BY <1>2, <1>3

LEMMA MendedIsRing == IInv => RingMended
<1> SUFFICES ASSUME IInv, Len(lst) > 2, NEW p \in Ids(lst)
             PROVE  told[p] = NextOf(p, Ids(lst))
  BY DEF RingMended
<1>1. lst \in Seq(EntrySet) /\ TailSorted(lst)
  BY DEF IInv, TypeOK, SortedPeers, EntrySet
<1>2. PICK i \in 2 .. Len(lst) : p = lst[i].id
  BY DEF Ids
<1>3. told[p] = lst[After(i, Len(lst))].id
  BY <1>2 DEF IInv, MendedByPosition
<1> QED
  BY <1>1, <1>2, <1>3, NextInList

(* The two neighbours in the ring, as new_server() finds them.             *)
LEMMA RingNeighbours ==
    ASSUME NEW l \in Seq(EntrySet), TailSorted(l), NEW k \in 2 .. Len(l)
    PROVE  /\ get_successor(l[k].id, l) = After(k, Len(l))
           /\ get_predecessor(l[k].id, l) = k - 1
           /\ PredecessorInRing(l[k].id, l) = Before(k, Len(l))
<1>1. /\ get_successor(l[k].id, l) = After(k, Len(l))
      /\ get_predecessor(l[k].id, l) = k - 1
  BY IdsAreNat, Neighbours DEF After
<1>2. k - 1 = 1 <=> k = 2
  OBVIOUS
<1> QED
  BY <1>1, <1>2 DEF PredecessorInRing, get_last_server, Before

(* A new peer at position k of l: everybody else keeps its successor,      *)
(* unless it is the predecessor of k.                                      *)
LEMMA OthersKeepSuccessor ==
    ASSUME NEW l \in Seq(EntrySet), NEW e \in EntrySet, NEW m \in Seq(EntrySet),
           NEW k \in 2 .. Len(m), Inserted(l, e, k, m),
           NEW i \in 2 .. Len(m), i # k, i # Before(k, Len(m))
    PROVE  \E j \in 2 .. Len(l) : /\ Len(l) > 2 /\ m[i] = l[j]
                                  /\ m[After(i, Len(m))] = l[After(j, Len(l))]
<1> DEFINE j == IF i < k THEN i ELSE i - 1
<1>1. Len(l) \in Nat /\ Len(m) = Len(l) + 1
  BY DEF Inserted
<1>2. j \in 2 .. Len(l) /\ Len(l) > 2 /\ m[i] = l[j]
  BY <1>1 DEF Inserted, Before
<1>3. m[After(i, Len(m))] = l[After(j, Len(l))]
  <2>1. CASE i = Len(m)
    <3>1. k # 2 /\ k # Len(m) /\ m[2] = l[2] /\ j = Len(l)
      BY <1>1, <2>1 DEF Inserted, Before
    <3> QED
      BY <2>1, <3>1 DEF After
  <2>2. CASE i # Len(m) /\ i < k
    <3>1. i + 1 < k /\ m[i+1] = l[i+1] /\ j = i /\ i # Len(l)
      BY <1>1, <2>2 DEF Inserted, Before
    <3> QED
      BY <2>2, <3>1 DEF After
  <2>3. CASE i # Len(m) /\ i > k
    <3>1. i + 1 \in k+1 .. Len(m) /\ (i + 1) - 1 = i
      BY <1>1, <2>3
    <3>2. m[i+1] = l[i]
      BY <3>1 DEF Inserted
    <3>3. j # Len(l) /\ j + 1 = i
      BY <1>1, <2>3
    <3> QED
      BY <2>3, <3>2, <3>3 DEF After
  <2> QED
    BY <2>1, <2>2, <2>3
<1> QED
  BY <1>2, <1>3

LEMMA JoinKeeps ==
    ASSUME IInv, NEW p \in Peer, Join(p)
    PROVE  IInv'
<1> DEFINE e == Entry(p)
<1>1. /\ lst \in Seq(EntrySet) /\ lst # << >> /\ lst[1].id = Head0
      /\ TailSorted(lst) /\ e \in EntrySet /\ e.id = p
      /\ told \in [Peer -> Peer \cup {NoOne}]
      /\ \A i \in 2 .. Len(lst) : lst[i].id \in Peer
  BY DEF IInv, TypeOK, SortedPeers, EntrySet, Entry
<1>2. PICK m : m = append_server_sorted(lst, e)
  OBVIOUS
<1>3. lst' = m
  BY <1>2 DEF Join
<1>4. PICK k \in 2 .. Len(m) :
        /\ m \in Seq(EntrySet) /\ TailSorted(m) /\ m[k].id = p
        /\ m # << >> /\ m[1] = lst[1]
        /\ Len(m) > 2 => Len(lst) # 1
        /\ \A i \in 2 .. Len(m) : m[i].id \in Peer
        /\ Len(m) > 2 =>
              \A i \in 2 .. Len(m) :
                 i # k /\ i # Before(k, Len(m)) =>
                    told[m[i].id] = m[After(i, Len(m))].id
  <2>1. CASE server_info_exist(p, lst)
    <3>1. m = lst
      BY <1>1, <1>2, <2>1 DEF append_server_sorted
    <3>2. PICK k \in 2 .. Len(lst) : lst[k].id = p
      BY <1>1, <2>1, PeerAssumption DEF server_info_exist
    <3> QED
      BY <1>1, <3>1, <3>2 DEF IInv, MendedByPosition
  <2>2. CASE ~server_info_exist(p, lst)
    <3>1. /\ m \in Seq(EntrySet) /\ TailSorted(m)
          /\ \E k \in 2 .. Len(m) : Inserted(lst, e, k, m)
      BY <1>1, <1>2, <2>2, IdsAreNat, AppendedSorted
    <3>2. PICK k \in 2 .. Len(m) : Inserted(lst, e, k, m)
      BY <3>1
    <3>3. m[k].id = p /\ Len(m) = Len(lst) + 1 /\ m[1] = lst[1]
      BY <1>1, <3>2 DEF Inserted
    <3>4. ASSUME NEW i \in 2 .. Len(m) PROVE m[i].id \in Peer
      BY <1>1, <3>2, <3>3 DEF Inserted
    <3>5. ASSUME NEW i \in 2 .. Len(m), i # k, i # Before(k, Len(m))
          PROVE  told[m[i].id] = m[After(i, Len(m))].id
      BY <1>1, <3>1, <3>2, <3>5, OthersKeepSuccessor DEF IInv, MendedByPosition
    <3> QED
      BY <1>1, <3>1, <3>3, <3>4, <3>5
  <2> QED
    BY <2>1, <2>2
<1>5. /\ get_successor(p, m) = After(k, Len(m))
      /\ PredecessorInRing(p, m) = Before(k, Len(m))
  BY <1>4, RingNeighbours
<1>6. /\ After(k, Len(m)) \in 2 .. Len(m) /\ Before(k, Len(m)) \in 2 .. Len(m)
      /\ After(Before(k, Len(m)), Len(m)) = k
      /\ Len(m) > 2 => Before(k, Len(m)) # k
  BY DEF After, Before
<1>7. told' \in [Peer -> Peer \cup {NoOne}]
  BY <1>1, <1>2, <1>4, <1>5, <1>6 DEF Join, NoOne
<1>8. TypeOK' /\ SortedPeers'
  BY <1>1, <1>3, <1>4, <1>7 DEF TypeOK, SortedPeers, EntrySet
<1>9. MendedByPosition'
  <2> SUFFICES ASSUME Len(m) > 2, NEW i \in 2 .. Len(m)
               PROVE  told'[m[i].id] = m[After(i, Len(m))].id
    BY <1>3 DEF MendedByPosition
  <2> DEFINE b == Before(k, Len(m))
  <2>1. told' = [told EXCEPT ![p] = m[After(k, Len(m))].id, ![m[b].id] = p]
    BY <1>2, <1>4, <1>5 DEF Join
  <2>2. m[b].id # p /\ m[b].id \in Peer /\ m[i].id \in Peer
    BY <1>4, <1>6, DistinctIds
  <2>3. CASE i = k
    BY <1>1, <1>4, <2>1, <2>2, <2>3
  <2>4. CASE i = b
    BY <1>1, <1>4, <1>6, <2>1, <2>2, <2>4
  <2>5. CASE i # k /\ i # b
    <3>1. m[i].id # m[k].id /\ m[i].id # m[b].id
      BY <1>4, <1>6, <2>5, DistinctIds
    <3>2. told'[m[i].id] = told[m[i].id]
      BY <1>1, <1>4, <2>1, <2>2, <3>1
    <3> QED
      BY <1>4, <2>5, <3>2
  <2> QED
    BY <2>3, <2>4, <2>5
<1> QED
  BY <1>3, <1>4, <1>8, <1>9 DEF IInv

LEMMA GiveUpKeeps ==
    ASSUME IInv, NEW p \in Peer, GiveUp(p)
    PROVE  IInv'
<1>1. /\ lst \in Seq(EntrySet) /\ lst # << >> /\ lst[1].id = Head0
      /\ TailSorted(lst)
      /\ told \in [Peer -> Peer \cup {NoOne}]
      /\ \A i \in 2 .. Len(lst) : lst[i].id \in Peer
  BY DEF IInv, TypeOK, SortedPeers, EntrySet
<1>2. PICK k \in 2 .. Len(lst) : lst[k].id = p
  BY DEF GiveUp, At
<1>3. PICK m : m = delete_server(lst, p)
  OBVIOUS
<1>4. /\ m \in Seq(EntrySet) /\ TailSorted(m) /\ Len(m) = Len(lst) - 1
      /\ \A i \in 1 .. k-1 : m[i] = lst[i]
      /\ \A i \in k .. Len(lst) - 1 : m[i] = lst[i+1]
  BY <1>1, <1>2, <1>3, IdsAreNat, DeletedSorted
<1>5. /\ get_predecessor(p, lst) = k - 1
      /\ PredecessorInRing(p, lst) = Before(k, Len(lst))
  BY <1>1, <1>2, RingNeighbours
<1> DEFINE n == Len(lst)
           b == Before(k, n)
           s == IF k = 2 \/ k = n THEN 2 ELSE k
<1>6. lst' = m
  BY <1>3 DEF GiveUp
<1>7. told' = IF Len(m) <= 2 THEN told ELSE [told EXCEPT ![lst[b].id] = m[s].id]
  <2>1. Len(m) > 2 =>
          s = IF k - 1 = 1 \/ k - 1 = Len(m) THEN 2 ELSE (k - 1) + 1
    BY <1>4
  <2> HIDE DEF s
  <2>2. told' = IF Len(m) <= 2 THEN told
                ELSE [told EXCEPT ![lst[b].id] =
                        IF k - 1 = 1 \/ k - 1 = Len(m) THEN m[2].id
                        ELSE m[(k - 1) + 1].id]
    BY <1>3, <1>5 DEF GiveUp
  <2>3. CASE Len(m) <= 2
    BY <2>2, <2>3
  <2>4. CASE Len(m) > 2
    BY <2>1, <2>2, <2>4, <1>4
  <2> QED
    BY <2>3, <2>4, <1>4
<1>8. \A i \in 2 .. Len(m) : m[i].id \in Peer
  <2> TAKE i \in 2 .. Len(m)
  <2>1. CASE i < k
    BY <1>1, <1>4, <2>1
  <2>2. CASE i >= k
    BY <1>1, <1>4, <2>2
  <2> QED
    BY <1>4, <2>1, <2>2
<1>9. m # << >> /\ m[1].id = Head0
  BY <1>1, <1>4
<1>10. told' \in [Peer -> Peer \cup {NoOne}]
  <2>1. Len(m) > 2 => s \in 2 .. Len(m) /\ b \in 2 .. Len(lst)
    BY <1>4 DEF Before
  <2> HIDE DEF s, b
  <2> QED
    BY <1>1, <1>4, <1>7, <1>8, <2>1
<1>11. TypeOK' /\ SortedPeers'
  BY <1>1, <1>4, <1>6, <1>8, <1>9, <1>10 DEF TypeOK, SortedPeers, EntrySet
<1>12. MendedByPosition'
  <2> SUFFICES ASSUME Len(m) > 2, NEW i \in 2 .. Len(m)
               PROVE  told'[m[i].id] = m[After(i, Len(m))].id
    BY <1>6 DEF MendedByPosition
  <2> DEFINE j == IF i < k THEN i ELSE i + 1
  <2>1. j \in 2 .. n /\ m[i] = lst[j] /\ j # k /\ n > 3
    BY <1>4
  <2>2. told[lst[j].id] = lst[After(j, n)].id
    BY <2>1 DEF IInv, MendedByPosition
  <2>3. b \in 2 .. n /\ s \in 2 .. Len(m) /\ lst[b].id \in Peer
    BY <1>1, <1>4 DEF Before
  <2>4. CASE j = b
    <3>1. After(i, Len(m)) = s
      BY <1>4, <2>1, <2>4 DEF After, Before
    <3> HIDE DEF s, b, j
    <3>2. told'[lst[b].id] = m[s].id
      BY <1>1, <1>4, <1>7, <2>3
    <3> QED
      BY <2>1, <2>4, <3>1, <3>2
  <2>5. CASE j # b
    <3>1. lst[j].id # lst[b].id
      BY <1>1, <2>1, <2>3, <2>5, DistinctIds
    <3>2. told'[lst[j].id] = told[lst[j].id]
      <4> HIDE DEF s, b, j
      <4> QED
        BY <1>1, <1>4, <1>7, <2>1, <2>3, <3>1
    <3>3. m[After(i, Len(m))] = lst[After(j, n)]
      <4>1. CASE i = Len(m)
        <5>1. k # 2 /\ m[2] = lst[2]
          BY <1>4, <2>1, <2>5, <4>1 DEF Before
        <5>2. j = n
          BY <1>4, <2>1, <2>5, <4>1 DEF Before
        <5> QED
          BY <4>1, <5>1, <5>2 DEF After
      <4>2. CASE i # Len(m) /\ i < k
        <5>1. i + 1 < k /\ j = i /\ j # n /\ i + 1 \in 1 .. k-1
          BY <1>4, <2>1, <2>5, <4>2 DEF Before
        <5>2. m[i+1] = lst[i+1]
          BY <1>4, <5>1
        <5> QED
          BY <4>2, <5>1, <5>2 DEF After
      <4>3. CASE i # Len(m) /\ i >= k
        <5>1. j = i + 1 /\ j # n /\ i + 1 \in k .. n - 1
          BY <1>4, <2>1, <4>3
        <5>2. m[i+1] = lst[(i+1)+1]
          BY <1>4, <5>1
        <5> QED
          BY <4>3, <5>1, <5>2 DEF After
      <4> QED
        BY <1>4, <4>1, <4>2, <4>3
    <3> QED
      BY <2>1, <2>2, <3>2, <3>3
  <2> QED
    BY <2>4, <2>5
<1> QED
  BY <1>6, <1>8, <1>11, <1>12 DEF IInv

-----------------------------------------------------------------------------
(* IInv is an invariant of the specification.                              *)
THEOREM Invariance == Spec => []IInv
<1>1. Init => IInv
  BY DEF Init, IInv, TypeOK, SortedPeers, MendedByPosition, TailSorted, Entry,
     NoOne
<1>2. IInv /\ [Next]_vars => IInv'
  <2> SUFFICES ASSUME IInv, [Next]_vars PROVE IInv'
    OBVIOUS
  <2>1. CASE Next
    BY <2>1, JoinKeeps, GiveUpKeeps DEF Next
  <2>2. CASE UNCHANGED vars
    BY <2>2 DEF vars, IInv, TypeOK, SortedPeers, MendedByPosition
  <2> QED
    BY <2>1, <2>2
<1> QED
  BY <1>1, <1>2, PTL DEF Spec

(* The list and the instructions keep their types.                         *)
THEOREM TypeCorrect == Spec => []TypeOK
<1>1. IInv => TypeOK
  BY DEF IInv
<1> QED
  BY <1>1, Invariance, PTL

(* append_server_sorted() and delete_server() keep the leader's list       *)
(* sorted after its head.                                                  *)
THEOREM SortedAlways == Spec => []SortedPeers
<1>1. IInv => SortedPeers
  BY DEF IInv
<1> QED
  BY <1>1, Invariance, PTL

(* One message to one peer mends the ring.                                 *)
THEOREM RingMendedAlways == Spec => []RingMended
  BY MendedIsRing, Invariance, PTL
=============================================================================
