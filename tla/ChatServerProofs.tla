--------------------------- MODULE ChatServerProofs ---------------------------
(***************************************************************************)
(* The invariants of ChatServer for any number of clients, peers and       *)
(* descriptors, and any number of them that die.                           *)
(***************************************************************************)
EXTENDS ChatServer, Lemmas

(* The peer is at the other end of a descriptor and has not closed it: the *)
(* descriptors are connected as k says, and those in e have ended.         *)
Living(q, k, e) == \E f \in Fd \ e : k[f] = <<"peer", q>>

(* The list starts with the server itself.                                 *)
Heads == Len(lst) > 0 /\ lst[1].id = 0

(* A follower lists itself, its leader and its successor, in this order.   *)
(* As long as it lists a successor, successor_socket is the descriptor of  *)
(* that successor.                                                         *)
FollowerList ==
    ~Leads => /\ Len(lst) <= 3
              /\ Len(lst) = 1 => successor_socket = error_return
              /\ Len(lst) >= 2 => lst[2].id = 1
              /\ Len(lst) = 3 => /\ lst[3].id = 2 /\ lst[3].sock = successor_socket
                                 /\ successor_socket \in Fd
                                 /\ conn[successor_socket] = Successor

(* Only a follower has a leader, and its number is not used for another    *)
(* connection.  One that lists nobody else has none.                       *)
LeaderSocket ==
    ltcp_socket # error_return =>
        ~Leads /\ Len(lst) > 1 /\ conn[ltcp_socket] = Leader

(* No other connection is that of a leader, until the follower lists it.   *)
OneLeader ==
    \A f \in Fd : conn[f] = Leader =>
        /\ ~Leads
        /\ Len(lst) > 1 => f = ltcp_socket
        /\ \A g \in Fd : conn[g] = Leader => g = f

(* A leader lists peers that have joined, in order, and those of them that *)
(* live with the descriptors that they have.                               *)
LeaderList ==
    Leads => /\ TailSorted(lst)
             /\ \A i \in 2 .. Len(lst) :
                   /\ lst[i].id \in joined /\ lst[i].sock \in Fd
                   /\ Living(lst[i].id, conn, ended) =>
                         conn[lst[i].sock] = <<"peer", lst[i].id>>

(* A client has one connection from the time it connects until it goes,    *)
(* and a peer no more than one.                                            *)
Places ==
    /\ \A f \in Fd, c \in Client :
          conn[f] = <<"client", c>> => client[c] \in {"connected", "registered"}
    /\ \A c \in Client : client[c] \in {"connected", "registered"} =>
          \E f \in Fd : conn[f] = <<"client", c>>
    /\ \A f \in Fd, p \in Peer : conn[f] = <<"peer", p>> => p \in joined
    /\ \A f, g \in Fd, c \in Client :
          conn[f] = <<"client", c>> /\ conn[g] = <<"client", c>> => f = g
    /\ \A f, g \in Fd, p \in Peer :
          conn[f] = <<"peer", p>> /\ conn[g] = <<"peer", p>> => f = g

(* No more peers are dead than deaths have been counted, up to one.        *)
DeadPeers ==
    /\ spent.ends = 0 => \A q \in joined : Living(q, conn, ended)
    /\ spent.ends < 2 => \A q, r \in joined :
          ~Living(q, conn, ended) /\ ~Living(r, conn, ended) => q = r

(* Each end that has not been read was counted unless it is a client's,    *)
(* and a follower has read those of the leaders that it has lost, and one  *)
(* more when it has lost its successor.                                    *)
EndsCounted ==
    /\ spent.ends = 0 => \A f \in ended : conn[f][1] = "client"
    /\ ~Leads => /\ Cardinality(ended) + spent.leaders <= spent.ends
                 /\ successor_socket # error_return /\ Len(lst) < 3 =>
                       Cardinality(ended) + spent.leaders < spent.ends

(* A follower without a leader has lost one.                               *)
LeaderCounted == ~Leads /\ ltcp_socket = error_return => spent.leaders > 0

(* An index that could not be sent has left a closed number in the set of  *)
(* select(), which stays there.                                            *)
Unanswered == spent.unanswered > 0 => Leads /\ ~(master \subseteq Open)

(* What SelectSound says, of a server that has died too.                   *)
Watched ==
    spent.rejected + spent.unanswered = 0 =>
        /\ master \subseteq Open
        /\ \A f \in Open \ master : conn[f][1] = "peer" /\ spent.ends > 0

(* Until a slot is left behind with a number that may be used again, every *)
(* slot is that of an accepted connection, which has no other, and has the *)
(* client's ID from GET_INDEX on; or its connection was closed because the *)
(* index could not be sent.                                                *)
SlotsExact ==
    spent.leaders + spent.mistaken = 0 =>
        /\ \A n \in DOMAIN ClientArray :
              \/ Accepted(conn[ClientArray[n].sock])
              \/ /\ spent.unanswered > 0 /\ conn[ClientArray[n].sock] = Free
                 /\ \E e \in Client : client[e] = "gone" /\ ClientArray[n].id = ClientId[e]
        /\ \A m, n \in DOMAIN ClientArray :
              ClientArray[m].sock = ClientArray[n].sock => m = n
        /\ \A n \in DOMAIN ClientArray, c \in Client :
              conn[ClientArray[n].sock] = <<"client", c>> =>
                 ClientArray[n].id = IF client[c] = "registered" THEN ClientId[c] ELSE 0
        /\ \A n \in DOMAIN ClientArray :
              conn[ClientArray[n].sock][1] \in {"leader", "predecessor"} =>
                 ClientArray[n].id = 0

(* What PeersListed says, in terms of the living.                          *)
Replaced ==
    Leads => \A f \in master \ ended, p \in Peer :
        conn[f] = <<"peer", p>> /\ p \notin Ids(lst) =>
            \E q \in joined : q > p /\ ~Living(q, conn, ended)

(* Those who have been given an index: they are registered, or were.       *)
Indexed(s) == {c \in Client : s[c] \in {"registered", "gone"}}
Indices == clk_index <= Cardinality(Indexed(client))

(* The descriptors of accepted connections.                                *)
AcceptedOf(k) == {f \in Fd : Accepted(k[f])}

IInv ==
    /\ TypeOK /\ Heads /\ FollowerList /\ LeaderSocket /\ OneLeader /\ LeaderList /\ Places
    /\ DeadPeers /\ EndsCounted /\ LeaderCounted /\ Unanswered /\ Watched
    /\ SlotsAccounted /\ SlotsExact /\ Indices
    /\ Routed /\ DeathNeedsFaults /\ Replaced

-----------------------------------------------------------------------------
(* The kinds of connections differ in the first component.                 *)
LEMMA Kinds ==
    /\ Free[1] = "free" /\ Leader[1] = "leader" /\ Successor[1] = "successor"
    /\ Predecessor[1] = "predecessor"
    /\ \A c : <<"client", c>>[1] = "client" /\ <<"peer", c>>[1] = "peer"
    /\ {Free, Leader, Successor, Predecessor} \subseteq Other
    /\ \A c \in Client : <<"client", c>> \in Other
    /\ \A p \in Peer : <<"peer", p>> \in Other
    /\ \A k \in Other :
          /\ k[1] = "client" => \E c \in Client : k = <<"client", c>>
          /\ k[1] = "peer" => \E p \in Peer : k = <<"peer", p>>
  BY DEF Free, Leader, Successor, Predecessor, Other

LEMMA Apart ==
    \A k : /\ k[1] # "client" => \A c : k # <<"client", c>>
           /\ k[1] # "peer" => \A p : k # <<"peer", p>>
  BY Kinds

(* The next number is not in use.                                          *)
LEMMA NextNumber ==
    ASSUME Open # Fd
    PROVE  LowestFree \in Fd /\ LowestFree \notin Open /\ conn[LowestFree] = Free
<1>1. Fd \ Open \in SUBSET Nat /\ Fd \ Open # {}
  BY BoundAssumption DEF Open, Fd
<1>2. LowestFree \in Fd \ Open
  BY <1>1, LeastExists DEF LowestFree
<1> QED
  BY <1>2 DEF Open

LEMMA FdFinite ==
    /\ IsFiniteSet(Fd) /\ Cardinality(Fd) = MaxFd
    /\ \A S \in SUBSET Fd : IsFiniteSet(S) /\ Cardinality(S) \in Nat
<1>1. MaxFd \in Nat
  BY BoundAssumption
<1>2. IsFiniteSet(Fd) /\ Cardinality(Fd) = MaxFd
  BY <1>1, UpToSize DEF Fd
<1>3. \A S \in SUBSET Fd : IsFiniteSet(S)
  BY <1>2, FS_Subset
<1>4. \A S \in SUBSET Fd : Cardinality(S) \in Nat
  BY <1>3, FS_CardinalityType
<1> QED
  BY <1>2, <1>3, <1>4

LEMMA SlotTypes ==
    ASSUME NEW l \in Seq([id : Nat, sock : Fd])
    PROVE  /\ Len(l) \in Nat /\ DOMAIN l = 1 .. Len(l)
           /\ \A n \in DOMAIN l : l[n].id \in Nat /\ l[n].sock \in Fd
<1>1. \A n \in 1 .. Len(l) : l[n] \in [id : Nat, sock : Fd]
  BY ElementOfSeq
<1> QED
  BY <1>1

(* The types of the variables one by one.                                  *)
LEMMA Types ==
    ASSUME IInv
    PROVE  /\ conn \in [Fd -> Other] /\ ended \subseteq Fd /\ master \subseteq Fd
           /\ \A f \in ended : conn[f] # Free
           /\ ClientArray \in Seq([id : Nat, sock : Fd])
           /\ lst \in Seq([id : Nat, sock : Fd \cup {error_return}, leader : BOOLEAN])
           /\ ltcp_socket \in Fd \cup {error_return}
           /\ successor_socket \in Fd \cup {error_return}
           /\ error_return \notin Fd
           /\ lst[1] \in [id : Nat, sock : Fd \cup {error_return}, leader : BOOLEAN]
           /\ clk_index \in Nat
           /\ client \in [Client -> {"new", "connected", "registered", "gone"}]
           /\ joined \subseteq Peer
           /\ spent.ends \in Nat /\ spent.leaders \in Nat
           /\ spent.mistaken \in Nat /\ spent.rejected \in Nat /\ spent.unanswered \in Nat
           /\ spent \in [ends : 0 .. MaxEnds, neighbour : 0 .. MaxNeighbour,
                         leaders : Nat, mistaken : Nat, rejected : Nat, unanswered : Nat]
           /\ \A c \in Client : client[c] # "new" => Leads
           /\ joined # {} => Leads
<1>1. error_return \notin Fd
  BY DEF error_return, Fd
<1>2. spent \in [ends : 0 .. MaxEnds, neighbour : 0 .. MaxNeighbour,
                 leaders : Nat, mistaken : Nat, rejected : Nat, unanswered : Nat]
  BY DEF IInv, TypeOK
<1>3. /\ spent.ends \in Nat /\ spent.leaders \in Nat
      /\ spent.mistaken \in Nat /\ spent.rejected \in Nat /\ spent.unanswered \in Nat
  BY <1>2
<1>4. clk_index \in Nat
  <2>1. Cardinality(Client) \in Nat
    BY ClientAssumption, FS_CardinalityType
  <2>2. clk_index \in 0 .. Cardinality(Client)
    BY DEF IInv, TypeOK
  <2> QED
    BY <2>1, <2>2
<1>5. /\ lst \in Seq([id : Nat, sock : Fd \cup {error_return}, leader : BOOLEAN])
      /\ Len(lst) > 0
  BY DEF IInv, TypeOK, Heads
<1>6. \A E : lst \in Seq(E) => lst[1] \in E
  BY <1>5
<1>7. lst[1] \in [id : Nat, sock : Fd \cup {error_return}, leader : BOOLEAN]
  BY <1>5, <1>6
<1> QED
  BY <1>1, <1>2, <1>3, <1>4, <1>5, <1>7, Zenon DEF IInv, TypeOK, Leads

(* A follower has no clients and no peers at its descriptors.              *)
LEMMA FollowerAlone ==
    ASSUME IInv, ~Leads, NEW f \in Fd
    PROVE  conn[f][1] \notin {"client", "peer"}
<1>1. conn[f] \in Other
  BY Types
<1>2. ASSUME conn[f][1] = "client" PROVE FALSE
  <2>1. PICK c \in Client : conn[f] = <<"client", c>>
    BY <1>1, <1>2, Kinds
  <2>2. client[c] \in {"connected", "registered"}
    BY <2>1 DEF IInv, Places
  <2> QED
    BY <2>2, Types
<1>3. ASSUME conn[f][1] = "peer" PROVE FALSE
  <2>1. PICK p \in Peer : conn[f] = <<"peer", p>>
    BY <1>1, <1>3, Kinds
  <2>2. p \in joined
    BY <2>1 DEF IInv, Places
  <2> QED
    BY <2>2, Types
<1> QED
  BY <1>2, <1>3

(* While every number in the set of select() is open, and as long as the   *)
(* server follows, every index has been sent.                              *)
LEMMA AllAnswered ==
    ASSUME IInv, master \subseteq Open \/ ~Leads
    PROVE  spent.unanswered = 0
<1>1. spent.unanswered \in Nat
  BY Types
<1>2. ~(spent.unanswered > 0)
  BY DEF IInv, Unanswered
<1> DEFINE n == spent.unanswered
<1> HIDE DEF n
<1>3. n = 0
  BY <1>1, <1>2 DEF n
<1> QED
  BY <1>3 DEF n

LEMMA IndexedGrows ==
    ASSUME NEW s, NEW t,
           \A c \in Client : s[c] \in {"registered", "gone"} => t[c] \in {"registered", "gone"}
    PROVE  /\ Cardinality(Indexed(s)) \in Nat /\ Cardinality(Indexed(t)) \in Nat
           /\ Cardinality(Indexed(s)) <= Cardinality(Indexed(t))
<1>1. Indexed(s) \subseteq Indexed(t) /\ Indexed(t) \subseteq Client
  BY DEF Indexed
<1>2. IsFiniteSet(Indexed(t))
  BY <1>1, ClientAssumption, FS_Subset
<1>3. IsFiniteSet(Indexed(s)) /\ Cardinality(Indexed(s)) <= Cardinality(Indexed(t))
  BY <1>1, <1>2, FS_Subset
<1> QED
  BY <1>2, <1>3, FS_CardinalityType

-----------------------------------------------------------------------------
(* accept_new_client(), for a client or for another server, with what      *)
(* becomes of the client and the count of the rejected.                    *)
Accepts(k) ==
    /\ accept_new_client(k) /\ k \in Other /\ Accepted(k)
    /\ k = Leader => ~Leads /\ Len(lst) = 1 /\ \A f \in Fd : conn[f] # Leader
    /\ client' \in [Client -> {"new", "connected", "registered", "gone"}]
    /\ \A c \in Client : k = <<"client", c>> =>
          Leads /\ client[c] = "new" /\ client'[c] = IF Full THEN "gone" ELSE "connected"
    /\ \A c \in Client : k # <<"client", c>> => client'[c] = client[c]
    /\ spent' \in [ends : 0 .. MaxEnds, neighbour : 0 .. MaxNeighbour,
                   leaders : Nat, mistaken : Nat, rejected : Nat, unanswered : Nat]
    /\ spent'.ends = spent.ends /\ spent'.leaders = spent.leaders
    /\ spent'.mistaken = spent.mistaken
    /\ spent'.rejected = spent.rejected + (IF Full THEN 1 ELSE 0)
    /\ spent'.unanswered = spent.unanswered

LEMMA AcceptKeeps ==
    ASSUME IInv, NEW k, Accepts(k)
    PROVE  IInv'
<1> DEFINE f == LowestFree
<1>1. f \in Fd /\ conn[f] = Free /\ f \notin Open /\ f \notin ended /\ f \notin master
  <2>1. f \in Fd /\ conn[f] = Free /\ f \notin Open
    BY NextNumber DEF Accepts, accept_new_client
  <2>2. f \notin ended
    BY <2>1, Types
  <2> QED
    BY <2>1, <2>2 DEF Accepts, accept_new_client
<1>2. /\ status = "up" /\ master \subseteq Open /\ master' = master \cup {f}
      /\ conn' = IF Full THEN conn ELSE [conn EXCEPT ![f] = k]
      /\ ClientArray' = IF Full THEN ClientArray ELSE Append(ClientArray, Slot(0, f))
      /\ status' = status /\ ended' = ended /\ lst' = lst /\ ltcp_socket' = ltcp_socket
      /\ successor_socket' = successor_socket /\ joined' = joined
      /\ clk_index' = clk_index /\ astray' = astray /\ missed' = missed
  BY DEF Accepts, accept_new_client, Up, chat
<1>l. k = Leader => ~Leads /\ Len(lst) = 1 /\ \A g \in Fd : conn[g] # Leader
  BY DEF Accepts
<1>a. /\ k \in Other /\ k[1] \in {"leader", "predecessor", "client"}
      /\ client' \in [Client -> {"new", "connected", "registered", "gone"}]
      /\ \A c \in Client : k = <<"client", c>> => Leads /\ client[c] = "new"
      /\ \A c \in Client : k = <<"client", c>> =>
            client'[c] = IF Full THEN "gone" ELSE "connected"
      /\ \A c \in Client : k # <<"client", c>> => client'[c] = client[c]
  BY DEF Accepts, Accepted
<1>b. /\ spent' \in [ends : 0 .. MaxEnds, neighbour : 0 .. MaxNeighbour,
                     leaders : Nat, mistaken : Nat, rejected : Nat, unanswered : Nat]
      /\ spent'.ends = spent.ends /\ spent'.leaders = spent.leaders
      /\ spent'.mistaken = spent.mistaken
      /\ spent'.rejected = spent.rejected + (IF Full THEN 1 ELSE 0)
      /\ spent'.unanswered = spent.unanswered
  BY DEF Accepts
<1>p. /\ Places
      /\ \A c \in Client, g \in Fd : k = <<"client", c>> => conn[g] # <<"client", c>>
  <2>1. Places
    BY DEF IInv
  <2>2. \A c \in Client, g \in Fd :
            conn[g] = <<"client", c>> => client[c] \in {"connected", "registered"}
    BY <2>1 DEF Places
  <2> QED
    BY <1>a, <2>1, <2>2
<1>u. spent.unanswered = 0 /\ spent'.unanswered = 0 /\ spent.rejected \in Nat
  BY <1>2, <1>b, AllAnswered, Types
<1> HIDE DEF f
<1>3. /\ conn \in [Fd -> Other] /\ ended \subseteq Fd /\ master \subseteq Fd
      /\ \A g \in ended : conn[g] # Free
      /\ ClientArray \in Seq([id : Nat, sock : Fd]) /\ Len(ClientArray) \in Nat
      /\ lst \in Seq([id : Nat, sock : Fd \cup {error_return}, leader : BOOLEAN])
  BY Types
<1>5. /\ conn' \in [Fd -> Other]
      /\ \A g \in Fd : conn'[g] = IF g = f /\ ~Full THEN k ELSE conn[g]
  BY <1>1, <1>2, <1>3, <1>a
<1>6. Full \in BOOLEAN /\ (Full <=> Len(ClientArray) = MAX_CONNECTION)
  BY DEF Full
<1>7. /\ ClientArray' \in Seq([id : Nat, sock : Fd])
      /\ Full => ClientArray' = ClientArray
      /\ ~Full => /\ Len(ClientArray') = Len(ClientArray) + 1
                  /\ \A n \in 1 .. Len(ClientArray) : ClientArray'[n] = ClientArray[n]
                  /\ ClientArray'[Len(ClientArray) + 1] = Slot(0, f)
  <2>1. Slot(0, f) \in [id : Nat, sock : Fd]
    BY <1>1 DEF Slot
  <2> DEFINE e == Slot(0, f)
  <2> HIDE DEF e
  <2>3. /\ Append(ClientArray, e) \in Seq([id : Nat, sock : Fd])
        /\ Len(Append(ClientArray, e)) = Len(ClientArray) + 1
        /\ \A n \in 1 .. Len(ClientArray) : Append(ClientArray, e)[n] = ClientArray[n]
        /\ Append(ClientArray, e)[Len(ClientArray) + 1] = e
    BY <1>3, <2>1, AppendProperties DEF e
  <2> QED
    BY <1>2, <1>3, <2>3 DEF e
<1>8. Slot(0, f).id = 0 /\ Slot(0, f).sock = f
  BY DEF Slot
<1>9. \A q : Living(q, conn', ended') <=> Living(q, conn, ended)
  <2>1. \A g \in Fd : \A q : conn'[g] = <<"peer", q>> <=> conn[g] = <<"peer", q>>
    <3>1. conn[f][1] = "free" /\ k[1] # "peer"
      BY <1>1, <1>a, Kinds
    <3>2. \A q : k # <<"peer", q>> /\ conn[f] # <<"peer", q>>
      BY <3>1, Apart
    <3> QED
      BY <1>5, <3>2
  <2> QED
    BY <1>2, <2>1 DEF Living
<1>10. TypeOK'
  <2>1. ended' \subseteq {g \in Fd : conn'[g] # Free}
    BY <1>1, <1>2, <1>3, <1>5
  <2>2. Len(ClientArray') <= MAX_CONNECTION
    <3>1. Len(ClientArray) <= MAX_CONNECTION
      BY DEF IInv, TypeOK
    <3> QED
      BY <1>3, <1>6, <1>7, <3>1, ConnectionAssumption
  <2>3. lst'[1].leader \/ (joined' = {} /\ \A c \in Client : client'[c] = "new")
    <3>1. lst[1].leader \/ (joined = {} /\ \A c \in Client : client[c] = "new")
      BY DEF IInv, TypeOK
    <3> QED
      BY <1>2, <1>a, <3>1 DEF Leads
  <2>4. /\ status' \in {"up", "select failed", "segv", "exited"} /\ master' \subseteq Fd
        /\ lst' \in Seq([id : Nat, sock : Fd \cup {error_return}, leader : BOOLEAN])
        /\ {ltcp_socket', successor_socket'} \subseteq Fd \cup {error_return}
        /\ clk_index' \in 0 .. Cardinality(Client) /\ joined' \subseteq Peer
        /\ astray' \subseteq Client /\ missed' \subseteq Client
    BY <1>1, <1>2 DEF IInv, TypeOK
  <2> QED
    BY <1>5, <1>7, <1>a, <1>b, <2>1, <2>2, <2>3, <2>4 DEF TypeOK
<1>11. Heads' /\ LeaderSocket' /\ FollowerList'
  <2>1. \A g \in Fd : conn[g] # Free => conn'[g] = conn[g]
    BY <1>1, <1>5
  <2>2. Leader # Free /\ Successor # Free
    BY Kinds
  <2> QED
    BY <1>2, <2>1, <2>2, Types DEF IInv, Heads, LeaderSocket, FollowerList, Leads
<1>o. OneLeader'
  <2>1. OneLeader
    BY DEF IInv
  <2>2. CASE k = Leader
    <3>1. \A g \in Fd : conn'[g] = Leader => g = f
      BY <1>5, <1>l, <2>2
    <3>2. ~Leads' /\ ~(Len(lst') > 1)
      BY <1>2, <1>l, <2>2 DEF Leads
    <3> QED
      BY <3>1, <3>2 DEF OneLeader
  <2>3. CASE k # Leader
    <3>1. \A g \in Fd : conn'[g] = Leader => conn[g] = Leader
      BY <1>5, <2>3
    <3> QED
      BY <1>2, <2>1, <3>1 DEF OneLeader, Leads
  <2> QED
    BY <2>2, <2>3
<1>12. LeaderList'
  <2>1. \A g \in Fd, q \in Peer : conn[g] = <<"peer", q>> => conn'[g] = <<"peer", q>>
    <3>1. conn[f][1] # "peer"
      BY <1>1, Kinds
    <3> QED
      BY <1>5, <3>1, Apart
  <2>3. LeaderList
    BY DEF IInv
  <2>2. joined \subseteq Peer
    BY Types
  <2> QED
    <3> SUFFICES ASSUME Leads
                 PROVE  LeaderList'
      BY <1>2 DEF LeaderList, Leads
    <3>1. TailSorted(lst')
      BY <1>2, <2>3 DEF LeaderList
    <3>2. ASSUME NEW i \in 2 .. Len(lst')
          PROVE  /\ lst'[i].id \in joined' /\ lst'[i].sock \in Fd
                 /\ Living(lst'[i].id, conn', ended') =>
                       conn'[lst'[i].sock] = <<"peer", lst'[i].id>>
      <4>1. /\ lst[i].id \in joined /\ lst[i].sock \in Fd
            /\ Living(lst[i].id, conn, ended) =>
                  conn[lst[i].sock] = <<"peer", lst[i].id>>
        BY <1>2, <2>3 DEF LeaderList
      <4> QED
        BY <1>2, <1>9, <2>1, <2>2, <4>1
    <3> QED
      BY <3>1, <3>2 DEF LeaderList
<1>13. Places'
  <2>1. \A g \in Fd, c \in Client : conn'[g] = <<"client", c>> =>
            client'[c] \in {"connected", "registered"}
    <3> SUFFICES ASSUME NEW g \in Fd, NEW c \in Client, conn'[g] = <<"client", c>>
                 PROVE  client'[c] \in {"connected", "registered"}
      OBVIOUS
    <3>1. CASE g = f /\ ~Full
      BY <1>5, <1>a, <3>1
    <3>2. CASE ~(g = f /\ ~Full)
      <4>1. conn[g] = <<"client", c>>
        BY <1>5, <3>2
      <4>2. k # <<"client", c>> /\ client[c] \in {"connected", "registered"}
        BY <1>p, <4>1 DEF Places
      <4> QED
        BY <1>a, <4>2
    <3> QED
      BY <3>1, <3>2
  <2>2. ASSUME NEW c \in Client, client'[c] \in {"connected", "registered"}
        PROVE  \E g \in Fd : conn'[g] = <<"client", c>>
    <3>1. CASE k = <<"client", c>>
      BY <1>1, <1>5, <1>a, <2>2, <3>1
    <3>2. CASE k # <<"client", c>>
      <4>1. PICK g \in Fd : conn[g] = <<"client", c>>
        BY <1>a, <1>p, <2>2, <3>2 DEF Places
      <4>2. g # f
        BY <1>1, <4>1, Kinds
      <4> QED
        BY <1>5, <4>1, <4>2
    <3> QED
      BY <3>1, <3>2
  <2>3. \A g \in Fd, p \in Peer : conn'[g] = <<"peer", p>> => conn[g] = <<"peer", p>>
    BY <1>5, <1>a, Apart
  <2>4. \A g, h \in Fd, c \in Client :
            conn'[g] = <<"client", c>> /\ conn'[h] = <<"client", c>> => g = h
    <3> SUFFICES ASSUME NEW g \in Fd, NEW h \in Fd, NEW c \in Client,
                        conn'[g] = <<"client", c>>, conn'[h] = <<"client", c>>
                 PROVE  g = h
      OBVIOUS
    <3>1. CASE k = <<"client", c>>
      BY <1>5, <1>p, <3>1
    <3>2. CASE k # <<"client", c>>
      <4>1. conn[g] = <<"client", c>> /\ conn[h] = <<"client", c>>
        BY <1>5, <3>2
      <4> QED
        BY <1>p, <4>1 DEF Places
    <3> QED
      BY <3>1, <3>2
  <2> QED
    BY <1>2, <1>p, <2>1, <2>2, <2>3, <2>4, ZenonT(30) DEF Places
<1>14. DeadPeers' /\ EndsCounted' /\ LeaderCounted' /\ Unanswered'
  <2>1. \A g \in ended : conn'[g] = conn[g]
    BY <1>1, <1>3, <1>5
  <2>2. DeadPeers /\ EndsCounted /\ LeaderCounted
    BY DEF IInv
  <2> QED
    <3>1. DeadPeers'
      BY <1>2, <1>9, <1>b, <2>2 DEF DeadPeers
    <3>2. EndsCounted'
      BY <1>2, <1>b, <2>1, <2>2 DEF EndsCounted, Leads
    <3>3. LeaderCounted' /\ Unanswered'
      BY <1>2, <1>b, <1>u, <2>2 DEF LeaderCounted, Unanswered, Leads
    <3> QED
      BY <3>1, <3>2, <3>3
<1>15. Watched'
  <2>1. CASE Full
    <3>1. spent'.rejected + spent'.unanswered # 0
      BY <1>b, <1>u, <2>1
    <3> QED
      BY <3>1 DEF Watched
  <2>2. CASE ~Full
    <3>1. spent'.rejected = spent.rejected /\ spent'.unanswered = spent.unanswered
      BY <1>b, <1>u, <2>2
    <3>2. k # Free /\ Watched
      BY <1>a, Kinds DEF IInv
    <3>3. \A g \in Fd : g \in Open' <=> g \in Open \/ g = f
      BY <1>1, <1>5, <2>2, <3>2 DEF Open
    <3>4. master' \subseteq Open' /\ Open' \subseteq Fd
      BY <1>1, <1>2, <1>3, <3>3 DEF Open
    <3>5. \A g \in Open' \ master' : conn'[g] = conn[g] /\ g \in Open \ master
      BY <1>2, <1>5, <3>3, <3>4
    <3> QED
      BY <1>b, <3>1, <3>2, <3>4, <3>5 DEF Watched
  <2> QED
    BY <2>1, <2>2
<1>16. SlotsAccounted' /\ SlotsExact'
  <2>1. CASE Full
    <3>1. conn' = conn /\ ClientArray' = ClientArray
      BY <1>2, <2>1
    <3>2. \A n \in DOMAIN ClientArray : ClientArray[n].sock \in Fd
      BY <1>3, SlotTypes
    <3>3. \A c \in Client, n \in DOMAIN ClientArray :
             conn[ClientArray[n].sock] = <<"client", c>> => client'[c] = client[c]
      BY <1>a, <1>p, <3>2
    <3>4. SlotsAccounted /\ SlotsExact
      BY DEF IInv
    <3>5. SlotsAccounted'
      BY <1>b, <3>1, <3>4 DEF SlotsAccounted, SlotsOf
    <3>6. SlotsExact'
      BY <1>b, <1>u, <3>1, <3>3, <3>4 DEF SlotsExact
    <3> QED
      BY <3>5, <3>6
  <2>2. CASE ~Full
    <3> DEFINE n0 == Len(ClientArray) + 1
    <3>1. /\ n0 \in Nat /\ DOMAIN ClientArray = 1 .. Len(ClientArray)
          /\ DOMAIN ClientArray' = 1 .. n0
          /\ \A n \in DOMAIN ClientArray : n \in DOMAIN ClientArray' /\ ClientArray'[n] = ClientArray[n]
          /\ n0 \in DOMAIN ClientArray' /\ ClientArray'[n0] = Slot(0, f)
          /\ \A n \in DOMAIN ClientArray' : n \in DOMAIN ClientArray \/ n = n0
      <4>1. DOMAIN ClientArray = 1 .. Len(ClientArray) /\ Len(ClientArray) \in Nat
        BY <1>3, SlotTypes
      <4>2. DOMAIN ClientArray' = 1 .. Len(ClientArray')
        BY <1>7, SlotTypes
      <4> QED
        BY <1>7, <2>2, <4>1, <4>2
    <3> HIDE DEF n0
    <3>2. AcceptedOf(conn') = AcceptedOf(conn) \cup {f} /\ f \notin AcceptedOf(conn)
      <4>1. ~Accepted(conn[f]) /\ Accepted(k)
        BY <1>1, <1>a, Kinds DEF Accepted
      <4> QED
        BY <1>1, <1>5, <2>2, <4>1 DEF AcceptedOf
    <3>3. \A g \in AcceptedOf(conn') : SlotsOf(g)' # {}
      <4> SUFFICES ASSUME NEW g \in AcceptedOf(conn')
                   PROVE  \E n \in DOMAIN ClientArray' : ClientArray'[n].sock = g
        BY DEF SlotsOf
      <4>1. CASE g = f
        BY <1>8, <3>1, <4>1
      <4>2. CASE g # f
        <5>1. g \in AcceptedOf(conn)
          BY <3>2, <4>2
        <5>2. \E n \in DOMAIN ClientArray : ClientArray[n].sock = g
          BY <5>1 DEF IInv, SlotsAccounted, AcceptedOf, SlotsOf
        <5> QED
          BY <3>1, <5>2
      <4> QED
        BY <4>1, <4>2
    <3>4. Len(ClientArray') <= Cardinality(AcceptedOf(conn')) + spent'.leaders + spent'.mistaken
                                  + spent'.unanswered
      <4>1. Len(ClientArray) <= Cardinality(AcceptedOf(conn)) + spent.leaders + spent.mistaken
                                    + spent.unanswered
        BY DEF IInv, SlotsAccounted, AcceptedOf
      <4>2. IsFiniteSet(AcceptedOf(conn)) /\ Cardinality(AcceptedOf(conn)) \in Nat
        BY FdFinite DEF AcceptedOf
      <4>3. Cardinality(AcceptedOf(conn')) = Cardinality(AcceptedOf(conn)) + 1
        BY <3>2, <4>2, FS_AddElement
      <4>4. Len(ClientArray') = Len(ClientArray) + 1
        BY <1>7, <2>2
      <4>5. spent.leaders \in Nat /\ spent.mistaken \in Nat
        BY Types
      <4> QED
        BY <1>3, <1>b, <1>u, <4>1, <4>2, <4>3, <4>4, <4>5, SMTT(30)
    <3>5. SlotsAccounted'
      BY <3>3, <3>4 DEF SlotsAccounted, AcceptedOf
    <3>6. SlotsExact'
      <4> SUFFICES ASSUME spent'.leaders + spent'.mistaken = 0 PROVE SlotsExact'
        BY DEF SlotsExact
      <4>1. spent.leaders + spent.mistaken = 0
        BY <1>b
      <4>c. SlotsExact
        BY DEF IInv
      <4>2. \A n \in DOMAIN ClientArray : ClientArray[n].sock \in Fd /\ ClientArray[n].sock # f
        <5>1. \A n \in DOMAIN ClientArray : Accepted(conn[ClientArray[n].sock])
          BY <1>u, <4>1, <4>c DEF SlotsExact
        <5>2. ~Accepted(conn[f])
          BY <1>1, Kinds DEF Accepted
        <5> QED
          BY <1>3, <5>1, <5>2, SlotTypes
      <4>3. \A n \in DOMAIN ClientArray : conn'[ClientArray'[n].sock] = conn[ClientArray[n].sock]
        BY <1>5, <3>1, <4>2
      <4>4. conn'[f] = k
        BY <1>1, <1>5, <2>2
      <4>5. \A n \in DOMAIN ClientArray' : Accepted(conn'[ClientArray'[n].sock])
        <5>1. Accepted(k)
          BY <1>a DEF Accepted
        <5>2. \A n \in DOMAIN ClientArray : Accepted(conn[ClientArray[n].sock])
          BY <1>u, <4>1, <4>c DEF SlotsExact
        <5> QED
          BY <1>8, <3>1, <4>3, <4>4, <5>1, <5>2
      <4>6. \A m, n \in DOMAIN ClientArray' :
                ClientArray'[m].sock = ClientArray'[n].sock => m = n
        BY <1>8, <3>1, <4>1, <4>2, <4>c DEF SlotsExact
      <4>7. ASSUME NEW n \in DOMAIN ClientArray', NEW c \in Client,
                   conn'[ClientArray'[n].sock] = <<"client", c>>
            PROVE  ClientArray'[n].id = IF client'[c] = "registered" THEN ClientId[c] ELSE 0
        <5>1. CASE n = n0
          <6>1. conn'[ClientArray'[n].sock] = k /\ ClientArray'[n].id = 0
            BY <1>8, <3>1, <4>4, <5>1
          <6> QED
            BY <1>a, <2>2, <4>7, <6>1
        <5>2. CASE n \in DOMAIN ClientArray
          <6>1. conn[ClientArray[n].sock] = <<"client", c>> /\ ClientArray'[n].id = ClientArray[n].id
            BY <3>1, <4>3, <4>7, <5>2
          <6>2. client[c] # "new"
            BY <1>p, <4>2, <5>2, <6>1 DEF Places
          <6>3. client'[c] = client[c]
            BY <1>a, <6>2
          <6> QED
            BY <4>1, <4>c, <5>2, <6>1, <6>3 DEF SlotsExact
        <5> QED
          BY <3>1, <5>1, <5>2
      <4>8. \A n \in DOMAIN ClientArray' :
                conn'[ClientArray'[n].sock][1] \in {"leader", "predecessor"} =>
                   ClientArray'[n].id = 0
        BY <1>8, <3>1, <4>1, <4>3, <4>c DEF SlotsExact
      <4> QED
        BY <4>5, <4>6, <4>7, <4>8 DEF SlotsExact
    <3> QED
      BY <3>5, <3>6
  <2> QED
    BY <2>1, <2>2
<1>17. Indices'
  <2>1. \A c \in Client : client[c] \in {"registered", "gone"} => client'[c] = client[c]
    BY <1>a
  <2>2. /\ Cardinality(Indexed(client)) \in Nat /\ Cardinality(Indexed(client')) \in Nat
        /\ Cardinality(Indexed(client)) <= Cardinality(Indexed(client'))
    BY <2>1, IndexedGrows
  <2> QED
    BY <1>2, <2>2, Types DEF IInv, Indices
<1>18. Routed' /\ DeathNeedsFaults'
  BY <1>2, <1>b DEF IInv, Routed, DeathNeedsFaults
<1>19. Replaced'
  <2>1. \A g \in master' \ ended', p \in Peer : conn'[g] = <<"peer", p>> =>
            g \in master \ ended /\ conn[g] = <<"peer", p>>
    <3>1. k[1] # "peer" /\ conn[f][1] # "peer"
      BY <1>1, <1>a, Kinds
    <3> QED
      BY <1>1, <1>2, <1>3, <1>5, <3>1, Apart
  <2>2. Replaced
    BY DEF IInv
  <2> QED
    BY <1>2, <1>9, <2>1, <2>2 DEF Replaced, Leads
<1> QED
  BY <1>10, <1>11, <1>o, <1>12, <1>13, <1>14, <1>15, <1>16, <1>17, <1>18, <1>19 DEF IInv

LEMMA ClientConnectsKeeps ==
    ASSUME IInv, NEW c \in Client, ClientConnects(c)
    PROVE  IInv'
<1> DEFINE k == <<"client", c>>
<1>1. /\ client[c] = "new" /\ Leads /\ accept_new_client(k)
      /\ client' = [client EXCEPT ![c] = IF Full THEN "gone" ELSE "connected"]
      /\ spent' = [spent EXCEPT !.rejected = @ + (IF Full THEN 1 ELSE 0)]
  BY DEF ClientConnects, Rejected
<1>2. k \in Other /\ Accepted(k) /\ k # Leader
  BY Kinds DEF Accepted
<1>3. \A d \in Client : k = <<"client", d>> => d = c
  OBVIOUS
<1> HIDE DEF k
<1>4. client \in [Client -> {"new", "connected", "registered", "gone"}]
  BY Types
<1>5. /\ client' \in [Client -> {"new", "connected", "registered", "gone"}]
      /\ client'[c] = IF Full THEN "gone" ELSE "connected"
      /\ \A d \in Client : d # c => client'[d] = client[d]
  BY <1>1, <1>4
<1>6. spent \in [ends : 0 .. MaxEnds, neighbour : 0 .. MaxNeighbour,
                 leaders : Nat, mistaken : Nat, rejected : Nat, unanswered : Nat]
  BY Types
<1>7. /\ spent' \in [ends : 0 .. MaxEnds, neighbour : 0 .. MaxNeighbour,
                     leaders : Nat, mistaken : Nat, rejected : Nat, unanswered : Nat]
      /\ spent'.ends = spent.ends /\ spent'.leaders = spent.leaders
      /\ spent'.mistaken = spent.mistaken
      /\ spent'.rejected = spent.rejected + (IF Full THEN 1 ELSE 0)
      /\ spent'.unanswered = spent.unanswered
  BY <1>1, <1>6
<1>8. \A d \in Client : k # <<"client", d>> => client'[d] = client[d]
  BY <1>5 DEF k
<1>9. Accepts(k)
  BY <1>1, <1>2, <1>3, <1>5, <1>7, <1>8 DEF Accepts
<1> QED
  BY <1>9, AcceptKeeps

LEMMA NeighbourConnectsKeeps ==
    ASSUME IInv, NEW k \in {Leader, Predecessor}, NeighbourConnects(k)
    PROVE  IInv'
<1>1. /\ ~Leads /\ spent.neighbour < MaxNeighbour
      /\ k = Leader => Len(lst) = 1 /\ \A f \in Fd : conn[f] # Leader
      /\ accept_new_client(k) /\ client' = client
      /\ spent' = Rejected([spent EXCEPT !.neighbour = @ + 1])
  BY DEF NeighbourConnects
<1>2. /\ k \in Other /\ Accepted(k) /\ k[1] # "client"
  BY Kinds DEF Accepted
<1>3. \A c \in Client : k # <<"client", c>>
  BY <1>2, Apart
<1>4. spent \in [ends : 0 .. MaxEnds, neighbour : 0 .. MaxNeighbour,
                 leaders : Nat, mistaken : Nat, rejected : Nat, unanswered : Nat]
  BY Types
<1> DEFINE s == [spent EXCEPT !.neighbour = @ + 1]
<1>5. /\ s \in [ends : 0 .. MaxEnds, neighbour : 0 .. MaxNeighbour,
                leaders : Nat, mistaken : Nat, rejected : Nat, unanswered : Nat]
      /\ s.ends = spent.ends /\ s.leaders = spent.leaders
      /\ s.mistaken = spent.mistaken /\ s.rejected = spent.rejected
      /\ s.unanswered = spent.unanswered
  BY <1>1, <1>4, BoundAssumption
<1> HIDE DEF s
<1>6. /\ Rejected(s) \in [ends : 0 .. MaxEnds, neighbour : 0 .. MaxNeighbour,
                          leaders : Nat, mistaken : Nat, rejected : Nat, unanswered : Nat]
      /\ Rejected(s).ends = s.ends /\ Rejected(s).leaders = s.leaders
      /\ Rejected(s).mistaken = s.mistaken
      /\ Rejected(s).rejected = s.rejected + (IF Full THEN 1 ELSE 0)
      /\ Rejected(s).unanswered = s.unanswered
  BY <1>5 DEF Rejected
<1>7. /\ spent' \in [ends : 0 .. MaxEnds, neighbour : 0 .. MaxNeighbour,
                     leaders : Nat, mistaken : Nat, rejected : Nat, unanswered : Nat]
      /\ spent'.ends = spent.ends /\ spent'.leaders = spent.leaders
      /\ spent'.mistaken = spent.mistaken
      /\ spent'.rejected = spent.rejected + (IF Full THEN 1 ELSE 0)
      /\ spent'.unanswered = spent.unanswered
  BY <1>1, <1>5, <1>6 DEF s
<1>8. client \in [Client -> {"new", "connected", "registered", "gone"}]
  BY Types
<1>9. Accepts(k)
  BY <1>1, <1>2, <1>3, <1>7, <1>8 DEF Accepts
<1> QED
  BY <1>9, AcceptKeeps

-----------------------------------------------------------------------------
(* A step after which the same connections are accepted.                   *)
LEMMA SlotsKept ==
    ASSUME IInv, client' = client, ClientArray' = ClientArray,
           spent'.leaders = spent.leaders, spent'.mistaken = spent.mistaken,
           spent'.unanswered = spent.unanswered, spent.unanswered = 0 \/ conn' = conn,
           \A g \in Fd : Accepted(conn[g]) \/ Accepted(conn'[g]) => conn'[g] = conn[g]
    PROVE  SlotsAccounted' /\ SlotsExact'
<1>1. SlotsAccounted /\ SlotsExact
  BY DEF IInv
<1>2. SlotsAccounted'
  <2>1. {g \in Fd : Accepted(conn'[g])} = {g \in Fd : Accepted(conn[g])}
    OBVIOUS
  <2> QED
    BY <1>1, <2>1 DEF SlotsAccounted, SlotsOf
<1>3. SlotsExact'
  <2> SUFFICES ASSUME spent.leaders + spent.mistaken = 0 PROVE SlotsExact'
    BY DEF SlotsExact
  <2>1. \A n \in DOMAIN ClientArray :
            /\ ClientArray[n].sock \in Fd
            /\ spent.unanswered = 0 => Accepted(conn[ClientArray[n].sock])
    <3>1. ClientArray \in Seq([id : Nat, sock : Fd])
      BY Types
    <3>2. spent.unanswered = 0 => ~(spent.unanswered > 0)
      OBVIOUS
    <3> QED
      BY <1>1, <3>1, <3>2, SlotTypes DEF SlotsExact
  <2>2. \A n \in DOMAIN ClientArray : conn'[ClientArray[n].sock] = conn[ClientArray[n].sock]
    BY <2>1
  <2> QED
    BY <1>1, <2>2 DEF SlotsExact
<1> QED
  BY <1>2, <1>3

(* A step of a follower, which has neither clients nor peers after it.     *)
LEMMA FollowerStep ==
    ASSUME IInv, ~Leads, \A g \in Fd : conn'[g][1] \notin {"client", "peer"},
           master' \subseteq Fd, client' = client, joined' = joined, clk_index' = clk_index,
           astray' = astray, missed' = missed,
           spent'.unanswered = spent.unanswered,
           spent'.leaders \in Nat, spent'.mistaken \in Nat,
           spent'.leaders >= spent.leaders, spent'.mistaken >= spent.mistaken
    PROVE  Places' /\ DeadPeers' /\ Unanswered' /\ Indices' /\ Routed' /\ Replaced'
<1>1. joined = {} /\ \A c \in Client : client[c] = "new"
  BY Types
<1>2. \A g \in Fd : /\ \A c : conn'[g] # <<"client", c>>
                    /\ \A p : conn'[g] # <<"peer", p>>
  BY Apart
<1>3. Places' /\ DeadPeers'
  BY <1>1, <1>2 DEF Places, DeadPeers
<1>4. Indices'
  BY DEF IInv, Indices
<1>5. Routed'
  <2>1. spent.leaders \in Nat /\ spent.mistaken \in Nat
    BY Types
  <2>2. Routed
    BY DEF IInv
  <2> QED
    BY <2>1, <2>2 DEF Routed
<1>6. Replaced'
  BY <1>2 DEF Replaced
<1>7. Unanswered'
  BY AllAnswered DEF Unanswered
<1> QED
  BY <1>3, <1>4, <1>5, <1>6, <1>7

-----------------------------------------------------------------------------
(* The entries of connected_peers.                                         *)
ListEntry == [id : Nat, sock : Fd \cup {error_return}, leader : BOOLEAN]

LEMMA EntryTypes ==
    /\ \A i \in Nat, f \in Fd, b \in BOOLEAN :
          /\ Entry(i, f, b) \in ListEntry
          /\ Entry(i, f, b).id = i /\ Entry(i, f, b).sock = f /\ Entry(i, f, b).leader = b
    /\ \A b \in BOOLEAN :
          /\ <<Self(b)>> \in Seq(ListEntry) /\ Len(<<Self(b)>>) = 1
          /\ <<Self(b)>>[1].id = 0 /\ <<Self(b)>>[1].leader = b
    /\ \A e \in ListEntry : e.id \in Nat
<1>1. \A b \in BOOLEAN : Self(b) \in ListEntry /\ Self(b).id = 0 /\ Self(b).leader = b
  BY DEF Self, ListEntry, error_return
<1>2. \A i \in Nat, f \in Fd, b \in BOOLEAN :
          /\ Entry(i, f, b) \in ListEntry
          /\ Entry(i, f, b).id = i /\ Entry(i, f, b).sock = f /\ Entry(i, f, b).leader = b
  BY DEF Entry, ListEntry
<1>3. \A e \in ListEntry : e.id \in Nat
  BY DEF ListEntry
<1>4. \A b \in BOOLEAN : /\ <<Self(b)>> \in Seq(ListEntry) /\ Len(<<Self(b)>>) = 1
                         /\ <<Self(b)>>[1] = Self(b)
  BY <1>1
<1> QED
  BY <1>1, <1>2, <1>3, <1>4

(* A follower that gives up its successor.                                 *)
LEMMA SuccessorDropped ==
    ASSUME NEW l \in Seq(ListEntry), Len(l) = 3, l[2].id = 1, l[3].id = 2,
           NEW m, m = delete_server(l, l[3].id)
    PROVE  m \in Seq(ListEntry) /\ Len(m) = 2 /\ m[1] = l[1] /\ m[2] = l[2]
<1>1. TailSorted(l)
  BY DEF TailSorted
<1>2. \A x \in ListEntry : x.id \in Nat
  BY EntryTypes
<1>3. 3 \in 2 .. Len(l)
  OBVIOUS
<1>4. /\ m \in Seq(ListEntry) /\ Len(m) = Len(l) - 1
      /\ \A i \in 1 .. 3-1 : m[i] = l[i]
  BY <1>1, <1>2, <1>3, DeletedSorted
<1> QED
  BY <1>4

(* A follower that gets a successor lists it behind its leader, whether it *)
(* had one or not.                                                         *)
LEMMA SuccessorListed ==
    ASSUME NEW l \in Seq(ListEntry), Len(l) \in 2 .. 3, l[1].id = 0, l[2].id = 1,
           Len(l) = 3 => l[3].id = 2, NEW f \in Fd, NEW m,
           m = append_server(IF Len(l) > 2 THEN delete_server(l, l[3].id) ELSE l,
                             Entry(2, f, FALSE))
    PROVE  /\ m \in Seq(ListEntry) /\ Len(m) = 3
           /\ m[1] = l[1] /\ m[2] = l[2] /\ m[3] = Entry(2, f, FALSE)
<1> DEFINE k == IF Len(l) > 2 THEN delete_server(l, l[3].id) ELSE l
           e == Entry(2, f, FALSE)
<1>1. k \in Seq(ListEntry) /\ Len(k) = 2 /\ k[1] = l[1] /\ k[2] = l[2]
  <2>1. CASE Len(l) = 2
    BY <2>1
  <2>2. CASE Len(l) = 3
    <3> DEFINE d == delete_server(l, l[3].id)
    <3>1. d \in Seq(ListEntry) /\ Len(d) = 2 /\ d[1] = l[1] /\ d[2] = l[2]
      BY <2>2, SuccessorDropped
    <3>2. k = d
      BY <2>2
    <3> HIDE DEF d, k
    <3> QED
      BY <3>1, <3>2
  <2> QED
    BY <2>1, <2>2
<1>2. e \in ListEntry /\ e.id = 2
  BY EntryTypes, ZenonT(30)
<1> HIDE DEF k, e
<1>3. ~server_info_exist(e.id, k)
  <2>1. \A i \in 1 .. Len(k) : i = 1 \/ i = 2
    BY <1>1
  <2> QED
    BY <1>1, <1>2, <2>1 DEF server_info_exist
<1>4. m = Append(k, e)
  BY <1>3 DEF append_server, k, e
<1>5. /\ Append(k, e) \in Seq(ListEntry) /\ Len(Append(k, e)) = Len(k) + 1
      /\ \A i \in 1 .. Len(k) : Append(k, e)[i] = k[i]
      /\ Append(k, e)[Len(k) + 1] = e
  <2>1. k \in Seq(ListEntry) /\ e \in ListEntry
    BY <1>1, <1>2
  <2> QED
    BY <2>1, AppendProperties
<1>6. m \in Seq(ListEntry) /\ Len(m) = 3 /\ m[1] = l[1] /\ m[2] = l[2] /\ m[3] = e
  <2>1. /\ m \in Seq(ListEntry) /\ Len(m) = Len(k) + 1
        /\ \A i \in 1 .. Len(k) : m[i] = k[i]
        /\ m[Len(k) + 1] = e
    BY <1>4, <1>5, Zenon
  <2>2. /\ m \in Seq(ListEntry) /\ Len(m) = 2 + 1
        /\ \A i \in 1 .. 2 : m[i] = k[i]
        /\ m[2 + 1] = e
    BY <1>1, <2>1, Zenon
  <2>3. 1 \in 1 .. 2 /\ 2 \in 1 .. 2 /\ 2 + 1 = 3
    OBVIOUS
  <2> QED
    BY <1>1, <2>2, <2>3, Zenon
<1> QED
  BY <1>6 DEF e

(* What a follower does that opens the connection to a successor.          *)
Opens(l) ==
    /\ Up /\ ~Leads /\ NewSuccessor(l)
    /\ l \in Seq(ListEntry) /\ Len(l) \in 2 .. 3 /\ l[1] = lst[1] /\ l[2].id = 1
    /\ Len(l) = 3 => l = lst
    /\ ltcp_socket' \in Fd \cup {error_return}
    /\ ltcp_socket' # error_return => conn[ltcp_socket'] = Leader
    /\ \A g \in Fd : conn[g] = Leader => g = ltcp_socket'
    /\ ltcp_socket' = error_return => ltcp_socket = error_return
    /\ status' = status /\ ClientArray' = ClientArray /\ client' = client
    /\ joined' = joined /\ clk_index' = clk_index
    /\ astray' = astray /\ missed' = missed
    /\ spent' \in [ends : 0 .. MaxEnds, neighbour : 0 .. MaxNeighbour,
                   leaders : Nat, mistaken : Nat, rejected : Nat, unanswered : Nat]
    /\ spent'.ends = spent.ends /\ spent'.leaders = spent.leaders
    /\ spent'.mistaken = spent.mistaken /\ spent'.rejected = spent.rejected
    /\ spent'.unanswered = spent.unanswered

LEMMA OpensKeeps ==
    ASSUME IInv, NEW l, Opens(l)
    PROVE  IInv'
<1> DEFINE f == LowestFree
           old == IF Len(l) > 2 THEN {successor_socket} ELSE {}
<1>1. /\ status = "up" /\ ~Leads
      /\ l \in Seq(ListEntry) /\ Len(l) \in 2 .. 3 /\ l[1] = lst[1] /\ l[2].id = 1
      /\ Len(l) = 3 => l = lst
      /\ ltcp_socket' \in Fd \cup {error_return}
      /\ ltcp_socket' # error_return => conn[ltcp_socket'] = Leader
      /\ \A g \in Fd : conn[g] = Leader => g = ltcp_socket'
      /\ ltcp_socket' = error_return => ltcp_socket = error_return
      /\ status' = status /\ ClientArray' = ClientArray /\ client' = client
      /\ joined' = joined /\ clk_index' = clk_index
      /\ astray' = astray /\ missed' = missed
      /\ spent' \in [ends : 0 .. MaxEnds, neighbour : 0 .. MaxNeighbour,
                     leaders : Nat, mistaken : Nat, rejected : Nat, unanswered : Nat]
      /\ spent'.ends = spent.ends /\ spent'.leaders = spent.leaders
      /\ spent'.mistaken = spent.mistaken /\ spent'.rejected = spent.rejected
      /\ spent'.unanswered = spent.unanswered
  BY DEF Opens, Up
<1>2. /\ lst' = append_server(IF Len(l) > 2 THEN delete_server(l, l[3].id) ELSE l,
                              Entry(2, f, FALSE))
      /\ conn' = [g \in Fd |-> IF g = f THEN Successor
                               ELSE IF g \in old THEN Free ELSE conn[g]]
      /\ ended' = ended \ old
      /\ master' = (master \ old) \cup {f}
      /\ successor_socket' = f
  BY DEF Opens, NewSuccessor
<1>3. /\ conn \in [Fd -> Other] /\ ended \subseteq Fd /\ master \subseteq Fd
      /\ \A g \in ended : conn[g] # Free
      /\ ClientArray \in Seq([id : Nat, sock : Fd])
      /\ joined = {} /\ \A c \in Client : client[c] = "new"
  BY <1>1, Types
<1>4. f \in Fd /\ conn[f] = Free /\ f \notin Open /\ f \notin ended
  <2>1. f \in Fd /\ conn[f] = Free /\ f \notin Open
    BY NextNumber DEF Opens, NewSuccessor
  <2> QED
    BY <1>3, <2>1
<1> HIDE DEF f
<1>5. \A g \in old : g \in Fd /\ conn[g] = Successor
  <2>1. Len(l) > 2 => Len(l) = 3 /\ l = lst
    <3> DEFINE n == Len(l)
    <3>1. n \in 2 .. 3 /\ (n = 3 => l = lst)
      BY <1>1
    <3> HIDE DEF n
    <3>2. n > 2 => n = 3 /\ l = lst
      BY <3>1
    <3> QED
      BY <3>2 DEF n
  <2>2. FollowerList
    BY DEF IInv
  <2> QED
    BY <1>1, <2>1, <2>2 DEF FollowerList
<1>6. Heads /\ FollowerList /\ LeaderSocket /\ EndsCounted /\ LeaderCounted /\ Watched
  BY DEF IInv
<1>7. /\ lst' \in Seq(ListEntry) /\ Len(lst') = 3
      /\ lst'[1] = lst[1] /\ lst'[2] = l[2] /\ lst'[3] = Entry(2, f, FALSE)
  <2>1. l[1].id = 0 /\ (Len(l) = 3 => l[3].id = 2)
    BY <1>1, <1>6 DEF Heads, FollowerList
  <2>2. /\ l \in Seq(ListEntry) /\ Len(l) \in 2 .. 3 /\ l[1].id = 0 /\ l[2].id = 1
        /\ Len(l) = 3 => l[3].id = 2
        /\ f \in Fd
        /\ lst' = append_server(IF Len(l) > 2 THEN delete_server(l, l[3].id) ELSE l,
                                Entry(2, f, FALSE))
    BY <1>1, <1>2, <1>4, <2>1
  <2>3. /\ lst' \in Seq(ListEntry) /\ Len(lst') = 3
        /\ lst'[1] = l[1] /\ lst'[2] = l[2] /\ lst'[3] = Entry(2, f, FALSE)
    BY <2>2, SuccessorListed
  <2> QED
    BY <1>1, <2>3
<1>8. Entry(2, f, FALSE).id = 2 /\ Entry(2, f, FALSE).sock = f
  BY DEF Entry
<1> HIDE DEF old
<1>9. /\ conn' \in [Fd -> Other]
      /\ \A g \in Fd : conn'[g] = IF g = f THEN Successor
                                  ELSE IF g \in old THEN Free ELSE conn[g]
  BY <1>2, <1>3, Kinds
<1>10. f \notin old /\ old \subseteq Fd /\ Free # Successor /\ Leader # Successor
       /\ Leader # Free
  BY <1>4, <1>5, Kinds
<1>11. ~Leads'
  BY <1>1, <1>7 DEF Leads
<1>12. TypeOK'
  <2>1. ended' \subseteq {g \in Fd : conn'[g] # Free}
    BY <1>2, <1>3, <1>9, <1>10
  <2>2. master' \subseteq Fd
    BY <1>2, <1>3, <1>4
  <2>3. lst'[1].leader \/ (joined' = {} /\ \A c \in Client : client'[c] = "new")
    BY <1>1, <1>3
  <2>4. /\ status' \in {"up", "select failed", "segv", "exited"}
        /\ ClientArray' \in Seq([id : Nat, sock : Fd]) /\ Len(ClientArray') <= MAX_CONNECTION
        /\ clk_index' \in 0 .. Cardinality(Client) /\ joined' \subseteq Peer
        /\ client' \in [Client -> {"new", "connected", "registered", "gone"}]
        /\ astray' \subseteq Client /\ missed' \subseteq Client
    BY <1>1 DEF IInv, TypeOK
  <2>5. {ltcp_socket', successor_socket'} \subseteq Fd \cup {error_return}
    BY <1>1, <1>2, <1>4
  <2> QED
    BY <1>1, <1>7, <1>9, <2>1, <2>2, <2>3, <2>4, <2>5 DEF TypeOK, ListEntry
<1>13. Heads' /\ FollowerList' /\ LeaderList'
  <2>1. conn'[f] = Successor
    BY <1>4, <1>9
  <2>2. Heads' /\ LeaderList'
    BY <1>6, <1>7, <1>11 DEF Heads, LeaderList
  <2>3. lst'[2].id = 1 /\ lst'[3].id = 2 /\ lst'[3].sock = successor_socket'
    BY <1>1, <1>2, <1>7, <1>8
  <2>4. FollowerList'
    <3>1. successor_socket' \in Fd /\ conn'[successor_socket'] = Successor
      BY <1>2, <1>4, <2>1
    <3>2. Len(lst') = 3
      BY <1>7
    <3> QED
      BY <2>3, <3>1, <3>2 DEF FollowerList
  <2> QED
    BY <2>2, <2>4
<1>14. LeaderSocket'
  <2>1. ltcp_socket' # error_return => conn'[ltcp_socket'] = Leader
    BY <1>1, <1>4, <1>5, <1>9, <1>10
  <2> QED
    BY <1>7, <1>11, <2>1 DEF LeaderSocket
<1>o. OneLeader'
  <2>1. \A g \in Fd : conn'[g] = Leader => g = ltcp_socket'
    BY <1>1, <1>9, <1>10
  <2> QED
    BY <1>11, <2>1 DEF OneLeader
<1>15. Places' /\ DeadPeers' /\ Unanswered' /\ Indices' /\ Routed' /\ Replaced'
  <2>1. \A g \in Fd : conn'[g][1] \notin {"client", "peer"}
    BY <1>1, <1>9, FollowerAlone, Kinds
  <2>2. master' \subseteq Fd
    BY <1>2, <1>3, <1>4
  <2> QED
    BY <1>1, <2>1, <2>2, Types, FollowerStep
<1>16. EndsCounted' /\ LeaderCounted'
  <2>1. ended' \subseteq ended /\ IsFiniteSet(ended)
    BY <1>2, <1>3, FdFinite
  <2>2. Cardinality(ended') <= Cardinality(ended)
    BY <2>1, FS_Subset
  <2>3. Cardinality(ended') \in Nat /\ Cardinality(ended) \in Nat /\ spent.ends \in Nat
    BY <1>3, <2>1, FdFinite, Types
  <2>4. \A g \in ended' : g \in ended /\ conn'[g] = conn[g]
    BY <1>2, <1>3, <1>4, <1>9
  <2>5. Cardinality(ended') + spent'.leaders <= Cardinality(ended) + spent.leaders
    BY <1>1, <2>2, <2>3, Types
  <2>6. EndsCounted'
    BY <1>1, <1>6, <1>7, <1>11, <2>2, <2>3, <2>4, <2>5 DEF EndsCounted
  <2>7. LeaderCounted'
    BY <1>1, <1>6 DEF LeaderCounted
  <2> QED
    BY <2>6, <2>7
<1>17. Watched'
  <2>1. \A g \in Fd : g \in Open' <=> g = f \/ (g \in Open /\ g \notin old)
    BY <1>4, <1>9, <1>10 DEF Open
  <2>2. Open' \subseteq Fd /\ Open \subseteq Fd
    BY DEF Open
  <2>3. spent.rejected + spent.unanswered = 0 => master' \subseteq Open'
    BY <1>2, <1>3, <1>4, <1>6, <2>1 DEF Watched
  <2>4. \A g \in Open' \ master' : g \in Open \ master /\ conn'[g] = conn[g]
    BY <1>2, <1>4, <1>9, <2>1, <2>2
  <2> QED
    BY <1>1, <1>6, <2>3, <2>4 DEF Watched
<1>18. SlotsAccounted' /\ SlotsExact'
  <2>1. ~Accepted(Free) /\ ~Accepted(Successor)
    BY Kinds DEF Accepted
  <2>2. \A g \in Fd : Accepted(conn[g]) \/ Accepted(conn'[g]) => conn'[g] = conn[g]
    BY <1>4, <1>5, <1>9, <2>1
  <2> QED
    BY <1>1, <2>2, AllAnswered, SlotsKept
<1>19. DeathNeedsFaults'
  BY <1>1 DEF DeathNeedsFaults
<1> QED
  BY <1>12, <1>13, <1>14, <1>o, <1>15, <1>16, <1>17, <1>18, <1>19 DEF IInv

LEMMA RecvUpdateKeeps ==
    ASSUME IInv, RecvUpdate
    PROVE  IInv'
<1>1. /\ ~Leads /\ Up /\ ltcp_socket \in Fd /\ NewSuccessor(lst)
      /\ spent.neighbour < MaxNeighbour
      /\ spent' = [spent EXCEPT !.neighbour = @ + 1]
      /\ status' = status /\ ClientArray' = ClientArray /\ ltcp_socket' = ltcp_socket
      /\ client' = client /\ joined' = joined /\ clk_index' = clk_index
      /\ astray' = astray /\ missed' = missed
  BY DEF RecvUpdate, Reads, Open, chat
<1>2. lst \in Seq(ListEntry) /\ ltcp_socket # error_return
  BY <1>1, Types DEF ListEntry
<1>3. Len(lst) \in 2 .. 3 /\ lst[2].id = 1 /\ conn[ltcp_socket] = Leader
  <2>1. FollowerList /\ LeaderSocket
    BY DEF IInv
  <2>2. Len(lst) \in Nat
    BY <1>2
  <2>3. Len(lst) > 1 /\ conn[ltcp_socket] = Leader
    BY <1>2, <2>1 DEF LeaderSocket
  <2>4. Len(lst) <= 3 /\ (Len(lst) >= 2 => lst[2].id = 1)
    BY <1>1, <2>1 DEF FollowerList
  <2> DEFINE n == Len(lst)
  <2>5. n \in Nat /\ n > 1 /\ n <= 3 /\ (n >= 2 => lst[2].id = 1)
    BY <2>2, <2>3, <2>4
  <2> HIDE DEF n
  <2>6. n \in 2 .. 3 /\ lst[2].id = 1
    BY <2>5
  <2> QED
    BY <2>3, <2>6 DEF n
<1>4. spent \in [ends : 0 .. MaxEnds, neighbour : 0 .. MaxNeighbour,
                 leaders : Nat, mistaken : Nat, rejected : Nat, unanswered : Nat]
  BY Types
<1>5. /\ spent' \in [ends : 0 .. MaxEnds, neighbour : 0 .. MaxNeighbour,
                     leaders : Nat, mistaken : Nat, rejected : Nat, unanswered : Nat]
      /\ spent'.ends = spent.ends /\ spent'.leaders = spent.leaders
      /\ spent'.mistaken = spent.mistaken /\ spent'.rejected = spent.rejected
      /\ spent'.unanswered = spent.unanswered
  BY <1>1, <1>4, BoundAssumption
<1>6. \A g \in Fd : conn[g] = Leader => g = ltcp_socket
  <2>1. OneLeader
    BY DEF IInv
  <2>2. Len(lst) > 1
    BY <1>3
  <2> QED
    BY <2>1, <2>2 DEF OneLeader
<1>7. Opens(lst)
  BY <1>1, <1>2, <1>3, <1>5, <1>6 DEF Opens
<1> QED
  BY <1>7, OpensKeeps

LEMMA RecvKnowKeeps ==
    ASSUME IInv, NEW f \in Fd, RecvKnow(f)
    PROVE  IInv'
<1> DEFINE l == append_server(lst, Entry(1, f, TRUE))
<1>1. /\ Up /\ conn[f] = Leader /\ Len(lst) = 1 /\ ltcp_socket' = f
      /\ NewSuccessor(l) \/ (lst' = l /\ conn' = conn /\ ended' = ended
                             /\ master' = master /\ successor_socket' = successor_socket)
      /\ status' = status /\ ClientArray' = ClientArray /\ client' = client
      /\ joined' = joined /\ clk_index' = clk_index
      /\ astray' = astray /\ missed' = missed /\ spent' = spent
  BY DEF RecvKnow, Reads, chat
<1>2. ~Leads /\ \A g \in Fd : conn[g] = Leader => g = f
  BY <1>1 DEF IInv, OneLeader
<1>3. lst \in Seq(ListEntry) /\ lst[1].id = 0
  BY Types DEF ListEntry, IInv, Heads
<1>4. l \in Seq(ListEntry) /\ Len(l) = 2 /\ l[1] = lst[1] /\ l[2].id = 1
  <2> DEFINE e == Entry(1, f, TRUE)
             a == Append(lst, e)
  <2>1. e \in ListEntry /\ e.id = 1
    BY DEF Entry, ListEntry
  <2> HIDE DEF e
  <2>2. ~server_info_exist(e.id, lst)
    BY <1>1, <1>3, <2>1 DEF server_info_exist
  <2>3. l = a
    BY <2>2 DEF append_server, e
  <2>4. a \in Seq(ListEntry) /\ Len(a) = 2 /\ a[1] = lst[1] /\ a[2] = e
    <3>1. /\ a \in Seq(ListEntry) /\ Len(a) = Len(lst) + 1
          /\ \A i \in 1 .. Len(lst) : a[i] = lst[i]
          /\ a[Len(lst) + 1] = e
      BY <1>3, <2>1, AppendProperties
    <3>2. Len(lst) + 1 = 2 /\ 1 \in 1 .. Len(lst)
      BY <1>1
    <3> HIDE DEF a
    <3> QED
      BY <3>1, <3>2
  <2> HIDE DEF l, a
  <2> QED
    BY <2>1, <2>3, <2>4
<1> HIDE DEF l
<1>5. CASE NewSuccessor(l)
  <2>1. Len(l) \in 2 .. 3 /\ Len(l) # 3 /\ f # error_return
    BY <1>4 DEF Fd, error_return
  <2>2. /\ spent' \in [ends : 0 .. MaxEnds, neighbour : 0 .. MaxNeighbour,
                       leaders : Nat, mistaken : Nat, rejected : Nat, unanswered : Nat]
        /\ spent'.ends = spent.ends /\ spent'.leaders = spent.leaders
        /\ spent'.mistaken = spent.mistaken /\ spent'.rejected = spent.rejected
        /\ spent'.unanswered = spent.unanswered
    BY <1>1, Types
  <2>3. Opens(l)
    BY <1>1, <1>2, <1>4, <1>5, <2>1, <2>2 DEF Opens
  <2> QED
    BY <2>3, OpensKeeps
<1>6. CASE lst' = l /\ conn' = conn /\ ended' = ended
           /\ master' = master /\ successor_socket' = successor_socket
  <2>1. /\ FollowerList /\ EndsCounted /\ Watched /\ DeathNeedsFaults
        /\ joined = {} /\ \A c \in Client : client[c] = "new"
    BY <1>2, Types DEF IInv
  <2>2. successor_socket = error_return
    BY <1>1, <1>2, <2>1 DEF FollowerList
  <2>3. ~Leads'
    BY <1>2, <1>4, <1>6 DEF Leads
  <2>4. TypeOK'
    <3>1. lst' \in Seq(ListEntry) /\ ltcp_socket' \in Fd \cup {error_return}
      BY <1>1, <1>4, <1>6
    <3>2. lst'[1].leader \/ (joined' = {} /\ \A c \in Client : client'[c] = "new")
      BY <1>1, <2>1
    <3> QED
      BY <1>1, <1>6, <3>1, <3>2 DEF IInv, TypeOK, ListEntry
  <2>5. Heads' /\ FollowerList' /\ LeaderList'
    <3>1. Len(lst') = 2 /\ lst'[1].id = 0 /\ lst'[2].id = 1
      BY <1>3, <1>4, <1>6
    <3> QED
      BY <2>3, <3>1 DEF Heads, FollowerList, LeaderList
  <2>6. LeaderSocket' /\ OneLeader'
    <3>1. Len(lst') > 1
      BY <1>4, <1>6, SMTT(30)
    <3>2. conn'[ltcp_socket'] = Leader /\ \A g \in Fd : conn'[g] = Leader => g = ltcp_socket'
      BY <1>1, <1>2, <1>6
    <3> QED
      BY <2>3, <3>1, <3>2 DEF LeaderSocket, OneLeader
  <2>7. Places' /\ DeadPeers' /\ Unanswered' /\ Indices' /\ Routed' /\ Replaced'
    BY <1>1, <1>2, <1>6, FollowerAlone, Types, FollowerStep
  <2>8. EndsCounted' /\ LeaderCounted'
    <3>1. ltcp_socket' # error_return
      BY <1>1 DEF Fd, error_return
    <3> QED
      BY <1>1, <1>2, <1>6, <2>1, <2>2, <3>1 DEF EndsCounted, LeaderCounted
  <2>9. Watched' /\ DeathNeedsFaults'
    BY <1>1, <1>6, <2>1 DEF Watched, DeathNeedsFaults, Open, Up
  <2>10. SlotsAccounted' /\ SlotsExact'
    BY <1>1, <1>6, ZenonT(30), SlotsKept
  <2> QED
    BY <2>4, <2>5, <2>6, <2>7, <2>8, <2>9, <2>10 DEF IInv
<1> QED
  BY <1>1, <1>5, <1>6

LEMMA ClaimAloneKeeps ==
    ASSUME IInv, ClaimAlone
    PROVE  IInv'
<1>1. /\ status = "up" /\ ~Leads /\ ltcp_socket = error_return /\ Len(lst) = 2
      /\ lst' = <<Self(TRUE)>>
      /\ status' = status /\ conn' = conn /\ ended' = ended /\ master' = master
      /\ ClientArray' = ClientArray /\ ltcp_socket' = ltcp_socket
      /\ successor_socket' = successor_socket /\ client' = client /\ joined' = joined
      /\ spent' = spent /\ clk_index' = clk_index /\ astray' = astray /\ missed' = missed
  BY DEF ClaimAlone, LeaderLost, Up, chat
<1>2. /\ lst' \in Seq(ListEntry) /\ Len(lst') = 1
      /\ lst'[1].id = 0 /\ lst'[1].leader = TRUE
  BY <1>1, EntryTypes
<1>3. Leads'
  BY <1>2 DEF Leads
<1>4. /\ OneLeader /\ EndsCounted /\ Watched /\ DeathNeedsFaults /\ TypeOK
      /\ conn \in [Fd -> Other] /\ master \subseteq Fd
  BY Types DEF IInv
<1>5. TypeOK'
  BY <1>1, <1>2, <1>4 DEF TypeOK, ListEntry
<1>6. Heads' /\ FollowerList' /\ LeaderSocket'
  <2>1. Heads'
    BY <1>2 DEF Heads
  <2>2. FollowerList'
    BY <1>3 DEF FollowerList
  <2>3. LeaderSocket'
    BY <1>1 DEF LeaderSocket
  <2> QED
    BY <2>1, <2>2, <2>3
<1>7. OneLeader'
  <2>1. \A g \in Fd : conn[g] # Leader
    BY <1>1, <1>4 DEF OneLeader, Fd, error_return
  <2> QED
    BY <1>1, <2>1 DEF OneLeader
<1>8. LeaderList'
  BY <1>2 DEF LeaderList, TailSorted
<1>9. Places' /\ DeadPeers' /\ Unanswered' /\ Indices' /\ Routed' /\ Replaced'
  BY <1>1, <1>4, FollowerAlone, Types, FollowerStep
<1>10. EndsCounted' /\ LeaderCounted' /\ Watched' /\ DeathNeedsFaults'
  BY <1>1, <1>3, <1>4 DEF EndsCounted, LeaderCounted, Watched, DeathNeedsFaults, Open
<1>11. SlotsAccounted' /\ SlotsExact'
  BY <1>1, SlotsKept
<1> QED
  BY <1>5, <1>6, <1>7, <1>8, <1>9, <1>10, <1>11 DEF IInv

LEMMA ElectedKeeps ==
    ASSUME IInv, NEW leads \in BOOLEAN, Elected(leads)
    PROVE  IInv'
<1>1. /\ FollowerList /\ OneLeader /\ EndsCounted /\ LeaderCounted /\ Watched
      /\ DeathNeedsFaults /\ TypeOK
  BY DEF IInv
<1>2. /\ status = "up" /\ ~Leads /\ ltcp_socket = error_return /\ Len(lst) > 2
      /\ lst' = <<Self(leads)>> /\ successor_socket' = error_return
      /\ status' = status /\ ClientArray' = ClientArray /\ ltcp_socket' = ltcp_socket
      /\ client' = client /\ joined' = joined
      /\ spent' = spent /\ clk_index' = clk_index /\ astray' = astray /\ missed' = missed
  BY DEF Elected, LeaderLost, Up, chat
<1>3. /\ successor_socket \in Fd /\ conn[successor_socket] = Successor
      /\ lst[3].sock = successor_socket
  <2>1. lst \in Seq(ListEntry)
    BY Types DEF ListEntry
  <2>2. Len(lst) <= 3
    BY <1>1, <1>2 DEF FollowerList
  <2>3. Len(lst) = 3
    <3> DEFINE n == Len(lst)
    <3>1. n \in Nat /\ n <= 3 /\ n > 2
      BY <1>2, <2>1, <2>2
    <3> HIDE DEF n
    <3>2. n = 3
      BY <3>1
    <3> QED
      BY <3>2 DEF n
  <2> QED
    BY <1>1, <1>2, <2>3 DEF FollowerList
<1> DEFINE f == successor_socket
<1>4. /\ conn' = [g \in Fd |-> IF g = f THEN Free ELSE conn[g]]
      /\ ended' = ended \ {f} /\ master' = master \ {f}
  BY <1>3 DEF Elected
<1> HIDE DEF f
<1>5. f \in Fd /\ conn[f] = Successor
  BY <1>3 DEF f
<1>6. /\ conn \in [Fd -> Other] /\ ended \subseteq Fd /\ master \subseteq Fd
      /\ \A g \in ended : conn[g] # Free
      /\ joined = {} /\ \A c \in Client : client[c] = "new"
  BY <1>2, Types
<1>7. /\ conn' \in [Fd -> Other]
      /\ \A g \in Fd : conn'[g] = IF g = f THEN Free ELSE conn[g]
  BY <1>4, <1>6, Kinds
<1>8. /\ lst' \in Seq(ListEntry) /\ Len(lst') = 1
      /\ lst'[1].id = 0 /\ lst'[1].leader = leads
  BY <1>2, EntryTypes
<1>9. TypeOK'
  <2>1. ended' \subseteq {g \in Fd : conn'[g] # Free} /\ master' \subseteq Fd
    BY <1>4, <1>6, <1>7
  <2>2. lst'[1].leader \/ (joined' = {} /\ \A c \in Client : client'[c] = "new")
    BY <1>2, <1>6
  <2>3. {ltcp_socket', successor_socket'} \subseteq Fd \cup {error_return}
    BY <1>2
  <2> QED
    BY <1>1, <1>2, <1>7, <1>8, <2>1, <2>2, <2>3 DEF TypeOK, ListEntry
<1>10. Heads' /\ FollowerList' /\ LeaderSocket'
  BY <1>2, <1>8 DEF Heads, FollowerList, LeaderSocket
<1>11. OneLeader'
  <2>1. \A g \in Fd : conn[g] # Leader
    BY <1>1, <1>2 DEF OneLeader, Fd, error_return
  <2>2. Leader # Free
    BY Kinds
  <2>3. \A g \in Fd : conn'[g] # Leader
    BY <1>7, <2>1, <2>2
  <2> QED
    BY <2>3 DEF OneLeader
<1>12. LeaderList'
  BY <1>8 DEF LeaderList, TailSorted
<1>13. Places' /\ DeadPeers' /\ Unanswered' /\ Indices' /\ Routed' /\ Replaced'
  <2>1. \A g \in Fd : conn'[g][1] \notin {"client", "peer"}
    BY <1>2, <1>7, FollowerAlone, Kinds
  <2>2. master' \subseteq Fd
    BY <1>4, <1>6
  <2> QED
    BY <1>2, <2>1, <2>2, Types, FollowerStep
<1>14. EndsCounted' /\ LeaderCounted'
  <2>1. ended' \subseteq ended /\ IsFiniteSet(ended)
    BY <1>4, <1>6, FdFinite
  <2>2. Cardinality(ended') <= Cardinality(ended)
    BY <2>1, FS_Subset
  <2>3. Cardinality(ended') \in Nat /\ Cardinality(ended) \in Nat /\ spent.ends \in Nat
    BY <1>6, <2>1, FdFinite, Types
  <2>4. \A g \in ended' : g \in ended /\ conn'[g] = conn[g]
    BY <1>4, <1>6, <1>7
  <2>5. Cardinality(ended') + spent'.leaders <= Cardinality(ended) + spent.leaders
    BY <1>2, <2>2, <2>3, Types
  <2>6. EndsCounted'
    <3> DEFINE x == Cardinality(ended) + spent.leaders
               y == Cardinality(ended') + spent'.leaders
    <3>1. x \in Nat /\ y \in Nat /\ y <= x
      <4>1. spent.leaders \in Nat
        BY Types
      <4>2. spent'.leaders = spent.leaders
        BY <1>2
      <4> QED
        BY <2>3, <2>5, <4>1, <4>2
    <3>2. x <= spent.ends
      BY <1>1, <1>2 DEF EndsCounted
    <3> HIDE DEF x, y
    <3>3. y <= spent'.ends
      BY <1>2, <2>3, <3>1, <3>2
    <3>4. spent'.ends = 0 => \A g \in ended' : conn'[g][1] = "client"
      BY <1>1, <1>2, <2>4 DEF EndsCounted
    <3> QED
      BY <1>2, <3>3, <3>4 DEF EndsCounted, y
  <2>7. LeaderCounted'
    BY <1>1, <1>2 DEF LeaderCounted
  <2> QED
    BY <2>6, <2>7
<1>15. Watched'
  <2>1. \A g \in Fd : g \in Open' <=> g \in Open /\ g # f
    BY <1>7 DEF Open
  <2>2. Open' \subseteq Fd /\ Open \subseteq Fd
    BY DEF Open
  <2>3. spent.rejected + spent.unanswered = 0 => master' \subseteq Open'
    BY <1>1, <1>4, <1>6, <2>1 DEF Watched
  <2>4. \A g \in Open' \ master' : g \in Open \ master /\ conn'[g] = conn[g]
    BY <1>4, <1>7, <2>1, <2>2
  <2> QED
    BY <1>1, <1>2, <2>3, <2>4 DEF Watched
<1>16. SlotsAccounted' /\ SlotsExact'
  <2>1. ~Accepted(Free) /\ ~Accepted(Successor)
    BY Kinds DEF Accepted
  <2>2. \A g \in Fd : Accepted(conn[g]) \/ Accepted(conn'[g]) => conn'[g] = conn[g]
    BY <1>5, <1>7, <2>1
  <2> QED
    BY <1>2, <2>2, AllAnswered, SlotsKept
<1>17. DeathNeedsFaults'
  BY <1>2 DEF DeathNeedsFaults
<1> QED
  BY <1>9, <1>10, <1>11, <1>12, <1>13, <1>14, <1>15, <1>16, <1>17 DEF IInv

(* Nothing changes but the status, and who has got which messages.         *)
Stays ==
    /\ conn' = conn /\ ended' = ended /\ master' = master
    /\ ClientArray' = ClientArray /\ ltcp_socket' = ltcp_socket /\ lst' = lst
    /\ successor_socket' = successor_socket /\ client' = client /\ joined' = joined
    /\ spent' = spent /\ clk_index' = clk_index

LEMMA StaysKeeps ==
    ASSUME IInv, Stays, status' \in {"up", "select failed", "segv", "exited"},
           astray' \subseteq Client, missed' \subseteq Client, Routed', DeathNeedsFaults'
    PROVE  IInv'
<1>1. TypeOK'
  BY DEF Stays, IInv, TypeOK
<1>2. Heads' /\ FollowerList'
  BY DEF Stays, IInv, Heads, FollowerList, Leads
<1>3. LeaderSocket'
  BY DEF Stays, IInv, LeaderSocket, Leads
<1>4. OneLeader'
  BY DEF Stays, IInv, OneLeader, Leads
<1>5. LeaderList' /\ Places'
  BY DEF Stays, IInv, LeaderList, Places, Leads
<1>6. DeadPeers' /\ EndsCounted' /\ LeaderCounted' /\ Indices' /\ Replaced'
  BY DEF Stays, IInv, DeadPeers, EndsCounted, LeaderCounted, Indices, Replaced, Leads
<1>8. Unanswered' /\ Watched'
  BY DEF Stays, IInv, Unanswered, Watched, Leads, Open
<1>7. SlotsAccounted' /\ SlotsExact'
  BY SlotsKept DEF Stays
<1> QED
  BY <1>1, <1>2, <1>3, <1>4, <1>5, <1>6, <1>7, <1>8 DEF IInv

LEMMA SelectFailsKeeps ==
    ASSUME IInv, SelectFails
    PROVE  IInv'
<1>1. /\ ~(master \subseteq Open) /\ status' = "select failed"
      /\ Stays /\ astray' = astray /\ missed' = missed
  BY DEF SelectFails, Stays, chat
<1>2. DeathNeedsFaults'
  <2>1. spent.rejected + spent.unanswered # 0
    BY <1>1 DEF IInv, Watched
  <2>2. spent.rejected + spent.unanswered \in Nat
    BY Types
  <2> DEFINE n == spent.rejected + spent.unanswered
  <2> HIDE DEF n
  <2>3. n > 0
    BY <2>1, <2>2 DEF n
  <2>4. spent'.rejected + spent'.unanswered > 0
    BY <1>1, <2>3 DEF n, Stays
  <2> QED
    BY <1>1, <2>4 DEF DeathNeedsFaults
<1>3. astray' \subseteq Client /\ missed' \subseteq Client /\ Routed'
  BY <1>1 DEF IInv, TypeOK, Routed, Stays
<1> QED
  BY <1>1, <1>2, <1>3, StaysKeeps

(* A server that has lost the election hears the winner's HEARTBEAT.       *)
LEMMA RecvHeartbeatKeeps ==
    ASSUME IInv, RecvHeartbeat
    PROVE  IInv'
<1>1. /\ ~Leads /\ Len(lst) = 1 /\ status' = "segv"
      /\ Stays /\ astray' = astray /\ missed' = missed
  BY DEF RecvHeartbeat, Dies, Stays, chat
<1>2. spent.leaders > 0
  <2>1. ltcp_socket = error_return
    BY <1>1 DEF IInv, LeaderSocket
  <2> QED
    BY <1>1, <2>1 DEF IInv, LeaderCounted
<1>3. DeathNeedsFaults'
  BY <1>1, <1>2 DEF DeathNeedsFaults, Stays, Leads
<1>4. astray' \subseteq Client /\ missed' \subseteq Client /\ Routed'
  BY <1>1 DEF IInv, TypeOK, Routed, Stays
<1> QED
  BY <1>1, <1>3, <1>4, StaysKeeps

(* One without a successor passes the election on: both the leader and the *)
(* successor have ended.                                                   *)
LEMMA RecvElectionAloneKeeps ==
    ASSUME IInv, NEW f \in Fd, RecvElectionAlone(f)
    PROVE  IInv'
<1>1. /\ ~Leads /\ ltcp_socket \notin Open \ ended /\ Len(lst) = 2
      /\ successor_socket # error_return /\ status' = "segv"
      /\ Stays /\ astray' = astray /\ missed' = missed
  BY DEF RecvElectionAlone, Dies, Stays, chat
<1>2. spent.ends > 1
  <2> DEFINE x == Cardinality(ended)
             e == spent.ends
             l == spent.leaders
  <2>1. ended \subseteq Fd /\ e \in Nat /\ l \in Nat
    BY Types
  <2>2. IsFiniteSet(ended) /\ x \in Nat
    BY <2>1, FdFinite
  <2>3. x + l < e
    BY <1>1 DEF IInv, EndsCounted
  <2>4. x > 0 \/ l > 0
    <3>1. CASE ltcp_socket = error_return
      BY <1>1, <3>1 DEF IInv, LeaderCounted
    <3>2. CASE ltcp_socket # error_return
      <4>1. conn[ltcp_socket] = Leader /\ ltcp_socket \in Fd
        BY <3>2, Types DEF IInv, LeaderSocket
      <4>2. ltcp_socket \in ended
        BY <1>1, <4>1, Kinds DEF Open
      <4>3. x # 0
        BY <2>2, <4>2, FS_EmptySet
      <4> QED
        BY <2>2, <4>3
    <3> QED
      BY <3>1, <3>2
  <2> HIDE DEF x, e, l
  <2>5. e > 1
    BY <2>1, <2>2, <2>3, <2>4
  <2> QED
    BY <2>5 DEF e
<1>3. DeathNeedsFaults'
  BY <1>1, <1>2 DEF DeathNeedsFaults, Stays
<1>4. astray' \subseteq Client /\ missed' \subseteq Client /\ Routed'
  BY <1>1 DEF IInv, TypeOK, Routed, Stays
<1> QED
  BY <1>1, <1>3, <1>4, StaysKeeps

LEMMA NamedSuccessorDiedKeeps ==
    ASSUME IInv, NEW f \in Fd, NamedSuccessorDied(f)
    PROVE  IInv'
<1>1. /\ ~Leads /\ spent.ends < MaxEnds /\ spent' = [spent EXCEPT !.ends = @ + 1]
      /\ status' = "exited" /\ conn' = conn /\ ended' = ended /\ master' = master
      /\ ClientArray' = ClientArray /\ ltcp_socket' = ltcp_socket /\ lst' = lst
      /\ successor_socket' = successor_socket /\ client' = client /\ joined' = joined
      /\ clk_index' = clk_index /\ astray' = astray /\ missed' = missed
  BY DEF NamedSuccessorDied, Dies, chat
<1>2. spent \in [ends : 0 .. MaxEnds, neighbour : 0 .. MaxNeighbour,
                 leaders : Nat, mistaken : Nat, rejected : Nat, unanswered : Nat]
  BY Types
<1>3. /\ spent' \in [ends : 0 .. MaxEnds, neighbour : 0 .. MaxNeighbour,
                     leaders : Nat, mistaken : Nat, rejected : Nat, unanswered : Nat]
      /\ spent'.ends = spent.ends + 1 /\ spent.ends \in Nat
      /\ spent'.leaders = spent.leaders /\ spent.leaders \in Nat
      /\ spent'.mistaken = spent.mistaken /\ spent.mistaken \in Nat
      /\ spent'.rejected = spent.rejected
      /\ spent'.unanswered = spent.unanswered
  BY <1>1, <1>2, BoundAssumption
<1>4. TypeOK'
  BY <1>1, <1>3 DEF IInv, TypeOK
<1>5. Heads' /\ FollowerList'
  BY <1>1 DEF IInv, Heads, FollowerList, Leads
<1>6. LeaderSocket'
  BY <1>1 DEF IInv, LeaderSocket, Leads
<1>7. OneLeader'
  BY <1>1 DEF IInv, OneLeader, Leads
<1>8. LeaderList'
  BY <1>1 DEF IInv, LeaderList, Leads
<1>9. Places' /\ DeadPeers' /\ Unanswered' /\ Indices' /\ Routed' /\ Replaced'
  <2>1. \A g \in Fd : conn'[g][1] \notin {"client", "peer"}
    BY <1>1, FollowerAlone
  <2>2. /\ master' \subseteq Fd /\ spent'.leaders >= spent.leaders
        /\ spent'.mistaken >= spent.mistaken
    <3>1. master' \subseteq Fd
      BY <1>1, Types
    <3>2. spent'.leaders >= spent.leaders /\ spent'.mistaken >= spent.mistaken
      BY <1>3
    <3> QED
      BY <3>1, <3>2
  <2> QED
    BY <1>1, <1>3, <2>1, <2>2, FollowerStep
<1>10. EndsCounted' /\ LeaderCounted'
  <2> DEFINE x == Cardinality(ended) + spent.leaders
  <2>1. x \in Nat
    <3>1. ended \subseteq Fd
      BY Types
    <3>2. Cardinality(ended) \in Nat
      BY <3>1, FdFinite
    <3> QED
      BY <1>3, <3>2
  <2>2. /\ x <= spent.ends
        /\ successor_socket # error_return /\ Len(lst) < 3 => x < spent.ends
    BY <1>1 DEF IInv, EndsCounted
  <2> HIDE DEF x
  <2>3. /\ x <= spent'.ends /\ spent'.ends # 0
        /\ successor_socket # error_return /\ Len(lst) < 3 => x < spent'.ends
    BY <1>3, <2>1, <2>2
  <2>4. EndsCounted'
    BY <1>1, <1>3, <2>3 DEF EndsCounted, Leads, x
  <2>5. LeaderCounted'
    BY <1>1, <1>3 DEF IInv, LeaderCounted, Leads
  <2> QED
    BY <2>4, <2>5
<1>11. Watched'
  <2>1. Watched /\ spent'.ends > 0
    BY <1>3 DEF IInv
  <2> QED
    BY <1>1, <1>3, <2>1 DEF Watched, Open
<1>12. SlotsAccounted' /\ SlotsExact'
  BY <1>1, <1>3, SlotsKept
<1>13. DeathNeedsFaults'
  <2>1. spent'.ends > 0 /\ ~Leads'
    BY <1>1, <1>3 DEF Leads
  <2> QED
    BY <1>1, <2>1 DEF DeathNeedsFaults
<1> QED
  BY <1>4, <1>5, <1>6, <1>7, <1>8, <1>9, <1>10, <1>11, <1>12, <1>13 DEF IInv

-----------------------------------------------------------------------------
(* A peer that lives is at the other end of a connection that has not      *)
(* ended.                                                                  *)
LEMMA LivingOpen ==
    ASSUME Places, joined \subseteq Peer, NEW q \in joined, NEW g \in Fd, g \notin Open \ ended,
           Living(q, conn, ended) => conn[g] = <<"peer", q>>
    PROVE  ~Living(q, conn, ended)
<1> SUFFICES ASSUME NEW h \in Fd \ ended, conn[h] = <<"peer", q>>, conn[g] = <<"peer", q>>
             PROVE  FALSE
  BY DEF Living
<1>1. g = h
  BY DEF Places
<1>2. conn[h] # Free
  BY Kinds
<1> QED
  BY <1>1, <1>2 DEF Open

LEMMA PeerJoinsKeeps ==
    ASSUME IInv, NEW p \in Peer, PeerJoins(p)
    PROVE  IInv'
<1> DEFINE f == LowestFree
           e == Entry(p, f, FALSE)
           k == append_server_sorted(lst, e)
           g0 == k[PredecessorInRing(p, k)].sock
<1>1. /\ status = "up" /\ Leads /\ p \notin joined
      /\ lst' = k /\ conn' = [conn EXCEPT ![f] = <<"peer", p>>]
      /\ \/ master' = master \cup {f}
         \/ Len(k) > 2 /\ g0 \notin Sound(f) /\ master' = master
      /\ joined' = joined \cup {p}
      /\ status' = status /\ ended' = ended /\ ClientArray' = ClientArray
      /\ ltcp_socket' = ltcp_socket /\ successor_socket' = successor_socket
      /\ client' = client /\ spent' = spent /\ spent.unanswered = 0
      /\ clk_index' = clk_index /\ astray' = astray /\ missed' = missed
  BY DEF PeerJoins, Up, chat
<1>2. /\ conn \in [Fd -> Other] /\ ended \subseteq Fd /\ master \subseteq Fd
      /\ \A g \in ended : conn[g] # Free
      /\ lst \in Seq(ListEntry) /\ joined \subseteq Peer
  BY Types DEF ListEntry
<1>3. f \in Fd /\ conn[f] = Free /\ f \notin Open /\ f \notin ended
  <2>1. f \in Fd /\ conn[f] = Free /\ f \notin Open
    BY NextNumber DEF PeerJoins
  <2> QED
    BY <1>2, <2>1
<1>4. /\ Heads /\ LeaderSocket /\ OneLeader /\ LeaderList /\ Places /\ DeadPeers
      /\ EndsCounted /\ LeaderCounted /\ Watched /\ Indices /\ Routed /\ DeathNeedsFaults /\ Replaced
  BY DEF IInv
<1>5. p \in Nat /\ p # 0
  BY PeerAssumption
<1>6. e \in ListEntry /\ e.id = p /\ e.sock = f
  BY <1>3, <1>5 DEF Entry, ListEntry
<1> HIDE DEF f, e, g0
<1>7. k \in Seq(ListEntry) /\ TailSorted(k) /\ \E j \in 2 .. Len(k) : Inserted(lst, e, j, k)
  <2>1. lst # << >> /\ TailSorted(lst)
    BY <1>1, <1>4 DEF Heads, LeaderList
  <2>2. \A x \in ListEntry : x.id \in Nat
    BY EntryTypes
  <2>3. ~server_info_exist(e.id, lst)
    <3> SUFFICES ASSUME NEW i \in 1 .. Len(lst), lst[i].id = p PROVE FALSE
      BY <1>6 DEF server_info_exist
    <3>1. i # 1
      BY <1>4, <1>5 DEF Heads
    <3>2. i \in 2 .. Len(lst)
      BY <1>2, <3>1
    <3> QED
      BY <1>1, <1>4, <3>2 DEF LeaderList
  <2> QED
    BY <1>2, <1>6, <2>1, <2>2, <2>3, AppendedSorted
<1> HIDE DEF k
<1>8. PICK j \in 2 .. Len(k) : Inserted(lst, e, j, k)
  BY <1>7
<1>9. /\ Len(lst) \in Nat /\ Len(lst) > 0 /\ Len(k) = Len(lst) + 1 /\ k[j] = e
      /\ \A i \in 1 .. j-1 : k[i] = lst[i]
      /\ \A i \in j+1 .. Len(k) : k[i] = lst[i-1]
  <2>1. Len(lst) \in Nat
    BY <1>2
  <2>2. Len(lst) > 0
    BY <1>4 DEF Heads
  <2>3. /\ Len(k) = Len(lst) + 1 /\ k[j] = e
        /\ \A i \in 1 .. j-1 : k[i] = lst[i]
        /\ \A i \in j+1 .. Len(k) : k[i] = lst[i-1]
    BY <1>8, Zenon DEF Inserted
  <2> QED
    BY <2>1, <2>2, <2>3
<1>10. /\ k[1] = lst[1]
       /\ \A i \in 2 .. Len(k) : i = j \/ \E h \in 2 .. Len(lst) : k[i] = lst[h]
       /\ \A h \in 2 .. Len(lst) : \E i \in 2 .. Len(k) : k[i] = lst[h]
  <2>1. 1 \in 1 .. j-1
    BY <1>8
  <2>2. ASSUME NEW i \in 2 .. Len(k), i # j
        PROVE  \E h \in 2 .. Len(lst) : k[i] = lst[h]
    <3>1. CASE i < j
      <4>1. i \in 1 .. j-1 /\ i \in 2 .. Len(lst)
        BY <1>8, <1>9, <3>1
      <4> QED
        BY <1>9, <4>1
    <3>2. CASE i > j
      <4>1. i \in j+1 .. Len(k) /\ i-1 \in 2 .. Len(lst)
        BY <1>8, <1>9, <3>2
      <4> QED
        BY <1>9, <4>1
    <3> QED
      BY <1>8, <2>2, <3>1, <3>2
  <2>3. ASSUME NEW h \in 2 .. Len(lst)
        PROVE  \E i \in 2 .. Len(k) : k[i] = lst[h]
    <3>1. CASE h < j
      <4>1. h \in 1 .. j-1 /\ h \in 2 .. Len(k)
        BY <1>8, <1>9, <3>1
      <4> QED
        BY <1>9, <4>1
    <3>2. CASE h >= j
      <4>1. h+1 \in j+1 .. Len(k) /\ h+1 \in 2 .. Len(k) /\ (h+1)-1 = h
        BY <1>8, <1>9, <3>2
      <4> QED
        BY <1>9, <4>1
    <3> QED
      BY <1>8, <3>1, <3>2
  <2> QED
    BY <1>9, <2>1, <2>2, <2>3
<1>11. /\ conn' \in [Fd -> Other]
       /\ \A g \in Fd : conn'[g] = IF g = f THEN <<"peer", p>> ELSE conn[g]
  BY <1>1, <1>2, <1>3, Kinds
<1>12. \A g \in Fd : conn[g] # <<"peer", p>>
  BY <1>1, <1>4 DEF Places
<1>13. \A q : conn[f] # <<"peer", q>> /\ conn[f] # <<"client", q>>
  BY <1>3, Kinds, Apart
<1>14. /\ \A q : q # p => (Living(q, conn', ended') <=> Living(q, conn, ended))
       /\ Living(p, conn', ended')
  <2>1. \A g \in Fd : \A q : q # p => (conn'[g] = <<"peer", q>> <=> conn[g] = <<"peer", q>>)
    BY <1>11, <1>13
  <2> QED
    BY <1>1, <1>3, <1>11, <2>1 DEF Living
<1>15. Leads'
  BY <1>1, <1>10 DEF Leads
<1>16. TypeOK'
  <2>1. ended' \subseteq {g \in Fd : conn'[g] # Free}
    BY <1>1, <1>2, <1>3, <1>11
  <2>2. master' \subseteq Fd /\ joined' \subseteq Peer
    BY <1>1, <1>2, <1>3
  <2>3. lst' \in Seq(ListEntry) /\ lst'[1].leader
    BY <1>1, <1>7, <1>15 DEF Leads
  <2> QED
    BY <1>1, <1>11, <2>1, <2>2, <2>3 DEF IInv, TypeOK, ListEntry
<1>17. Heads' /\ FollowerList' /\ LeaderSocket'
  <2>1. Heads'
    BY <1>1, <1>4, <1>9, <1>10 DEF Heads
  <2>2. ltcp_socket' = error_return
    BY <1>1, <1>4 DEF LeaderSocket
  <2> QED
    BY <1>15, <2>1, <2>2 DEF FollowerList, LeaderSocket
<1>18. OneLeader'
  <2>1. \A g \in Fd : conn[g] # Leader
    BY <1>1, <1>4 DEF OneLeader
  <2>2. <<"peer", p>> # Leader
    BY Kinds
  <2> QED
    BY <1>11, <2>1, <2>2 DEF OneLeader
<1>19. LeaderList'
  <2>1. ASSUME NEW i \in 2 .. Len(k)
        PROVE  /\ k[i].id \in joined' /\ k[i].sock \in Fd
               /\ Living(k[i].id, conn', ended') => conn'[k[i].sock] = <<"peer", k[i].id>>
    <3>1. CASE i = j
      BY <1>1, <1>3, <1>6, <1>9, <1>11, <3>1
    <3>2. CASE i # j
      <4>1. PICK h \in 2 .. Len(lst) : k[i] = lst[h]
        BY <1>10, <3>2
      <4> DEFINE q == lst[h].id
                 g == lst[h].sock
      <4>2. /\ q \in joined /\ g \in Fd
            /\ Living(q, conn, ended) => conn[g] = <<"peer", q>>
        BY <1>1, <1>4 DEF LeaderList
      <4>3. k[i].id = q /\ k[i].sock = g
        BY <4>1
      <4> HIDE DEF q, g
      <4>4. q # p
        BY <1>1, <4>2
      <4>5. Living(q, conn', ended') => conn'[g] = <<"peer", q>>
        BY <1>11, <1>13, <1>14, <4>2, <4>4
      <4> QED
        BY <1>1, <4>2, <4>3, <4>5
    <3> QED
      BY <3>1, <3>2
  <2> QED
    BY <1>1, <1>7, <2>1 DEF LeaderList
<1>20. Places'
  <2>1. <<"peer", p>>[1] # "client"
    BY Kinds
  <2>2. \A g \in Fd, c \in Client : conn'[g] = <<"client", c>> <=> conn[g] = <<"client", c>>
    BY <1>11, <1>13, <2>1, Apart
  <2>3. \A g \in Fd, q \in Peer : conn'[g] = <<"peer", q>> =>
            (q = p /\ g = f) \/ (q # p /\ conn[g] = <<"peer", q>>)
    BY <1>11, <1>12
  <2>4. \A g \in Fd, q \in Peer : conn'[g] = <<"peer", q>> => q \in joined'
    BY <1>1, <1>4, <2>3 DEF Places
  <2>5. \A g, h \in Fd, q \in Peer :
            conn'[g] = <<"peer", q>> /\ conn'[h] = <<"peer", q>> => g = h
    BY <1>4, <2>3 DEF Places
  <2>6. \A g \in Fd, c \in Client :
            conn'[g] = <<"client", c>> => client'[c] \in {"connected", "registered"}
    BY <1>1, <1>4, <2>2 DEF Places
  <2>7. \A c \in Client : client'[c] \in {"connected", "registered"} =>
            \E g \in Fd : conn'[g] = <<"client", c>>
    BY <1>1, <1>4, <2>2 DEF Places
  <2>8. \A g, h \in Fd, c \in Client :
            conn'[g] = <<"client", c>> /\ conn'[h] = <<"client", c>> => g = h
    BY <1>4, <2>2 DEF Places
  <2> QED
    BY <2>4, <2>5, <2>6, <2>7, <2>8 DEF Places
<1>21. DeadPeers' /\ EndsCounted' /\ LeaderCounted' /\ Unanswered'
  <2>1. \A g \in ended : conn'[g] = conn[g]
    BY <1>2, <1>3, <1>11
  <2>2. \A q \in joined' : q = p \/ q \in joined
    BY <1>1
  <2>3. DeadPeers'
    BY <1>1, <1>4, <1>14, <2>2 DEF DeadPeers
  <2>4. EndsCounted'
    BY <1>1, <1>4, <1>15, <2>1 DEF EndsCounted
  <2>5. LeaderCounted' /\ Unanswered'
    BY <1>1, <1>15 DEF LeaderCounted, Unanswered
  <2> QED
    BY <2>3, <2>4, <2>5
<1>22. Watched'
  <2> SUFFICES ASSUME spent.rejected + spent.unanswered = 0 PROVE Watched'
    BY <1>1 DEF Watched
  <2>1. \A g \in Fd : g \in Open' <=> g \in Open \/ g = f
    <3>1. <<"peer", p>> # Free
      BY Kinds
    <3> QED
      BY <1>11, <3>1 DEF Open
  <2>2. master \subseteq Open /\ Open \subseteq Fd /\ Open' \subseteq Fd
    BY <1>4 DEF Watched, Open
  <2>3. master' \subseteq Open'
    BY <1>1, <1>3, <2>1, <2>2
  <2>4. ASSUME NEW g \in Open' \ master'
        PROVE  conn'[g][1] = "peer" /\ spent'.ends > 0
    <3>1. CASE g # f
      <4>1. g \in Open \ master /\ conn'[g] = conn[g]
        BY <1>1, <1>11, <2>1, <2>2, <2>4, <3>1
      <4> QED
        BY <1>1, <1>4, <4>1 DEF Watched
    <3>2. CASE g = f
      <4>1. conn'[g][1] = "peer"
        BY <1>3, <1>11, <3>2, Kinds
      <4>2. g0 \notin Sound(f)
        BY <1>1, <2>4, <3>2
      <4> DEFINE i == PredecessorInRing(p, k)
      <4>3. i \in 2 .. Len(k)
        <5>1. k[j].id = p
          BY <1>6, <1>9
        <5>2. \A x \in ListEntry : x.id \in Nat
          BY EntryTypes
        <5>3. get_predecessor(k[j].id, k) = j - 1
          BY <1>7, <1>8, <5>2, Neighbours
        <5>4. i = IF j - 1 = 1 THEN Len(k) ELSE j - 1
          BY <5>1, <5>3 DEF PredecessorInRing, get_last_server
        <5>5. Len(k) \in Nat /\ j \in 2 .. Len(k)
          BY <1>7, <1>8
        <5> HIDE DEF i
        <5> QED
          BY <5>4, <5>5
      <4>4. k[i].sock \notin Open \ ended /\ k[i].sock # f
        BY <4>2 DEF g0, Sound
      <4> HIDE DEF i
      <4>5. i # j
        BY <1>6, <1>9, <4>4
      <4>6. PICK h \in 2 .. Len(lst) : k[i] = lst[h]
        BY <1>10, <4>3, <4>5
      <4>7. /\ lst[h].id \in joined /\ lst[h].sock \in Fd
            /\ Living(lst[h].id, conn, ended) => conn[lst[h].sock] = <<"peer", lst[h].id>>
        BY <1>1, <1>4 DEF LeaderList
      <4>8. ~Living(lst[h].id, conn, ended)
        <5>1. lst[h].sock \notin Open \ ended
          BY <4>4, <4>6
        <5> QED
          BY <1>2, <1>4, <4>7, <5>1, LivingOpen
      <4>9. spent.ends # 0 /\ spent.ends \in Nat
        BY <1>4, <4>7, <4>8, Types DEF DeadPeers
      <4>10. spent'.ends > 0
        BY <1>1, <4>9
      <4> QED
        BY <4>1, <4>10
    <3> QED
      BY <3>1, <3>2
  <2> QED
    BY <2>3, <2>4 DEF Watched
<1>23. SlotsAccounted' /\ SlotsExact'
  <2>1. ~Accepted(Free) /\ ~Accepted(<<"peer", p>>)
    BY Kinds DEF Accepted
  <2>2. \A g \in Fd : Accepted(conn[g]) \/ Accepted(conn'[g]) => conn'[g] = conn[g]
    BY <1>3, <1>11, <2>1
  <2> QED
    BY <1>1, <2>2, SlotsKept
<1>24. Indices' /\ Routed' /\ DeathNeedsFaults'
  BY <1>1, <1>4 DEF Indices, Routed, DeathNeedsFaults
<1>25. Replaced'
  <2> SUFFICES ASSUME NEW g \in master' \ ended', NEW q \in Peer,
                      conn'[g] = <<"peer", q>>, q \notin Ids(lst')
               PROVE  \E r \in joined' : r > q /\ ~Living(r, conn', ended')
    BY DEF Replaced
  <2>1. q # p
    BY <1>1, <1>6, <1>8, <1>9 DEF Ids
  <2>2. g \in Fd /\ g # f /\ conn[g] = <<"peer", q>>
    BY <1>1, <1>2, <1>3, <1>11, <2>1
  <2>3. g \in master \ ended
    BY <1>1, <2>2
  <2>4. q \notin Ids(lst)
    BY <1>1, <1>10 DEF Ids
  <2>5. PICK r \in joined : r > q /\ ~Living(r, conn, ended)
    BY <1>1, <1>4, <2>2, <2>3, <2>4 DEF Replaced
  <2> QED
    BY <1>1, <1>14, <2>5
<1> QED
  BY <1>16, <1>17, <1>18, <1>19, <1>20, <1>21, <1>22, <1>23, <1>24, <1>25 DEF IInv

LEMMA EvictSilentKeeps ==
    ASSUME IInv, NEW n \in DOMAIN lst, EvictSilent(n)
    PROVE  IInv'
<1> DEFINE S == ist_peer_server(lst[n].sock, lst)
           m == Min(S)
           k == RemoveAt(lst, m)
           j == IF m = 2 THEN Len(lst) ELSE m - 1
<1>1. /\ status = "up" /\ Leads /\ n \in 2 .. Len(lst)
      /\ \A g \in master \ ended : conn[g] # <<"peer", lst[n].id>>
      /\ lst' = k
      /\ master \subseteq Open
      /\ \/ Len(k) > 2 /\ lst[j].sock \notin Open \ ended /\ status' = "exited"
         \/ status' = status
      /\ conn' = conn /\ ended' = ended /\ master' = master
      /\ ClientArray' = ClientArray /\ ltcp_socket' = ltcp_socket
      /\ successor_socket' = successor_socket /\ client' = client /\ joined' = joined
      /\ spent' = spent /\ clk_index' = clk_index /\ astray' = astray /\ missed' = missed
  BY DEF EvictSilent, Up, chat
<1>2. /\ conn \in [Fd -> Other] /\ ended \subseteq Fd /\ master \subseteq Fd
      /\ lst \in Seq(ListEntry) /\ Len(lst) \in Nat
  BY Types DEF ListEntry
<1>3. /\ Heads /\ LeaderSocket /\ OneLeader /\ LeaderList /\ Places /\ DeadPeers
      /\ EndsCounted /\ LeaderCounted /\ Unanswered /\ Watched /\ Indices /\ Routed /\ DeathNeedsFaults /\ Replaced
  BY DEF IInv
<1>4. /\ S \in SUBSET Nat /\ S \subseteq 2 .. Len(lst) /\ n \in S
      /\ \A i \in S : lst[i].sock = lst[n].sock
  BY <1>1, <1>2 DEF ist_peer_server, Leads
<1>5. m \in S /\ m <= n
  BY <1>4, LeastExists
<1> HIDE DEF S
<1>6. m \in 2 .. Len(lst) /\ lst[m].sock = lst[n].sock /\ m <= n
  BY <1>4, <1>5
<1> HIDE DEF m
<1>7. /\ k \in Seq(ListEntry) /\ Len(k) = Len(lst) - 1
      /\ \A i \in 1 .. m-1 : k[i] = lst[i]
      /\ \A i \in m .. Len(lst) - 1 : k[i] = lst[i+1]
  <2>1. m \in 1 .. Len(lst)
    BY <1>6
  <2> QED
    BY <1>2, <2>1, RemovedAt
<1> HIDE DEF k
<1>8. \A i \in 2 .. Len(lst) : lst[i].id \in Nat
  <2>1. \A i \in 1 .. Len(lst) : lst[i] \in ListEntry
    BY <1>2, ElementOfSeq
  <2> QED
    BY <1>2, <2>1 DEF ListEntry
<1>9. /\ TailSorted(lst)
      /\ \A i \in 2 .. Len(lst) :
            /\ lst[i].id \in joined /\ lst[i].sock \in Fd
            /\ Living(lst[i].id, conn, ended) => conn[lst[i].sock] = <<"peer", lst[i].id>>
  BY <1>1, <1>3 DEF LeaderList
<1>10. \A i, h \in 2 .. Len(lst) : lst[i].id = lst[h].id => i = h
  <2> SUFFICES ASSUME NEW i \in 2 .. Len(lst), NEW h \in 2 .. Len(lst), i # h
               PROVE  lst[i].id # lst[h].id
    OBVIOUS
  <2>1. i < h \/ h < i
    BY <1>2
  <2>2. lst[i].id < lst[h].id \/ lst[h].id < lst[i].id
    BY <1>9, <2>1 DEF TailSorted
  <2> QED
    BY <1>8, <2>2
<1>11. /\ Len(k) > 0 /\ k[1] = lst[1]
       /\ \A h \in 2 .. Len(lst) : h # m => \E i \in 2 .. Len(k) : k[i] = lst[h]
  <2>1. Len(k) > 0 /\ 1 \in 1 .. m-1
    BY <1>2, <1>6, <1>7
  <2>2. ASSUME NEW h \in 2 .. Len(lst), h # m
        PROVE  \E i \in 2 .. Len(k) : k[i] = lst[h]
    <3>1. CASE h < m
      <4>1. h \in 1 .. m-1 /\ h \in 2 .. Len(k)
        BY <1>2, <1>6, <1>7, <3>1
      <4> QED
        BY <1>7, <4>1
    <3>2. CASE h > m
      <4>1. h-1 \in m .. Len(lst) - 1 /\ h-1 \in 2 .. Len(k) /\ (h-1)+1 = h
        BY <1>2, <1>6, <1>7, <3>2
      <4> QED
        BY <1>7, <4>1
    <3> QED
      BY <1>6, <2>2, <3>1, <3>2
  <2> QED
    BY <1>7, <2>1, <2>2
<1>12. Leads' /\ Heads'
  BY <1>1, <1>3, <1>11 DEF Leads, Heads
<1>13. TypeOK'
  <2>1. lst' \in Seq(ListEntry) /\ lst'[1].leader
    BY <1>1, <1>7, <1>12 DEF Leads
  <2>2. status' \in {"up", "select failed", "segv", "exited"}
    BY <1>1
  <2> QED
    BY <1>1, <2>1, <2>2 DEF IInv, TypeOK, ListEntry
<1>14. FollowerList' /\ LeaderSocket' /\ OneLeader'
  <2>1. ltcp_socket' = error_return
    BY <1>1, <1>3 DEF LeaderSocket
  <2>2. \A g \in Fd : conn'[g] # Leader
    BY <1>1, <1>3 DEF OneLeader
  <2> QED
    BY <1>12, <2>1, <2>2 DEF FollowerList, LeaderSocket, OneLeader
<1>15. LeaderList'
  <2> DEFINE Old(i) == IF i < m THEN i ELSE i + 1
  <2>1. \A i \in 2 .. Len(k) : Old(i) \in 2 .. Len(lst) /\ k[i] = lst[Old(i)]
    <3> TAKE i \in 2 .. Len(k)
    <3>1. CASE i < m
      <4>1. i \in 1 .. m-1 /\ i \in 2 .. Len(lst)
        BY <1>2, <1>6, <1>7, <3>1
      <4> QED
        BY <1>7, <3>1, <4>1
    <3>2. CASE i >= m
      <4>1. i \in m .. Len(lst) - 1 /\ i+1 \in 2 .. Len(lst) /\ ~(i < m)
        BY <1>2, <1>6, <1>7, <3>2
      <4> QED
        BY <1>7, <4>1
    <3> QED
      BY <1>6, <3>1, <3>2
  <2>2. \A i, h \in 2 .. Len(k) : i < h => Old(i) < Old(h)
    BY <1>2, <1>6, <1>7
  <2> HIDE DEF Old
  <2>3. TailSorted(k)
    BY <1>9, <2>1, <2>2 DEF TailSorted
  <2>4. \A i \in 2 .. Len(k) :
            /\ k[i].id \in joined /\ k[i].sock \in Fd
            /\ Living(k[i].id, conn, ended) => conn[k[i].sock] = <<"peer", k[i].id>>
    BY <1>9, <2>1
  <2> QED
    BY <1>1, <2>3, <2>4 DEF LeaderList
<1>16. Places' /\ DeadPeers' /\ Indices' /\ Routed'
  BY <1>1, <1>3, ZenonT(30) DEF Places, DeadPeers, Indices, Routed
<1>17. EndsCounted' /\ LeaderCounted' /\ Unanswered' /\ Watched'
  BY <1>1, <1>3, <1>12 DEF EndsCounted, LeaderCounted, Unanswered, Watched, Open, Leads
<1>18. SlotsAccounted' /\ SlotsExact'
  BY <1>1, SlotsKept
<1>19. Replaced'
  <2> SUFFICES ASSUME NEW g \in master \ ended, NEW p \in Peer,
                      conn[g] = <<"peer", p>>, p \notin Ids(k)
               PROVE  \E q \in joined : q > p /\ ~Living(q, conn, ended)
    BY <1>1 DEF Replaced
  <2>1. CASE p \notin Ids(lst)
    BY <1>1, <1>3, <2>1 DEF Replaced
  <2>2. CASE p \in Ids(lst)
    <3>1. PICK h \in 2 .. Len(lst) : lst[h].id = p
      BY <2>2 DEF Ids
    <3>2. h = m
      BY <1>11, <3>1 DEF Ids
    <3>3. m # n
      BY <1>1, <3>1, <3>2
    <3>4. lst[m].id < lst[n].id
      BY <1>1, <1>6, <1>9, <3>3 DEF TailSorted
    <3>5. conn[lst[m].sock] = <<"peer", p>>
      <4>1. Living(p, conn, ended)
        BY <1>2 DEF Living
      <4> QED
        BY <1>9, <3>1, <3>2, <4>1
    <3>6. lst[n].id # p
      BY <1>1, <1>6, <1>10, <3>1, <3>2, <3>3
    <3>7. ~Living(lst[n].id, conn, ended)
      BY <1>1, <1>6, <1>9, <3>5, <3>6
    <3>8. lst[n].id \in joined /\ lst[n].id > p
      BY <1>1, <1>6, <1>8, <1>9, <3>1, <3>2, <3>4
    <3> QED
      BY <3>7, <3>8
  <2> QED
    BY <2>1, <2>2
<1>20. DeathNeedsFaults'
  <2> SUFFICES ASSUME Len(k) > 2, lst[j].sock \notin Open \ ended, ~(spent.ends > 1),
                      \A g \in Open \ master : conn[g][1] # "peer"
               PROVE  FALSE
    BY <1>1 DEF DeathNeedsFaults, Open
  <2>1. Len(lst) > 3
    BY <1>2, <1>7
  <2>2. j \in 2 .. Len(lst) /\ j # m
    BY <1>2, <1>6, <2>1
  <2> HIDE DEF j
  <2>e. spent.ends < 2
    BY Types
  <2>3. \A i \in 2 .. Len(lst) :
            lst[i].sock \notin Open \ ended => ~Living(lst[i].id, conn, ended)
    <3> SUFFICES ASSUME NEW i \in 2 .. Len(lst), lst[i].sock \notin Open \ ended
                 PROVE  ~Living(lst[i].id, conn, ended)
      OBVIOUS
    <3>1. /\ lst[i].id \in joined /\ lst[i].sock \in Fd /\ joined \subseteq Peer
          /\ Living(lst[i].id, conn, ended) => conn[lst[i].sock] = <<"peer", lst[i].id>>
      BY <1>9, Types
    <3> QED
      BY <1>3, <3>1, LivingOpen
  <2>4. ~Living(lst[n].id, conn, ended)
    <3> SUFFICES ASSUME NEW g \in Fd \ ended, conn[g] = <<"peer", lst[n].id>>
                 PROVE  FALSE
      BY DEF Living
    <3>1. conn[g][1] = "peer" /\ conn[g] # Free
      BY Kinds
    <3>2. g \in Open /\ g \notin master
      BY <1>1, <3>1 DEF Open
    <3> QED
      BY <3>1, <3>2
  <2>5. ~Living(lst[j].id, conn, ended)
    BY <2>2, <2>3
  <2>6. lst[j].id = lst[n].id
    BY <1>1, <1>3, <1>9, <2>e, <2>2, <2>4, <2>5 DEF DeadPeers
  <2>7. j = n
    BY <1>1, <1>10, <2>2, <2>6
  <2>8. ~Living(lst[m].id, conn, ended)
    BY <1>6, <2>3, <2>7
  <2>9. lst[m].id = lst[n].id
    BY <1>1, <1>3, <1>6, <1>9, <2>e, <2>4, <2>8 DEF DeadPeers
  <2> QED
    BY <1>1, <1>6, <1>10, <2>2, <2>7, <2>9
<1> QED
  BY <1>12, <1>13, <1>14, <1>15, <1>16, <1>17, <1>18, <1>19, <1>20 DEF IInv

-----------------------------------------------------------------------------
LEMMA EndsKeeps ==
    ASSUME IInv, NEW f \in Fd, Ends(f)
    PROVE  IInv'
<1>1. /\ status = "up" /\ f \in Open \ ended /\ ended' = ended \cup {f}
      /\ status' = status /\ conn' = conn /\ master' = master /\ lst' = lst
      /\ ClientArray' = ClientArray /\ ltcp_socket' = ltcp_socket
      /\ successor_socket' = successor_socket /\ client' = client /\ joined' = joined
      /\ clk_index' = clk_index /\ astray' = astray /\ missed' = missed
  BY DEF Ends, Up, chat
<1>2. \/ conn[f][1] = "client" /\ spent' = spent
      \/ /\ conn[f][1] # "client" /\ spent.ends < MaxEnds
         /\ spent' = [spent EXCEPT !.ends = @ + 1]
  BY DEF Ends
<1>3. /\ conn \in [Fd -> Other] /\ ended \subseteq Fd
      /\ spent \in [ends : 0 .. MaxEnds, neighbour : 0 .. MaxNeighbour,
                    leaders : Nat, mistaken : Nat, rejected : Nat, unanswered : Nat]
  BY Types
<1> DEFINE b == IF conn[f][1] = "client" THEN 0 ELSE 1
<1>4. /\ spent' \in [ends : 0 .. MaxEnds, neighbour : 0 .. MaxNeighbour,
                     leaders : Nat, mistaken : Nat, rejected : Nat, unanswered : Nat]
      /\ spent'.ends = spent.ends + b /\ spent'.leaders = spent.leaders
      /\ spent'.mistaken = spent.mistaken /\ spent'.rejected = spent.rejected
      /\ spent'.unanswered = spent.unanswered
      /\ spent.ends \in Nat
  <2>1. CASE conn[f][1] = "client"
    <3>1. spent' = spent /\ b = 0
      BY <1>2, <2>1
    <3> HIDE DEF b
    <3> QED
      BY <1>3, <3>1
  <2>2. CASE conn[f][1] # "client"
    <3>1. /\ spent.ends < MaxEnds /\ spent' = [spent EXCEPT !.ends = @ + 1] /\ b = 1
      BY <1>2, <2>2
    <3> HIDE DEF b
    <3> QED
      BY <1>3, <3>1, BoundAssumption
  <2> QED
    BY <2>1, <2>2
<1>5. b \in {0, 1} /\ (b = 0 <=> conn[f][1] = "client")
  OBVIOUS
<1> HIDE DEF b
<1>6. /\ Heads /\ FollowerList /\ LeaderSocket /\ OneLeader /\ LeaderList /\ Places
      /\ DeadPeers /\ EndsCounted /\ LeaderCounted /\ Unanswered /\ Watched /\ Indices /\ Routed /\ DeathNeedsFaults
      /\ Replaced /\ TypeOK
  BY DEF IInv
<1>7. /\ \A q : Living(q, conn, ended') => Living(q, conn, ended)
      /\ \A q : conn[f] # <<"peer", q>> /\ Living(q, conn, ended) => Living(q, conn, ended')
  BY <1>1 DEF Living
<1>8. TypeOK'
  <2>1. ended' \subseteq {g \in Fd : conn'[g] # Free}
    BY <1>1, <1>6 DEF TypeOK, Open
  <2>2. lst'[1].leader \/ (joined' = {} /\ \A c \in Client : client'[c] = "new")
    BY <1>1, <1>6 DEF TypeOK
  <2> QED
    BY <1>1, <1>4, <1>6, <2>1, <2>2 DEF TypeOK
<1>9. Heads' /\ FollowerList' /\ LeaderSocket' /\ OneLeader'
  <2>1. Heads' /\ FollowerList'
    BY <1>1, <1>6 DEF Heads, FollowerList, Leads
  <2>2. LeaderSocket'
    BY <1>1, <1>6 DEF LeaderSocket, Leads
  <2>3. OneLeader'
    BY <1>1, <1>6 DEF OneLeader, Leads
  <2> QED
    BY <2>1, <2>2, <2>3
<1>10. LeaderList'
  BY <1>1, <1>6, <1>7 DEF LeaderList, Leads
<1>11. Places'
  BY <1>1, <1>6 DEF Places
<1>12. DeadPeers'
  <2>1. CASE b = 0
    <3>1. \A q : conn[f] # <<"peer", q>>
      BY <1>5, <2>1, Kinds, Apart
    <3>2. \A q : Living(q, conn', ended') <=> Living(q, conn, ended)
      BY <1>1, <1>7, <3>1
    <3>3. spent'.ends = spent.ends /\ joined' = joined /\ DeadPeers
      BY <1>1, <1>4, <1>6, <2>1
    <3> QED
      BY <3>2, <3>3 DEF DeadPeers
  <2>2. CASE b = 1
    <3>1. spent'.ends # 0 /\ (spent'.ends < 2 => spent.ends = 0)
      BY <1>4, <2>2
    <3>2. ASSUME spent.ends = 0, NEW q \in joined, NEW r \in joined,
                 ~Living(q, conn, ended'), ~Living(r, conn, ended')
          PROVE  q = r
      <4>1. Living(q, conn, ended) /\ Living(r, conn, ended)
        BY <1>6, <3>2 DEF DeadPeers
      <4>2. conn[f] = <<"peer", q>> /\ conn[f] = <<"peer", r>>
        BY <1>7, <3>2, <4>1
      <4>3. <<"peer", q>>[2] = q /\ <<"peer", r>>[2] = r
        OBVIOUS
      <4> QED
        BY <4>2, <4>3
    <3> QED
      BY <1>1, <3>1, <3>2 DEF DeadPeers
  <2> QED
    BY <1>5, <2>1, <2>2
<1>13. EndsCounted' /\ LeaderCounted'
  <2>1. spent'.ends = 0 => spent.ends = 0 /\ b = 0
    BY <1>4, <1>5
  <2>2. spent'.ends = 0 => \A g \in ended' : conn'[g][1] = "client"
    BY <1>1, <1>5, <1>6, <2>1 DEF EndsCounted
  <2>3. ASSUME ~Leads
        PROVE  /\ Cardinality(ended') + spent'.leaders <= spent'.ends
               /\ successor_socket # error_return /\ Len(lst) < 3 =>
                      Cardinality(ended') + spent'.leaders < spent'.ends
    <3>1. conn[f][1] # "client"
      BY <2>3, FollowerAlone
    <3>2. b = 1
      BY <1>5, <3>1
    <3>3. IsFiniteSet(ended) /\ Cardinality(ended) \in Nat
      BY <1>3, FdFinite
    <3>4. Cardinality(ended') = Cardinality(ended) + 1
      BY <1>1, <3>3, FS_AddElement
    <3> DEFINE x == Cardinality(ended) + spent.leaders
               y == Cardinality(ended') + spent'.leaders
    <3>l. spent.leaders \in Nat /\ spent'.leaders = spent.leaders
      BY <1>4, Types
    <3>5. x \in Nat /\ y = x + 1 /\ x <= spent.ends
      BY <1>6, <2>3, <3>l, <3>3, <3>4 DEF EndsCounted
    <3>6. successor_socket # error_return /\ Len(lst) < 3 => x < spent.ends
      BY <1>6, <2>3 DEF EndsCounted
    <3> HIDE DEF x, y
    <3>7. y <= spent'.ends
      BY <1>4, <3>2, <3>5
    <3>8. successor_socket # error_return /\ Len(lst) < 3 => y < spent'.ends
      BY <1>4, <3>2, <3>5, <3>6
    <3> QED
      BY <3>7, <3>8 DEF y
  <2>4. LeaderCounted'
    BY <1>1, <1>4, <1>6 DEF LeaderCounted, Leads
  <2> QED
    BY <1>1, <2>2, <2>3, <2>4 DEF EndsCounted, Leads
<1>14. Watched' /\ Unanswered'
  <2>1. spent.ends > 0 => spent'.ends > 0
    BY <1>4, <1>5
  <2> QED
    BY <1>1, <1>4, <1>6, <2>1 DEF Watched, Unanswered, Open, Leads
<1>15. SlotsAccounted' /\ SlotsExact'
  BY <1>1, <1>4, SlotsKept
<1>16. Indices' /\ Routed' /\ DeathNeedsFaults'
  BY <1>1, <1>4, <1>6 DEF Indices, Routed, DeathNeedsFaults
<1>17. Replaced'
  BY <1>1, <1>6, <1>7 DEF Replaced, Leads
<1> QED
  BY <1>8, <1>9, <1>10, <1>11, <1>12, <1>13, <1>14, <1>15, <1>16, <1>17 DEF IInv

(* The slots of r are those of l without the one at m.                     *)
WithoutSlot(l, m, r) ==
    /\ r \in Seq([id : Nat, sock : Fd]) /\ Len(r) = Len(l) - 1 /\ Len(l) \in Nat
    /\ \A n \in DOMAIN r : \E h \in DOMAIN l : h # m /\ r[n] = l[h]
    /\ \A h \in DOMAIN l : h # m => \E n \in DOMAIN r : r[n] = l[h]
    /\ (\A a, b \in DOMAIN l : l[a].sock = l[b].sock => a = b) =>
          \A a, b \in DOMAIN r : r[a].sock = r[b].sock => a = b

LEMMA SlotRemoved ==
    ASSUME NEW l \in Seq([id : Nat, sock : Fd]), NEW m \in DOMAIN l,
           NEW r, r = RemoveAt(l, m)
    PROVE  WithoutSlot(l, m, r)
<1>1. Len(l) \in Nat /\ DOMAIN l = 1 .. Len(l) /\ m \in 1 .. Len(l)
  BY SlotTypes
<1>2. /\ r \in Seq([id : Nat, sock : Fd]) /\ Len(r) = Len(l) - 1
      /\ \A i \in 1 .. m-1 : r[i] = l[i]
      /\ \A i \in m .. Len(l) - 1 : r[i] = l[i+1]
  <2>1. m \in 1 .. Len(l)
    BY <1>1
  <2> QED
    BY <2>1, RemovedAt
<1>3. DOMAIN r = 1 .. Len(r)
  BY <1>2, SlotTypes
<1> DEFINE Old(n) == IF n < m THEN n ELSE n + 1
           New(h) == IF h < m THEN h ELSE h - 1
<1>4. \A n \in DOMAIN r : Old(n) \in DOMAIN l /\ Old(n) # m /\ r[n] = l[Old(n)]
  <2> TAKE n \in DOMAIN r
  <2>1. CASE n < m
    <3>1. n \in 1 .. m-1 /\ n \in 1 .. Len(l) /\ Old(n) = n
      BY <1>1, <1>2, <1>3, <2>1
    <3> QED
      BY <1>1, <1>2, <2>1, <3>1
  <2>2. CASE ~(n < m)
    <3>1. n \in m .. Len(l) - 1 /\ n+1 \in 1 .. Len(l) /\ Old(n) = n + 1 /\ n + 1 # m
      BY <1>1, <1>2, <1>3, <2>2, SMTT(30)
    <3> QED
      BY <1>1, <1>2, <3>1
  <2> QED
    BY <2>1, <2>2
<1>5. \A h \in DOMAIN l : h # m => New(h) \in DOMAIN r /\ r[New(h)] = l[h]
  <2> TAKE h \in DOMAIN l
  <2>1. CASE h < m
    <3>1. h \in 1 .. m-1 /\ h \in 1 .. Len(r) /\ New(h) = h
      BY <1>1, <1>2, <2>1
    <3> QED
      BY <1>2, <1>3, <3>1
  <2>2. CASE h > m
    <3>1. h-1 \in m .. Len(l) - 1 /\ h-1 \in 1 .. Len(r) /\ New(h) = h-1 /\ (h-1)+1 = h
      BY <1>1, <1>2, <2>2, SMTT(30)
    <3> QED
      BY <1>2, <1>3, <3>1
  <2> QED
    BY <1>1, <2>1, <2>2
<1>6. \A a, b \in DOMAIN r : Old(a) = Old(b) => a = b
  <2> SUFFICES ASSUME NEW a \in DOMAIN r, NEW b \in DOMAIN r, Old(a) = Old(b)
               PROVE  a = b
    OBVIOUS
  <2>1. a \in Nat /\ b \in Nat /\ m \in Nat
    BY <1>1, <1>2, <1>3, SMTT(30)
  <2>2. CASE a < m /\ b < m
    BY <2>2
  <2>3. CASE a >= m /\ b >= m
    BY <2>1, <2>3
  <2>4. CASE (a < m /\ b >= m) \/ (a >= m /\ b < m)
    BY <2>1, <2>4
  <2> QED
    BY <2>1, <2>2, <2>3, <2>4
<1> HIDE DEF Old, New
<1>7. (\A a, b \in DOMAIN l : l[a].sock = l[b].sock => a = b) =>
         \A a, b \in DOMAIN r : r[a].sock = r[b].sock => a = b
  BY <1>4, <1>6
<1> QED
  BY <1>1, <1>2, <1>4, <1>5, <1>7 DEF WithoutSlot

(* The ways in which ReadEnd goes on.                                      *)
LosesLeader(f) ==
    /\ f = ltcp_socket /\ ltcp_socket' = error_return
    /\ spent' = [spent EXCEPT !.leaders = @ + 1]
    /\ ClientArray' = ClientArray /\ lst' = lst

LosesSuccessor(f) ==
    /\ f # ltcp_socket /\ f = successor_socket /\ ~Leads
    /\ lst' = delete_server(lst, lst[3].id)
    /\ ClientArray' = ClientArray /\ ltcp_socket' = ltcp_socket /\ spent' = spent

LosesPeer(f) ==
    /\ f # ltcp_socket /\ (Leads \/ f # successor_socket)
    /\ spent' = [spent EXCEPT !.mistaken = @ + (IF Accepted(conn[f]) THEN 1 ELSE 0)]
    /\ ClientArray' = ClientArray /\ lst' = lst /\ ltcp_socket' = ltcp_socket

LosesClient(f) ==
    /\ f # ltcp_socket /\ (Leads \/ f # successor_socket)
    /\ ClientArray' = remove_client_from_list(f)
    /\ lst' = lst /\ ltcp_socket' = ltcp_socket /\ spent' = spent

Closes(f) ==
    /\ Up /\ f \in ended \cap master /\ ~StaleSuccessor(f)
    /\ conn' = [conn EXCEPT ![f] = Free]
    /\ ended' = ended \ {f} /\ master' = master \ {f}
    /\ client' = [c \in Client |->
                     IF conn[f] = <<"client", c>> THEN "gone" ELSE client[c]]
    /\ status' = status /\ successor_socket' = successor_socket /\ joined' = joined
    /\ clk_index' = clk_index /\ astray' = astray /\ missed' = missed

LEMMA ClosesKeeps ==
    ASSUME IInv, NEW f, Closes(f),
           LosesLeader(f) \/ LosesSuccessor(f) \/ LosesPeer(f) \/ LosesClient(f)
    PROVE  IInv'
<1>1. /\ status = "up" /\ f \in ended /\ f \in master
      /\ conn' = [conn EXCEPT ![f] = Free]
      /\ ended' = ended \ {f} /\ master' = master \ {f}
      /\ client' = [c \in Client |->
                       IF conn[f] = <<"client", c>> THEN "gone" ELSE client[c]]
      /\ status' = status /\ successor_socket' = successor_socket /\ joined' = joined
      /\ clk_index' = clk_index /\ astray' = astray /\ missed' = missed
  BY DEF Closes, Up
<1>2. /\ conn \in [Fd -> Other] /\ ended \subseteq Fd /\ master \subseteq Fd
      /\ \A g \in ended : conn[g] # Free
      /\ ClientArray \in Seq([id : Nat, sock : Fd]) /\ lst \in Seq(ListEntry)
      /\ client \in [Client -> {"new", "connected", "registered", "gone"}]
      /\ joined \subseteq Peer /\ error_return \notin Fd
      /\ successor_socket \in Fd \cup {error_return}
      /\ ltcp_socket \in Fd \cup {error_return}
      /\ spent \in [ends : 0 .. MaxEnds, neighbour : 0 .. MaxNeighbour,
                    leaders : Nat, mistaken : Nat, rejected : Nat, unanswered : Nat]
  BY Types DEF ListEntry
<1>3. /\ Heads /\ FollowerList /\ LeaderSocket /\ OneLeader /\ LeaderList /\ Places
      /\ DeadPeers /\ EndsCounted /\ LeaderCounted /\ Unanswered /\ Watched /\ Indices /\ Routed /\ DeathNeedsFaults
      /\ Replaced /\ TypeOK /\ SlotsAccounted /\ SlotsExact
  BY DEF IInv
<1>4. f \in Fd /\ conn[f] # Free /\ f # error_return
  BY <1>1, <1>2
<1>5. /\ conn' \in [Fd -> Other]
      /\ \A g \in Fd : conn'[g] = IF g = f THEN Free ELSE conn[g]
  BY <1>1, <1>2, <1>4, Kinds
<1>6. /\ client' \in [Client -> {"new", "connected", "registered", "gone"}]
      /\ \A c \in Client : conn[f] = <<"client", c>> => client'[c] = "gone"
      /\ \A c \in Client : conn[f] # <<"client", c>> => client'[c] = client[c]
  BY <1>1, <1>2
<1>7. /\ spent' \in [ends : 0 .. MaxEnds, neighbour : 0 .. MaxNeighbour,
                     leaders : Nat, mistaken : Nat, rejected : Nat, unanswered : Nat]
      /\ spent'.ends = spent.ends /\ spent'.rejected = spent.rejected
      /\ spent'.unanswered = spent.unanswered /\ spent.unanswered \in Nat
      /\ spent'.leaders = spent.leaders + (IF LosesLeader(f) THEN 1 ELSE 0)
      /\ spent'.mistaken >= spent.mistaken
      /\ ~LosesPeer(f) => spent'.mistaken = spent.mistaken
      /\ LosesPeer(f) =>
            spent'.mistaken = spent.mistaken + (IF Accepted(conn[f]) THEN 1 ELSE 0)
      /\ spent.leaders \in Nat /\ spent.mistaken \in Nat
  <2> DEFINE a == IF Accepted(conn[f]) THEN 1 ELSE 0
             T == [ends : 0 .. MaxEnds, neighbour : 0 .. MaxNeighbour,
                   leaders : Nat, mistaken : Nat, rejected : Nat, unanswered : Nat]
  <2>1. spent \in T /\ a \in Nat
    BY <1>2
  <2>2. LosesPeer(f) => spent' = [spent EXCEPT !.mistaken = @ + a] /\ ~LosesLeader(f)
    BY DEF LosesPeer, LosesLeader
  <2>3. LosesLeader(f) => spent' = [spent EXCEPT !.leaders = @ + 1]
    BY DEF LosesLeader
  <2>4. ~LosesPeer(f) /\ ~LosesLeader(f) => spent' = spent
    BY DEF LosesSuccessor, LosesClient
  <2> HIDE DEF a
  <2>5. CASE LosesPeer(f)
    <3>1. /\ spent' \in T /\ spent'.ends = spent.ends /\ spent'.rejected = spent.rejected
          /\ spent'.unanswered = spent.unanswered /\ spent.unanswered \in Nat
          /\ spent'.leaders = spent.leaders /\ spent'.mistaken = spent.mistaken + a
          /\ spent.leaders \in Nat /\ spent.mistaken \in Nat
      BY <2>1, <2>2, <2>5
    <3>2. spent'.mistaken >= spent.mistaken
      BY <2>1, <3>1
    <3>3. spent.leaders = spent.leaders + (IF LosesLeader(f) THEN 1 ELSE 0)
      BY <2>2, <2>5, <3>1
    <3> QED
      BY <2>5, <3>1, <3>2, <3>3, Zenon DEF a
  <2>6. CASE LosesLeader(f)
    <3>1. /\ spent' \in T /\ spent'.ends = spent.ends /\ spent'.rejected = spent.rejected
          /\ spent'.unanswered = spent.unanswered /\ spent.unanswered \in Nat
          /\ spent'.leaders = spent.leaders + 1 /\ spent'.mistaken = spent.mistaken
          /\ spent.leaders \in Nat /\ spent.mistaken \in Nat
      BY <2>1, <2>3, <2>6
    <3>2. spent'.mistaken >= spent.mistaken /\ ~LosesPeer(f)
      BY <2>2, <2>6, <3>1
    <3>3. (IF LosesLeader(f) THEN 1 ELSE 0) = 1
      BY <2>6
    <3> QED
      BY <3>1, <3>2, <3>3, Zenon
  <2>7. CASE ~LosesPeer(f) /\ ~LosesLeader(f)
    <3>1. /\ spent' \in T /\ spent'.ends = spent.ends /\ spent'.rejected = spent.rejected
          /\ spent'.unanswered = spent.unanswered /\ spent.unanswered \in Nat
          /\ spent'.leaders = spent.leaders /\ spent'.mistaken = spent.mistaken
          /\ spent.leaders \in Nat /\ spent.mistaken \in Nat
      BY <2>1, <2>4, <2>7
    <3>2. spent'.mistaken >= spent.mistaken
      BY <3>1
    <3>3. spent.leaders = spent.leaders + (IF LosesLeader(f) THEN 1 ELSE 0)
      BY <2>7, <3>1
    <3> QED
      BY <2>7, <3>1, <3>2, <3>3, Zenon
  <2> QED
    BY <2>5, <2>6, <2>7
<1>8. /\ LosesLeader(f) => conn[f] = Leader /\ ltcp_socket' = error_return
      /\ ~LosesLeader(f) => f # ltcp_socket /\ ltcp_socket' = ltcp_socket
  <2>1. LosesLeader(f) => conn[f] = Leader /\ ltcp_socket' = error_return
    BY <1>3, <1>4 DEF LosesLeader, LeaderSocket
  <2>2. ~LosesLeader(f) => f # ltcp_socket /\ ltcp_socket' = ltcp_socket
    BY DEF LosesSuccessor, LosesPeer, LosesClient
  <2> QED
    BY <2>1, <2>2
<1>9. ASSUME LosesSuccessor(f)
      PROVE  /\ ~Leads /\ f = successor_socket /\ conn[f] = Successor /\ Len(lst) = 3
             /\ lst' \in Seq(ListEntry) /\ Len(lst') = 2
             /\ lst'[1] = lst[1] /\ lst'[2] = lst[2]
             /\ ClientArray' = ClientArray /\ spent' = spent
  <2>1. /\ f # ltcp_socket /\ f = successor_socket /\ ~Leads
        /\ lst' = delete_server(lst, lst[3].id)
        /\ ClientArray' = ClientArray /\ spent' = spent
    BY <1>9 DEF LosesSuccessor
  <2>2. ~(Len(lst) < 3) /\ Len(lst) <= 3
    BY <1>3, <2>1 DEF Closes, StaleSuccessor, FollowerList
  <2>3. Len(lst) = 3
    <3> DEFINE n == Len(lst)
    <3>1. n \in Nat /\ ~(n < 3) /\ n <= 3
      BY <1>2, <2>2
    <3> HIDE DEF n
    <3>2. n = 3
      BY <3>1
    <3> QED
      BY <3>2 DEF n
  <2>4. lst[2].id = 1 /\ lst[3].id = 2 /\ conn[successor_socket] = Successor
    BY <1>3, <2>1, <2>3 DEF FollowerList
  <2>5. /\ lst' \in Seq(ListEntry) /\ Len(lst') = 2
        /\ lst'[1] = lst[1] /\ lst'[2] = lst[2]
    BY <1>2, <2>1, <2>3, <2>4, SuccessorDropped
  <2> QED
    BY <2>1, <2>3, <2>4, <2>5
<1>10. /\ lst' \in Seq(ListEntry) /\ Len(lst') > 0 /\ lst'[1] = lst[1]
       /\ ~LosesSuccessor(f) => lst' = lst
       /\ ~LosesSuccessor(f) /\ ~LosesLeader(f) => Leads \/ f # successor_socket
  <2>1. CASE LosesSuccessor(f)
    BY <1>9, <2>1
  <2>2. CASE ~LosesSuccessor(f)
    <3>1. lst' = lst
      BY <2>2 DEF LosesLeader, LosesPeer, LosesClient
    <3>2. ~LosesLeader(f) => Leads \/ f # successor_socket
      BY <2>2 DEF LosesPeer, LosesClient
    <3> QED
      BY <1>2, <1>3, <2>2, <3>1, <3>2 DEF Heads
  <2> QED
    BY <2>1, <2>2
<1>11. Leads' <=> Leads
  BY <1>10 DEF Leads
<1>12. \A q : Living(q, conn', ended') <=> Living(q, conn, ended)
  <2>1. \A q : <<"peer", q>> # Free
    BY Kinds
  <2> QED
    BY <1>1, <1>5, <2>1 DEF Living
<1>13. \A k : k # Free => \A g \in Fd : conn'[g] = k <=> conn[g] = k /\ g # f
  BY <1>5
<1>14. Heads' /\ FollowerList' /\ LeaderSocket' /\ OneLeader'
  <2>1. Heads'
    BY <1>3, <1>10 DEF Heads
  <2>2. FollowerList'
    <3>1. CASE LosesSuccessor(f)
      <4>1. Len(lst') = 2 /\ lst'[2] = lst[2] /\ ~Leads /\ Len(lst) = 3
        BY <1>9, <3>1
      <4>2. lst[2].id = 1
        BY <1>3, <4>1 DEF FollowerList
      <4> QED
        BY <4>1, <4>2 DEF FollowerList
    <3>2. CASE ~LosesSuccessor(f)
      <4>1. lst' = lst /\ successor_socket' = successor_socket
        BY <1>1, <1>10, <3>2
      <4>2. ~Leads /\ Len(lst) = 3 => f # successor_socket
        <5>1. ~Leads /\ Len(lst) = 3 => conn[successor_socket] = Successor
          BY <1>3 DEF FollowerList
        <5>2. Successor # Leader
          BY Kinds
        <5> QED
          BY <1>8, <1>10, <3>2, <5>1, <5>2
      <4>3. ~Leads /\ Len(lst) = 3 => /\ successor_socket \in Fd
                                      /\ conn'[successor_socket] = Successor
        BY <1>3, <1>5, <4>2 DEF FollowerList
      <4> QED
        BY <1>3, <1>11, <4>1, <4>3 DEF FollowerList
    <3> QED
      BY <3>1, <3>2
  <2>3. LeaderSocket'
    <3> SUFFICES ASSUME ltcp_socket' # error_return
                 PROVE  ~Leads' /\ Len(lst') > 1 /\ conn'[ltcp_socket'] = Leader
      BY DEF LeaderSocket
    <3>1. ltcp_socket' = ltcp_socket /\ f # ltcp_socket
      BY <1>8
    <3>2. ~Leads /\ Len(lst) > 1 /\ conn[ltcp_socket] = Leader
      BY <1>3, <3>1 DEF LeaderSocket
    <3>3. conn'[ltcp_socket'] = Leader
      BY <1>2, <1>5, <3>1, <3>2
    <3>4. Len(lst') > 1
      BY <1>9, <1>10, <3>2
    <3> QED
      BY <1>11, <3>2, <3>3, <3>4
  <2>4. OneLeader'
    <3> SUFFICES ASSUME NEW g \in Fd, conn'[g] = Leader
                 PROVE  /\ ~Leads'
                        /\ Len(lst') > 1 => g = ltcp_socket'
                        /\ \A h \in Fd : conn'[h] = Leader => h = g
      BY DEF OneLeader
    <3>1. Leader # Free
      BY Kinds
    <3>2. conn[g] = Leader /\ g # f
      BY <1>13, <3>1
    <3>3. ~Leads /\ (Len(lst) > 1 => g = ltcp_socket) /\ \A h \in Fd : conn[h] = Leader => h = g
      BY <1>3, <3>2 DEF OneLeader
    <3>4. ~LosesLeader(f)
      BY <1>4, <1>8, <3>2, <3>3
    <3>5. Len(lst') > 1 => Len(lst) > 1
      BY <1>9, <1>10
    <3> QED
      BY <1>8, <1>11, <1>13, <3>1, <3>3, <3>4, <3>5
  <2> QED
    BY <2>1, <2>2, <2>3, <2>4
<1>15. LeaderList'
  <2> SUFFICES ASSUME Leads
               PROVE  LeaderList'
    BY <1>11 DEF LeaderList
  <2>1. lst' = lst
    BY <1>9, <1>10
  <2>2. ASSUME NEW i \in 2 .. Len(lst)
        PROVE  /\ lst[i].id \in joined /\ lst[i].sock \in Fd
               /\ Living(lst[i].id, conn', ended') => conn'[lst[i].sock] = <<"peer", lst[i].id>>
    <3> DEFINE q == lst[i].id
               g == lst[i].sock
    <3>1. q \in joined /\ g \in Fd /\ (Living(q, conn, ended) => conn[g] = <<"peer", q>>)
      BY <1>3 DEF LeaderList
    <3> HIDE DEF q, g
    <3>2. ASSUME Living(q, conn, ended)
          PROVE  conn'[g] = <<"peer", q>>
      <4>1. PICK h \in Fd \ ended : conn[h] = <<"peer", q>>
        BY <3>2 DEF Living
      <4>2. g = h
        BY <1>2, <1>3, <3>1, <3>2, <4>1 DEF Places
      <4> QED
        BY <1>1, <1>5, <4>1, <4>2
    <3>3. q \in joined /\ g \in Fd /\ (Living(q, conn', ended') => conn'[g] = <<"peer", q>>)
      BY <1>12, <3>1, <3>2
    <3> QED
      BY <3>3 DEF q, g
  <2> QED
    BY <1>1, <1>3, <2>1, <2>2 DEF LeaderList
<1>16. Places'
  <2>1. \A c : <<"client", c>> # Free /\ <<"peer", c>> # Free
    BY Kinds
  <2>2. \A g \in Fd : \A c :
            /\ conn'[g] = <<"client", c>> <=> conn[g] = <<"client", c>> /\ g # f
            /\ conn'[g] = <<"peer", c>> <=> conn[g] = <<"peer", c>> /\ g # f
    BY <1>13, <2>1
  <2>3. ASSUME NEW g \in Fd, NEW c \in Client, conn'[g] = <<"client", c>>
        PROVE  client'[c] \in {"connected", "registered"}
    <3>1. conn[g] = <<"client", c>> /\ g # f
      BY <2>2, <2>3
    <3>2. conn[f] # <<"client", c>> /\ client[c] \in {"connected", "registered"}
      BY <1>3, <1>4, <3>1 DEF Places
    <3> QED
      BY <1>6, <3>2
  <2>4. ASSUME NEW c \in Client, client'[c] \in {"connected", "registered"}
        PROVE  \E g \in Fd : conn'[g] = <<"client", c>>
    <3>1. conn[f] # <<"client", c>> /\ client[c] \in {"connected", "registered"}
      BY <1>6, <2>4
    <3>2. PICK g \in Fd : conn[g] = <<"client", c>>
      BY <1>3, <3>1 DEF Places
    <3> QED
      BY <2>2, <3>1, <3>2
  <2>5. \A g \in Fd, p \in Peer : conn'[g] = <<"peer", p>> => p \in joined'
    BY <1>1, <1>3, <2>2 DEF Places
  <2>6. \A g, h \in Fd, c \in Client :
            conn'[g] = <<"client", c>> /\ conn'[h] = <<"client", c>> => g = h
    BY <1>3, <2>2 DEF Places
  <2>7. \A g, h \in Fd, p \in Peer :
            conn'[g] = <<"peer", p>> /\ conn'[h] = <<"peer", p>> => g = h
    BY <1>3, <2>2 DEF Places
  <2> QED
    BY <2>3, <2>4, <2>5, <2>6, <2>7 DEF Places
<1>17. TypeOK'
  <2>1. ended' \subseteq {g \in Fd : conn'[g] # Free} /\ master' \subseteq Fd
    BY <1>1, <1>2, <1>5
  <2>2. lst'[1].leader \/ (joined' = {} /\ \A c \in Client : client'[c] = "new")
    <3>1. CASE Leads
      BY <1>11, <3>1 DEF Leads
    <3>2. CASE ~Leads
      <4>1. joined = {} /\ \A c \in Client : client[c] = "new"
        BY <3>2, Types
      <4>2. \A c \in Client : conn[f] # <<"client", c>>
        BY <1>4, <3>2, FollowerAlone, Apart
      <4> QED
        BY <1>1, <1>6, <4>1, <4>2
    <3> QED
      BY <3>1, <3>2
  <2>3. ClientArray' \in Seq([id : Nat, sock : Fd]) /\ Len(ClientArray') <= MAX_CONNECTION
    <3>1. Len(ClientArray) <= MAX_CONNECTION
      BY <1>3 DEF TypeOK
    <3>2. CASE ClientArray' = ClientArray
      BY <1>2, <3>1, <3>2
    <3>3. CASE ClientArray' # ClientArray
      <4>1. SlotsOf(f) # {} /\ ClientArray' = RemoveAt(ClientArray, Min(SlotsOf(f)))
        BY <3>3 DEF LosesLeader, LosesSuccessor, LosesPeer, LosesClient, remove_client_from_list
      <4>2. SlotsOf(f) \in SUBSET Nat /\ SlotsOf(f) \subseteq DOMAIN ClientArray
        BY <1>2, SlotTypes DEF SlotsOf
      <4>3. Min(SlotsOf(f)) \in DOMAIN ClientArray
        BY <4>1, <4>2, LeastExists
      <4> HIDE DEF SlotsOf
      <4>4. /\ ClientArray' \in Seq([id : Nat, sock : Fd])
            /\ Len(ClientArray') = Len(ClientArray) - 1 /\ Len(ClientArray) \in Nat
        BY <1>2, <4>1, <4>3, SlotRemoved DEF WithoutSlot
      <4>5. MAX_CONNECTION \in Nat
        BY ConnectionAssumption
      <4> QED
        BY <3>1, <4>4, <4>5
    <3> QED
      BY <3>2, <3>3
  <2>4. {ltcp_socket', successor_socket'} \subseteq Fd \cup {error_return}
    BY <1>1, <1>2, <1>8
  <2> QED
    BY <1>1, <1>3, <1>5, <1>6, <1>7, <1>10, <2>1, <2>2, <2>3, <2>4 DEF TypeOK, ListEntry
<1>18. DeadPeers'
  BY <1>1, <1>3, <1>7, <1>12 DEF DeadPeers
<1>19. EndsCounted' /\ LeaderCounted'
  <2>1. \A g \in ended' : g \in ended /\ conn'[g] = conn[g]
    BY <1>1, <1>2, <1>5
  <2>2. IsFiniteSet(ended) /\ Cardinality(ended) \in Nat
    BY <1>2, FdFinite
  <2>3. Cardinality(ended') = Cardinality(ended) - 1
    BY <1>1, <2>2, FS_RemoveElement
  <2>4. ASSUME ~Leads
        PROVE  /\ Cardinality(ended') + spent'.leaders <= spent'.ends
               /\ successor_socket # error_return /\ Len(lst') < 3 =>
                      Cardinality(ended') + spent'.leaders < spent'.ends
    <3> DEFINE x == Cardinality(ended)
               y == Cardinality(ended')
               e == spent.ends
               l == spent.leaders
               b == IF LosesLeader(f) THEN 1 ELSE 0
    <3>1. /\ x \in Nat /\ y = x - 1 /\ x + l <= e /\ e \in Nat /\ spent'.ends = e
          /\ l \in Nat /\ spent'.leaders = l + b /\ b \in {0, 1}
      BY <1>3, <1>7, <2>2, <2>3, <2>4, Types DEF EndsCounted
    <3>2. b = 1 /\ successor_socket # error_return /\ Len(lst') < 3 => x + l < e
      <4>1. b = 1 => LosesLeader(f) /\ lst' = lst
        BY DEF LosesLeader
      <4> QED
        BY <1>3, <2>4, <4>1 DEF EndsCounted
    <3>5. y + spent'.leaders = x + l + b - 1
      <4> HIDE DEF x, y, e, l, b
      <4> QED
        BY <3>1
    <3> DEFINE s == y + spent'.leaders
    <3> HIDE DEF x, y, e, l, b
    <3>3. s <= spent'.ends
      BY <3>1, <3>5
    <3>4. successor_socket # error_return /\ Len(lst') < 3 => s < spent'.ends
      BY <3>1, <3>2, <3>5
    <3> QED
      BY <3>3, <3>4 DEF s, y
  <2>5. EndsCounted'
    BY <1>1, <1>3, <1>7, <1>11, <2>1, <2>4 DEF EndsCounted
  <2>6. LeaderCounted'
    <3>1. CASE LosesLeader(f)
      BY <1>7, <3>1 DEF LeaderCounted
    <3>2. CASE ~LosesLeader(f)
      <4>1. ltcp_socket' = ltcp_socket /\ spent'.leaders >= spent.leaders
        BY <1>7, <1>8, <3>2
      <4> QED
        BY <1>3, <1>7, <1>11, <4>1 DEF LeaderCounted
    <3> QED
      BY <3>1, <3>2
  <2> QED
    BY <2>5, <2>6
<1>20. Watched' /\ Unanswered'
  <2>1. \A g \in Fd : g \in Open' <=> g \in Open /\ g # f
    BY <1>5 DEF Open
  <2>2. Open' \subseteq Fd /\ Open \subseteq Fd
    BY DEF Open
  <2>3. spent.rejected + spent.unanswered = 0 => master' \subseteq Open'
    BY <1>1, <1>2, <1>3, <2>1 DEF Watched
  <2>4. \A g \in Open' \ master' : g \in Open \ master /\ conn'[g] = conn[g]
    BY <1>1, <1>5, <2>1, <2>2
  <2>5. Watched'
    BY <1>3, <1>7, <2>3, <2>4 DEF Watched
  <2>6. ~(master \subseteq Open) => ~(master' \subseteq Open')
    <3>1. f \in Open
      BY <1>4 DEF Open
    <3> QED
      BY <1>1, <1>2, <2>1, <3>1
  <2>7. Unanswered'
    BY <1>3, <1>7, <1>11, <2>6 DEF Unanswered
  <2> QED
    BY <2>5, <2>7
<1>21. Indices'
  <2>1. \A c \in Client : client[c] \in {"registered", "gone"} =>
            client'[c] \in {"registered", "gone"}
    BY <1>6
  <2>2. /\ Cardinality(Indexed(client)) \in Nat /\ Cardinality(Indexed(client')) \in Nat
        /\ Cardinality(Indexed(client)) <= Cardinality(Indexed(client'))
    BY <2>1, IndexedGrows
  <2>3. clk_index \in Nat
    BY Types
  <2> QED
    BY <1>1, <1>3, <2>2, <2>3 DEF Indices
<1>22. Routed' /\ DeathNeedsFaults'
  <2>1. spent'.leaders >= spent.leaders /\ spent'.leaders \in Nat /\ spent'.mistaken \in Nat
    BY <1>7
  <2>2. spent.leaders + spent.mistaken > 0 => spent'.leaders + spent'.mistaken > 0
    BY <1>7, <2>1
  <2> QED
    BY <1>1, <1>3, <2>2 DEF Routed, DeathNeedsFaults
<1>23. Replaced'
  <2> SUFFICES ASSUME Leads
               PROVE  Replaced'
    BY <1>11 DEF Replaced
  <2>1. lst' = lst
    BY <1>9, <1>10
  <2>2. \A g \in master' \ ended' : g \in master \ ended /\ conn'[g] = conn[g]
    BY <1>1, <1>2, <1>5
  <2> QED
    BY <1>1, <1>3, <1>12, <2>1, <2>2 DEF Replaced
<1>24. SlotsAccounted'
  <2> DEFINE A == AcceptedOf(conn)
             B == AcceptedOf(conn')
             x == Cardinality(A)
             y == Cardinality(B)
             a == IF Accepted(conn[f]) THEN 1 ELSE 0
             u == spent.leaders + spent.mistaken + spent.unanswered
             v == spent'.leaders + spent'.mistaken + spent'.unanswered
  <2>1. B = A \ {f} /\ (f \in A <=> Accepted(conn[f]))
    <3>1. ~Accepted(Free)
      BY Kinds DEF Accepted
    <3> QED
      BY <1>4, <1>5, <3>1 DEF AcceptedOf
  <2>2. IsFiniteSet(A) /\ x \in Nat
    BY FdFinite DEF AcceptedOf
  <2>3. y = x - a
    <3>1. CASE f \in A
      BY <2>1, <2>2, <3>1, FS_RemoveElement
    <3>2. CASE f \notin A
      <4>1. B = A /\ a = 0
        BY <2>1, <3>2
      <4> HIDE DEF A, B
      <4> QED
        BY <2>2, <4>1
    <3> QED
      BY <3>1, <3>2
  <2>4. /\ \A g \in A : SlotsOf(g) # {}
        /\ Len(ClientArray) <= x + u
    <3>1. Len(ClientArray) <= x + spent.leaders + spent.mistaken + spent.unanswered
      BY <1>3 DEF SlotsAccounted, AcceptedOf
    <3>2. \A g \in A : SlotsOf(g) # {}
      BY <1>3 DEF SlotsAccounted, AcceptedOf
    <3>3. x + spent.leaders + spent.mistaken + spent.unanswered = x + u
      BY <1>7, <2>2
    <3> QED
      BY <3>1, <3>2, <3>3
  <2>5. a \in {0, 1} /\ (a = 1 <=> f \in A)
    BY <2>1
  <2>6. Len(ClientArray) \in Nat
    BY <1>2, SlotTypes
  <2>8. /\ u \in Nat /\ v \in Nat /\ v >= u
        /\ LosesLeader(f) => v >= u + 1
        /\ LosesPeer(f) => v >= u + a
    <3>1. LosesLeader(f) => spent'.leaders = spent.leaders + 1
      BY <1>7
    <3>2. LosesPeer(f) => spent'.mistaken = spent.mistaken + a
      BY <1>7
    <3>3. /\ spent.leaders \in Nat /\ spent.mistaken \in Nat
          /\ spent'.leaders \in Nat /\ spent'.mistaken \in Nat
          /\ spent'.leaders >= spent.leaders /\ spent'.mistaken >= spent.mistaken
          /\ spent'.unanswered = spent.unanswered /\ spent.unanswered \in Nat
      BY <1>7
    <3> HIDE DEF a
    <3> QED
      BY <2>5, <3>1, <3>2, <3>3
  <2> DEFINE z == Len(ClientArray)
             w == Len(ClientArray')
  <2> HIDE DEF A, B, x, y, a, u, v, z, w
  <2>7. /\ \A g \in B : SlotsOf(g)' # {}
        /\ w <= y + v
    <3>1. CASE ClientArray' = ClientArray /\ (LosesLeader(f) \/ a = 0)
      <4>1. \A g \in B : SlotsOf(g)' # {}
        BY <2>1, <2>4, <3>1 DEF SlotsOf
      <4>2. w = z /\ z \in Nat /\ z <= x + u /\ v >= u + a
        BY <2>4, <2>5, <2>6, <2>8, <3>1 DEF w, z
      <4>3. w <= y + v
        BY <2>2, <2>3, <2>5, <2>8, <4>2
      <4> QED
        BY <4>1, <4>3
    <3>2. CASE ClientArray' = ClientArray /\ LosesPeer(f)
      <4>1. \A g \in B : SlotsOf(g)' # {}
        BY <2>1, <2>4, <3>2 DEF SlotsOf
      <4>2. w = z /\ z \in Nat /\ z <= x + u /\ v >= u + a
        BY <2>4, <2>6, <2>8, <3>2 DEF w, z
      <4>3. w <= y + v
        BY <2>2, <2>3, <2>5, <2>8, <4>2
      <4> QED
        BY <4>1, <4>3
    <3>3. CASE LosesClient(f) /\ SlotsOf(f) # {}
      <4> DEFINE m == Min(SlotsOf(f))
      <4>1. ClientArray' = RemoveAt(ClientArray, m) /\ spent' = spent
        BY <3>3 DEF LosesClient, remove_client_from_list
      <4>2. SlotsOf(f) \in SUBSET Nat /\ SlotsOf(f) \subseteq DOMAIN ClientArray
        BY <1>2, SlotTypes DEF SlotsOf
      <4>3. m \in SlotsOf(f)
        BY <3>3, <4>2, LeastExists
      <4> HIDE DEF m
      <4>4. m \in DOMAIN ClientArray /\ ClientArray[m].sock = f
        BY <4>3 DEF SlotsOf
      <4>5. /\ w = z - 1
            /\ \A h \in DOMAIN ClientArray : h # m =>
                  \E n \in DOMAIN ClientArray' : ClientArray'[n] = ClientArray[h]
        <5>1. WithoutSlot(ClientArray, m, ClientArray')
          BY <1>2, <4>1, <4>4, SlotRemoved
        <5> QED
          BY <5>1 DEF WithoutSlot, w, z
      <4>6. ASSUME NEW g \in B PROVE SlotsOf(g)' # {}
        <5>1. g \in A /\ g # f
          BY <2>1
        <5>2. PICK h \in DOMAIN ClientArray : ClientArray[h].sock = g
          BY <2>4, <5>1 DEF SlotsOf
        <5>3. \E n \in DOMAIN ClientArray' : ClientArray'[n].sock = g
          BY <4>4, <4>5, <5>1, <5>2
        <5> QED
          BY <5>3 DEF SlotsOf
      <4>7. w <= y + v
        <5>1. z \in Nat /\ z <= x + u
          BY <2>4, <2>6 DEF z
        <5> QED
          BY <2>2, <2>3, <2>5, <2>8, <4>5, <5>1
      <4> QED
        BY <4>6, <4>7
    <3>4. CASE LosesClient(f) /\ SlotsOf(f) = {}
      <4>1. ClientArray' = ClientArray
        BY <3>4 DEF LosesClient, remove_client_from_list
      <4>2. a = 0
        BY <2>4, <2>5, <3>4
      <4> QED
        BY <3>1, <4>1, <4>2
    <3>5. CASE LosesSuccessor(f)
      <4>1. ClientArray' = ClientArray
        BY <1>9, <3>5
      <4>2. a = 0
        BY <1>9, <3>5, Kinds DEF a, Accepted
      <4> QED
        BY <3>1, <4>1, <4>2
    <3>6. CASE LosesLeader(f)
      BY <3>1, <3>6 DEF LosesLeader
    <3>7. CASE LosesPeer(f)
      BY <3>2, <3>7 DEF LosesPeer
    <3> QED
      BY <3>3, <3>4, <3>5, <3>6, <3>7
  <2>9. Len(ClientArray') <= Cardinality(AcceptedOf(conn')) + spent'.leaders + spent'.mistaken
                                + spent'.unanswered
    <3>1. /\ y \in Nat /\ spent'.leaders \in Nat /\ spent'.mistaken \in Nat
          /\ spent'.unanswered \in Nat
      BY <1>7, FdFinite DEF y, B, AcceptedOf
    <3>2. w <= y + spent'.leaders + spent'.mistaken + spent'.unanswered
      <4>1. y + (spent'.leaders + spent'.mistaken + spent'.unanswered)
                = y + spent'.leaders + spent'.mistaken + spent'.unanswered
        BY <3>1
      <4> QED
        BY <2>7, <4>1 DEF v
    <3> QED
      BY <3>2 DEF w, y, B
  <2>10. \A g \in AcceptedOf(conn') : SlotsOf(g)' # {}
    BY <2>7 DEF B
  <2> QED
    BY <2>9, <2>10 DEF SlotsAccounted, AcceptedOf
<1>25. SlotsExact'
  <2> SUFFICES ASSUME spent'.leaders + spent'.mistaken = 0
               PROVE  SlotsExact'
    BY DEF SlotsExact
  <2>1. spent.leaders + spent.mistaken = 0 /\ ~LosesLeader(f)
    BY <1>7
  <2>a. \A n \in DOMAIN ClientArray :
            \/ Accepted(conn[ClientArray[n].sock])
            \/ /\ spent.unanswered > 0 /\ conn[ClientArray[n].sock] = Free
               /\ \E e \in Client : client[e] = "gone" /\ ClientArray[n].id = ClientId[e]
    BY <1>3, <2>1 DEF SlotsExact
  <2>2. /\ \A m, n \in DOMAIN ClientArray :
              ClientArray[m].sock = ClientArray[n].sock => m = n
        /\ \A n \in DOMAIN ClientArray, c \in Client :
              conn[ClientArray[n].sock] = <<"client", c>> =>
                 ClientArray[n].id = IF client[c] = "registered" THEN ClientId[c] ELSE 0
        /\ \A n \in DOMAIN ClientArray :
              conn[ClientArray[n].sock][1] \in {"leader", "predecessor"} =>
                 ClientArray[n].id = 0
        /\ \A n \in DOMAIN ClientArray : ClientArray[n].sock \in Fd
    BY <1>2, <1>3, <2>1, SlotTypes DEF SlotsExact
  <2>3. /\ \A n \in DOMAIN ClientArray' : \E h \in DOMAIN ClientArray :
              ClientArray'[n] = ClientArray[h] /\ ClientArray[h].sock # f
        /\ \A m, n \in DOMAIN ClientArray' :
              ClientArray'[m].sock = ClientArray'[n].sock => m = n
    <3>1. CASE ClientArray' = ClientArray /\ SlotsOf(f) = {}
      BY <2>2, <3>1 DEF SlotsOf
    <3>2. CASE ClientArray' = ClientArray /\ ~Accepted(conn[f])
      BY <1>4, <2>a, <2>2, <3>2
    <3>3. CASE LosesClient(f) /\ SlotsOf(f) # {}
      <4> DEFINE m == Min(SlotsOf(f))
      <4>1. ClientArray' = RemoveAt(ClientArray, m)
        BY <3>3 DEF LosesClient, remove_client_from_list
      <4>2. SlotsOf(f) \in SUBSET Nat /\ SlotsOf(f) \subseteq DOMAIN ClientArray
        BY <1>2, SlotTypes DEF SlotsOf
      <4>3. m \in SlotsOf(f)
        BY <3>3, <4>2, LeastExists
      <4> HIDE DEF m
      <4>4. m \in DOMAIN ClientArray /\ ClientArray[m].sock = f
        BY <4>3 DEF SlotsOf
      <4>5. /\ \A n \in DOMAIN ClientArray' : \E h \in DOMAIN ClientArray :
                  h # m /\ ClientArray'[n] = ClientArray[h]
            /\ \A a, b \in DOMAIN ClientArray' :
                  ClientArray'[a].sock = ClientArray'[b].sock => a = b
        <5>1. WithoutSlot(ClientArray, m, ClientArray')
          BY <1>2, <4>1, <4>4, SlotRemoved
        <5>2. \A a, b \in DOMAIN ClientArray :
                  ClientArray[a].sock = ClientArray[b].sock => a = b
          BY <2>2
        <5> QED
          BY <5>1, <5>2 DEF WithoutSlot
      <4> QED
        BY <2>2, <4>4, <4>5
    <3>4. CASE LosesPeer(f)
      <4>1. ~Accepted(conn[f])
        <5> DEFINE a == IF Accepted(conn[f]) THEN 1 ELSE 0
        <5>1. spent'.mistaken = spent.mistaken + a /\ a \in Nat
          BY <1>7, <3>4
        <5>2. spent'.mistaken = 0 /\ spent.mistaken \in Nat
          BY <1>7
        <5> HIDE DEF a
        <5>3. a = 0
          BY <5>1, <5>2
        <5> QED
          BY <5>3 DEF a
      <4> QED
        BY <3>2, <3>4, <4>1 DEF LosesPeer
    <3>5. CASE LosesSuccessor(f)
      <4>1. ClientArray' = ClientArray /\ ~Accepted(conn[f])
        BY <1>9, <3>5, Kinds DEF Accepted
      <4> QED
        BY <3>2, <4>1
    <3>6. CASE LosesClient(f) /\ SlotsOf(f) = {}
      <4>1. ClientArray' = ClientArray
        BY <3>6 DEF LosesClient, remove_client_from_list
      <4> QED
        BY <3>1, <3>6, <4>1
    <3> QED
      BY <2>1, <3>3, <3>4, <3>5, <3>6
  <2>4. ASSUME NEW n \in DOMAIN ClientArray'
        PROVE  /\ \/ Accepted(conn'[ClientArray'[n].sock])
                  \/ /\ spent'.unanswered > 0 /\ conn'[ClientArray'[n].sock] = Free
                     /\ \E e \in Client : client'[e] = "gone" /\ ClientArray'[n].id = ClientId[e]
               /\ \A c \in Client : conn'[ClientArray'[n].sock] = <<"client", c>> =>
                     ClientArray'[n].id = IF client'[c] = "registered" THEN ClientId[c] ELSE 0
               /\ conn'[ClientArray'[n].sock][1] \in {"leader", "predecessor"} =>
                     ClientArray'[n].id = 0
    <3>1. PICK h \in DOMAIN ClientArray :
              ClientArray'[n] = ClientArray[h] /\ ClientArray[h].sock # f
      BY <2>3
    <3> DEFINE s == ClientArray[h]
    <3>2. ClientArray'[n] = s /\ s.sock \in Fd /\ conn'[s.sock] = conn[s.sock]
      BY <1>5, <2>2, <3>1
    <3>3. ASSUME NEW c \in Client, conn[s.sock] = <<"client", c>>
          PROVE  s.id = IF client'[c] = "registered" THEN ClientId[c] ELSE 0
      <4>1. conn[f] # <<"client", c>>
        BY <1>3, <1>4, <2>2, <3>1, <3>3 DEF Places
      <4>2. client'[c] = client[c]
        BY <1>6, <4>1
      <4> QED
        BY <2>2, <3>3, <4>2
    <3>4. conn[s.sock][1] \in {"leader", "predecessor"} => s.id = 0
      BY <2>2
    <3>5. \/ Accepted(conn[s.sock])
          \/ /\ spent.unanswered > 0 /\ conn[s.sock] = Free
             /\ \E e \in Client : client[e] = "gone" /\ s.id = ClientId[e]
      BY <2>a
    <3>6. \A e \in Client : client[e] = "gone" => client'[e] = "gone"
      BY <1>6
    <3> HIDE DEF s
    <3> QED
      BY <1>7, <3>2, <3>3, <3>4, <3>5, <3>6
  <2> QED
    BY <2>3, <2>4 DEF SlotsExact
<1> QED
  BY <1>14, <1>15, <1>16, <1>17, <1>18, <1>19, <1>20, <1>21, <1>22, <1>23, <1>24, <1>25
     DEF IInv


(* A follower that reads through NULL has seen two ends.                   *)
LEMMA StaleSuccessorKeeps ==
    ASSUME IInv, NEW f \in Fd, ReadEnd(f), StaleSuccessor(f)
    PROVE  IInv'
<1>1. /\ f \in ended /\ status' = "segv" /\ Stays
      /\ astray' = astray /\ missed' = missed
  BY DEF ReadEnd, Stays, chat
<1>2. f = successor_socket /\ ~Leads /\ Len(lst) < 3
  BY DEF StaleSuccessor
<1>3. spent.ends > 1
  <2> DEFINE x == Cardinality(ended)
             y == Cardinality(ended \ {f})
             e == spent.ends
             l == spent.leaders
  <2>1. ended \subseteq Fd /\ error_return \notin Fd /\ e \in Nat /\ l \in Nat
    BY Types
  <2>2. IsFiniteSet(ended) /\ x \in Nat /\ IsFiniteSet(ended \ {f}) /\ y \in Nat
    BY <2>1, FdFinite
  <2>3. y = x - 1
    BY <1>1, <2>2, FS_RemoveElement
  <2>4. x + l < e
    BY <1>2, <2>1 DEF IInv, EndsCounted
  <2> HIDE DEF x, y, e, l
  <2>5. e > 1
    BY <2>1, <2>2, <2>3, <2>4
  <2> QED
    BY <2>5 DEF e
<1>4. DeathNeedsFaults'
  BY <1>1, <1>3 DEF DeathNeedsFaults, Stays
<1>5. astray' \subseteq Client /\ missed' \subseteq Client /\ Routed'
  BY <1>1 DEF IInv, TypeOK, Routed, Stays
<1> QED
  BY <1>1, <1>4, <1>5, StaysKeeps

LEMMA ReadEndKeeps ==
    ASSUME IInv, NEW f \in Fd, ReadEnd(f)
    PROVE  IInv'
<1>1. CASE StaleSuccessor(f)
  BY <1>1, StaleSuccessorKeeps
<1>2. CASE ~StaleSuccessor(f)
  <2>1. Closes(f)
    BY <1>2 DEF ReadEnd, Closes, chat
  <2>2. LosesLeader(f) \/ LosesSuccessor(f) \/ LosesPeer(f) \/ LosesClient(f)
    BY <1>2 DEF ReadEnd, LosesLeader, LosesSuccessor, LosesPeer, LosesClient
  <2> QED
    BY <2>1, <2>2, ClosesKeeps
<1> QED
  BY <1>1, <1>2

-----------------------------------------------------------------------------
(* The slots with a number get the ID of the client.                       *)
LEMMA SlotsNamed ==
    ASSUME IInv, NEW c \in Client, NEW f \in Fd,
           ClientArray' = [n \in DOMAIN ClientArray |->
               IF n \in SlotsOf(f) THEN Slot(ClientId[c], f) ELSE ClientArray[n]]
    PROVE  /\ ClientArray' \in Seq([id : Nat, sock : Fd])
           /\ Len(ClientArray') = Len(ClientArray) /\ DOMAIN ClientArray' = DOMAIN ClientArray
           /\ \A n \in DOMAIN ClientArray :
                 /\ ClientArray[n].sock \in Fd
                 /\ ClientArray'[n].sock = ClientArray[n].sock
                 /\ ClientArray[n].sock = f => ClientArray'[n].id = ClientId[c]
                 /\ ClientArray[n].sock # f => ClientArray'[n].id = ClientArray[n].id
           /\ \A g : SlotsOf(g)' = SlotsOf(g)
<1>1. ClientArray \in Seq([id : Nat, sock : Fd])
  BY Types
<1>2. /\ Len(ClientArray) \in Nat /\ DOMAIN ClientArray = 1 .. Len(ClientArray)
      /\ \A n \in DOMAIN ClientArray : ClientArray[n].id \in Nat /\ ClientArray[n].sock \in Fd
  BY <1>1, SlotTypes
<1>3. /\ ClientArray' \in Seq([id : Nat, sock : Fd])
      /\ Len(ClientArray') = Len(ClientArray) /\ DOMAIN ClientArray' = DOMAIN ClientArray
      /\ \A n \in DOMAIN ClientArray :
            /\ ClientArray'[n].sock = ClientArray[n].sock
            /\ ClientArray[n].sock = f => ClientArray'[n].id = ClientId[c]
            /\ ClientArray[n].sock # f => ClientArray'[n].id = ClientArray[n].id
  <2>1. \A n \in DOMAIN ClientArray : n \in SlotsOf(f) <=> ClientArray[n].sock = f
    BY DEF SlotsOf
  <2>2. ClientId[c] \in Nat
    BY ClientAssumption
  <2>3. \A n \in DOMAIN ClientArray : ClientArray[n] \in [id : Nat, sock : Fd]
    BY <1>1, <1>2, ElementOfSeq
  <2>4. Slot(ClientId[c], f) \in [id : Nat, sock : Fd]
    BY <2>2 DEF Slot
  <2>5. ClientArray' \in [1 .. Len(ClientArray) -> [id : Nat, sock : Fd]]
    BY <1>2, <2>3, <2>4
  <2>6. ClientArray' \in Seq([id : Nat, sock : Fd]) /\ Len(ClientArray') = Len(ClientArray)
    <3> DEFINE n == Len(ClientArray)
               T == [id : Nat, sock : Fd]
               r == ClientArray'
    <3>1. n \in Nat /\ r \in [1 .. n -> T]
      BY <1>2, <2>5
    <3> HIDE DEF n, T, r
    <3>2. r \in Seq(T) /\ Len(r) = n
      BY <3>1
    <3> QED
      BY <3>2 DEF n, T, r
  <2>7. /\ Slot(ClientId[c], f).sock = f /\ Slot(ClientId[c], f).id = ClientId[c]
    BY DEF Slot
  <2>8. \A n \in DOMAIN ClientArray : ClientArray'[n] =
            IF n \in SlotsOf(f) THEN Slot(ClientId[c], f) ELSE ClientArray[n]
    OBVIOUS
  <2>9. DOMAIN ClientArray' = DOMAIN ClientArray
    OBVIOUS
  <2> QED
    BY <2>1, <2>6, <2>7, <2>8, <2>9
<1> QED
  BY <1>2, <1>3 DEF SlotsOf

(* The client gets an index, whether it is told or not.                    *)
LEMMA IndexGiven ==
    ASSUME IInv, NEW c \in Client, client[c] = "connected", clk_index' = clk_index + 1,
           client' \in [Client -> {"new", "connected", "registered", "gone"}],
           client'[c] \in {"registered", "gone"},
           \A d \in Client : d # c => client'[d] = client[d]
    PROVE  Indices' /\ clk_index' \in 0 .. Cardinality(Client)
<1>1. clk_index \in Nat
  BY Types
<1>2. \A x \in Indexed(client) : x # c /\ x \in Indexed(client')
  BY DEF Indexed
<1>3. Indices'
  <2> DEFINE A == Indexed(client)
             B == Indexed(client')
             x == Cardinality(A)
             y == Cardinality(A \cup {c})
             z == Cardinality(B)
  <2>1. A \subseteq Client /\ B \subseteq Client
    BY DEF Indexed
  <2>2. IsFiniteSet(A) /\ IsFiniteSet(B)
    BY <2>1, ClientAssumption, FS_Subset
  <2>3. c \in B /\ c \notin A /\ A \cup {c} \subseteq B
    BY <1>2 DEF Indexed
  <2> HIDE DEF A, B
  <2>4. x \in Nat /\ y \in Nat /\ z \in Nat /\ y = x + 1 /\ y <= z
    BY <2>2, <2>3, FS_AddElement, FS_Subset, FS_CardinalityType
  <2>5. clk_index <= x
    BY DEF IInv, Indices, A
  <2> HIDE DEF x, y, z
  <2>6. clk_index' <= z
    BY <1>1, <2>4, <2>5
  <2> QED
    BY <2>6 DEF Indices, z, B
<1> QED
  <2> DEFINE x == Cardinality(Indexed(client'))
             y == Cardinality(Client)
  <2>1. x \in Nat /\ y \in Nat /\ x <= y
    <3>1. Indexed(client') \subseteq Client
      BY DEF Indexed
    <3> QED
      BY <3>1, ClientAssumption, FS_Subset, FS_CardinalityType
  <2>2. clk_index' <= x /\ clk_index' \in Nat
    BY <1>1, <1>3 DEF Indices
  <2> HIDE DEF x, y
  <2>3. clk_index' \in 0 .. y
    BY <2>1, <2>2
  <2> QED
    BY <1>3, <2>3 DEF y

(* GET_INDEX gives the client of the connection its ID, and an index.      *)
LEMMA GetIndexKeeps ==
    ASSUME IInv, NEW c \in Client, GetIndex(c)
    PROVE  IInv'
<1>1. /\ client[c] = "connected" /\ clk_index' = clk_index + 1
      /\ client' = [client EXCEPT ![c] = "registered"]
      /\ status' = status /\ conn' = conn /\ ended' = ended /\ master' = master
      /\ lst' = lst /\ ltcp_socket' = ltcp_socket /\ successor_socket' = successor_socket
      /\ joined' = joined /\ astray' = astray /\ missed' = missed /\ spent' = spent
  BY DEF GetIndex
<1>2. PICK f \in Fd :
         /\ conn[f] = <<"client", c>>
         /\ ClientArray' = [n \in DOMAIN ClientArray |->
               IF n \in SlotsOf(f) THEN Slot(ClientId[c], f) ELSE ClientArray[n]]
  BY DEF GetIndex, Speaks
<1>3. /\ ClientArray \in Seq([id : Nat, sock : Fd])
      /\ client \in [Client -> {"new", "connected", "registered", "gone"}]
      /\ clk_index \in Nat /\ spent.leaders \in Nat /\ spent.mistaken \in Nat
  BY Types
<1>4. /\ Len(ClientArray) \in Nat /\ DOMAIN ClientArray = 1 .. Len(ClientArray)
      /\ \A n \in DOMAIN ClientArray : ClientArray[n].id \in Nat /\ ClientArray[n].sock \in Fd
  BY <1>3, SlotTypes
<1>5. /\ client' \in [Client -> {"new", "connected", "registered", "gone"}]
      /\ client'[c] = "registered"
      /\ \A d \in Client : d # c => client'[d] = client[d]
  BY <1>1, <1>3
<1>6. /\ ClientArray' \in Seq([id : Nat, sock : Fd])
      /\ Len(ClientArray') = Len(ClientArray) /\ DOMAIN ClientArray' = DOMAIN ClientArray
      /\ \A n \in DOMAIN ClientArray :
            /\ ClientArray'[n].sock = ClientArray[n].sock
            /\ ClientArray[n].sock = f => ClientArray'[n].id = ClientId[c]
            /\ ClientArray[n].sock # f => ClientArray'[n].id = ClientArray[n].id
      /\ \A g : SlotsOf(g)' = SlotsOf(g)
  BY <1>2, SlotsNamed
<1>7. Leads
  BY <1>1, Types
<1>9. Indices' /\ clk_index' \in 0 .. Cardinality(Client)
  BY <1>1, <1>5, IndexGiven
<1>10. TypeOK'
  <2>2. Len(ClientArray') <= MAX_CONNECTION
    BY <1>6 DEF IInv, TypeOK
  <2>3. lst'[1].leader
    BY <1>1, <1>7 DEF Leads
  <2> QED
    BY <1>1, <1>5, <1>6, <1>9, <2>2, <2>3 DEF IInv, TypeOK
<1>11. Heads' /\ FollowerList'
  BY <1>1 DEF IInv, Heads, FollowerList, Leads
<1>12. LeaderSocket'
  BY <1>1 DEF IInv, LeaderSocket, Leads
<1>13. OneLeader'
  BY <1>1 DEF IInv, OneLeader, Leads
<1>14. LeaderList'
  BY <1>1 DEF IInv, LeaderList, Leads
<1>15. Places'
  <2>1. \A g \in Fd, d \in Client :
            conn'[g] = <<"client", d>> => client'[d] \in {"connected", "registered"}
    BY <1>1, <1>5 DEF IInv, Places
  <2>2. \A d \in Client : client'[d] \in {"connected", "registered"} =>
            \E g \in Fd : conn'[g] = <<"client", d>>
    BY <1>1, <1>2, <1>5 DEF IInv, Places
  <2> QED
    BY <1>1, <2>1, <2>2, ZenonT(30) DEF IInv, Places
<1>16. DeadPeers' /\ EndsCounted' /\ LeaderCounted' /\ Unanswered' /\ Watched'
  <2>1. DeadPeers' /\ EndsCounted' /\ LeaderCounted'
    BY <1>1 DEF IInv, DeadPeers, EndsCounted, LeaderCounted, Leads
  <2>2. Unanswered' /\ Watched'
    BY <1>1 DEF IInv, Unanswered, Watched, Leads, Open
  <2> QED
    BY <2>1, <2>2
<1>17. Routed' /\ DeathNeedsFaults' /\ Replaced'
  BY <1>1 DEF IInv, Routed, DeathNeedsFaults, Replaced, Leads, Open
<1>18. SlotsAccounted'
  BY <1>1, <1>6 DEF IInv, SlotsAccounted
<1>19. SlotsExact'
  <2> SUFFICES ASSUME spent.leaders + spent.mistaken = 0
               PROVE  SlotsExact'
    BY <1>1 DEF SlotsExact
  <2>1. SlotsExact
    BY DEF IInv
  <2>2. ASSUME NEW n \in DOMAIN ClientArray, NEW d \in Client,
               conn[ClientArray[n].sock] = <<"client", d>>
        PROVE  ClientArray'[n].id = IF client'[d] = "registered" THEN ClientId[d] ELSE 0
    <3>1. CASE d = c
      <4>1. ClientArray[n].sock = f
        BY <1>2, <1>4, <2>2, <3>1 DEF IInv, Places
      <4> QED
        BY <1>5, <1>6, <3>1, <4>1
    <3>2. CASE d # c
      <4>1. ClientArray[n].sock # f
        BY <1>2, <2>2, <3>2
      <4> QED
        BY <1>5, <1>6, <2>1, <2>2, <3>2, <4>1 DEF SlotsExact
    <3> QED
      BY <3>1, <3>2
  <2>3. ASSUME NEW n \in DOMAIN ClientArray,
               conn[ClientArray[n].sock][1] \in {"leader", "predecessor"}
        PROVE  ClientArray'[n].id = 0
    <3>1. ClientArray[n].sock # f
      BY <1>2, <2>3, Kinds
    <3> QED
      BY <1>6, <2>1, <2>3, <3>1 DEF SlotsExact
  <2>4. \A m, n \in DOMAIN ClientArray' :
            ClientArray'[m].sock = ClientArray'[n].sock => m = n
    BY <1>1, <1>6, <2>1 DEF SlotsExact
  <2>6. ASSUME NEW n \in DOMAIN ClientArray, ~Accepted(conn[ClientArray[n].sock])
        PROVE  /\ spent.unanswered > 0 /\ conn[ClientArray[n].sock] = Free
               /\ \E e \in Client : client'[e] = "gone" /\ ClientArray'[n].id = ClientId[e]
    <3>1. /\ spent.unanswered > 0 /\ conn[ClientArray[n].sock] = Free
          /\ \E e \in Client : client[e] = "gone" /\ ClientArray[n].id = ClientId[e]
      BY <2>1, <2>6 DEF SlotsExact
    <3>2. ClientArray[n].sock # f
      BY <1>2, <3>1, Kinds
    <3>3. \A e \in Client : client[e] = "gone" => client'[e] = "gone"
      BY <1>1, <1>5
    <3> QED
      BY <1>6, <3>1, <3>2, <3>3
  <2>5. /\ \A n \in DOMAIN ClientArray', d \in Client :
              conn'[ClientArray'[n].sock] = <<"client", d>> =>
                 ClientArray'[n].id = IF client'[d] = "registered" THEN ClientId[d] ELSE 0
        /\ \A n \in DOMAIN ClientArray' :
              conn'[ClientArray'[n].sock][1] \in {"leader", "predecessor"} =>
                 ClientArray'[n].id = 0
    <3>1. /\ DOMAIN ClientArray' = DOMAIN ClientArray /\ conn' = conn
          /\ \A n \in DOMAIN ClientArray : ClientArray'[n].sock = ClientArray[n].sock
      BY <1>1, <1>6
    <3> QED
      BY <2>2, <2>3, <3>1, ZenonT(30)
  <2>7. \A n \in DOMAIN ClientArray' :
            \/ Accepted(conn'[ClientArray'[n].sock])
            \/ /\ spent'.unanswered > 0 /\ conn'[ClientArray'[n].sock] = Free
               /\ \E e \in Client : client'[e] = "gone" /\ ClientArray'[n].id = ClientId[e]
    BY <1>1, <1>6, <2>6
  <2> QED
    BY <2>4, <2>5, <2>7 DEF SlotsExact
<1> QED
  BY <1>9, <1>10, <1>11, <1>12, <1>13, <1>14, <1>15, <1>16, <1>17, <1>18, <1>19 DEF IInv

(* When it cannot be told, the slots keep its ID and the set its number.   *)
LEMMA GetIndexFailsKeeps ==
    ASSUME IInv, NEW c \in Client, GetIndexFails(c)
    PROVE  IInv'
<1>1. /\ client[c] = "connected" /\ clk_index' = clk_index + 1
      /\ client' = [client EXCEPT ![c] = "gone"]
      /\ spent' = [spent EXCEPT !.unanswered = @ + 1]
      /\ status' = status /\ ended' = ended /\ master' = master
      /\ lst' = lst /\ ltcp_socket' = ltcp_socket /\ successor_socket' = successor_socket
      /\ joined' = joined /\ astray' = astray /\ missed' = missed
  BY DEF GetIndexFails
<1>2. PICK f \in Fd :
         /\ status = "up" /\ f \in master /\ f \notin ended
         /\ conn[f] = <<"client", c>> /\ conn' = [conn EXCEPT ![f] = Free]
         /\ ClientArray' = [n \in DOMAIN ClientArray |->
               IF n \in SlotsOf(f) THEN Slot(ClientId[c], f) ELSE ClientArray[n]]
  BY DEF GetIndexFails, Speaks, Reads, Up
<1>3. /\ conn \in [Fd -> Other] /\ ended \subseteq Fd /\ master \subseteq Fd
      /\ \A g \in ended : conn[g] # Free
      /\ client \in [Client -> {"new", "connected", "registered", "gone"}]
      /\ spent \in [ends : 0 .. MaxEnds, neighbour : 0 .. MaxNeighbour,
                    leaders : Nat, mistaken : Nat, rejected : Nat, unanswered : Nat]
  BY Types
<1>4. /\ client' \in [Client -> {"new", "connected", "registered", "gone"}]
      /\ client'[c] = "gone" /\ \A d \in Client : d # c => client'[d] = client[d]
  BY <1>1, <1>3
<1>5. /\ spent' \in [ends : 0 .. MaxEnds, neighbour : 0 .. MaxNeighbour,
                     leaders : Nat, mistaken : Nat, rejected : Nat, unanswered : Nat]
      /\ spent'.ends = spent.ends /\ spent'.rejected = spent.rejected
      /\ spent'.leaders = spent.leaders /\ spent.leaders \in Nat
      /\ spent'.mistaken = spent.mistaken /\ spent.mistaken \in Nat
      /\ spent'.unanswered = spent.unanswered + 1 /\ spent.unanswered \in Nat
      /\ spent.rejected \in Nat
  BY <1>1, <1>3
<1>6. /\ conn' \in [Fd -> Other]
      /\ \A g \in Fd : conn'[g] = IF g = f THEN Free ELSE conn[g]
      /\ \A k : k # Free => \A g \in Fd : conn'[g] = k <=> conn[g] = k /\ g # f
  BY <1>2, <1>3, Kinds
<1>7. /\ ClientArray' \in Seq([id : Nat, sock : Fd])
      /\ Len(ClientArray') = Len(ClientArray) /\ DOMAIN ClientArray' = DOMAIN ClientArray
      /\ \A n \in DOMAIN ClientArray :
            /\ ClientArray[n].sock \in Fd
            /\ ClientArray'[n].sock = ClientArray[n].sock
            /\ ClientArray[n].sock = f => ClientArray'[n].id = ClientId[c]
            /\ ClientArray[n].sock # f => ClientArray'[n].id = ClientArray[n].id
      /\ \A g : SlotsOf(g)' = SlotsOf(g)
  BY <1>2, SlotsNamed
<1>8. Leads /\ (Leads' <=> Leads)
  BY <1>1, Types DEF Leads
<1>9. Indices' /\ clk_index' \in 0 .. Cardinality(Client)
  BY <1>1, <1>4, IndexGiven
<1>10. /\ Free # Leader /\ \A p : <<"peer", p>> # Free /\ conn[f] # <<"peer", p>>
       /\ conn[f] # Leader /\ \A d : <<"client", d>> # Free
  BY <1>2, Kinds, Apart
<1>11. /\ \A q : \A g \in Fd : conn'[g] = <<"peer", q>> <=> conn[g] = <<"peer", q>>
       /\ \A q : Living(q, conn', ended') <=> Living(q, conn, ended)
  <2>1. \A q : \A g \in Fd : conn'[g] = <<"peer", q>> <=> conn[g] = <<"peer", q>>
    BY <1>6, <1>10
  <2> QED
    BY <1>1, <2>1 DEF Living
<1>12. TypeOK'
  <2>1. ended' \subseteq {g \in Fd : conn'[g] # Free}
    BY <1>1, <1>2, <1>3, <1>6
  <2>2. Len(ClientArray') <= MAX_CONNECTION /\ lst'[1].leader
    BY <1>1, <1>7, <1>8 DEF IInv, TypeOK, Leads
  <2> QED
    BY <1>1, <1>4, <1>5, <1>6, <1>7, <1>9, <2>1, <2>2 DEF IInv, TypeOK
<1>13. Heads' /\ FollowerList' /\ LeaderSocket' /\ OneLeader'
  <2>1. Heads' /\ FollowerList'
    BY <1>1, <1>8 DEF IInv, Heads, FollowerList
  <2>2. ltcp_socket' = error_return
    BY <1>1, <1>8 DEF IInv, LeaderSocket
  <2>3. OneLeader'
    BY <1>6, <1>8, <1>10 DEF IInv, OneLeader
  <2> QED
    BY <2>1, <2>2, <2>3 DEF LeaderSocket
<1>14. LeaderList'
  <2>1. LeaderList /\ joined \subseteq Peer
    BY Types DEF IInv
  <2>2. ASSUME NEW i \in 2 .. Len(lst)
        PROVE  /\ lst[i].id \in joined /\ lst[i].sock \in Fd
               /\ Living(lst[i].id, conn', ended') => conn'[lst[i].sock] = <<"peer", lst[i].id>>
    <3>1. /\ lst[i].id \in joined /\ lst[i].sock \in Fd
          /\ Living(lst[i].id, conn, ended) => conn[lst[i].sock] = <<"peer", lst[i].id>>
      BY <1>8, <2>1 DEF LeaderList
    <3> QED
      BY <1>11, <3>1
  <2> QED
    BY <1>1, <1>8, <2>1, <2>2 DEF LeaderList
<1>15. Places'
  <2>1. Places
    BY DEF IInv
  <2>2. \A g \in Fd, d \in Client :
            conn'[g] = <<"client", d>> <=> conn[g] = <<"client", d>> /\ d # c
    <3> TAKE g \in Fd, d \in Client
    <3>1. conn'[g] = <<"client", d>> <=> conn[g] = <<"client", d>> /\ g # f
      BY <1>6, <1>10
    <3>2. conn[g] = <<"client", d>> => (g # f <=> d # c)
      <4>1. <<"client", d>>[2] = d /\ <<"client", c>>[2] = c
        OBVIOUS
      <4> QED
        BY <1>2, <2>1, <4>1 DEF Places
    <3> QED
      BY <3>1, <3>2
  <2>3. \A g \in Fd, d \in Client :
            conn'[g] = <<"client", d>> => client'[d] \in {"connected", "registered"}
    BY <1>4, <2>1, <2>2 DEF Places
  <2>4. \A d \in Client : client'[d] \in {"connected", "registered"} =>
            \E g \in Fd : conn'[g] = <<"client", d>>
    BY <1>4, <2>1, <2>2 DEF Places
  <2>5. \A g, h \in Fd, d \in Client :
            conn'[g] = <<"client", d>> /\ conn'[h] = <<"client", d>> => g = h
    BY <2>1, <2>2 DEF Places
  <2>6. /\ \A g \in Fd, p \in Peer : conn'[g] = <<"peer", p>> => p \in joined'
        /\ \A g, h \in Fd, p \in Peer :
              conn'[g] = <<"peer", p>> /\ conn'[h] = <<"peer", p>> => g = h
    BY <1>1, <1>11, <2>1 DEF Places
  <2> QED
    BY <2>3, <2>4, <2>5, <2>6 DEF Places
<1>16. DeadPeers' /\ EndsCounted' /\ LeaderCounted'
  <2>1. \A g \in ended : conn'[g] = conn[g]
    BY <1>2, <1>3, <1>6
  <2> QED
    BY <1>1, <1>5, <1>8, <1>11, <2>1 DEF IInv, DeadPeers, EndsCounted, LeaderCounted
<1>17. Watched' /\ Unanswered'
  <2>1. spent'.rejected + spent'.unanswered # 0
    BY <1>5
  <2>2. f \in master' /\ f \notin Open'
    BY <1>1, <1>2, <1>6 DEF Open
  <2> QED
    BY <1>8, <2>1, <2>2 DEF Watched, Unanswered
<1>18. Routed' /\ DeathNeedsFaults'
  BY <1>1, <1>2, <1>5 DEF IInv, Routed, DeathNeedsFaults
<1>19. Replaced'
  BY <1>1, <1>8, <1>11, <1>3 DEF IInv, Replaced
<1>20. SlotsAccounted'
  <2> DEFINE A == AcceptedOf(conn)
             B == AcceptedOf(conn')
  <2>1. B = A \ {f} /\ f \in A
    <3>1. ~Accepted(Free) /\ Accepted(conn[f])
      BY <1>2, Kinds DEF Accepted
    <3> QED
      BY <1>6, <3>1 DEF AcceptedOf
  <2>2. IsFiniteSet(A) /\ Cardinality(A) \in Nat
    BY FdFinite DEF AcceptedOf
  <2>3. /\ \A g \in A : SlotsOf(g) # {}
        /\ Len(ClientArray) <= Cardinality(A) + spent.leaders + spent.mistaken
                                  + spent.unanswered
    BY DEF IInv, SlotsAccounted, AcceptedOf
  <2>4. Len(ClientArray) \in Nat
    BY Types, SlotTypes
  <2> DEFINE x == Cardinality(A)
             y == Cardinality(B)
             z == Len(ClientArray)
             w == Len(ClientArray')
  <2> HIDE DEF A, B
  <2>5. x \in Nat /\ y = x - 1
    BY <2>1, <2>2, FS_RemoveElement
  <2>6. z \in Nat /\ w = z /\ z <= x + spent.leaders + spent.mistaken + spent.unanswered
    BY <1>7, <2>3, <2>4
  <2> HIDE DEF x, y, z, w
  <2>7. w <= y + spent'.leaders + spent'.mistaken + spent'.unanswered
    BY <1>5, <2>5, <2>6
  <2>8. \A g \in B : SlotsOf(g)' # {}
    BY <1>7, <2>1, <2>3
  <2> QED
    BY <2>7, <2>8 DEF SlotsAccounted, AcceptedOf, B, w, y
<1>21. SlotsExact'
  <2> SUFFICES ASSUME spent.leaders + spent.mistaken = 0
               PROVE  SlotsExact'
    BY <1>5 DEF SlotsExact
  <2>1. SlotsExact
    BY DEF IInv
  <2>2. ASSUME NEW n \in DOMAIN ClientArray
        PROVE  /\ \/ Accepted(conn'[ClientArray'[n].sock])
                  \/ /\ spent'.unanswered > 0 /\ conn'[ClientArray'[n].sock] = Free
                     /\ \E e \in Client : client'[e] = "gone" /\ ClientArray'[n].id = ClientId[e]
               /\ \A d \in Client : conn'[ClientArray'[n].sock] = <<"client", d>> =>
                     ClientArray'[n].id = IF client'[d] = "registered" THEN ClientId[d] ELSE 0
               /\ conn'[ClientArray'[n].sock][1] \in {"leader", "predecessor"} =>
                     ClientArray'[n].id = 0
    <3> DEFINE s == ClientArray[n]
               r == ClientArray'[n]
    <3>1. spent'.unanswered > 0
      BY <1>5
    <3>2. s.sock \in Fd /\ r.sock = s.sock
      BY <1>7
    <3>3. CASE s.sock = f
      <4>1. r.id = ClientId[c] /\ conn'[r.sock] = Free
        BY <1>6, <1>7, <3>2, <3>3
      <4> HIDE DEF s, r
      <4>2. \A d : conn'[r.sock] # <<"client", d>>
        BY <1>10, <4>1
      <4>3. conn'[r.sock][1] \notin {"leader", "predecessor"}
        BY <4>1, Kinds
      <4> QED
        BY <1>4, <3>1, <4>1, <4>2, <4>3 DEF r
    <3>4. CASE s.sock # f
      <4>1. r.id = s.id /\ conn'[r.sock] = conn[s.sock]
        BY <1>6, <1>7, <3>2, <3>4
      <4>2. \/ Accepted(conn[s.sock])
            \/ /\ conn[s.sock] = Free
               /\ \E e \in Client : client[e] = "gone" /\ s.id = ClientId[e]
        BY <2>1 DEF SlotsExact
      <4>3. \A e \in Client : client[e] = "gone" => client'[e] = "gone"
        BY <1>4
      <4>4. ASSUME NEW d \in Client, conn[s.sock] = <<"client", d>>
            PROVE  s.id = IF client'[d] = "registered" THEN ClientId[d] ELSE 0
        <5>1. d # c
          BY <1>2, <3>2, <3>4, <4>4 DEF IInv, Places
        <5> QED
          BY <1>4, <2>1, <4>4, <5>1 DEF SlotsExact
      <4>5. conn[s.sock][1] \in {"leader", "predecessor"} => s.id = 0
        BY <2>1 DEF SlotsExact
      <4> HIDE DEF s, r
      <4> QED
        BY <3>1, <4>1, <4>2, <4>3, <4>4, <4>5 DEF r
    <3> QED
      BY <3>3, <3>4
  <2>3. \A m, n \in DOMAIN ClientArray' :
            ClientArray'[m].sock = ClientArray'[n].sock => m = n
    BY <1>7, <2>1 DEF SlotsExact
  <2> QED
    BY <1>7, <2>2, <2>3 DEF SlotsExact
<1> QED
  BY <1>9, <1>12, <1>13, <1>14, <1>15, <1>16, <1>17, <1>18, <1>19, <1>20, <1>21 DEF IInv

-----------------------------------------------------------------------------
(* Until a slot is left behind, an ID is found at the connection of the    *)
(* client that has it, and each client that is connected has a slot.       *)
LEMMA SlotOfClient ==
    ASSUME IInv, spent.leaders + spent.mistaken = 0, NEW d \in Client
    PROVE  /\ \A n \in DOMAIN ClientArray : ClientArray[n].id = ClientId[d] =>
                 \/ client[d] = "registered" /\ conn[ClientArray[n].sock] = <<"client", d>>
                 \/ client[d] = "gone" /\ conn[ClientArray[n].sock] = Free
           /\ \A n \in DOMAIN ClientArray :
                 conn[ClientArray[n].sock] = <<"client", d>> =>
                     /\ client[d] \in {"connected", "registered"}
                     /\ client[d] = "registered" => ClientArray[n].id = ClientId[d]
           /\ client[d] \in {"connected", "registered"} =>
                 \E n \in DOMAIN ClientArray : conn[ClientArray[n].sock] = <<"client", d>>
<1>1. SlotsExact /\ SlotsAccounted /\ Places
  BY DEF IInv
<1>2. conn \in [Fd -> Other] /\ \A n \in DOMAIN ClientArray : ClientArray[n].sock \in Fd
  BY Types, SlotTypes
<1>3. ASSUME NEW n \in DOMAIN ClientArray, ClientArray[n].id = ClientId[d]
      PROVE  \/ client[d] = "registered" /\ conn[ClientArray[n].sock] = <<"client", d>>
             \/ client[d] = "gone" /\ conn[ClientArray[n].sock] = Free
  <2> DEFINE k == conn[ClientArray[n].sock]
  <2>1. k \in Other
    BY <1>2
  <2>2. ClientId[d] # 0
    BY ClientAssumption
  <2>3. CASE Accepted(k)
    <3>1. k[1] = "client"
      BY <1>1, <1>3, <2>2, <2>3 DEF SlotsExact, Accepted
    <3>2. PICK e \in Client : k = <<"client", e>>
      BY <2>1, <3>1, Kinds
    <3>3. ClientArray[n].id = IF client[e] = "registered" THEN ClientId[e] ELSE 0
      BY <1>1, <3>2 DEF SlotsExact
    <3>4. client[e] = "registered" /\ ClientId[e] = ClientId[d]
      BY <1>3, <2>2, <3>3
    <3>5. e = d
      BY <3>4, ClientAssumption
    <3> QED
      BY <3>2, <3>4, <3>5
  <2>4. CASE ~Accepted(k)
    <3>1. k = Free /\ \E e \in Client : client[e] = "gone" /\ ClientArray[n].id = ClientId[e]
      BY <1>1, <2>4 DEF SlotsExact
    <3>2. PICK e \in Client : client[e] = "gone" /\ ClientArray[n].id = ClientId[e]
      BY <3>1
    <3>3. e = d
      BY <1>3, <3>2, ClientAssumption
    <3> QED
      BY <3>1, <3>2, <3>3
  <2> QED
    BY <2>3, <2>4
<1>4. ASSUME NEW n \in DOMAIN ClientArray, conn[ClientArray[n].sock] = <<"client", d>>
      PROVE  /\ client[d] \in {"connected", "registered"}
             /\ client[d] = "registered" => ClientArray[n].id = ClientId[d]
  <2>1. ClientArray[n].sock \in Fd
    BY <1>2
  <2>2. client[d] \in {"connected", "registered"}
    BY <1>1, <1>4, <2>1 DEF Places
  <2>3. ClientArray[n].id = IF client[d] = "registered" THEN ClientId[d] ELSE 0
    BY <1>1, <1>4 DEF SlotsExact
  <2> QED
    BY <2>2, <2>3
<1>5. ASSUME client[d] \in {"connected", "registered"}
      PROVE  \E n \in DOMAIN ClientArray : conn[ClientArray[n].sock] = <<"client", d>>
  <2>1. PICK g \in Fd : conn[g] = <<"client", d>>
    BY <1>1, <1>5 DEF Places
  <2>2. Accepted(conn[g])
    BY <2>1, Kinds DEF Accepted
  <2>3. SlotsOf(g) # {}
    BY <1>1, <2>2 DEF SlotsAccounted
  <2> QED
    BY <2>1, <2>3 DEF SlotsOf
<1> QED
  BY <1>3, <1>4, <1>5

(* A message that gets to those it is for.                                 *)
LEMMA SendKeeps ==
    ASSUME IInv, NEW c \in Client, NEW slots, NEW for \in SUBSET Client,
           Send(c, slots, for),
           spent.leaders + spent.mistaken = 0 =>
               for = {d \in Client : \E n \in slots :
                                         conn[ClientArray[n].sock] = <<"client", d>>}
    PROVE  IInv'
<1> DEFINE to == {d \in Client : \E n \in slots : conn[ClientArray[n].sock] = <<"client", d>>}
<1>1. /\ Stays /\ status' = status
      /\ astray' = astray \cup (to \ for) /\ missed' = missed \cup (for \ to)
  BY DEF Send, Stays
<1>2. to \subseteq Client
  OBVIOUS
<1>3. astray' \subseteq Client /\ missed' \subseteq Client
  BY <1>1, <1>2 DEF IInv, TypeOK
<1>4. spent.leaders \in Nat /\ spent.mistaken \in Nat
  BY Types
<1> HIDE DEF to
<1>5. Routed'
  <2> DEFINE u == spent.leaders + spent.mistaken
  <2>1. spent.leaders' + spent.mistaken' = u /\ u \in Nat
    BY <1>1, <1>4 DEF Stays
  <2>2. astray \cup missed # {} => u > 0
    BY DEF IInv, Routed
  <2>3. u = 0 => for = to
    BY DEF to
  <2> HIDE DEF u
  <2>4. astray' \cup missed' # {} => u > 0
    BY <1>1, <2>1, <2>2, <2>3
  <2> QED
    BY <1>1, <2>4 DEF Routed, Stays, u
<1>6. DeathNeedsFaults' /\ status' \in {"up", "select failed", "segv", "exited"}
  BY <1>1 DEF IInv, TypeOK, DeathNeedsFaults, Stays, Open, Leads
<1> QED
  BY <1>1, <1>3, <1>5, <1>6, StaysKeeps

LEMMA ToClientKeeps ==
    ASSUME IInv, NEW c \in Client, NEW d \in Client, ToClient(c, d)
    PROVE  IInv'
<1> DEFINE S == SlotsWithId(ClientId[d])
           slots == IF S = {} THEN {} ELSE {Min(S)}
           for == {d} \cap Registered
           to == {e \in Client : \E n \in slots : conn[ClientArray[n].sock] = <<"client", e>>}
<1>1. Send(c, slots, for) /\ for \in SUBSET Client
  BY DEF ToClient
<1>2. ASSUME spent.leaders + spent.mistaken = 0
      PROVE  for = to
  <2>1. /\ \A n \in DOMAIN ClientArray : ClientArray[n].id = ClientId[d] =>
               \/ client[d] = "registered" /\ conn[ClientArray[n].sock] = <<"client", d>>
               \/ client[d] = "gone" /\ conn[ClientArray[n].sock] = Free
        /\ client[d] = "registered" => \E n \in DOMAIN ClientArray :
               ClientArray[n].id = ClientId[d]
    BY <1>2, SlotOfClient
  <2>2. S \in SUBSET Nat /\ S \subseteq DOMAIN ClientArray
    BY Types, SlotTypes, SMTT(30) DEF SlotsWithId
  <2>3. CASE client[d] = "registered"
    <3>1. S # {}
      BY <2>1, <2>3 DEF SlotsWithId
    <3>2. Min(S) \in S
      BY <2>2, <3>1, LeastExists
    <3>3. conn[ClientArray[Min(S)].sock] = <<"client", d>>
      BY <2>1, <2>3, <3>2 DEF SlotsWithId
    <3>4. for = {d} /\ slots = {Min(S)}
      BY <2>3, <3>1 DEF Registered
    <3> HIDE DEF slots
    <3>5. to = {d}
      BY <3>3, <3>4
    <3> QED
      BY <3>4, <3>5
  <2>4. CASE client[d] # "registered"
    <3>1. \A n \in S : conn[ClientArray[n].sock] = Free
      BY <2>1, <2>4 DEF SlotsWithId
    <3>2. S # {} => Min(S) \in S
      BY <2>2, LeastExists
    <3>3. \A n \in slots : conn[ClientArray[n].sock] = Free
      <4> HIDE DEF S
      <4> QED
        BY <3>1, <3>2
    <3>4. for = {}
      BY <2>4 DEF Registered
    <3>5. to = {}
      <4> HIDE DEF slots
      <4> QED
        BY <3>3, Kinds
    <3> QED
      BY <3>4, <3>5
  <2> QED
    BY <2>3, <2>4
<1> HIDE DEF slots, for
<1> QED
  BY <1>1, <1>2, SendKeeps

LEMMA ToGroupKeeps ==
    ASSUME IInv, NEW c \in Client, ToGroup(c)
    PROVE  IInv'
<1> DEFINE slots == DOMAIN ClientArray \ SlotsWithId(ClientId[c])
           for == (Registered \cup Connected) \ {c}
           to == {e \in Client : \E n \in slots : conn[ClientArray[n].sock] = <<"client", e>>}
<1>1. Send(c, slots, for) /\ for \in SUBSET Client /\ client[c] = "registered"
  BY DEF ToGroup, Send, Registered, Connected
<1>2. ASSUME spent.leaders + spent.mistaken = 0
      PROVE  for = to
  <2>1. ASSUME NEW d \in for PROVE d \in to
    <3>1. d \in Client /\ d # c /\ client[d] \in {"connected", "registered"}
      BY DEF Registered, Connected
    <3>2. PICK n \in DOMAIN ClientArray : conn[ClientArray[n].sock] = <<"client", d>>
      BY <1>2, <3>1, SlotOfClient
    <3>3. ClientArray[n].id # ClientId[c]
      <4>1. ClientArray[n].id = ClientId[c] => conn[ClientArray[n].sock] = <<"client", c>>
        BY <1>1, <1>2, SlotOfClient
      <4> QED
        BY <3>1, <3>2, <4>1
    <3>4. n \in slots
      BY <3>3 DEF SlotsWithId
    <3> QED
      BY <3>1, <3>2, <3>4
  <2>2. ASSUME NEW d \in to PROVE d \in for
    <3>1. PICK n \in slots : conn[ClientArray[n].sock] = <<"client", d>>
      OBVIOUS
    <3>2. n \in DOMAIN ClientArray /\ ClientArray[n].id # ClientId[c]
      BY DEF SlotsWithId
    <3>3. d \in Client /\ client[d] \in {"connected", "registered"}
      BY <1>2, <3>1, <3>2, SlotOfClient
    <3>4. d # c
      BY <1>1, <1>2, <3>1, <3>2, SlotOfClient
    <3> QED
      BY <3>3, <3>4 DEF Registered, Connected
  <2> QED
    BY <2>1, <2>2
<1> HIDE DEF slots, for
<1> QED
  BY <1>1, <1>2, SendKeeps


-----------------------------------------------------------------------------
LEMMA LeaderInit ==
    ASSUME Init, lst = <<Self(TRUE)>>, conn = [f \in Fd |-> Free], master = {},
           ClientArray = << >>, ltcp_socket = error_return, successor_socket = error_return
    PROVE  IInv
<1>1. /\ status = "up" /\ ended = {} /\ clk_index = 0 /\ joined = {}
      /\ client = [c \in Client |-> "new"] /\ astray = {} /\ missed = {}
      /\ spent = Nothing
  BY DEF Init
<1>2. /\ spent \in [ends : 0 .. MaxEnds, neighbour : 0 .. MaxNeighbour,
                    leaders : Nat, mistaken : Nat, rejected : Nat, unanswered : Nat]
      /\ spent.ends = 0 /\ spent.leaders = 0 /\ spent.mistaken = 0 /\ spent.rejected = 0
      /\ spent.unanswered = 0
  BY <1>1, BoundAssumption DEF Nothing
<1>3. lst \in Seq([id : Nat, sock : Fd \cup {error_return}, leader : BOOLEAN])
  BY DEF Self
<1>4. Len(lst) = 1 /\ lst[1] = Self(TRUE) /\ Leads /\ lst[1].id = 0 /\ lst[1].leader
  BY DEF Self, Leads
<1>5. /\ conn \in [Fd -> Other]
      /\ \A f \in Fd : conn[f] = Free /\ ~Accepted(conn[f]) /\ conn[f] # Leader
                       /\ conn[f][1] \notin {"client", "peer"}
  BY Kinds DEF Accepted
<1>6. \A f \in Fd : \A c : conn[f] # <<"client", c>> /\ conn[f] # <<"peer", c>>
  BY <1>5, Apart
<1>7. TypeOK
  <2>1. ClientArray \in Seq([id : Nat, sock : Fd]) /\ Len(ClientArray) = 0
    OBVIOUS
  <2>2. Cardinality(Client) \in Nat /\ MAX_CONNECTION \in Nat
    BY ClientAssumption, ConnectionAssumption, FS_CardinalityType
  <2>3. clk_index \in 0 .. Cardinality(Client) /\ Len(ClientArray) <= MAX_CONNECTION
    BY <1>1, <2>1, <2>2
  <2> QED
    BY <1>1, <1>2, <1>3, <1>4, <1>5, <2>1, <2>3 DEF TypeOK
<1>8. Heads /\ FollowerList /\ LeaderSocket /\ OneLeader
  <2>1. Len(lst) > 0
    BY <1>4
  <2>2. LeaderSocket
    BY DEF LeaderSocket
  <2>3. OneLeader
    BY <1>5 DEF OneLeader
  <2>4. Heads
    BY <1>4, <2>1 DEF Heads
  <2>5. FollowerList
    BY <1>4, Zenon DEF FollowerList
  <2> QED
    BY <2>2, <2>3, <2>4, <2>5
<1>9. LeaderList
  <2>1. 2 .. Len(lst) = {}
    BY <1>4
  <2> QED
    BY <2>1 DEF LeaderList, TailSorted
<1>10. Places
  BY <1>1, <1>6 DEF Places
<1>11. DeadPeers /\ EndsCounted /\ LeaderCounted /\ Unanswered /\ Watched
  <2>1. Open = {}
    BY <1>5 DEF Open
  <2> QED
    BY <1>1, <1>2, <1>4, <2>1
       DEF DeadPeers, EndsCounted, LeaderCounted, Unanswered, Watched
<1>12. SlotsAccounted
  <2>1. {f \in Fd : Accepted(conn[f])} = {}
    BY <1>5
  <2>2. Cardinality({}) = 0
    BY FS_EmptySet
  <2>3. Len(ClientArray) = 0 /\ 0 <= 0 + 0 + 0 + 0
    OBVIOUS
  <2> QED
    BY <1>2, <2>1, <2>2, <2>3 DEF SlotsAccounted
<1>13. SlotsExact
  BY DEF SlotsExact
<1>14. Indices
  <2>1. Indexed(client) \subseteq Client
    BY DEF Indexed
  <2>2. Cardinality(Indexed(client)) \in Nat
    BY <2>1, ClientAssumption, FS_Subset, FS_CardinalityType
  <2> QED
    BY <1>1, <2>2 DEF Indices
<1>15. Routed /\ DeathNeedsFaults /\ Replaced
  BY <1>1 DEF Routed, DeathNeedsFaults, Replaced
<1> QED
  BY <1>7, <1>8, <1>9, <1>10, <1>11, <1>12, <1>13, <1>14, <1>15 DEF IInv

LEMMA FollowerInit ==
    ASSUME Init, lst = <<Self(FALSE), Entry(1, 1, TRUE), Entry(2, 2, FALSE)>>,
           conn = [f \in Fd |-> CASE f = 1 -> Leader [] f = 2 -> Successor
                                [] f = 3 -> Predecessor [] OTHER -> Free],
           master = 1 .. 3, ClientArray = <<Slot(0, 1), Slot(0, 3)>>,
           ltcp_socket = 1, successor_socket = 2
    PROVE  IInv
<1>1. /\ status = "up" /\ ended = {} /\ clk_index = 0 /\ joined = {}
      /\ client = [c \in Client |-> "new"] /\ astray = {} /\ missed = {}
      /\ spent = Nothing
  BY DEF Init
<1>2. /\ spent \in [ends : 0 .. MaxEnds, neighbour : 0 .. MaxNeighbour,
                    leaders : Nat, mistaken : Nat, rejected : Nat, unanswered : Nat]
      /\ spent.ends = 0 /\ spent.leaders = 0 /\ spent.mistaken = 0 /\ spent.rejected = 0
      /\ spent.unanswered = 0
  BY <1>1, BoundAssumption DEF Nothing
<1>3. 1 \in Fd /\ 2 \in Fd /\ 3 \in Fd /\ 1 .. 3 \subseteq Fd
  BY BoundAssumption, ConnectionAssumption DEF Fd
<1>4. lst \in Seq([id : Nat, sock : Fd \cup {error_return}, leader : BOOLEAN])
  <2> DEFINE T == [id : Nat, sock : Fd \cup {error_return}, leader : BOOLEAN]
  <2> DEFINE a == Self(FALSE)
             b == Entry(1, 1, TRUE)
             c == Entry(2, 2, FALSE)
  <2>1. a \in T /\ b \in T /\ c \in T
    BY <1>3 DEF Self, Entry
  <2>2. lst = <<a, b, c>>
    OBVIOUS
  <2> HIDE DEF T, a, b, c
  <2>3. <<a, b, c>> \in Seq(T)
    BY <2>1
  <2> QED
    BY <2>2, <2>3 DEF T
<1>5. /\ Len(lst) = 3 /\ lst[1] = Self(FALSE)
      /\ lst[2] = Entry(1, 1, TRUE) /\ lst[3] = Entry(2, 2, FALSE)
  OBVIOUS
<1>6. ~Leads /\ lst[1].id = 0 /\ lst[2].id = 1 /\ lst[3].id = 2 /\ lst[3].sock = 2
  BY <1>5 DEF Leads, Self, Entry
<1>7. /\ conn \in [Fd -> Other]
      /\ conn[1] = Leader /\ conn[2] = Successor /\ conn[3] = Predecessor
      /\ \A f \in Fd : f \notin 1 .. 3 => conn[f] = Free
  BY <1>3, Kinds
<1>8. /\ \A f \in Fd : conn[f] = Leader => f = 1
      /\ \A f \in Fd : Accepted(conn[f]) <=> f \in {1, 3}
      /\ \A f \in Fd : conn[f][1] \notin {"client", "peer"}
      /\ \A f \in Fd : conn[f] # Free <=> f \in 1 .. 3
  <2>1. \A f \in Fd : f = 1 \/ f = 2 \/ f = 3 \/ f \notin 1 .. 3
    BY DEF Fd
  <2>2. 1 \in 1 .. 3 /\ 2 \in 1 .. 3 /\ 3 \in 1 .. 3
    OBVIOUS
  <2> QED
    BY <1>7, <2>1, <2>2, Kinds DEF Accepted
<1>9. \A f \in Fd : \A c : conn[f] # <<"client", c>> /\ conn[f] # <<"peer", c>>
  BY <1>8, Apart
<1>10. /\ ClientArray \in Seq([id : Nat, sock : Fd]) /\ Len(ClientArray) = 2
       /\ DOMAIN ClientArray = {1, 2}
       /\ ClientArray[1].id = 0 /\ ClientArray[1].sock = 1
       /\ ClientArray[2].id = 0 /\ ClientArray[2].sock = 3
  <2> DEFINE T == [id : Nat, sock : Fd]
  <2>1. Slot(0, 1) \in T /\ Slot(0, 3) \in T
    BY <1>3 DEF Slot
  <2> HIDE DEF T
  <2>2. ClientArray \in Seq(T)
    BY <2>1
  <2>3. /\ Len(ClientArray) = 2 /\ DOMAIN ClientArray = {1, 2}
        /\ ClientArray[1] = Slot(0, 1) /\ ClientArray[2] = Slot(0, 3)
    OBVIOUS
  <2> QED
    BY <2>2, <2>3 DEF T, Slot
<1>11. TypeOK
  <2>1. Cardinality(Client) \in Nat
    BY ClientAssumption, FS_CardinalityType
  <2>2. clk_index \in 0 .. Cardinality(Client)
    BY <1>1, <2>1
  <2>3. Len(ClientArray) <= MAX_CONNECTION
    BY <1>10, ConnectionAssumption
  <2>4. {ltcp_socket, successor_socket} \subseteq Fd \cup {error_return}
    BY <1>3
  <2>5. master \subseteq Fd
    BY <1>3
  <2> QED
    BY <1>1, <1>2, <1>4, <1>7, <1>10, <2>2, <2>3, <2>4, <2>5 DEF TypeOK
<1>12. Heads /\ FollowerList /\ LeaderSocket /\ OneLeader
  <2>1. Len(lst) > 0 /\ Len(lst) <= 3 /\ Len(lst) # 1
    BY <1>5
  <2>4. Heads
    BY <1>6, <2>1 DEF Heads
  <2>5. successor_socket \in Fd /\ conn[successor_socket] = Successor
    BY <1>3, <1>7
  <2>6. lst[3].sock = successor_socket
    BY <1>6
  <2>7. FollowerList
    BY <1>6, <2>1, <2>5, <2>6 DEF FollowerList
  <2>2. LeaderSocket
    BY <1>5, <1>6, <1>7 DEF LeaderSocket
  <2>3. OneLeader
    BY <1>6, <1>8 DEF OneLeader
  <2> QED
    BY <2>2, <2>3, <2>4, <2>7
<1>13. LeaderList /\ Places
  BY <1>1, <1>6, <1>9 DEF LeaderList, Places
<1>14. DeadPeers /\ EndsCounted /\ LeaderCounted /\ Unanswered /\ Watched
  <2>1. Open = 1 .. 3
    BY <1>3, <1>8 DEF Open
  <2>2. Cardinality(ended) = 0
    BY <1>1, FS_EmptySet
  <2> QED
    BY <1>1, <1>2, <1>5, <2>1, <2>2
       DEF DeadPeers, EndsCounted, LeaderCounted, Unanswered, Watched, error_return
<1>15. SlotsAccounted
  <2> DEFINE A == {f \in Fd : Accepted(conn[f])}
  <2>1. A = {1, 3}
    BY <1>3, <1>8
  <2>2. Cardinality({1, 3}) = 2
    <3>1. IsFiniteSet({1}) /\ Cardinality({1}) = 1
      BY FS_Singleton
    <3>2. {1, 3} = {1} \cup {3} /\ 3 \notin {1}
      OBVIOUS
    <3>3. Cardinality({1} \cup {3}) = Cardinality({1}) + 1
      BY <3>1, <3>2, FS_AddElement
    <3> QED
      BY <3>1, <3>2, <3>3
  <2>3. \A f \in A : SlotsOf(f) # {}
    BY <1>10, <2>1 DEF SlotsOf
  <2> HIDE DEF A
  <2>4. Cardinality(A) + spent.leaders + spent.mistaken + spent.unanswered = 2
    BY <1>2, <2>1, <2>2
  <2> QED
    BY <1>10, <2>3, <2>4 DEF SlotsAccounted, A
<1>16. SlotsExact
  <2>1. \A n \in DOMAIN ClientArray :
           /\ ClientArray[n].id = 0 /\ ClientArray[n].sock \in Fd
           /\ Accepted(conn[ClientArray[n].sock])
    BY <1>3, <1>8, <1>10
  <2>2. \A m, n \in DOMAIN ClientArray :
            ClientArray[m].sock = ClientArray[n].sock => m = n
    BY <1>10
  <2> QED
    BY <1>9, <2>1, <2>2 DEF SlotsExact
<1>17. Indices
  <2>1. Indexed(client) \subseteq Client
    BY DEF Indexed
  <2>2. Cardinality(Indexed(client)) \in Nat
    BY <2>1, ClientAssumption, FS_Subset, FS_CardinalityType
  <2> QED
    BY <1>1, <2>2 DEF Indices
<1>18. Routed /\ DeathNeedsFaults /\ Replaced
  BY <1>1, <1>6 DEF Routed, DeathNeedsFaults, Replaced
<1> QED
  BY <1>11, <1>12, <1>13, <1>14, <1>15, <1>16, <1>17, <1>18 DEF IInv

LEMMA InitHolds == Init => IInv
  BY LeaderInit, FollowerInit DEF Init

LEMMA NextKeeps == IInv /\ [Next]_vars => IInv'
<1> SUFFICES ASSUME IInv, [Next]_vars PROVE IInv'
  OBVIOUS
<1>1. ASSUME NEW c \in Client, ClientConnects(c) PROVE IInv'
  BY <1>1, ClientConnectsKeeps
<1>2. ASSUME NEW c \in Client, GetIndex(c) PROVE IInv'
  BY <1>2, GetIndexKeeps
<1>3. ASSUME NEW c \in Client, ToGroup(c) PROVE IInv'
  BY <1>3, ToGroupKeeps
<1>4. ASSUME NEW c \in Client, NEW d \in Client, ToClient(c, d) PROVE IInv'
  BY <1>4, ToClientKeeps
<1>5. ASSUME NEW k \in {Leader, Predecessor}, NeighbourConnects(k) PROVE IInv'
  BY <1>5, NeighbourConnectsKeeps
<1>6. CASE RecvUpdate
  BY <1>6, RecvUpdateKeeps
<1>7. CASE ClaimAlone
  BY <1>7, ClaimAloneKeeps
<1>8. CASE SelectFails
  BY <1>8, SelectFailsKeeps
<1>9. ASSUME NEW leads \in BOOLEAN, Elected(leads) PROVE IInv'
  BY <1>9, ElectedKeeps
<1>10. ASSUME NEW p \in Peer, PeerJoins(p) PROVE IInv'
  BY <1>10, PeerJoinsKeeps
<1>11. ASSUME NEW n \in DOMAIN lst, EvictSilent(n) PROVE IInv'
  BY <1>11, EvictSilentKeeps
<1>12. ASSUME NEW f \in Fd, RecvKnow(f) PROVE IInv'
  BY <1>12, RecvKnowKeeps
<1>13. ASSUME NEW f \in Fd, Ends(f) PROVE IInv'
  BY <1>13, EndsKeeps
<1>14. ASSUME NEW f \in Fd, ReadEnd(f) PROVE IInv'
  BY <1>14, ReadEndKeeps
<1>15. ASSUME NEW c \in Client, GetIndexFails(c) PROVE IInv'
  BY <1>15, GetIndexFailsKeeps
<1>16. CASE RecvHeartbeat
  BY <1>16, RecvHeartbeatKeeps
<1>17. ASSUME NEW f \in Fd, NamedSuccessorDied(f) PROVE IInv'
  BY <1>17, NamedSuccessorDiedKeeps
<1>18. ASSUME NEW f \in Fd, RecvElectionAlone(f) PROVE IInv'
  BY <1>18, RecvElectionAloneKeeps
<1>19. CASE UNCHANGED vars
  <2>1. Stays /\ status' = status /\ astray' = astray /\ missed' = missed
    BY <1>19 DEF vars, Stays
  <2>2. /\ status' \in {"up", "select failed", "segv", "exited"}
        /\ astray' \subseteq Client /\ missed' \subseteq Client
    BY <2>1 DEF IInv, TypeOK
  <2>3. Routed' /\ DeathNeedsFaults'
    BY <2>1 DEF IInv, Routed, DeathNeedsFaults, Open, Stays, Leads
  <2> QED
    BY <2>1, <2>2, <2>3, StaysKeeps
<1> QED
  BY <1>1, <1>2, <1>3, <1>4, <1>5, <1>6, <1>7, <1>8, <1>9, <1>10, <1>11, <1>12,
     <1>13, <1>14, <1>15, <1>16, <1>17, <1>18, <1>19 DEF Next

LEMMA Invariance == Spec => []IInv
  BY InitHolds, NextKeeps, PTL DEF Spec

-----------------------------------------------------------------------------
(* Every variable has its type; only a leader has peers and clients, and   *)
(* ClientArray does not outgrow MAX_CONNECTION.                            *)
THEOREM TypeCorrect == Spec => []TypeOK
<1>1. IInv => TypeOK
  BY DEF IInv
<1> QED
  BY <1>1, Invariance, PTL

(* Each accepted connection has its slot in ClientArray, and what          *)
(* remove_client_from_list() has not taken off is explained by leaders     *)
(* that were lost, connections taken for a peer and indices not sent.      *)
THEOREM SlotsCounted == Spec => []SlotsAccounted
<1>1. IInv => SlotsAccounted
  BY DEF IInv
<1> QED
  BY <1>1, Invariance, PTL

(* Messages are routed to those they are for until a slot has been left    *)
(* behind, however the numbers of the descriptors are used again.          *)
THEOREM RoutedRight == Spec => []Routed
<1>1. IInv => Routed
  BY DEF IInv
<1> QED
  BY <1>1, Invariance, PTL

(* A server that suspects no living leader does not end by itself: each    *)
(* way in which it ends takes the faults of others that DeathNeedsFaults   *)
(* names, and select() fails only when it has itself left a closed number  *)
(* in the set, at the limit or for want of an index.                       *)
THEOREM DeathExplained == Spec => []DeathNeedsFaults
<1>1. IInv => DeathNeedsFaults
  BY DEF IInv
<1> QED
  BY <1>1, Invariance, PTL

(* Until a connection is rejected or an index cannot be sent, the select   *)
(* set of main() is the set of open descriptors, but for peers that were   *)
(* never put into it.                                                      *)
THEOREM SelectIsSound == Spec => []SelectSound
<1>1. IInv => SelectSound
  BY DEF IInv, Watched, SelectSound
<1> QED
  BY <1>1, Invariance, PTL

(* A leader gives up a connected peer in place of a dead one only.         *)
THEOREM PeersStayListed == Spec => []PeersListed
<1>1. ASSUME IInv PROVE PeersListed
  <2> SUFFICES ASSUME Leads, NEW f \in master \ ended, NEW p \in Peer,
                      conn[f] = <<"peer", p>>, p \notin Ids(lst)
               PROVE  \E q \in joined : q > p /\ \A g \in Open \ ended : conn[g] # <<"peer", q>>
    BY DEF PeersListed
  <2>1. PICK q \in joined : q > p /\ ~Living(q, conn, ended)
    BY <1>1 DEF IInv, Replaced
  <2>2. \A g \in Fd \ ended : conn[g] # <<"peer", q>>
    BY <2>1 DEF Living
  <2>3. Open \subseteq Fd
    BY DEF Open
  <2> QED
    BY <2>1, <2>2, <2>3
<1> QED
  BY <1>1, Invariance, PTL
=============================================================================
