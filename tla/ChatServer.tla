------------------------------ MODULE ChatServer ------------------------------
(***************************************************************************)
(* The descriptors of one server and the tables that refer to them by      *)
(* number: the select set of main(), ClientArray (chat_client.c), the      *)
(* sockets in connected_peers, ltcp_socket and successor_socket.  A number *)
(* that is closed is given to the next connection, as POSIX has it.        *)
(*                                                                         *)
(* The server follows, may be elected, and serves clients while it leads.  *)
(* Its neighbours, its leader, its peers and the clients are the           *)
(* environment: they connect, send, close, or reset their connection.      *)
(*                                                                         *)
(* Here the server never takes a living leader for dead, what it sends in  *)
(* an election is sent, a server does not die between two sends of one     *)
(* handler, and SIGPIPE ends nobody.                                       *)
(***************************************************************************)
EXTENDS ServerList

CONSTANTS
    Client,          \* the clients, each connecting at most once
    ClientId,        \* the IDs that new_client() has given them
    Peer,            \* IDs of the servers that may follow this one
    MaxFd,           \* descriptors besides those open from the start
    MAX_CONNECTION,
    MaxEnds,         \* bound: leaders, neighbours and peers that die
    MaxNeighbour     \* bound: changes of the predecessor or the successor

ASSUME BoundAssumption == {MaxFd, MaxEnds, MaxNeighbour} \subseteq Nat

(* Room for the connections with which a follower starts.                  *)
ASSUME ConnectionAssumption ==
    /\ MaxFd >= 3
    /\ MAX_CONNECTION \in Nat /\ MAX_CONNECTION >= 2

ASSUME PeerAssumption == Peer \subseteq Nat \ {0}
ASSUME ClientAssumption ==
    /\ IsFiniteSet(Client)
    /\ ClientId \in [Client -> Nat \ {0}]
    /\ \A c, d \in Client : ClientId[c] = ClientId[d] => c = d

VARIABLES
    status,            \* "up", or how the process ended
    conn,              \* what each descriptor is connected to
    ended,             \* descriptors whose other side has closed
    master,            \* the select set
    ClientArray,
    lst,               \* connected_peers
    ltcp_socket,
    successor_socket,
    clk_index,
    client,            \* what has become of each client
    joined,            \* the peers that have joined
    astray,            \* clients that got a message that was not for them
    missed,            \* connected clients that did not get one that was
    spent              \* how much of each bound is used, and what went wrong

vars == <<status, conn, ended, master, ClientArray, lst, ltcp_socket, successor_socket,
          clk_index, client, joined, astray, missed, spent>>
chat == <<clk_index, astray, missed>>

Fd == 1 .. MaxFd
error_return == 0    \* -1 in the code
Free == <<"free", 0>>
Leader == <<"leader", 0>>
Successor == <<"successor", 0>>
Predecessor == <<"predecessor", 0>>

(* What a descriptor may be: closed, or the connection to one of these.    *)
Other ==
    {Free, Leader, Successor, Predecessor}
        \cup {<<"client", c>> : c \in Client} \cup {<<"peer", p>> : p \in Peer}

(* Connections that the listening socket accepted.                         *)
Accepted(k) == k[1] \in {"leader", "predecessor", "client"}

Self(leads) == [id |-> 0, sock |-> error_return, leader |-> leads]
Entry(i, f, leads) == [id |-> i, sock |-> f, leader |-> leads]
Slot(i, f) == [id |-> i, sock |-> f]

(* Every variable has its type; clients connect to leaders only, and the   *)
(* end of a connection is noticed on one that is open.                     *)
TypeOK ==
    /\ status \in {"up", "select failed", "segv", "exited"}
    /\ conn \in [Fd -> Other]
    /\ ended \subseteq {f \in Fd : conn[f] # Free}
    /\ master \subseteq Fd
    /\ ClientArray \in Seq([id : Nat, sock : Fd])
    /\ Len(ClientArray) <= MAX_CONNECTION
    /\ lst \in Seq([id : Nat, sock : Fd \cup {error_return}, leader : BOOLEAN])
    /\ {ltcp_socket, successor_socket} \subseteq Fd \cup {error_return}
    /\ clk_index \in 0 .. Cardinality(Client)
    /\ client \in [Client -> {"new", "connected", "registered", "gone"}]
    /\ joined \subseteq Peer
    /\ astray \subseteq Client /\ missed \subseteq Client
    /\ spent \in [ends : 0 .. MaxEnds, neighbour : 0 .. MaxNeighbour,
                  leaders : Nat, mistaken : Nat, rejected : Nat, unanswered : Nat]
    /\ lst[1].leader \/ (joined = {} /\ \A c \in Client : client[c] = "new")

Nothing == [ends |-> 0, neighbour |-> 0, leaders |-> 0, mistaken |-> 0, rejected |-> 0,
            unanswered |-> 0]

(* A server that leads from the start, or a follower: the connections of   *)
(* the leader, to the successor and of the predecessor came in this order. *)
Init ==
    /\ status = "up" /\ ended = {} /\ clk_index = 0 /\ joined = {}
    /\ client = [c \in Client |-> "new"]
    /\ astray = {} /\ missed = {}
    /\ spent = Nothing
    /\ \/ /\ conn = [f \in Fd |-> Free] /\ master = {} /\ ClientArray = << >>
          /\ lst = <<Self(TRUE)>>
          /\ ltcp_socket = error_return /\ successor_socket = error_return
       \/ /\ conn = [f \in Fd |-> CASE f = 1 -> Leader [] f = 2 -> Successor
                                   [] f = 3 -> Predecessor [] OTHER -> Free]
          /\ master = 1 .. 3
          /\ ClientArray = <<Slot(0, 1), Slot(0, 3)>>
          /\ lst = <<Self(FALSE), Entry(1, 1, TRUE), Entry(2, 2, FALSE)>>
          /\ ltcp_socket = 1 /\ successor_socket = 2

-----------------------------------------------------------------------------
Up == status = "up"
Registered == {c \in Client : client[c] = "registered"}
Connected == {c \in Client : client[c] = "connected"}
Leads == lst[1].leader
Open == {f \in Fd : conn[f] # Free}
LowestFree == Min(Fd \ Open)

(* The slots of ClientArray with this descriptor, and with this ID.        *)
SlotsOf(f) == {n \in DOMAIN ClientArray : ClientArray[n].sock = f}
SlotsWithId(i) == {n \in DOMAIN ClientArray : ClientArray[n].id = i}

Full == Len(ClientArray) = MAX_CONNECTION

(* accept_new_client(): main() accepts first in a round of select(), which *)
(* had no closed descriptor in its set.  At the limit the connection is    *)
(* closed, but its number is in the set already.                           *)
accept_new_client(k) ==
    LET f == LowestFree IN
    /\ Up /\ Open # Fd /\ master \subseteq Open
    /\ master' = master \cup {f}
    /\ conn' = IF Full THEN conn ELSE [conn EXCEPT ![f] = k]
    /\ ClientArray' = IF Full THEN ClientArray ELSE Append(ClientArray, Slot(0, f))
    /\ UNCHANGED <<status, ended, lst, ltcp_socket, successor_socket, joined, chat>>

Rejected(s) == [s EXCEPT !.rejected = @ + (IF Full THEN 1 ELSE 0)]

(* connect_toserver() in the client, after new_client().                   *)
ClientConnects(c) ==
    /\ client[c] = "new" /\ Leads
    /\ accept_new_client(<<"client", c>>)
    /\ client' = [client EXCEPT ![c] = IF Full THEN "gone" ELSE "connected"]
    /\ spent' = Rejected(spent)

(* A leader has named this server to another predecessor, or has been told *)
(* by WHO_IS_LEADER that this server knows nobody: one leader answers.     *)
NeighbourConnects(k) ==
    /\ ~Leads /\ spent.neighbour < MaxNeighbour
    /\ k = Leader => Len(lst) = 1 /\ \A f \in Fd : conn[f] # Leader
    /\ accept_new_client(k)
    /\ spent' = Rejected([spent EXCEPT !.neighbour = @ + 1])
    /\ UNCHANGED client

Reads(f) == Up /\ f \in (Open \cap master) \ ended

(* UPDATE_FROM_LEADER and KNOW_NEW_LEADER: the new connection is opened    *)
(* before the old number is closed, whatever is behind it by now.          *)
NewSuccessor(l) ==
    LET f == LowestFree
        old == IF Len(l) > 2 THEN {successor_socket} ELSE {}
    IN
    /\ Open # Fd
    /\ lst' = append_server(IF Len(l) > 2 THEN delete_server(l, l[3].id) ELSE l,
                            Entry(2, f, FALSE))
    /\ conn' = [g \in Fd |-> IF g = f THEN Successor
                             ELSE IF g \in old THEN Free ELSE conn[g]]
    /\ ended' = ended \ old
    /\ master' = (master \ old) \cup {f}
    /\ successor_socket' = f

RecvUpdate ==
    /\ ~Leads /\ Reads(ltcp_socket) /\ spent.neighbour < MaxNeighbour
    /\ NewSuccessor(lst)
    /\ spent' = [spent EXCEPT !.neighbour = @ + 1]
    /\ UNCHANGED <<status, ClientArray, ltcp_socket, client, joined, chat>>

(* The new leader's answer, which names a successor if there is another.   *)
RecvKnow(f) ==
    /\ Reads(f) /\ conn[f] = Leader /\ Len(lst) = 1
    /\ ltcp_socket' = f
    /\ LET l == append_server(lst, Entry(1, f, TRUE)) IN
       \/ NewSuccessor(l)
       \/ lst' = l /\ UNCHANGED <<conn, ended, master, successor_socket>>
    /\ UNCHANGED <<status, ClientArray, client, joined, spent, chat>>

(* The process is at its end; what it has kept is of no use.               *)
Dies(how) ==
    /\ status' = how
    /\ UNCHANGED <<conn, ended, master, ClientArray, lst, ltcp_socket,
                   successor_socket, client, joined, chat>>

(* Either message, when the successor that it names has died.              *)
NamedSuccessorDied(f) ==
    /\ ~Leads /\ Reads(f)
    /\ f = ltcp_socket \/ (conn[f] = Leader /\ Len(lst) = 1)
    /\ spent.ends < MaxEnds /\ spent' = [spent EXCEPT !.ends = @ + 1]
    /\ Dies("exited")

(* handle_mcast_receive(): the HEARTBEAT of a new leader, before its       *)
(* KNOW_NEW_LEADER, is compared with the leader of a list without one.     *)
RecvHeartbeat ==
    /\ Up /\ ~Leads /\ Len(lst) = 1
    /\ Dies("segv") /\ UNCHANGED spent

-----------------------------------------------------------------------------
(* The leader is given up once its connection has ended, never before.     *)
LeaderLost == Up /\ ~Leads /\ ltcp_socket = error_return

(* send_ele_msg(): without a successor the follower leads.                 *)
ClaimAlone ==
    /\ LeaderLost /\ Len(lst) = 2 /\ master \subseteq Open
    /\ lst' = <<Self(TRUE)>>
    /\ UNCHANGED <<status, conn, ended, master, ClientArray, ltcp_socket,
                   successor_socket, client, joined, spent, chat>>

(* A vote or a LEADER of the predecessor, which misses the leader too, is  *)
(* passed on through NULL by a follower that has lost its successor.       *)
RecvElectionAlone(f) ==
    /\ ~Leads /\ Reads(f) /\ conn[f] = Predecessor
    /\ ltcp_socket \notin Open \ ended
    /\ Len(lst) = 2 /\ successor_socket # error_return
    /\ Dies("segv") /\ UNCHANGED spent

(* Faulty: FD_CLR() is missing.                                            *)
ElectedWatching(leads) ==
    /\ LeaderLost /\ Len(lst) > 2
    /\ LET closed == {successor_socket, lst[3].sock} IN
       /\ conn' = [f \in Fd |-> IF f \in closed THEN Free ELSE conn[f]]
       /\ ended' = ended \ closed
       /\ master' = master
    /\ lst' = <<Self(leads)>>
    /\ successor_socket' = error_return
    /\ UNCHANGED <<status, ClientArray, ltcp_socket, client, joined, spent, chat>>

(* With one it wins the election, or asks for who has won: lcr_election()  *)
(* and handle_socket_change() take the leader and the successor off the    *)
(* list and disconnect the latter.                                         *)
Elected(leads) ==
    /\ LeaderLost /\ Len(lst) > 2
    /\ LET closed == {successor_socket, lst[3].sock} IN
       /\ conn' = [f \in Fd |-> IF f \in closed THEN Free ELSE conn[f]]
       /\ ended' = ended \ closed
       /\ master' = master \ closed
    /\ lst' = <<Self(leads)>>
    /\ successor_socket' = error_return
    /\ UNCHANGED <<status, ClientArray, ltcp_socket, client, joined, spent, chat>>

(* A send fails on a closed number, and on a connection that has been      *)
(* reset; on these it does not.                                            *)
Sound(f) == (Open \ ended) \cup {f}

(* Faulty: a server that follows takes in peers.                           *)
PeerJoinsAnyone(p) ==
    /\ Up /\ Open # Fd /\ p \notin joined /\ spent.unanswered = 0
    /\ LET f == LowestFree
           k == append_server_sorted(lst, Entry(p, f, FALSE))
           g == k[PredecessorInRing(p, k)].sock
       IN
       /\ lst' = k
       /\ conn' = [conn EXCEPT ![f] = <<"peer", p>>]
       /\ \/ (Len(k) > 2 => g \in Open \cup {f}) /\ master' = master \cup {f}
          \/ Len(k) > 2 /\ g \notin Sound(f) /\ UNCHANGED master
    /\ joined' = joined \cup {p}
    /\ UNCHANGED <<status, ended, ClientArray, ltcp_socket, successor_socket,
                   client, spent, chat>>

(* new_server() and ring_reconstruction(): the leader opens a connection   *)
(* to the peer, which main() watches unless the predecessor cannot be      *)
(* told.  mc_socket has a lower number than the clients and is read before *)
(* them in a round, so no index has failed to be sent.                     *)
PeerJoins(p) ==
    /\ Up /\ Leads /\ Open # Fd /\ p \notin joined /\ spent.unanswered = 0
    /\ LET f == LowestFree
           k == append_server_sorted(lst, Entry(p, f, FALSE))
           g == k[PredecessorInRing(p, k)].sock
       IN
       /\ lst' = k
       /\ conn' = [conn EXCEPT ![f] = <<"peer", p>>]
       /\ \/ (Len(k) > 2 => g \in Open \cup {f}) /\ master' = master \cup {f}
          \/ Len(k) > 2 /\ g \notin Sound(f) /\ UNCHANGED master
    /\ joined' = joined \cup {p}
    /\ UNCHANGED <<status, ended, ClientArray, ltcp_socket, successor_socket,
                   client, spent, chat>>

(* Faulty: the last peer with the number goes.                             *)
EvictSilentLast(n) ==
    /\ Up /\ Leads /\ n \in 2 .. Len(lst) /\ master \subseteq Open
    /\ ~\E f \in master \ ended : conn[f] = <<"peer", lst[n].id>>
    /\ LET m == Max(ist_peer_server(lst[n].sock, lst))
           k == RemoveAt(lst, m)
           p == lst[IF m = 2 THEN Len(lst) ELSE m - 1]
       IN
       /\ lst' = k
       /\ \/ Len(k) > 2 /\ p.sock \notin Open \ ended /\ status' = "exited"
          \/ (Len(k) > 2 => p.sock \in Open) /\ UNCHANGED status
    /\ UNCHANGED <<conn, ended, master, ClientArray, ltcp_socket, successor_socket,
                   client, joined, spent, chat>>

(* Faulty: the peer itself is sent to.                                     *)
EvictSilentTellingIt(n) ==
    /\ Up /\ Leads /\ n \in 2 .. Len(lst) /\ master \subseteq Open
    /\ ~\E f \in master \ ended : conn[f] = <<"peer", lst[n].id>>
    /\ LET m == Min(ist_peer_server(lst[n].sock, lst))
           k == RemoveAt(lst, m)
           p == lst[m]
       IN
       /\ lst' = k
       /\ \/ Len(k) > 2 /\ p.sock \notin Open \ ended /\ status' = "exited"
          \/ (Len(k) > 2 => p.sock \in Open) /\ UNCHANGED status
    /\ UNCHANGED <<conn, ended, master, ClientArray, ltcp_socket, successor_socket,
                   client, joined, spent, chat>>

(* check_heartbeat_timeout(): a peer that has died, or is not watched, is  *)
(* looked for by its number, the first peer with that number goes, and     *)
(* update_ring() sends to the predecessor, if there are two others.  It    *)
(* runs after select(), which had no closed descriptor in its set.         *)
EvictSilent(n) ==
    /\ Up /\ Leads /\ n \in 2 .. Len(lst) /\ master \subseteq Open
    /\ ~\E f \in master \ ended : conn[f] = <<"peer", lst[n].id>>
    /\ LET m == Min(ist_peer_server(lst[n].sock, lst))
           k == RemoveAt(lst, m)
           p == lst[IF m = 2 THEN Len(lst) ELSE m - 1]
       IN
       /\ lst' = k
       /\ \/ Len(k) > 2 /\ p.sock \notin Open \ ended /\ status' = "exited"
          \/ (Len(k) > 2 => p.sock \in Open) /\ UNCHANGED status
    /\ UNCHANGED <<conn, ended, master, ClientArray, ltcp_socket, successor_socket,
                   client, joined, spent, chat>>
-----------------------------------------------------------------------------
(* A client, or a neighbour that dies, closes its end.                     *)
Ends(f) ==
    /\ Up /\ f \in Open \ ended
    /\ ended' = ended \cup {f}
    /\ \/ conn[f][1] = "client" /\ UNCHANGED spent
       \/ /\ conn[f][1] # "client" /\ spent.ends < MaxEnds
          /\ spent' = [spent EXCEPT !.ends = @ + 1]
    /\ UNCHANGED <<status, conn, master, ClientArray, lst, ltcp_socket,
                   successor_socket, client, joined, chat>>

(* Faulty: all that belongs to the number goes.                            *)
remove_client_unshifted(f) ==
    IF SlotsOf(f) = {} THEN ClientArray ELSE SubSeq(ClientArray, 1, Min(SlotsOf(f)) - 1)

(* The first slot with this number goes.                                   *)
remove_client_from_list(f) ==
    IF SlotsOf(f) = {} THEN ClientArray ELSE RemoveAt(ClientArray, Min(SlotsOf(f)))

(* Faulty: the NULL check is one element off.                              *)
StaleSuccessorLong(f) ==
    f # ltcp_socket /\ f = successor_socket /\ ~Leads /\ Len(lst) < 4

(* A follower takes whoever has the number in successor_socket for its     *)
(* successor, and it has none in the list.                                 *)
StaleSuccessor(f) ==
    f # ltcp_socket /\ f = successor_socket /\ ~Leads /\ Len(lst) < 3

(* handle_disconnection() and what handle_socket_change() does after it.   *)
(* The slot of the leader stays, so does that of a connection which was    *)
(* given a number that is still listed for a server.                       *)
ReadEnd(f) ==
    /\ Up /\ f \in ended \cap master
    /\ IF StaleSuccessor(f)
       THEN status' = "segv" /\ UNCHANGED <<conn, ended, master, ClientArray, lst,
                                            ltcp_socket, client, spent>>
       ELSE /\ \/ /\ f = ltcp_socket
                  /\ ltcp_socket' = error_return
                  /\ spent' = [spent EXCEPT !.leaders = @ + 1]
                  /\ UNCHANGED <<ClientArray, lst>>
               \/ /\ f # ltcp_socket /\ f = successor_socket /\ ~Leads
                  /\ lst' = delete_server(lst, lst[3].id)
                  /\ UNCHANGED <<ClientArray, ltcp_socket, spent>>
               \/ /\ f # ltcp_socket /\ (Leads \/ f # successor_socket)
                  /\ ist_peer_server(f, lst) # {}
                  /\ spent' = [spent EXCEPT !.mistaken =
                                  @ + (IF Accepted(conn[f]) THEN 1 ELSE 0)]
                  /\ UNCHANGED <<ClientArray, lst, ltcp_socket>>
               \/ /\ f # ltcp_socket /\ (Leads \/ f # successor_socket)
                  /\ ist_peer_server(f, lst) = {}
                  /\ ClientArray' = remove_client_from_list(f)
                  /\ UNCHANGED <<lst, ltcp_socket, spent>>
            /\ conn' = [conn EXCEPT ![f] = Free]
            /\ ended' = ended \ {f}
            /\ master' = master \ {f}
            /\ client' = [c \in Client |->
                             IF conn[f] = <<"client", c>> THEN "gone" ELSE client[c]]
            /\ UNCHANGED status
    /\ UNCHANGED <<successor_socket, joined, chat>>

(* A closed number in the set: select() fails and main() returns.          *)
SelectFails ==
    /\ Up /\ ~(master \subseteq Open)
    /\ status' = "select failed"
    /\ UNCHANGED <<conn, ended, master, ClientArray, lst, ltcp_socket,
                   successor_socket, client, joined, spent, chat>>

-----------------------------------------------------------------------------
(* handle_client_message(): what a client sends is read on its descriptor. *)
Speaks(c, f) == Reads(f) /\ conn[f] = <<"client", c>>

(* Faulty: the client is taken for the last that has connected.            *)
GetIndexOfLast(c) ==
    /\ client[c] = "connected"
    /\ \E f \in Fd :
          /\ Speaks(c, f)
          /\ ClientArray' = [n \in DOMAIN ClientArray |->
                IF n = Len(ClientArray) THEN Slot(ClientId[c], f) ELSE ClientArray[n]]
    /\ clk_index' = clk_index + 1
    /\ client' = [client EXCEPT ![c] = "registered"]
    /\ UNCHANGED <<status, conn, ended, master, lst, ltcp_socket, successor_socket,
                   joined, astray, missed, spent>>

(* GET_INDEX: every slot with the number gets the client's ID.             *)
GetIndex(c) ==
    /\ client[c] = "connected"
    /\ \E f \in Fd :
          /\ Speaks(c, f)
          /\ ClientArray' = [n \in DOMAIN ClientArray |->
                IF n \in SlotsOf(f) THEN Slot(ClientId[c], f) ELSE ClientArray[n]]
    /\ clk_index' = clk_index + 1
    /\ client' = [client EXCEPT ![c] = "registered"]
    /\ UNCHANGED <<status, conn, ended, master, lst, ltcp_socket, successor_socket,
                   joined, astray, missed, spent>>

(* The client has reset its connection: the index cannot be sent.  The     *)
(* number is closed; its slot and its place in the select set stay.        *)
GetIndexFails(c) ==
    /\ client[c] = "connected"
    /\ \E f \in Fd :
          /\ Speaks(c, f)
          /\ ClientArray' = [n \in DOMAIN ClientArray |->
                IF n \in SlotsOf(f) THEN Slot(ClientId[c], f) ELSE ClientArray[n]]
          /\ conn' = [conn EXCEPT ![f] = Free]
    /\ clk_index' = clk_index + 1
    /\ client' = [client EXCEPT ![c] = "gone"]
    /\ spent' = [spent EXCEPT !.unanswered = @ + 1]
    /\ UNCHANGED <<status, ended, master, lst, ltcp_socket, successor_socket,
                   joined, astray, missed>>

(* A message goes to the descriptors of these slots, whoever has them, and *)
(* is meant for these clients.                                             *)
Send(c, slots, for) ==
    LET to == {d \in Client : \E n \in slots : conn[ClientArray[n].sock] = <<"client", d>>}
    IN
    /\ client[c] = "registered"
    /\ \E f \in Fd : Speaks(c, f)
    /\ astray' = astray \cup (to \ for)
    /\ missed' = missed \cup (for \ to)
    /\ UNCHANGED <<status, conn, ended, master, ClientArray, lst, ltcp_socket,
                   successor_socket, clk_index, client, joined, spent>>

(* To an ID: to the first slot that has it.                                *)
ToClient(c, d) ==
    LET slots == SlotsWithId(ClientId[d]) IN
    Send(c, IF slots = {} THEN {} ELSE {Min(slots)}, {d} \cap Registered)

(* To the group: to all slots but those with the sender's ID.              *)
ToGroup(c) ==
    Send(c, DOMAIN ClientArray \ SlotsWithId(ClientId[c]), (Registered \cup Connected) \ {c})

-----------------------------------------------------------------------------
Next ==
    \/ \E c \in Client :
          ClientConnects(c) \/ GetIndex(c) \/ GetIndexFails(c) \/ ToGroup(c)
    \/ \E c, d \in Client : ToClient(c, d)
    \/ \E k \in {Leader, Predecessor} : NeighbourConnects(k)
    \/ RecvUpdate \/ RecvHeartbeat \/ ClaimAlone \/ SelectFails
    \/ \E leads \in BOOLEAN : Elected(leads)
    \/ \E p \in Peer : PeerJoins(p)
    \/ \E n \in DOMAIN lst : EvictSilent(n)
    \/ \E f \in Fd : \/ RecvKnow(f) \/ NamedSuccessorDied(f) \/ RecvElectionAlone(f)
                     \/ Ends(f) \/ ReadEnd(f)

Spec == Init /\ [][Next]_vars

-----------------------------------------------------------------------------
(* Each accepted connection that is open has a slot in ClientArray, and    *)
(* there are others for leaders that were lost, for those who were taken   *)
(* for a peer when they left, and for clients whose index was not sent     *)
(* only.                                                                   *)
SlotsAccounted ==
    LET accepted == {f \in Fd : Accepted(conn[f])} IN
    /\ \A f \in accepted : SlotsOf(f) # {}
    /\ Len(ClientArray) <= Cardinality(accepted) + spent.leaders + spent.mistaken
                              + spent.unanswered

(* A message reaches those it is for and nobody else, as long as no slot   *)
(* has been left behind with a number that another client is given.        *)
Routed == astray \cup missed # {} => spent.leaders + spent.mistaken > 0

(* What ends a server that suspects no living leader.  It reads through    *)
(* NULL after two ends: those of its successor and of its leader, or of    *)
(* the connection that was given the successor's number.  After one, that  *)
(* of its leader, it does so only when it has lost the election and hears  *)
(* the winner's HEARTBEAT before it hears of the winner.  It exits when it *)
(* follows and the successor that it is given has died; when it leads and  *)
(* update_ring() fails, on the number of another peer that has died: there *)
(* one death is not enough, unless a peer has joined behind the dead one   *)
(* and is not watched.  select() fails when a connection was rejected at   *)
(* the limit or an index could not be sent.                                *)
DeathNeedsFaults ==
    /\ status = "segv" =>
          spent.ends > 1 \/ (spent.leaders > 0 /\ ~Leads /\ Len(lst) = 1)
    /\ status = "exited" => \/ spent.ends > 1
                            \/ spent.ends > 0 /\ ~Leads
                            \/ \E f \in Open \ master : conn[f][1] = "peer"
    /\ status = "select failed" => spent.rejected + spent.unanswered > 0

(* A closed number gets into the set of select() in two ways only: a       *)
(* connection is rejected at the limit, or an index cannot be sent.  Until *)
(* then select() gets no closed descriptor, and every open one but those   *)
(* of peers whose predecessor had died.                                    *)
SelectSound ==
    Up /\ spent.rejected + spent.unanswered = 0 =>
        /\ master \subseteq Open
        /\ \A f \in Open \ master : conn[f][1] = "peer" /\ spent.ends > 0

(* A peer whose number another had: the leader, which lists its peers and  *)
(* no others, gives up a connected one only in place of a dead one with a  *)
(* greater ID.                                                             *)
PeersListed ==
    Leads => \A f \in master \ ended : \A p \in Peer :
        conn[f] = <<"peer", p>> /\ p \notin Ids(lst) =>
            \E q \in joined : /\ q > p
                              /\ \A g \in Open \ ended : conn[g] # <<"peer", q>>

(* "Server %d is dead", says check_heartbeat_timeout(), and gives up the   *)
(* server that it finds by number: a connected peer stays listed.          *)
ConnectedListed ==
    Leads => \A f \in master \ ended : \A p \in Peer :
        conn[f] = <<"peer", p>> => p \in Ids(lst)
=============================================================================
