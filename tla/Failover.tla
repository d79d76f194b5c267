------------------------------- MODULE Failover -------------------------------
(***************************************************************************)
(* The life of an established ring of servers when some of them die: the   *)
(* followers notice that the leader is silent, elect a new one, ask for it *)
(* by multicast, and the new leader rebuilds the ring; a leader gives up   *)
(* silent followers.  Handlers of election_lcr.c, socket_changes.c,        *)
(* disconnection_handler.c and multicast.c, as main() of server_s.c calls  *)
(* them, on the lists of server_struct.c.                                  *)
(*                                                                         *)
(* One action is one call of a handler, from reading a message to the end  *)
(* of what it sends.  Time is abstracted: a timeout expires when its       *)
(* heartbeats cannot arrive any more.                                      *)
(***************************************************************************)
EXTENDS ServerList

CONSTANTS
    Server,      \* the servers, each named by its ID
    OldLeader,   \* the one that leads initially
    Mortal,      \* the servers that may crash
    MaxCrash,    \* bound: crashes
    MaxRepeat,   \* bound: votes sent again because the leader stays silent
    MaxLoss,     \* bound: WHO_IS_LEADER datagrams lost
    MaxBeats     \* bound: heartbeats multicast

ASSUME ServerAssumption ==
    /\ Server \subseteq Nat \ {0} /\ IsFiniteSet(Server) /\ OldLeader \in Server
    /\ Mortal \subseteq Server
ASSUME BoundAssumption == {MaxCrash, MaxRepeat, MaxLoss, MaxBeats} \subseteq Nat

VARIABLES
    status,       \* "up", or how the server died: see Death
    lst,          \* connected_peers: the server itself, then see Entry
    participant,  \* the global of election_lcr.c
    ltcp,         \* ltcp_socket: its kind and the server at its other end
    succ,         \* successor_socket: the server at its other end
    chan,         \* what is in flight on each connection, see Conn
    mc,           \* datagrams at the multicast socket
    spent         \* how much of each bound is used

vars == <<status, lst, participant, ltcp, succ, chan, mc, spent>>
locals == <<lst, participant, ltcp, succ>>

NULL == 0              \* the ID that no server draws
NoConn == <<"none", NULL>>

(* A server dies by a crash, at a NULL dereference, by its own exit(1), or *)
(* by the signal of a second write to a connection that was reset.         *)
Death == {"crashed", "segv", "exited", "sigpipe"}

(* Connections are named by who wrote to the socket, which one: a server's *)
(* connection to its successor ("ring"), a leader's to a follower ("lead", *)
(* or "old" once it has opened another) and the same from the follower's   *)
(* side ("up").  Successive ring connections between two servers are one:  *)
(* the next is opened long after the last message of the previous.         *)
Link == {"ring", "lead", "old", "up"}
Conn == {c \in Link \X Server \X Server : c[2] # c[3]}

(* An entry's socket is the listening one of the head, a connection, or a  *)
(* descriptor that was closed when the end of its connection was read;     *)
(* "heard" is FALSE when the connection never got into the select set.     *)
Sock == Link \cup {"listen", "closed"}
Entry(id, leader, sock) ==
    [id |-> id, leader |-> leader, sock |-> sock, heard |-> TRUE]

Message ==
    [kind : {"VOTE", "LEADER"}, id : Server]
        \cup [kind : {"KNOW_NEW_LEADER"}, leader : Server, succ : Server \cup {NULL}]
        \cup [kind : {"UPDATE_FROM_LEADER"}, succ : Server]
Datagram == [kind : {"WHO_IS_LEADER", "HEARTBEAT"}, id : Server]

Vote(s)    == [kind |-> "VOTE", id |-> s]
Leader(s)  == [kind |-> "LEADER", id |-> s]
Know(l, s) == [kind |-> "KNOW_NEW_LEADER", leader |-> l, succ |-> s]
Update(s)  == [kind |-> "UPDATE_FROM_LEADER", succ |-> s]
Who(s)     == [kind |-> "WHO_IS_LEADER", id |-> s]
Beat(s)    == [kind |-> "HEARTBEAT", id |-> s]

(* Every variable has its type; in particular no server takes for its      *)
(* successor, or lists, the NULL that KNOW_NEW_LEADER may carry.           *)
TypeOK ==
    /\ status \in [Server -> {"up"} \cup Death]
    /\ lst \in [Server -> Seq([id : Server, leader : BOOLEAN, sock : Sock, heard : BOOLEAN])]
    /\ participant \in [Server -> BOOLEAN]
    /\ ltcp \in [Server -> (Link \X Server) \cup {NoConn}]
    /\ succ \in [Server -> Server \cup {NULL}]
    /\ chan \in [Conn -> Seq(Message)]
    /\ mc \in [Server -> SUBSET Datagram]
    /\ spent \in [crash : 0 .. MaxCrash, repeat : 0 .. MaxRepeat,
                  loss : 0 .. MaxLoss, beats : 0 .. MaxBeats]

-----------------------------------------------------------------------------
(* The ring that the servers have built when they joined one by one.       *)

Follower == Server \ {OldLeader}

FollowerList(f) ==
    <<Entry(f, FALSE, "listen"), Entry(OldLeader, TRUE, "up")>> \o
        IF Follower = {f} THEN << >>
        ELSE <<Entry(NextOf(f, Follower), FALSE, "ring")>>

(* The followers in the order of their IDs.                                *)
InOrder == CHOOSE f \in [1 .. Cardinality(Follower) -> Follower] :
               \A i, j \in DOMAIN f : i < j => f[i] < f[j]

LeaderList ==
    <<Entry(OldLeader, TRUE, "listen")>> \o
        [i \in DOMAIN InOrder |-> Entry(InOrder[i], FALSE, "lead")]

Init ==
    /\ status = [s \in Server |-> "up"]
    /\ lst = [s \in Server |-> IF s = OldLeader THEN LeaderList ELSE FollowerList(s)]
    /\ participant = [s \in Server |-> FALSE]
    /\ ltcp = [s \in Server |-> IF s = OldLeader THEN NoConn ELSE <<"lead", OldLeader>>]
    /\ succ = [s \in Server |-> IF s = OldLeader \/ Follower = {s} THEN NULL
                                ELSE NextOf(s, Follower)]
    /\ chan = [c \in Conn |-> << >>]
    /\ mc = [s \in Server |-> {}]
    /\ spent = [crash |-> 0, repeat |-> 0, loss |-> 0, beats |-> 0]

-----------------------------------------------------------------------------
Up(s) == status[s] = "up"
Leads(s) == lst[s][1].leader
Claimed(l) == [l EXCEPT ![1].leader = TRUE]
Alone(s) == Len(lst[s]) = 1          \* connected_peers->next == NULL
NoSecond(s) == Len(lst[s]) <= 2      \* connected_peers->next->next == NULL

(* send() on the socket of entry e: nobody reads what goes to a dead       *)
(* server, and a closed descriptor sends nothing.  A vote that fails to be *)
(* sent is no different: lcr_election() does nothing else with it.         *)
Sent(ch, s, e, msg) ==
    IF e.sock \in Link
    THEN [ch EXCEPT ![<<e.sock, s, e.id>>] = Append(@, msg)] ELSE ch

(* sendto() on the multicast socket, whose loopback is off.                *)
Multicast(s, d) ==
    mc' = [t \in Server |-> IF t # s /\ Up(t) THEN mc[t] \cup {d} ELSE mc[t]]

(* A process ends; what it was sent is lost, what it sent can be read.     *)
Die(s, how) ==
    /\ status' = [status EXCEPT ![s] = how]
    /\ chan' = [c \in Conn |-> IF c[3] = s THEN << >> ELSE chan[c]]
    /\ mc' = [mc EXCEPT ![s] = {}]
    /\ UNCHANGED locals

NullDeref(s) == Die(s, "segv") /\ UNCHANGED spent
Exit(s)      == Die(s, "exited") /\ UNCHANGED spent

Crash(s) ==
    /\ s \in Mortal /\ Up(s) /\ spent.crash < MaxCrash
    /\ spent' = [spent EXCEPT !.crash = @ + 1]
    /\ Die(s, "crashed")

-----------------------------------------------------------------------------
(* check_leader_timeout().  The entry after the head is taken for the      *)
(* leader; its heartbeats arrive by multicast while it leads somebody.     *)

LeaderSilent(n) ==
    LET l == lst[n][2].id IN ~(Up(l) /\ Leads(l) /\ ~Alone(l))

TimesOut(n) == Up(n) /\ ~Leads(n) /\ ~Alone(n) /\ LeaderSilent(n)

(* send_ele_msg() without a successor.                                     *)
ClaimAlone(n) ==
    /\ TimesOut(n) /\ NoSecond(n)
    /\ lst' = [lst EXCEPT ![n] = delete_server(Claimed(@), @[2].id)]
    /\ UNCHANGED <<status, participant, ltcp, succ, chan, mc, spent>>

(* With one it sends the vote, and main() a second copy, see Election.     *)
StartVote(n) ==
    /\ TimesOut(n) /\ ~NoSecond(n) /\ ~participant[n]
    /\ participant' = [participant EXCEPT ![n] = TRUE]
    /\ chan' = Sent(Sent(chan, n, lst[n][3], Vote(n)), n, lst[n][3], Vote(n))
    /\ UNCHANGED <<status, lst, ltcp, succ, mc, spent>>

RepeatVote(n) ==
    /\ TimesOut(n) /\ ~NoSecond(n) /\ participant[n]
    /\ spent.repeat < MaxRepeat
    /\ spent' = [spent EXCEPT !.repeat = @ + 1]
    /\ chan' = Sent(chan, n, lst[n][3], Vote(n))
    /\ UNCHANGED <<status, lst, participant, ltcp, succ, mc>>

-----------------------------------------------------------------------------
(* handle_socket_change() reads a message from connection c.               *)

Reads(v, c, kind) ==
    /\ c[3] = v /\ Up(v) /\ chan[c] # << >> /\ Head(chan[c]).kind = kind

Consumed(c) == [chan EXCEPT ![c] = Tail(@)]

Ignore(c) == chan' = Consumed(c) /\ UNCHANGED <<status, locals, mc, spent>>

Forward(v, c, msg) == chan' = Sent(Consumed(c), v, lst[v][3], msg)

(* send() to the successor may fail, if the connection has been reset, and *)
(* does on a closed descriptor.                                            *)
SendFails(v) == lst[v][3].sock = "closed" \/ ~Up(lst[v][3].id)

(* lcr_election("VOTE", ...)                                               *)
RecvVoteGreater(v, c) ==
    /\ Reads(v, c, "VOTE") /\ Head(chan[c]).id > v
    /\ \/ Alone(v) /\ Ignore(c)
       \/ Len(lst[v]) = 2 /\ NullDeref(v)
       \/ /\ ~NoSecond(v)
          /\ Forward(v, c, Head(chan[c]))
          /\ UNCHANGED <<status, locals, mc, spent>>

(* Faulty variant: a smaller vote goes on beside the server's own.         *)
RecvVoteSmallerPassedOn(v, c) ==
    /\ Reads(v, c, "VOTE") /\ Head(chan[c]).id < v
    /\ ~NoSecond(v)
    /\ Forward(v, c, Head(chan[c]))
    /\ UNCHANGED <<status, locals, mc, spent>>

RecvVoteSmaller(v, c) ==
    /\ Reads(v, c, "VOTE") /\ Head(chan[c]).id < v
    /\ \/ (Alone(v) \/ participant[v]) /\ Ignore(c)
       \/ Len(lst[v]) = 2 /\ ~participant[v] /\ NullDeref(v)
       \/ /\ ~NoSecond(v) /\ ~participant[v]
          /\ participant' = [participant EXCEPT ![v] = TRUE]
          /\ Forward(v, c, Vote(v))
          /\ UNCHANGED <<status, lst, ltcp, succ, mc, spent>>

(* What the winner, and whoever hears of it, forgets: the two entries      *)
(* after the head, and the connection to the successor, unless send()      *)
(* fails.                                                                  *)
Detached(l) == delete_server(delete_server(l, l[2].id), l[3].id)

RecvVoteMine(v, c) ==
    /\ Reads(v, c, "VOTE") /\ Head(chan[c]).id = v
    /\ \/ Leads(v) /\ Ignore(c)
       \/ ~Leads(v) /\ NoSecond(v) /\ NullDeref(v)
       \/ /\ ~Leads(v) /\ ~NoSecond(v)
          /\ participant' = [participant EXCEPT ![v] = TRUE]
          /\ lst' = [lst EXCEPT ![v] = Detached(Claimed(@))]
          /\ succ' = [succ EXCEPT ![v] = NULL]
          /\ Forward(v, c, Leader(v))
          /\ UNCHANGED <<status, ltcp, mc, spent>>
       \/ /\ ~Leads(v) /\ ~NoSecond(v) /\ SendFails(v)
          /\ participant' = [participant EXCEPT ![v] = TRUE]
          /\ lst' = [lst EXCEPT ![v] = Claimed(@)]
          /\ Forward(v, c, Leader(v))
          /\ UNCHANGED <<status, ltcp, succ, mc, spent>>

(* lcr_election("LEADER", ...)                                             *)
RecvLeaderMine(v, c) ==
    /\ Reads(v, c, "LEADER") /\ Head(chan[c]).id = v
    /\ participant' = [participant EXCEPT ![v] = FALSE]
    /\ chan' = Consumed(c)
    /\ UNCHANGED <<status, lst, ltcp, succ, mc, spent>>

(* Faulty variants: the server stays a participant, or does not ask for    *)
(* the leader.                                                             *)
RecvLeaderOtherStale(v, c) ==
    /\ Reads(v, c, "LEADER") /\ Head(chan[c]).id # v /\ ~NoSecond(v)
    /\ lst' = [lst EXCEPT ![v] = Detached(@)]
    /\ succ' = [succ EXCEPT ![v] = NULL]
    /\ Forward(v, c, Head(chan[c]))
    /\ Multicast(v, Who(v))
    /\ UNCHANGED <<status, participant, ltcp, spent>>

RecvLeaderOtherUnasked(v, c) ==
    /\ Reads(v, c, "LEADER") /\ Head(chan[c]).id # v /\ ~NoSecond(v)
    /\ participant' = [participant EXCEPT ![v] = FALSE]
    /\ lst' = [lst EXCEPT ![v] = Detached(@)]
    /\ succ' = [succ EXCEPT ![v] = NULL]
    /\ Forward(v, c, Head(chan[c]))
    /\ UNCHANGED <<status, ltcp, mc, spent>>

(* The entry of the lost leader gets the ID of the new one; nobody is      *)
(* reached through its socket.                                             *)
Renamed(l, w) ==
    [l EXCEPT ![2] = [@ EXCEPT !.id = w, !.leader = TRUE, !.sock = "closed"]]

RecvLeaderOther(v, c) ==
    /\ Reads(v, c, "LEADER") /\ Head(chan[c]).id # v
    /\ \/ Alone(v) /\ Ignore(c)
       \/ Len(lst[v]) = 2 /\ NullDeref(v)
       \/ /\ ~NoSecond(v) /\ SendFails(v)
          /\ participant' = [participant EXCEPT ![v] = FALSE]
          /\ lst' = [lst EXCEPT ![v] = Renamed(@, Head(chan[c]).id)]
          /\ Forward(v, c, Head(chan[c]))
          /\ UNCHANGED <<status, ltcp, succ, mc, spent>>
       \/ /\ ~NoSecond(v) /\ lst[v][3].sock # "closed"
          /\ participant' = [participant EXCEPT ![v] = FALSE]
          /\ lst' = [lst EXCEPT ![v] = Detached(@)]
          /\ succ' = [succ EXCEPT ![v] = NULL]
          /\ Forward(v, c, Head(chan[c]))
          /\ Multicast(v, Who(v))
          /\ UNCHANGED <<status, ltcp, spent>>

-----------------------------------------------------------------------------
(* Faulty variant: the new successor's entry goes after the old one's.     *)
SucceededAfter(l, t) == append_server(l, Entry(t, FALSE, "ring"))

(* A message names the new successor t: the entry in its place, if any, is *)
(* replaced.                                                               *)
Succeeded(l, t) ==
    append_server(IF Len(l) > 2 THEN delete_server(l, l[3].id) ELSE l,
                  Entry(t, FALSE, "ring"))

(* UPDATE_FROM_LEADER is read on ltcp_socket only.                         *)
RecvUpdate(v, c) ==
    /\ Reads(v, c, "UPDATE_FROM_LEADER")
    /\ LET t == Head(chan[c]).succ IN
       \/ ltcp[v] # <<c[1], c[2]>> /\ Ignore(c)
       \/ ltcp[v] = <<c[1], c[2]>> /\ ~Up(t) /\ Exit(v)
       \/ ltcp[v] = <<c[1], c[2]>> /\ Up(t) /\ Alone(v) /\ NullDeref(v)
       \/ /\ ltcp[v] = <<c[1], c[2]>> /\ Up(t) /\ ~Alone(v)
          /\ lst' = [lst EXCEPT ![v] = Succeeded(@, t)]
          /\ succ' = [succ EXCEPT ![v] = t]
          /\ chan' = Consumed(c)
          /\ UNCHANGED <<status, participant, ltcp, mc, spent>>

(* Faulty variant: a successor is taken from the message though it names   *)
(* none.                                                                   *)
RecvKnowUnchecked(v, c) ==
    /\ Reads(v, c, "KNOW_NEW_LEADER")
    /\ LET msg == Head(chan[c])
           l == IF Alone(v) THEN append_server(lst[v], Entry(msg.leader, TRUE, "up"))
                ELSE lst[v]
       IN lst' = [lst EXCEPT ![v] = Succeeded(l, msg.succ)]
    /\ succ' = [succ EXCEPT ![v] = Head(chan[c]).succ]
    /\ ltcp' = [ltcp EXCEPT ![v] = <<c[1], c[2]>>]
    /\ chan' = Consumed(c)
    /\ UNCHANGED <<status, participant, mc, spent>>

(* KNOW_NEW_LEADER is read on any connection, which becomes ltcp_socket.   *)
RecvKnow(v, c) ==
    /\ Reads(v, c, "KNOW_NEW_LEADER")
    /\ LET msg == Head(chan[c])
           l == IF Alone(v) THEN append_server(lst[v], Entry(msg.leader, TRUE, "up"))
                ELSE lst[v]
       IN
       \/ msg.succ # NULL /\ ~Up(msg.succ) /\ Exit(v)
       \/ /\ msg.succ # NULL => Up(msg.succ)
          /\ lst' = [lst EXCEPT ![v] =
                        IF msg.succ = NULL THEN l ELSE Succeeded(l, msg.succ)]
          /\ succ' = [succ EXCEPT ![v] = IF msg.succ = NULL THEN @ ELSE msg.succ]
          /\ ltcp' = [ltcp EXCEPT ![v] = <<c[1], c[2]>>]
          /\ chan' = Consumed(c)
          /\ UNCHANGED <<status, participant, mc, spent>>

Receive(v, c) ==
    \/ RecvVoteGreater(v, c) \/ RecvVoteSmaller(v, c) \/ RecvVoteMine(v, c)
    \/ RecvLeaderMine(v, c) \/ RecvLeaderOther(v, c)
    \/ RecvUpdate(v, c) \/ RecvKnow(v, c)

-----------------------------------------------------------------------------
(* handle_mcast_receive().                                                 *)

Datagrams(v, d) == Up(v) /\ d \in mc[v]
Taken(v, d) == mc' = [mc EXCEPT ![v] = @ \ {d}]

(* A leader opens another connection to a server that it still lists: the  *)
(* entry keeps the first one, which is an old one from now on.             *)
Aged(l, a) ==
    [i \in DOMAIN l |-> IF i > 1 /\ l[i].id = a /\ l[i].sock = "lead"
                        THEN [l[i] EXCEPT !.sock = "old"] ELSE l[i]]

Reopened(v, a) ==
    IF server_info_exist(a, lst[v])
    THEN [chan EXCEPT ![<<"old", v, a>>] = @ \o chan[<<"lead", v, a>>],
                      ![<<"lead", v, a>>] = << >>]
    ELSE chan

(* Faulty variant: the predecessor of the new peer does not hear of it.    *)
ring_reconstruction_untold(v, a) ==
    LET l == append_server_sorted(Aged(lst[v], a), Entry(a, FALSE, "lead"))
        known == Know(v, IF Alone(v) THEN NULL ELSE l[get_successor(a, l)].id)
    IN
    /\ lst' = [lst EXCEPT ![v] = l]
    /\ chan' = Sent(Reopened(v, a), v, Entry(a, FALSE, "lead"), known)
    /\ UNCHANGED ltcp

(* ring_reconstruction(): the asker becomes a peer, hears of the leader    *)
(* and of its successor, and its predecessor hears of it.  When that last  *)
(* send() fails the asker's connection is never watched.                   *)
ring_reconstruction(v, a) ==
    LET l == append_server_sorted(Aged(lst[v], a), Entry(a, FALSE, "lead"))
        first == Alone(v)
        p == IF first THEN 1 ELSE PredecessorInRing(a, l)
        unwatched == ~first /\ l[p].sock = "closed"
        known == Know(v, IF first THEN NULL ELSE l[get_successor(a, l)].id)
        ch == Sent(Reopened(v, a), v, Entry(a, FALSE, "lead"), known)
    IN
    /\ lst' = [lst EXCEPT ![v] =
                  IF unwatched THEN [l EXCEPT ![Min(At(l, a))].heard = FALSE] ELSE l]
    /\ ltcp' = IF server_info_exist(a, lst[v]) /\ ltcp[a] = <<"lead", v>>
               THEN [ltcp EXCEPT ![a] = <<"old", v>>] ELSE ltcp
    /\ chan' = IF Len(l) > 2 THEN Sent(ch, v, l[p], Know(v, a)) ELSE ch

(* Faulty variant: a leader that has a peer answers no more.               *)
RecvWhoOnce(v, d) ==
    /\ Datagrams(v, d) /\ d.kind = "WHO_IS_LEADER"
    /\ Taken(v, d)
    /\ \/ Leads(v) /\ Up(d.id) /\ Alone(v) /\ ring_reconstruction(v, d.id)
       \/ ~(Leads(v) /\ Up(d.id) /\ Alone(v)) /\ UNCHANGED <<lst, ltcp, chan>>
    /\ UNCHANGED <<status, participant, succ, spent>>

RecvWho(v, d) ==
    /\ Datagrams(v, d) /\ d.kind = "WHO_IS_LEADER"
    /\ Taken(v, d)
    /\ \/ Leads(v) /\ Up(d.id) /\ ring_reconstruction(v, d.id)
       \/ ~(Leads(v) /\ Up(d.id)) /\ UNCHANGED <<lst, ltcp, chan>>
    /\ UNCHANGED <<status, participant, succ, spent>>

RecvHeartbeat(v, d) ==
    /\ Datagrams(v, d) /\ d.kind = "HEARTBEAT"
    /\ \/ ~Leads(v) /\ Alone(v) /\ NullDeref(v)
       \/ /\ Leads(v) \/ ~Alone(v)
          /\ Taken(v, d)
          /\ UNCHANGED <<status, locals, chan, spent>>

RecvDatagram(v, d) == RecvWho(v, d) \/ RecvHeartbeat(v, d)

(* The leader's heartbeat timer.                                           *)
Heartbeat(l) ==
    /\ Up(l) /\ Leads(l) /\ ~Alone(l) /\ spent.beats < MaxBeats
    /\ spent' = [spent EXCEPT !.beats = @ + 1]
    /\ Multicast(l, Beat(l))
    /\ UNCHANGED <<status, locals, chan>>

(* UDP loses a datagram for one receiver.                                  *)
Lose(v, d) ==
    /\ d \in mc[v] /\ d.kind = "WHO_IS_LEADER" /\ spent.loss < MaxLoss
    /\ spent' = [spent EXCEPT !.loss = @ + 1]
    /\ Taken(v, d)
    /\ UNCHANGED <<status, locals, chan>>

-----------------------------------------------------------------------------
(* handle_disconnection().  A leader does nothing on the end of its        *)
(* connection to a peer but close it; the end of ltcp_socket leaves no     *)
(* trace at all.                                                           *)

SuccessorGone(n) ==
    /\ Up(n) /\ ~Leads(n) /\ succ[n] # NULL /\ ~Up(succ[n])
    /\ \/ NoSecond(n) /\ NullDeref(n)
       \/ /\ ~NoSecond(n)
          /\ lst' = [lst EXCEPT ![n] = delete_server(@, @[3].id)]
          /\ succ' = [succ EXCEPT ![n] = NULL]
          /\ UNCHANGED <<status, participant, ltcp, chan, mc, spent>>

PeerGone(s, i) ==
    /\ Up(s) /\ Leads(s) /\ i \in 2 .. Len(lst[s])
    /\ lst[s][i].sock \in Link /\ ~Up(lst[s][i].id)
    /\ lst' = [lst EXCEPT ![s][i].sock = "closed"]
    /\ UNCHANGED <<status, participant, ltcp, succ, chan, mc, spent>>

(* Until then, writing twice raises SIGPIPE, which nothing catches.  A     *)
(* follower also writes heartbeats, which are not in chan.                 *)
BrokenPipe(s, i) ==
    LET e == lst[s][i] IN
    /\ Up(s) /\ i > 1 /\ e.sock \in Link /\ ~Up(e.id)
    /\ Len(chan[<<e.sock, s, e.id>>]) > IF Leads(s) THEN 1 ELSE 0
    /\ Die(s, "sigpipe") /\ UNCHANGED spent

(* The end of the connections to a dead server has been read by all that   *)
(* would read it, which takes them 100 ms, a timeout 8 s.                  *)
Noticed(p) ==
    \A n \in Server : Up(n) =>
        /\ ~Leads(n) => succ[n] # p
        /\ Leads(n) => \A i \in At(lst[n], p) : lst[n][i].sock = "closed"

(* check_heartbeat_timeout().  A follower sends its heartbeats to those it *)
(* lists, and reads all that it is sent long before it is given up.        *)
PeerSilent(s, i) ==
    LET p == lst[s][i].id IN
    \/ ~Up(p) /\ Noticed(p)
    \/ /\ Up(p) /\ \A k \in Link : chan[<<k, s, p>>] = << >>
       /\ ~(~Leads(p) /\ \E j \in At(lst[p], s) :
                             lst[p][j].sock = "ring" \/ lst[s][i].heard)

(* Faulty variant: the predecessor is sent to the peer that is given up.   *)
EvictSilentNamingIt(s, i) ==
    /\ Up(s) /\ Leads(s) /\ i \in 2 .. Len(lst[s]) /\ PeerSilent(s, i)
    /\ LET p == lst[s][i].id
           l == delete_server(lst[s], p)
       IN
       /\ lst' = [lst EXCEPT ![s] = l]
       /\ chan' = IF Len(l) > 2
                  THEN Sent(chan, s, lst[s][PredecessorInRing(p, lst[s])], Update(p))
                  ELSE chan
    /\ UNCHANGED <<status, participant, ltcp, succ, mc, spent>>

(* ring_status(): the peer is forgotten and its predecessor gets its       *)
(* successor, unless fewer than two are left.                              *)
EvictSilent(s, i) ==
    /\ Up(s) /\ Leads(s) /\ i \in 2 .. Len(lst[s]) /\ PeerSilent(s, i)
    /\ LET l == delete_server(lst[s], lst[s][i].id)
           pred == lst[s][PredecessorInRing(lst[s][i].id, lst[s])]
           t == l[IF i > Len(l) THEN 2 ELSE i].id
       IN
       \/ Len(l) > 2 /\ pred.sock = "closed" /\ Exit(s)
       \/ /\ Len(l) <= 2 \/ pred.sock # "closed"
          /\ lst' = [lst EXCEPT ![s] = l]
          /\ chan' = IF Len(l) > 2 THEN Sent(chan, s, pred, Update(t)) ELSE chan
          /\ UNCHANGED <<status, participant, ltcp, succ, mc, spent>>

-----------------------------------------------------------------------------
Next ==
    \/ \E s \in Server :
          \/ Crash(s) \/ Heartbeat(s)
          \/ ClaimAlone(s) \/ StartVote(s) \/ RepeatVote(s)
          \/ SuccessorGone(s)
    \/ \E v \in Server, c \in Conn : Receive(v, c)
    \/ \E v \in Server : \E d \in mc[v] : RecvDatagram(v, d) \/ Lose(v, d)
    \/ \E s \in Server : \E i \in DOMAIN lst[s] :
          PeerGone(s, i) \/ BrokenPipe(s, i) \/ EvictSilent(s, i)

(* A server that is up polls every 100 ms and looks at its heartbeat timer *)
(* every 4 s: what it can read it reads, and what has timed out it finds.  *)
(* Crashes, losses, heartbeats and broken pipes need not happen.           *)
Fairness ==
    /\ \A s \in Server :
          /\ WF_vars(ClaimAlone(s) \/ StartVote(s))
          /\ WF_vars(SuccessorGone(s))
          /\ WF_vars(\E c \in Conn : Receive(s, c))
          /\ WF_vars(\E d \in mc[s] : RecvDatagram(s, d))
          /\ WF_vars(\E i \in DOMAIN lst[s] : PeerGone(s, i))
          /\ WF_vars(\E i \in DOMAIN lst[s] : EvictSilent(s, i))

Spec == Init /\ [][Next]_vars
FairSpec == Spec /\ Fairness

-----------------------------------------------------------------------------
(* The server that a follower sends its votes to is the one whose          *)
(* disconnection it would notice: handle_socket_change() changes the list  *)
(* and successor_socket together.                                          *)
SuccessorWatched ==
    \A n \in Server :
        Up(n) /\ ~Leads(n) /\ Len(lst[n]) > 2 => lst[n][3].id = succ[n]

(* Nothing is left to read and no timeout is due.                          *)
Settled ==
    /\ \A c \in Conn : Up(c[3]) => chan[c] = << >>
    /\ \A s \in Server : mc[s] = {}
    /\ ~ENABLED (\E s \in Server :
          \/ ClaimAlone(s) \/ StartVote(s) \/ SuccessorGone(s)
          \/ \E i \in DOMAIN lst[s] : PeerGone(s, i) \/ EvictSilent(s, i))

(* What the leader's list says is what the followers do: each has its      *)
(* connection to the leader and sends to the next greater peer.            *)
RingFollowsList ==
    Settled => \A w \in Server : Up(w) /\ Leads(w) =>
        \A p \in Ids(lst[w]) :
            /\ ltcp[p] = <<"lead", w>>
            /\ Cardinality(Ids(lst[w])) > 1 => succ[p] = NextOf(p, Ids(lst[w]))

(* Everybody who is up is in one ring.                                     *)
Reunited ==
    \E w \in Server :
        /\ Up(w) /\ Leads(w) /\ Ids(lst[w]) = {s \in Server : Up(s)} \ {w}
        /\ \A p \in Ids(lst[w]) : ~Leads(p) /\ ltcp[p] = <<"lead", w>>

(* WHO_IS_LEADER is multicast once: after one crash each lost one leaves   *)
(* at most one server behind that nobody knows and that knows nobody.      *)
StrandedByLoss ==
    spent.crash < 2 /\ Settled => Cardinality({s \in Server : Up(s) /\ ~Leads(s) /\ Alone(s)}) <= spent.loss

(* One crash, or one heartbeat at a bad moment, takes no other server with *)
(* it through a NULL dereference or an exit(1) of the program.             *)
OneFaultOneDeath ==
    spent.crash + spent.beats < 2 => \A s \in Server : status[s] \notin {"segv", "exited"}

(* After the leader's death the servers that are left form a ring again.   *)
Reunite == <>[]Reunited

-----------------------------------------------------------------------------
(* While only the old leader dies, the followers run the election of       *)
(* module Election, each with the list that the old ring left it.          *)

RingId == [n \in 0 .. Cardinality(Follower) - 1 |-> InOrder[n + 1]]
OfRing(f) == [n \in DOMAIN RingId |-> f[RingId[n]]]

InOldRing(s) == Len(lst[s]) > 1 /\ lst[s][2].id = OldLeader
Before(s) == CHOOSE t \in Follower : NextOf(t, Follower) = s

RingLeads == [n \in DOMAIN RingId |-> Leads(RingId[n])]
RingPeers ==
    [n \in DOMAIN RingId |->
        IF ~InOldRing(RingId[n]) THEN "alone"
        ELSE IF NoSecond(RingId[n]) THEN "cut" ELSE "ring"]
RingInbox(ch) ==
    [n \in DOMAIN RingId |->
        LET s == RingId[n] IN
        IF Before(s) = s THEN << >> ELSE ch[<<"ring", Before(s), s>>]]
RingAsking == {n \in DOMAIN RingId : ~InOldRing(RingId[n]) /\ ~Leads(RingId[n])}

Election == INSTANCE Election WITH
    N <- Cardinality(Follower), Id <- RingId, MaxCrash <- 0,
    status <- OfRing(status), participant <- OfRing(participant),
    leader <- RingLeads, peers <- RingPeers, inbox <- RingInbox(chan),
    asking <- RingAsking, repeats <- spent.repeat

FollowersUp == \A s \in Follower : Up(s)

(* Failover implements Election: as long as no follower dies, the lists,   *)
(* connections and multicasts of the servers take no step that the         *)
(* election on the old ring does not.                                      *)
ElectionSpec ==
    /\ Election!Init
    /\ [][FollowersUp' => Election!Next \/ UNCHANGED Election!vars]_vars
=============================================================================
