------------------------------ MODULE Discovery ------------------------------
(***************************************************************************)
(* Servers that start, and find a leader or become one:                    *)
(* service_discovery(), what main() makes of its result, and new_server(), *)
(* with which a leader takes in a server that has multicast                *)
(* LEADER_DISCOVERY.  The leader also gives up the peers that do not send  *)
(* it heartbeats (ring_status()).                                          *)
(*                                                                         *)
(* One round of select() in service_discovery() is one action, and so is   *)
(* one call of a handler of main()'s loop.  A process that dies stops the  *)
(* model: what follows a death is in module Failover.                      *)
(***************************************************************************)
EXTENDS ServerList

CONSTANTS
    Server,      \* the servers, before they have drawn their IDs
    Nobody,      \* the absence of a server
    Id,          \* the IDs that may be drawn
    MaxRush,     \* bound: starts while others wait and nobody leads
    MaxLate,     \* bound: answers that a leader takes over a second for
    MaxPassed,   \* bound: newcomers that leave the answer unread
    MaxLoss,     \* bound: LEADER_DISCOVERY datagrams lost
    MaxSame,     \* bound: servers that draw the ID of another
    MaxBeats     \* bound: heartbeats sent to a newcomer

ASSUME ServerAssumption == Nobody \notin Server /\ IsFiniteSet(Server)
ASSUME IdAssumption == Id \subseteq Nat \ {0}
ASSUME BoundAssumption ==
    {MaxRush, MaxLate, MaxPassed, MaxLoss, MaxSame, MaxBeats} \subseteq Nat

VARIABLES
    phase,     \* "off", "waits" in service_discovery(), "leads", "follows", "down"
    id,        \* the ID drawn, 0 before
    lst,       \* connected_peers, see Entry
    attempt,   \* rounds of select() that service_discovery() has used
    box,       \* connections to the listening socket, in order of arrival
    taken,     \* how many of them service_discovery() has accepted
    ltcp,      \* ltcp_socket of a follower: its place in box, else 0
    succ,      \* successor_socket
    mc,        \* servers whose LEADER_DISCOVERY is at the multicast socket
    spent      \* how much of each bound is used

vars == <<phase, id, lst, attempt, box, taken, ltcp, succ, mc, spent>>

(* A socket is named by who is at its other end and, on the side that      *)
(* connected, by its place in the other's box (0: connected when the other *)
(* had left service_discovery(), whose main loop accepts it).              *)
Entry(i, s, at) == [id |-> i, who |-> s, at |-> at]

(* successor_socket is open, or was closed at the other end, or is open    *)
(* but was accepted there by service_discovery() and never watched since.  *)
NoSucc == [who |-> Nobody, at |-> 0, is |-> "closed"]

Answer(t)  == [kind |-> "answer", succ |-> t]
Update(t)  == [kind |-> "UPDATE_FROM_LEADER", succ |-> t]
Heartbeat  == [kind |-> "HEARTBEAT", succ |-> Nobody]
EndOfFile  == [kind |-> "end", succ |-> Nobody]
Message == {Heartbeat, EndOfFile} \cup {Update(t) : t \in Server}
               \cup {Answer(t) : t \in Server \cup {Nobody}}

Waits(s)   == phase[s] = "waits"
Leads(s)   == phase[s] = "leads"
Follows(s) == phase[s] = "follows"

(* Every variable has its type; in particular nobody is told to connect to *)
(* Nobody, and a follower lists somebody, as handlers take for granted     *)
(* that read through connected_peers->next.                                *)
TypeOK ==
    /\ phase \in [Server -> {"off", "waits", "leads", "follows", "down"}]
    /\ id \in [Server -> Id \cup {0}]
    /\ lst \in [Server -> Seq([id : Id, who : Server, at : Nat])]
    /\ attempt \in [Server -> 0 .. 3]
    /\ box \in [Server -> Seq([from : Server, msgs : Seq(Message)])]
    /\ taken \in [Server -> Nat] /\ \A s \in Server : taken[s] <= Len(box[s])
    /\ ltcp \in [Server -> Nat] /\ \A s \in Server : ltcp[s] <= taken[s]
    /\ \A s \in Server : Follows(s) => Len(lst[s]) > 1
    /\ succ \in [Server -> [who : Server, at : Nat, is : {"open", "unread", "closed"}]
                           \cup {NoSucc}]
    /\ mc \in [Server -> SUBSET Server]
    /\ spent \in [rush : 0 .. MaxRush, late : 0 .. MaxLate, passed : 0 .. MaxPassed,
                  loss : 0 .. MaxLoss, same : 0 .. MaxSame, beats : 0 .. MaxBeats]

Init ==
    /\ phase = [s \in Server |-> "off"]
    /\ id = [s \in Server |-> 0]
    /\ lst = [s \in Server |-> << >>]
    /\ attempt = [s \in Server |-> 0]
    /\ box = [s \in Server |-> << >>]
    /\ taken = [s \in Server |-> 0]
    /\ ltcp = [s \in Server |-> 0]
    /\ succ = [s \in Server |-> NoSucc]
    /\ mc = [s \in Server |-> {}]
    /\ spent = [rush |-> 0, late |-> 0, passed |-> 0, loss |-> 0, same |-> 0, beats |-> 0]

-----------------------------------------------------------------------------
LeaderOf(s) == box[s][ltcp[s]].from
Alive == \A s \in Server : phase[s] # "down"

NullDeref(s) ==
    /\ phase' = [phase EXCEPT ![s] = "down"]
    /\ UNCHANGED <<id, lst, attempt, box, taken, ltcp, succ, mc, spent>>

(* setup_tcp_client(): the connection is in the backlog of the listening   *)
(* socket.  What comes on it matters only to service_discovery() and, from *)
(* the leader, to a follower.                                              *)
Connected(b, from, s) ==
    IF Waits(s) THEN [b EXCEPT ![s] = Append(@, [from |-> from, msgs |-> << >>])] ELSE b
PlaceAt(b, s) == IF Waits(s) THEN Len(b[s]) ELSE 0

Sent(b, s, at, msg) ==
    IF at > 0 /\ (Waits(s) \/ (Follows(s) /\ ltcp[s] = at))
    THEN [b EXCEPT ![s][at].msgs = Append(@, msg)] ELSE b

(* LEADER_DISCOVERY reaches everybody who has joined the multicast group.  *)
Multicast(s) ==
    mc' = [t \in Server |-> IF t # s /\ phase[t] # "off" THEN mc[t] \cup {s} ELSE mc[t]]

-----------------------------------------------------------------------------
(* A server draws its ID, joins the group and asks.  The generator of IDs  *)
(* is seeded with the time in seconds: two servers that start in the same  *)
(* second draw the same.                                                   *)
Start(s) ==
    LET rushed == /\ \A t \in Server : ~Leads(t)
                  /\ \E t \in Server : Waits(t)
        same(i) == \E t \in Server : id[t] = i
    IN
    /\ phase[s] = "off"
    /\ rushed => spent.rush < MaxRush
    /\ \E i \in Id :
          /\ same(i) => /\ spent.same < MaxSame
                        /\ \E t \in Server : id[t] = i /\ Waits(t) /\ attempt[t] = 0
          /\ id' = [id EXCEPT ![s] = i]
          /\ lst' = [lst EXCEPT ![s] = <<Entry(i, s, 0)>>]
          /\ spent' = [spent EXCEPT !.rush = @ + (IF rushed THEN 1 ELSE 0),
                                    !.same = @ + (IF same(i) THEN 1 ELSE 0)]
    /\ phase' = [phase EXCEPT ![s] = "waits"]
    /\ Multicast(s)
    /\ UNCHANGED <<attempt, box, taken, ltcp, succ>>

(* The listening socket, and the accepted ones, that select() finds.       *)
Backlog(s) == Len(box[s]) > taken[s]
Unread(s) == {i \in 1 .. taken[s] : box[s][i].msgs # << >>}
Reads(s, kind) ==
    /\ Waits(s) /\ ~Backlog(s) /\ taken[s] \in Unread(s)
    /\ Head(box[s][taken[s]].msgs).kind = kind

Late(s) == \E l \in Server : Leads(l) /\ s \in mc[l]
Passed(s) == \E i \in DOMAIN box[s] : \E m \in ToSet(box[s][i].msgs) : m.kind = "answer"

(* Connections that service_discovery() has accepted and main() does not   *)
(* watch stay open, and what comes on them is never read.                  *)
Unwatched(s, accepted, sc) ==
    [t \in Server |->
        IF sc[t].who = s /\ sc[t].is = "open" /\ sc[t].at \in accepted
        THEN [sc[t] EXCEPT !.is = "unread"] ELSE sc[t]]

(* service_discovery() returns an error: main() has nobody to follow.      *)
Lead(s, n, sc) ==
    /\ Late(s) => spent.late < MaxLate
    /\ Passed(s) => spent.passed < MaxPassed
    /\ spent' = [spent EXCEPT !.late = @ + (IF Late(s) THEN 1 ELSE 0),
                              !.passed = @ + (IF Passed(s) THEN 1 ELSE 0)]
    /\ phase' = [phase EXCEPT ![s] = "leads"]
    /\ box' = [box EXCEPT ![s] = << >>]
    /\ taken' = [taken EXCEPT ![s] = 0]
    /\ succ' = Unwatched(s, 1 .. n, sc)

(* Faulty: a round too many.                                               *)
NextRoundOfFour(s, b, n, sc) ==
    /\ attempt' = [attempt EXCEPT ![s] = @ + 1]
    /\ \/ attempt[s] = 3 /\ Lead(s, n, sc)
       \/ /\ attempt[s] < 3
          /\ box' = b
          /\ taken' = [taken EXCEPT ![s] = n]
          /\ succ' = sc
          /\ UNCHANGED <<phase, spent>>
    /\ UNCHANGED <<id, lst, ltcp, mc>>

(* A round is over without an answer: there are three.                     *)
NextRound(s, b, n, sc) ==
    /\ attempt' = [attempt EXCEPT ![s] = @ + 1]
    /\ \/ attempt[s] = 2 /\ Lead(s, n, sc)
       \/ /\ attempt[s] < 2
          /\ box' = b
          /\ taken' = [taken EXCEPT ![s] = n]
          /\ succ' = sc
          /\ UNCHANGED <<phase, spent>>
    /\ UNCHANGED <<id, lst, ltcp, mc>>

(* Nothing comes for a second: it asks again, but does not wait again.     *)
Timeout(s) ==
    /\ Waits(s) /\ ~Backlog(s) /\ Unread(s) = {}
    /\ attempt' = [attempt EXCEPT ![s] = @ + 1]
    /\ Multicast(s)
    /\ Lead(s, taken[s], succ)
    /\ UNCHANGED <<id, lst, ltcp>>

(* The listening socket has the lowest descriptor: as long as connections  *)
(* come, each round accepts one, and the last one is socket_client.        *)
Accept(s) == Waits(s) /\ Backlog(s) /\ NextRound(s, box, taken[s] + 1, succ)

(* Faulty: such a round does not count.                                    *)
IdleUncounted(s) == Waits(s) /\ UNCHANGED vars

(* Only socket_client is read: data on another costs the round.            *)
Idle(s) ==
    /\ Waits(s) /\ ~Backlog(s) /\ Unread(s) # {} /\ taken[s] \notin Unread(s)
    /\ NextRound(s, box, taken[s], succ)

(* socket_client is a predecessor's, whose heartbeat does not parse.       *)
Misread(s) ==
    /\ Reads(s, "HEARTBEAT")
    /\ NextRound(s, [box EXCEPT ![s][taken[s]].msgs = << >>], taken[s],
          [t \in Server |-> IF succ[t].who = s /\ succ[t].at = taken[s]
                            THEN [succ[t] EXCEPT !.is = "closed"] ELSE succ[t]])

(* ... or has closed the connection, having got another successor.         *)
ReadEnd(s) ==
    /\ Reads(s, "end")
    /\ attempt' = [attempt EXCEPT ![s] = @ + 1]
    /\ Lead(s, taken[s], succ)
    /\ UNCHANGED <<id, lst, ltcp, mc>>

(* Faulty: the leader is not listed.                                       *)
LedUnlisted(s, l, at) == lst[s]

Led(s, l, at) == append_server(lst[s], Entry(id[l], l, at))

(* The answer: the server follows, connected to the successor it names.    *)
Follow(s) ==
    /\ Reads(s, "answer")
    /\ LET i == taken[s]
           l == box[s][i].from
           t == Head(box[s][i].msgs).succ
           cleared == [box EXCEPT ![s] =
               [j \in DOMAIN @ |->
                   [from |-> @[j].from,
                    msgs |-> IF j = i THEN Tail(@[j].msgs) ELSE << >>]]]
           b == Connected(cleared, s, t)
           e == Entry(id[t], t, PlaceAt(b, t))
           others == Unwatched(s, (1 .. i) \ {i, 2}, succ)
       IN
       /\ phase' = [phase EXCEPT ![s] = "follows"]
       /\ ltcp' = [ltcp EXCEPT ![s] = i]
       /\ IF t = Nobody
          THEN lst' = [lst EXCEPT ![s] = Led(s, l, i)] /\ box' = cleared /\ succ' = others
          ELSE /\ lst' = [lst EXCEPT ![s] = append_server(Led(s, l, i), e)]
               /\ box' = b
               /\ succ' = [others EXCEPT ![s] = [who |-> t, at |-> e.at, is |-> "open"]]
    /\ UNCHANGED <<id, attempt, taken, mc, spent>>

-----------------------------------------------------------------------------
(* Faulty: the first peer's predecessor is the head.                       *)
PredecessorInList(i, k) == k[get_predecessor(i, k)]

Predecessor(i, k) == k[PredecessorInRing(i, k)]

(* new_server(): the leader opens a connection to the newcomer, lists it   *)
(* and names its successor, and names it to its predecessor.  A newcomer   *)
(* with the leader's own ID is answered but not listed: next, or the       *)
(* predecessor, is NULL unless there is just one peer.                     *)
new_server(l, s) ==
    LET b == Connected(box, l, s)
        at == PlaceAt(b, s)
        k == append_server_sorted(lst[l], Entry(id[s], s, at))
        t == IF Len(lst[l]) = 1 THEN Nobody ELSE k[get_successor(id[s], k)].who
        answered == Sent(b, s, at, Answer(t))
        p == Predecessor(id[s], k)
        dies == At(k, id[s]) = {} /\ Len(k) # 2
    IN
    /\ lst' = [lst EXCEPT ![l] = k]
    /\ phase' = IF dies THEN [phase EXCEPT ![l] = "down"] ELSE phase
    /\ box' = IF ~dies /\ Len(k) > 2 THEN Sent(answered, p.who, p.at, Update(s))
              ELSE answered

(* Faulty: a leader answers the first newcomer only.                       *)
RecvDiscoveryOnce(l, s) ==
    /\ (Leads(l) \/ Follows(l)) /\ s \in mc[l]
    /\ mc' = [mc EXCEPT ![l] = @ \ {s}]
    /\ \/ Leads(l) /\ Len(lst[l]) = 1 /\ new_server(l, s)
       \/ (Follows(l) \/ Len(lst[l]) > 1) /\ UNCHANGED <<phase, lst, box>>
    /\ UNCHANGED <<id, attempt, taken, ltcp, succ, spent>>

(* handle_mcast_receive(): a follower does not answer.                     *)
RecvDiscovery(l, s) ==
    /\ (Leads(l) \/ Follows(l)) /\ s \in mc[l]
    /\ mc' = [mc EXCEPT ![l] = @ \ {s}]
    /\ \/ Leads(l) /\ new_server(l, s)
       \/ Follows(l) /\ UNCHANGED <<phase, lst, box>>
    /\ UNCHANGED <<id, attempt, taken, ltcp, succ, spent>>

(* A follower takes another successor: the old connection is closed.       *)
RecvUpdate(f) ==
    /\ Follows(f) /\ box[f][ltcp[f]].msgs # << >>
    /\ LET t == Head(box[f][ltcp[f]].msgs).succ
           read == [box EXCEPT ![f][ltcp[f]].msgs = Tail(@)]
           b == Connected(read, f, t)
           e == Entry(id[t], t, PlaceAt(b, t))
           old == succ[f]
       IN
       /\ Head(box[f][ltcp[f]].msgs).kind = "UPDATE_FROM_LEADER"
       /\ lst' = [lst EXCEPT ![f] =
             append_server(IF Len(@) > 2 THEN delete_server(@, @[3].id) ELSE @, e)]
       /\ succ' = [succ EXCEPT ![f] = [who |-> t, at |-> e.at, is |-> "open"]]
       /\ box' = IF Len(lst[f]) > 2 /\ old.is # "closed" /\ Waits(old.who)
                 THEN Sent(b, old.who, old.at, EndOfFile) ELSE b
    /\ UNCHANGED <<phase, id, attempt, taken, ltcp, mc, spent>>

(* handle_disconnection(): the newcomer has closed the connection.         *)
SuccessorGone(f) ==
    /\ Follows(f) /\ succ[f].who # Nobody /\ succ[f].is = "closed"
    /\ \/ Len(lst[f]) <= 2 /\ NullDeref(f)
       \/ /\ Len(lst[f]) > 2
          /\ lst' = [lst EXCEPT ![f] = delete_server(@, @[3].id)]
          /\ succ' = [succ EXCEPT ![f] = NoSucc]
          /\ UNCHANGED <<phase, id, attempt, box, taken, ltcp, mc, spent>>

(* The heartbeat timer: to a successor that still waits it is a message    *)
(* that service_discovery() may read, to others it matters for Silent().   *)
SendHeartbeat(f) ==
    /\ Follows(f) /\ succ[f].is = "open" /\ Waits(succ[f].who)
    /\ spent.beats < MaxBeats
    /\ spent' = [spent EXCEPT !.beats = @ + 1]
    /\ box' = Sent(box, succ[f].who, succ[f].at, Heartbeat)
    /\ UNCHANGED <<phase, id, lst, attempt, taken, ltcp, succ, mc>>

(* Faulty: a newcomer that has not read the answer is silent.              *)
SilentSoon(l, i) ==
    ~\E q \in Server :
        /\ id[q] = i
        /\ \/ Follows(q) /\ LeaderOf(q) = l
           \/ Follows(q) /\ succ[q].who = l /\ succ[q].is = "open"

(* Nobody with this ID will send heartbeats to l, as its leader or its     *)
(* successor, on a connection that it reads.                               *)
Silent(l, i) ==
    ~\E q \in Server :
        /\ id[q] = i
        /\ \/ Waits(q)
           \/ Follows(q) /\ LeaderOf(q) = l
           \/ Follows(q) /\ succ[q].who = l /\ succ[q].is = "open"

(* check_heartbeat_timeout() and ring_status(), as in LeaderRing.          *)
EvictSilent(l, n) ==
    /\ Leads(l) /\ n \in 2 .. Len(lst[l]) /\ Silent(l, lst[l][n].id)
    /\ LET k == delete_server(lst[l], lst[l][n].id)
           p == lst[l][PredecessorInRing(lst[l][n].id, lst[l])]
           t == k[IF n > Len(k) THEN 2 ELSE n].who
       IN
       /\ lst' = [lst EXCEPT ![l] = k]
       /\ box' = IF Len(k) > 2 THEN Sent(box, p.who, p.at, Update(t)) ELSE box
    /\ UNCHANGED <<phase, id, attempt, taken, ltcp, succ, mc, spent>>

(* UDP loses a question for one receiver.                                  *)
Lose(t, s) ==
    /\ s \in mc[t] /\ ~Follows(t) /\ spent.loss < MaxLoss
    /\ spent' = [spent EXCEPT !.loss = @ + 1]
    /\ mc' = [mc EXCEPT ![t] = @ \ {s}]
    /\ UNCHANGED <<phase, id, lst, attempt, box, taken, ltcp, succ>>

-----------------------------------------------------------------------------
Round(s) ==
    \/ Timeout(s) \/ Accept(s) \/ Idle(s) \/ Misread(s) \/ ReadEnd(s) \/ Follow(s)

Next ==
    /\ Alive
    /\ \E s \in Server :
          \/ Start(s) \/ Round(s)
          \/ RecvUpdate(s) \/ SuccessorGone(s) \/ SendHeartbeat(s)
          \/ \E t \in mc[s] : RecvDiscovery(s, t) \/ Lose(s, t)
          \/ \E n \in DOMAIN lst[s] : EvictSilent(s, n)

(* select() returns within a second, and within 100 ms in main().          *)
Fairness ==
    \A s \in Server :
        /\ WF_vars(Alive /\ Round(s))
        /\ WF_vars(Alive /\ RecvUpdate(s))
        /\ WF_vars(Alive /\ SuccessorGone(s))
        /\ WF_vars(Alive /\ \E t \in mc[s] : RecvDiscovery(s, t))
        /\ WF_vars(Alive /\ \E n \in DOMAIN lst[s] : EvictSilent(s, n))

Spec == Init /\ [][Next]_vars
FairSpec == Spec /\ Fairness

-----------------------------------------------------------------------------
Namesake(s) == \E t \in Server \ {s} : id[t] = id[s] /\ id[s] # 0

(* One server leads, and another for each that started while nobody led    *)
(* yet, or whose question was lost or answered too late, or that left the  *)
(* answer unread: a leader that answers in time is followed otherwise.     *)
LeadersAccounted ==
    Cardinality({s \in Server : Leads(s)}) <=
        1 + spent.rush + spent.loss + spent.late + spent.passed

(* A server dies while others start only if two have drawn the same ID.    *)
DeathNeedsNamesake == \A s \in Server : phase[s] = "down" => Namesake(s)

(* The leader of a follower lists it, with the connection that it reads.   *)
FollowersListed ==
    Alive => \A s \in Server :
        Follows(s) /\ ~Namesake(s) =>
            \E i \in 2 .. Len(lst[LeaderOf(s)]) :
                lst[LeaderOf(s)][i] = Entry(id[s], s, ltcp[s])

(* Nothing is left to read, no peer is due to be given up.                 *)
Settled ==
    /\ Alive
    /\ \A s \in Server :
          /\ ~Waits(s) /\ mc[s] = {}
          /\ Follows(s) => box[s][ltcp[s]].msgs = << >>
          /\ Leads(s) => \A n \in 2 .. Len(lst[s]) : ~Silent(s, lst[s][n].id)
          /\ Follows(s) => ~(succ[s].who # Nobody /\ succ[s].is = "closed")

(* The only peer of a leader keeps the successor it had: ring_status()     *)
(* tells nobody when one peer is left.                                     *)
Lingers(f) ==
    Follows(f) /\ Len(lst[LeaderOf(f)]) = 2 /\ succ[f].who # Nobody /\ Leads(succ[f].who)

(* However many lead: a list of two or more is a ring of the followers of  *)
(* that leader, each connected to the next, which reads.  What it takes to *)
(* break one is a shared ID, or a peer that lingers: its heartbeats keep   *)
(* it in the list of a leader that it does not follow.                     *)
RingsFollowLists ==
    Settled /\ (\A s \in Server : ~Namesake(s) /\ ~Lingers(s)) =>
        \A l \in Server : Leads(l) /\ Len(lst[l]) > 2 =>
            \A n \in 2 .. Len(lst[l]) :
                LET p == lst[l][n].who
                    next == lst[l][IF n = Len(lst[l]) THEN 2 ELSE n + 1].who
                IN /\ Follows(p) /\ LeaderOf(p) = l
                   /\ succ[p].who = next /\ succ[p].is = "open"

(* Whoever starts leads or follows, and the instructions of the leaders    *)
(* and their giving up of each other come to an end, unless a server dies. *)
Settles == <>[](Alive => Settled)
=============================================================================
