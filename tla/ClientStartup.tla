---------------------------- MODULE ClientStartup ----------------------------
(***************************************************************************)
(* How a client gets into the group: it asks by multicast for a leader,    *)
(* waits for the leader to connect to it, connects to that server, draws   *)
(* its CLK_INDEX there and joins.  get_service_info_mcast() and main() of  *)
(* client/, new_client() of multicast.c and GET_INDEX of chat_client.c,    *)
(* while servers die and others take over.                                 *)
(*                                                                         *)
(* Two servers lead at a time when one is superseded although it lives:    *)
(* see Failover.  Descriptors and the limit of clients: see ChatServer.    *)
(***************************************************************************)
EXTENDS Integers, Sequences, SequencesExt, FiniteSetsExt

CONSTANTS
    Client,
    Server,
    MaxLoss,      \* bound: datagrams lost
    MaxCrash,     \* bound: servers that die
    MaxUsurp,     \* bound: leaders superseded alive
    MaxForward    \* bound: messages that clients send through a server

ASSUME BoundAssumption == {MaxLoss, MaxCrash, MaxUsurp, MaxForward} \subseteq Nat

VARIABLES
    up,           \* servers that run
    leader,       \* those that lead
    queue,        \* NEW_CLIENT datagrams at each server
    requests,     \* clients whose GET_INDEX a server has not read
    clk_index,    \* of each server
    pc,           \* how far each client is
    offers,       \* answers in the backlog of its listening socket
    inbox,        \* what its server has sent to it
    server,       \* MY_SERVER_IP
    CLK_INDEX,    \* of each client
    refused,      \* clients that a leader could not connect to
    spent         \* how much of each bound is used

servers == <<up, leader, queue, requests, clk_index>>
clients == <<pc, offers, inbox, server, CLK_INDEX, refused>>
vars == <<servers, clients, spent>>

NoServer == "none"
NoIndex == -1

ASSUME ProcessAssumption ==
    IsFiniteSet(Client) /\ IsFiniteSet(Server) /\ NoServer \notin Server

(* The LEADER message of a server, or an end without one.                  *)
Offer == [from : Server, whole : BOOLEAN]
Index(n) == <<"index", n>>
Text == <<"text", 0>>

(* "failed" and "left" are clients that ended before and after they joined.*)
State == {"new", "asked", "listening", "told", "connected", "in", "left", "failed"}

(* Every variable has its type; a client that has joined has an index that *)
(* its server has given away.                                              *)
TypeOK ==
    /\ up \subseteq Server /\ leader \subseteq up
    /\ queue \in [Server -> Seq(Client)]
    /\ requests \in [Server -> SUBSET Client]
    /\ clk_index \in [Server -> 0 .. Cardinality(Client)]
    /\ pc \in [Client -> State]
    /\ offers \in [Client -> Seq(Offer)]
    /\ inbox \in [Client -> Seq({Text} \cup {Index(n) : n \in 0 .. Cardinality(Client)})]
    /\ server \in [Client -> Server \cup {NoServer}]
    /\ CLK_INDEX \in [Client -> Nat \cup {NoIndex}]
    /\ refused \subseteq Client
    /\ spent \in [loss : 0 .. MaxLoss, crash : 0 .. MaxCrash,
                  usurp : 0 .. MaxUsurp, forward : 0 .. MaxForward]
    /\ \A c \in Client :
          pc[c] = "in" => server[c] # NoServer /\ CLK_INDEX[c] \in 0 .. clk_index[server[c]] - 1

(* One of the servers leads, the clients have not been started.            *)
Init ==
    /\ up = Server /\ \E s \in Server : leader = {s}
    /\ queue = [s \in Server |-> << >>]
    /\ requests = [s \in Server |-> {}]
    /\ clk_index = [s \in Server |-> 0]
    /\ pc = [c \in Client |-> "new"]
    /\ offers = [c \in Client |-> << >>] /\ inbox = [c \in Client |-> << >>]
    /\ server = [c \in Client |-> NoServer]
    /\ CLK_INDEX = [c \in Client |-> NoIndex]
    /\ refused = {}
    /\ spent = [loss |-> 0, crash |-> 0, usurp |-> 0, forward |-> 0]

-----------------------------------------------------------------------------
(* NEW_CLIENT goes to the group of the servers, and some of them may not   *)
(* get it.                                                                 *)
Ask(c) ==
    /\ pc[c] = "new"
    /\ pc' = [pc EXCEPT ![c] = "asked"]
    /\ \E lost \in SUBSET up :
          /\ spent.loss + Cardinality(lost) <= MaxLoss
          /\ queue' = [s \in Server |-> IF s \in up \ lost THEN Append(queue[s], c) ELSE queue[s]]
          /\ spent' = [spent EXCEPT !.loss = @ + Cardinality(lost)]
    /\ UNCHANGED <<up, leader, requests, clk_index, offers, inbox, server, CLK_INDEX, refused>>

(* get_tcp_socket(): only now does the client listen for the answer.       *)
Listen(c) ==
    /\ pc[c] = "asked"
    /\ pc' = [pc EXCEPT ![c] = "listening"]
    /\ UNCHANGED <<servers, offers, inbox, server, CLK_INDEX, refused, spent>>

(* accept() and recv(), without a time limit: the first answer counts, and *)
(* the listening socket is closed.  Without an answer in it main() ends.   *)
Accept(c) ==
    /\ pc[c] = "listening" /\ offers[c] # << >>
    /\ LET o == Head(offers[c]) IN
       IF o.whole
       THEN /\ server' = [server EXCEPT ![c] = o.from]
            /\ pc' = [pc EXCEPT ![c] = "told"]
       ELSE /\ pc' = [pc EXCEPT ![c] = "failed"]
            /\ UNCHANGED server
    /\ offers' = [offers EXCEPT ![c] = << >>]
    /\ UNCHANGED <<servers, inbox, CLK_INDEX, refused, spent>>

(* connect_toserver() and GET_INDEX.  A failed connect() returns 0, which  *)
(* is taken for a socket, and sending to it ends main().                   *)
Connect(c) ==
    /\ pc[c] = "told"
    /\ IF server[c] \in up
       THEN /\ pc' = [pc EXCEPT ![c] = "connected"]
            /\ requests' = [requests EXCEPT ![server[c]] = @ \cup {c}]
       ELSE /\ pc' = [pc EXCEPT ![c] = "failed"]
            /\ UNCHANGED requests
    /\ UNCHANGED <<up, leader, queue, clk_index, offers, inbox, server, CLK_INDEX,
                   refused, spent>>

(* The first message from the server has to be the index, and with it the  *)
(* client joins the group; after that, messages are printed.               *)
RecvInbox(c) ==
    /\ pc[c] \in {"connected", "in"} /\ inbox[c] # << >>
    /\ inbox' = [inbox EXCEPT ![c] = Tail(@)]
    /\ LET m == Head(inbox[c]) IN
       \/ pc[c] = "in" /\ UNCHANGED <<pc, CLK_INDEX>>
       \/ /\ pc[c] = "connected" /\ m # Text
          /\ pc' = [pc EXCEPT ![c] = "in"]
          /\ CLK_INDEX' = [CLK_INDEX EXCEPT ![c] = m[2]]
       \/ /\ pc[c] = "connected" /\ m = Text
          /\ pc' = [pc EXCEPT ![c] = "failed"]
          /\ UNCHANGED CLK_INDEX
    /\ UNCHANGED <<servers, offers, server, refused, spent>>

Ended(c) == IF pc[c] = "in" THEN "left" ELSE "failed"

(* Faulty: what the first recv() returns is not looked at.                 *)
RecvEndOfGroup(c) ==
    /\ pc[c] = "in" /\ server[c] \notin up
    /\ pc' = [pc EXCEPT ![c] = Ended(c)]
    /\ inbox' = [inbox EXCEPT ![c] = << >>]
    /\ UNCHANGED <<servers, offers, server, CLK_INDEX, refused, spent>>

(* Faulty: the loop does not watch the server.                             *)
RecvEndOfRequest(c) ==
    /\ pc[c] = "connected" /\ server[c] \notin up
    /\ pc' = [pc EXCEPT ![c] = Ended(c)]
    /\ inbox' = [inbox EXCEPT ![c] = << >>]
    /\ UNCHANGED <<servers, offers, server, CLK_INDEX, refused, spent>>

(* The server has died: recv() returns less than 1, with or without what   *)
(* was sent before.                                                        *)
RecvEnd(c) ==
    /\ pc[c] \in {"connected", "in"} /\ server[c] \notin up
    /\ pc' = [pc EXCEPT ![c] = Ended(c)]
    /\ inbox' = [inbox EXCEPT ![c] = << >>]
    /\ UNCHANGED <<servers, offers, server, CLK_INDEX, refused, spent>>

(* The user enters an empty line.                                          *)
Leave(c) ==
    /\ pc[c] = "in"
    /\ pc' = [pc EXCEPT ![c] = "left"]
    /\ inbox' = [inbox EXCEPT ![c] = << >>]
    /\ UNCHANGED <<servers, offers, server, CLK_INDEX, refused, spent>>

-----------------------------------------------------------------------------
(* setup_tcp_client(), send() and close() of the leader: the client is     *)
(* there, or the connection is refused and nobody tries again.             *)
new_client(s, c, whole) ==
    \/ /\ pc[c] = "listening"
       /\ offers' = [offers EXCEPT ![c] = Append(@, [from |-> s, whole |-> whole])]
       /\ UNCHANGED refused
    \/ /\ pc[c] # "listening"
       /\ refused' = refused \cup {c}
       /\ UNCHANGED offers

(* Faulty: a server answers that does not lead.                            *)
RecvNewClientAnyone(s) ==
    /\ s \in up /\ queue[s] # << >>
    /\ queue' = [queue EXCEPT ![s] = Tail(@)]
    /\ new_client(s, Head(queue[s]), TRUE)
    /\ UNCHANGED <<up, leader, requests, clk_index, pc, inbox, server, CLK_INDEX, spent>>

(* Faulty: what else has come in is dropped.                               *)
RecvNewClientDrained(s) ==
    /\ s \in up /\ queue[s] # << >>
    /\ queue' = [queue EXCEPT ![s] = << >>]
    /\ IF s \in leader THEN new_client(s, Head(queue[s]), TRUE) ELSE UNCHANGED <<offers, refused>>
    /\ UNCHANGED <<up, leader, requests, clk_index, pc, inbox, server, CLK_INDEX, spent>>

(* Every server gets the question, and drops it unless it leads.           *)
RecvNewClient(s) ==
    /\ s \in up /\ queue[s] # << >>
    /\ queue' = [queue EXCEPT ![s] = Tail(@)]
    /\ IF s \in leader THEN new_client(s, Head(queue[s]), TRUE) ELSE UNCHANGED <<offers, refused>>
    /\ UNCHANGED <<up, leader, requests, clk_index, pc, inbox, server, CLK_INDEX, spent>>

(* Faulty: the number of clients that are connected.                       *)
NextIndexOfPresent(s) ==
    Cardinality({c \in Client : server[c] = s /\ pc[c] \in {"connected", "in"}}) - 1

(* Faulty: incremented first.                                              *)
NextIndexAhead(s) == clk_index[s] + 1

NextIndex(s) == clk_index[s]

(* Faulty: the other requests that have come in are dropped.               *)
GetIndexDrained(s, c) ==
    /\ s \in up /\ c \in requests[s]
    /\ requests' = [requests EXCEPT ![s] = {}]
    /\ inbox' = [inbox EXCEPT ![c] = Append(@, Index(NextIndex(s)))]
    /\ clk_index' = [clk_index EXCEPT ![s] = @ + 1]
    /\ UNCHANGED <<up, leader, queue, pc, offers, server, CLK_INDEX, refused, spent>>

(* GET_INDEX of handle_client_message().                                   *)
GetIndex(s, c) ==
    /\ s \in up /\ c \in requests[s]
    /\ requests' = [requests EXCEPT ![s] = @ \ {c}]
    /\ inbox' = [inbox EXCEPT ![c] = Append(@, Index(NextIndex(s)))]
    /\ clk_index' = [clk_index EXCEPT ![s] = @ + 1]
    /\ UNCHANGED <<up, leader, queue, pc, offers, server, CLK_INDEX, refused, spent>>

(* A client writes through the server, to an ID or to the group: ID 0 and  *)
(* the group include clients that wait for their index.                    *)
Forward(d, c) ==
    /\ pc[d] = "in" /\ server[d] \in up
    /\ pc[c] \in {"connected", "in"} /\ server[c] = server[d]
    /\ spent.forward < MaxForward
    /\ inbox' = [inbox EXCEPT ![c] = Append(@, Text)]
    /\ spent' = [spent EXCEPT !.forward = @ + 1]
    /\ UNCHANGED <<servers, pc, offers, server, CLK_INDEX, refused>>

-----------------------------------------------------------------------------
(* A server dies, with all that it has not read, and a leader perhaps      *)
(* between connecting to a client and sending.                             *)
Crash(s) ==
    /\ s \in up /\ spent.crash < MaxCrash
    /\ up' = up \ {s} /\ leader' = leader \ {s}
    /\ queue' = [queue EXCEPT ![s] = << >>]
    /\ requests' = [requests EXCEPT ![s] = {}]
    /\ spent' = [spent EXCEPT !.crash = @ + 1]
    /\ \/ UNCHANGED <<offers, refused>>
       \/ s \in leader /\ queue[s] # << >> /\ new_client(s, Head(queue[s]), FALSE)
    /\ UNCHANGED <<clk_index, pc, inbox, server, CLK_INDEX>>

(* Another leads, after all leaders have died or one is taken for dead.    *)
TakeOver(s) ==
    /\ s \in up \ leader
    /\ \/ leader = {} /\ UNCHANGED spent
       \/ /\ leader # {} /\ spent.usurp < MaxUsurp
          /\ spent' = [spent EXCEPT !.usurp = @ + 1]
    /\ leader' = leader \cup {s}
    /\ UNCHANGED <<up, queue, requests, clk_index, clients>>

Progress ==
    \/ \E c \in Client : Listen(c) \/ Accept(c) \/ Connect(c) \/ RecvInbox(c) \/ RecvEnd(c)
    \/ \E s \in Server : RecvNewClient(s) \/ \E c \in Client : GetIndex(s, c)

Next ==
    \/ Progress
    \/ \E c \in Client : Ask(c) \/ Leave(c) \/ \E d \in Client : Forward(d, c)
    \/ \E s \in Server : Crash(s) \/ TakeOver(s)

Spec == Init /\ [][Next]_vars

(* Every process goes on as long as it has something to read.              *)
FairSpec ==
    /\ Spec
    /\ \A c \in Client : WF_vars(Listen(c) \/ Accept(c) \/ Connect(c)
                                 \/ RecvInbox(c) \/ RecvEnd(c))
    /\ \A s \in Server : /\ WF_vars(RecvNewClient(s))
                         /\ \A c \in Client : WF_vars(GetIndex(s, c))

-----------------------------------------------------------------------------
Twins(c, d) == c # d /\ pc[c] = "in" /\ pc[d] = "in" /\ CLK_INDEX[c] = CLK_INDEX[d]

(* Two clients in the group have the same entry of the vectors only with   *)
(* two servers, of which one is dead, unless a leader was superseded.      *)
IndexTellsApart ==
    \A c, d \in Client : Twins(c, d) =>
        /\ server[c] # server[d]
        /\ spent.usurp = 0 => ~({server[c], server[d]} \subseteq up)

(* Nobody has anything to read any more, and somebody leads: no action of  *)
(* Progress is enabled.                                                    *)
Settled ==
    /\ leader # {}
    /\ \A c \in Client :
          /\ pc[c] \notin {"asked", "told"}
          /\ pc[c] = "listening" => offers[c] = << >>
          /\ pc[c] \in {"connected", "in"} => inbox[c] = << >> /\ server[c] \in up
    /\ \A s \in up : queue[s] = << >> /\ requests[s] = {}

(* The question is asked once: a client that waits for ever was quicker    *)
(* asked about than ready, or else its question or the leader was lost.    *)
WaitsForReason ==
    Settled => \A c \in Client :
        pc[c] = "listening" => c \in refused \/ spent.loss + spent.crash > 0

(* A server that has answered takes the client into the group.  The client *)
(* ends before only if a server has died or it got a message before its    *)
(* index, and it does not wait for ever, whoever dies.                     *)
AnswerServes ==
    \A c \in Client :
        offers[c] # << >> ~>
            (pc[c] \in {"in", "left"}
               \/ (pc[c] = "failed" /\ spent.crash + spent.forward > 0))

(* Clients with the same index, of a dead server and its successor, do not *)
(* both stay in the group.                                                 *)
TwinsPart ==
    \A c, d \in Client :
        Twins(c, d) ~> ~Twins(c, d) \/ {server[c], server[d]} \subseteq up
=============================================================================
