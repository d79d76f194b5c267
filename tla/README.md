# Verification of the chat servers and clients

TLA+ models of the C program under `src/chat-c`: a group of chat servers that
follow a leader, elect another when it dies and are kept in a ring by it, and
chat clients that multicast messages to each other in causal order.

## 1. The system

All servers and clients are processes of one thread that poll their sockets
with `select()` every 100 ms. Nothing is persisted; nothing is locked. What is
hard is what happens between processes: messages on different connections,
processes that die between two of them, UDP datagrams that are lost.

| Component | Code | State | Operations |
|---|---|---|---|
| List of known servers | `server_struct.c` | `connected_peers`: itself, then a follower's leader and successor, or a leader's peers by ID | append, sorted append, delete, successor, predecessor |
| Service discovery | `service_discovery.c` | whether it leads | multicast LEADER_DISCOVERY, wait one second for the answer |
| Ring kept by the leader | `multicast.c`, `disconnection_handler.c` | the sorted list, what each peer was told | `new_server`, `ring_reconstruction`, `ring_status`, `update_ring` |
| Failure detection | `server_s.c`, `disconnection_handler.c`, `socket_changes.c` | `last_heartbeat`, `ltcp_socket`, `successor_socket` | heartbeats every 4 s, timeouts of 8 s, ends of connections |
| Leader election | `election_lcr.c`, `socket_changes.c` | `participant`, `leader` | VOTE and LEADER on the ring |
| Registry of clients | `chat_client.c`, `multicast.c` | `ClientArray`, `clk_index` | accept, GET_INDEX, route, remove |
| Client: group chat | `client/client_s.c`, `client/group.c`, `client/data_structure.c` | `DELIVERED`, `SEND_SEQ`, hold-back queue | send, receive, deliver |
| Client: start-up | `client/service_infom.c`, `client/socket_setup.c` | sockets | NEW_CLIENT, GET_INDEX |

How the modules divide the system. `Discovery` ends where `Failover` begins:
with a ring and its leader. `Failover` names sockets by who is at the other
end, and so does `Discovery`; that their numbers are used again is the subject
of `ChatServer`, which looks at one server and leaves the others to its
environment. `ClientStartup` hands an index to a client, with which `HoldBack`
begins.

How they interact. A server that starts multicasts LEADER_DISCOVERY. A leader
answers over a TCP connection that it opens, with the newcomer's successor in
the ring, and sends UPDATE_FROM_LEADER to the predecessor. Followers send
heartbeats over TCP to the leader and the successor, the leader multicasts its
own. A follower that misses them for 8 s votes; votes and then LEADER go round
the ring; each follower that reads LEADER forgets the old ring and multicasts
WHO_IS_LEADER; the winner opens a connection to it and answers
KNOW_NEW_LEADER, to its new predecessor as well. A client multicasts
NEW_CLIENT, is told the leader's address, gets CLK_INDEX from it and joins a
multicast group, in which the clients talk without the servers.

What makes each part correct:

- list: sorted after the head, no ID twice, `delete_server` only of what is there;
- ring: the successors that the leader has handed out form one cycle of all its peers;
- election: one winner, the greatest ID; it ends; nobody asks for a leader that does not exist yet;
- failover: after a crash the survivors are in one ring again, and what the leader's list says is what they do;
- group chat: nobody delivers a message before its causal past, or twice; everybody delivers everything;
- discovery: one leader among servers that hear each other, which lists its followers; everybody ends up somewhere;
- registry: the tables that refer to descriptors by number say what the descriptors are; every number in the select set is open; messages reach those they are for;
- start-up of clients: no client waits for ever, and no two in the group have the same index.

What is hard to test in it is the list `hazards` of `PROJECT.json`, each with its
line and the properties that cover it.

## 2. Modules

| Module | Models | Extends |
|---|---|---|
| `ServerList` | the operations on `connected_peers`, as operators on sequences | |
| `LeaderRing` | the list of a leader and the successors it hands out, under joins and give-ups | `ServerList` |
| `Election` | the election of one ring whose leader is gone | |
| `Failover` | servers with their lists, sockets and messages: timeouts, election, questions and answers, give-ups. Implements `Election` | `ServerList` |
| `CausalMulticast` | what the group chat promises: at most once, and after the causal past | |
| `HoldBack` | vectors, datagrams and hold-back queues of the clients. Implements `CausalMulticast` | |
| `Discovery` | servers that start: the rounds of `service_discovery()`, the answers of leaders, who gives up whom | `ServerList` |
| `ChatServer` | the descriptors of one server and the tables that refer to them by number: select set, `ClientArray`, list, `ltcp_socket`, `successor_socket` | `ServerList` |
| `ClientStartup` | NEW_CLIENT, the leader's answer, GET_INDEX, joining the group, while servers die and take over | |
| `MC*` | the instances that TLC checks | |
| `Lemmas` | lemmas about sequences, sizes and the operators of `ServerList` | `ServerList`, `TLAPS` |
| `*Proofs` | theorems and their proofs | the module they are about, `Lemmas`, `TLAPS` |

An action is one call of a handler, from reading its message to the last thing
it sends. The names are the code's where it has one for the operation
(`ring_reconstruction`, `append_server_sorted`, `DELIVERED`), otherwise they
say what is read (`RecvVoteSmaller`: the branch of `lcr_election` for a smaller
ID). The `map` of `PROJECT.json` names the lines of every definition. Operators
called "faulty" are versions of a definition with a plausible bug; each
property of each run is refuted by one of them, which shows that it depends on
what the code does.

### Election

A follower's list is one of three shapes: `ring` (itself, the lost leader, the
successor), `cut` (no successor) and `alone`. Each follower has a FIFO inbox,
the TCP connection from its predecessor. `StartVote` sends two copies of a
vote and `RepeatVote` another: `send_ele_msg()` leaves the vote in the global
`sendBuf`, even when it returns early because of `participant`
(`election_lcr.c:124-127`), and the loop of `main()` that sends heartbeats
(`server_s.c:137-150`) goes on with that buffer to the successor. A follower
crashes at any moment (`Crash`), its predecessor reads the end of the
connection (`SuccessorLost`) or is killed by writing to it before
(`BrokenPipe`). Where the code reads through `next->next` of a shorter list the
server dies (`NullDeref`). Where a `send()` returns -1 (`SendFails`) a vote is lost,
as one is that reaches a dead successor; the winner keeps both entries of its
list, which it gives up later as silent peers (`EvictSilent`); a follower that
cannot pass LEADER on stays in the ring and does not ask.

### LeaderRing

`told[p]` is the successor named in the last message to peer p. `Join` is
`new_server()` and, but for the wording of the messages, `ring_reconstruction()`;
`GiveUp` is `ring_status()` with `update_ring()`.

### Failover

Starts with a ring built by joins. `lst` holds the lists with the kind of
socket of each entry; `chan` what is in flight on each connection, named by who
wrote to the socket and which of the sockets it is; `mc` the datagrams at each
multicast socket; `ltcp` and `succ` the two special sockets of a follower.
Differences from the code, all on the side of more behaviours unless said:

- timeouts are not timed: one expires when the heartbeats that would refresh it
  cannot come any more. A live leader whose heartbeats are lost is therefore
  never suspected: this is fewer behaviours;
- the peers given up in one call of `check_heartbeat_timeout()` are given up in
  separate steps in any order;
- the successive ring connections between two servers share one FIFO; they are
  tens of seconds apart in the code;
- identical datagrams at one receiver are one (`mc` holds sets);
- a second connection to a peer that is still listed leaves the entry with the
  first; the connections are relabelled `lead` and `old`;
- descriptors have no numbers: see `ChatServer`;
- no server joins during a failover.

The refinement mapping to `Election` reads the ring of followers off their IDs,
the shapes off the lists, the inboxes off the ring connections, and takes for
"asking" those that have left the old ring and do not lead. It is checked while
only the old leader dies: what crashes of followers do to a ring that is being
rebuilt goes beyond the one ring of `Election`.

A `send()` fails on a closed descriptor, and may on one whose other end has died
(`SendFails`). A follower that cannot pass LEADER on keeps the entry of the old
leader with the new one's ID and nobody behind its socket (`Renamed`), and its
successor; it does not ask.

### HoldBack

Clients are named by their CLK_INDEX, at most ten of them (`ClientAssumption`:
the code does not check it). `net` holds the datagrams of each receiver in the
order of sending; `ReceiveEarly`, `Lose` and `Duplicate` are what UDP may do.
Loopback is left on by `group_multicast()`, so that the sender receives its own
messages. A blank text is not scanned by `sscanf` and costs every receiver its
queue. `sent` and `log` are history. Scanning DEPS into `sender_dep_str`
(`group.c:11`, `client_s.c:283`) writes past its eleven bytes; with the layout
that gcc gives the two functions without optimisation the excess falls into
`content`, which is then overwritten or not used, so the model has no effect
of it. `CausalMulticast` delivers one message per step; `HoldBack` implements it
although its loop may take several from the queue, because it never does: see
`HeldBackForGood`.

### Discovery

A server that starts is in `service_discovery()` (`phase` "waits") until it
leads or follows. `box[s]` holds the connections to its listening socket in
order of arrival, `taken[s]` how many of them it has accepted, and `mc` the
questions at each multicast socket. One round of its `select()` is one action:
`Timeout` (it leads after the first second), `Accept`, `Follow` (the answer is
read), `Misread` and `ReadEnd` (the last accepted connection was not the leader's
but a predecessor's). A leader's call of `new_server()` is `RecvDiscovery`,
and `EvictSilent` is the giving up of a peer whose heartbeats go elsewhere or are
not sent. The model stops at the first death: what follows one is in `Failover`.
Everything that is unlikely in time (starts within the same second, answers
that take longer, equal IDs) is counted in `spent` and bounded.

### ChatServer

`conn[f]` says what descriptor f is connected to, `ended` which of the other ends
have closed, and a new connection gets the lowest free number. A connection
that is accepted gets a slot in `ClientArray` (`accept_new_client`), whoever it
is from; those that the server opens itself do not. `ReadEnd` is
`handle_disconnection()` with its four cases in the code's order. The server
follows or leads from the start, and a follower may be elected; clients come
while it leads. `EvictSilent` applies to peers that have died and to those that
`main()` does not watch because their predecessor could not be told
(`multicast.c:240`, `:305`). `astray` and `missed` record where messages went.
`GetIndexFails` is GET_INDEX of a client that has reset its connection: its
number is closed, but not taken out of the select set nor out of `ClientArray`.
What else ends the server: a HEARTBEAT that comes after a lost election and
before KNOW_NEW_LEADER (`RecvHeartbeat`), a message of the election that is to
go to a successor already lost (`RecvElectionAlone`), an instruction that names
a dead successor (`NamedSuccessorDied`), `update_ring()` writing to a closed
number (`EvictSilent`), and a closed number in the select set (`SelectFails`).
Connections closed at the limit do not occupy a number afterwards, but stay in
the select set (`chat_client.c:24`).

Not modelled, and left out of what `DeathNeedsFaults` says: the suspicion of a
living leader, whose UPDATE_FROM_LEADER may then be read with a list that has no
successor to replace; a `send()` that fails in an election (see `Election` and
`Failover`); a newcomer that dies before its answer is sent; SIGPIPE. Further, two
clients with the same ID (`ClientAssumption`) and a second leader's
KNOW_NEW_LEADER.

### ClientStartup

A client goes through `pc`: it asks (`Ask`), listens only then (`Listen`), takes
the first answer (`Accept`), connects to the server named in it and sends
GET_INDEX (`Connect`), and joins with the index (`RecvInbox`). `RecvNewClient` is
the leader's connection to the client, which is refused before `Listen` and
is not tried again; followers drop the question. `Crash` includes a leader that
dies between connecting and sending. `TakeOver` stands for an election and has a
server start counting indexes from zero; with `MaxUsurp` the earlier leader
lives on. `Forward` is a message through the server, which a client that waits
for its index takes for the index.

## 3. Runs

| Run | Instance | Shows |
|---|---|---|
| `Election_live` | 4 followers, sorted IDs, no crash, 2 repeated votes, fair | the election ends, with the greatest leading and all others asking for it, however the votes overlap |
| `Election_crash` | 4 followers, mixed IDs, up to 2 crashes, fair | the winner is the greatest, votes pass smaller IDs only, nobody asks too early; two leaders or a NULL dereference need a crash; somebody leads if anybody survives |
| `LeaderRing` | leader 3, peers 1, 2, 4, 5, 6 | joins and give-ups in any order keep the ring closed, which needs the list sorted (`SortedPeers` is proved) |
| `Failover_crash` | servers 1 to 4, leader 2, any one dies, 1 repeated vote, fair | implements `Election` while followers live (so one leader: `TwoLeadersNeedCrash` there); the others end in one ring that is what the leader's list says; nobody else dies of a NULL dereference or `exit(1)` |
| `Failover_faults` | any two servers die, one WHO_IS_LEADER lost, one heartbeat at a bad moment | at most as many servers are stranded as questions were lost (with one death); a follower sends its votes to the server whose connection it watches |
| `HoldBack_causal` | 3 clients, a message each, 1 reordered, fair | implements `CausalMulticast`; as long as nothing is reordered, members from the start deliver everything |
| `HoldBack_faults` | 2 clients, 2 messages each, 1 reordered, 1 lost, 1 duplicated, 1 blank | vectors are off by the duplicates at most; without one, each sender's messages are delivered without a gap; a queue that has become nonempty never delivers |
| `Discovery_faults` | 3 servers, one of each fault, fair | every leader but one is accounted for by a fault; a server dies only of a shared ID; leaders list their followers; all comes to rest |
| `Discovery_rings` | 4 servers, one answer left unread, one heartbeat, one shared ID | lists of two or more are rings of followers, also with a connection closed during discovery |
| `ChatServer_numbers` | 2 clients, 3 peers, 4 numbers, 3 slots, 2 deaths, 1 change of neighbours | which slots there are, who gets messages, how a closed number gets into the select set, in whose place a connected peer is given up, and what it takes to end the server |
| `ChatServer_listed` | 2 clients, 2 peers | expected to fail: a connected peer is taken off the list in place of a dead one |
| `ClientStartup` | 2 clients, 2 servers, both may die, 1 question lost, 1 leader superseded, 1 message, fair | who waits for ever and why; who shares an index with whom, and that they part |

Why these bounds. Four followers are the fewest with two servers between a vote
and its origin, which the votes of smaller ones need to meet; three followers
after the leader's death are the fewest in which the winner, its predecessor
and another asker differ. Crashes, repeats, losses and heartbeats are counted in
`spent`, and each count is high enough for its case to occur: every action is
taken by some run. Three clients are the fewest for an answer to overtake its
question; two messages of one client are the fewest for a gap. Three servers
are the fewest for a newcomer with a leader and a predecessor, four for a
connection that closes before its acceptor has found the leader. Three peers
are the fewest with somebody for `update_ring()` to write to after one has gone;
four numbers hold the three connections of a follower and one that replaces
another, or three peers and a client, so that each is used twice. Two clients
may share an index, two servers may lead. The proofs below have no bounds.

`CHECK_DEADLOCK FALSE` stands where the system may stop: when all servers are
dead, or when all are idle and heartbeats, which change nothing, are not steps;
when the clients have nothing more to say; when a server of `ChatServer` or a
process of `Discovery` has ended, or a client of `ClientStartup` waits for ever.

Fairness. A process polls every 100 ms, serves every readable socket in turn,
and looks at its heartbeat timer every 4 s: so weak fairness of reading
(datagrams, messages, ends of connections) and of the timeouts that are due,
for each server by itself. Crashes, losses, duplicates, reordering, repeated
votes, heartbeats, joins, messages of users and SIGPIPE are not fair. In
`Discovery` the rounds of `select()` are fair because it returns within a second;
in `ClientStartup` a client's steps and each server's reading are, as a server
serves every readable descriptor in each round; nobody has to start, to leave
or to take over.

What the runs say of the code, beyond that the properties hold:

- Each vote is on the ring at least twice. It does no harm: `lcr_election()`
  ignores what a participant or a leader has already seen.
- With two crashes `Reunite`, `RingFollowsList` and `StrandedByLoss` do not hold,
  and the runs state them for one: a winner that dies between announcing itself
  and answering leaves askers alone for ever, as nobody asks twice; a follower
  that is cut from its successor and reads LEADER dies of a NULL dereference;
  two followers that die within 8 s take the leader with them (`exit(1)` in
  `ring_status()`), since it writes to the closed socket of the second. A follower
  whose successor dies just before it passes LEADER on never asks who leads, and
  no more does the rest of the ring, which has not heard (`election_lcr.c:96`).
- One crash does not reach the failing `send()` of `multicast.c:305`, so that
  `Reunite` and `RingFollowsList` say nothing of it: `SelectSound` does, which
  says that only a peer joined behind a dead one goes unwatched.
- A heartbeat of the new leader that comes between LEADER and KNOW_NEW_LEADER
  kills the follower that reads it (`multicast.c:138`), so `OneFaultOneDeath`
  counts heartbeats at a bad moment as faults; `DeathNeedsFaults` has it as the
  one NULL dereference that takes no death but the leader's.
- Discovery: a server leads after one second without an answer, where its comment
  and its message say three (`service_discovery.c:29`, `:38`); the second question
  is never waited for. A newcomer whose predecessor connects before the
  leader's answer is accepted reads the wrong connection and leads. Of two
  servers with the ID of the second in which they started, one is answered but
  not listed. A peer left alone with its leader is not told so and keeps its old
  successor (`disconnection_handler.c:80`); its heartbeats may keep it in the list
  of a leader it does not follow (`Lingers`).
- Numbers of descriptors: a follower that has lost its successor dies of a NULL
  dereference when another connection with that number ends. A leader exits after
  the deaths of two peers, or of one if a peer has joined behind it since: that
  peer is not watched, and giving it up writes to the closed number. The peer
  that is given up is the first with the dead one's number, which may be
  connected: the finding of `PROJECT.json`. A client that was given the number of
  a dead peer leaves its slot behind, and what is sent to the slot goes to the
  next owner of the number. At the limit of `ClientArray` the next connection ends
  the server, and so does a client that resets its connection before it is sent
  its index (`chat_client.c:73`): the closed number stays in the select set.
- Clients ask once, and listen afterwards: a leader that is quicker is refused
  and the client waits in `accept()` for ever; so does one whose question was
  lost or was dropped by a follower about to take over. Indexes start again with
  each leader: clients of a dead leader and of its successor share one until the
  former read the end of their connection, those of two live leaders for good.
- The hold-back queue holds back for good: only its head is looked at, and what
  the head waits for can only come to stand behind it. The chat is live only
  on a network that delivers datagrams to everyone in causal order.

## 4. Proofs

`ElectionProofs`, for any number of followers with distinct IDs, any bound on
crashes and repeats (`NAssumption`, `IdAssumption`, `BoundAssumption`): type
correctness, `VotesClimb`, `WinnerIsMax`, `TwoLeadersNeedCrash`,
`AskedHasLeader`, `NullDerefNeedsCrash`. The inductive invariant `IInv` is

- `VotesClimb`: a vote in flight to n has passed smaller IDs only since its
  origin o. This is what makes a vote that returns the greatest one, and the
  reason is geometric: the servers strictly between o and n on the ring;
- `AnnouncedLeads`: LEADER names the greatest, whose flag is set. Without it
  nothing is known of who asks;
- `AskersAreNotMax`, `AskedLeads`: those who ask are not the greatest, which leads;
- `Calm`: without a crash all are up, only the greatest leads and has left the
  ring, nobody is cut off. The properties about NULL need it: it excludes the
  short lists, a `send()` that fails and a leader that gives up its successor.

The proof has a lemma per action; those about sockets (`ConsumeKeeps`,
`SendKeeps`, `DieKeeps`) show once what reading, sending and dying do to the
invariants of messages.

`LeaderRingProofs`, for any set of peers: type correctness, `SortedPeers`,
`RingMended`. The invariant says the ring by positions (`MendedByPosition`: the
peer at position i was told the one at i + 1, the last one the first), which a
change of one position preserves visibly, and `MendedIsRing` turns it into the
ring by IDs.

`Lemmas` states once what the proofs share: least and greatest elements exist
(from the well-foundedness of `<`, as induction cannot be used), what insertion
and deletion do to a sequence, that `append_server_sorted` and `delete_server`
keep a list sorted or without repeated IDs, and that `get_successor` is the next
greater.

`HoldBackProofs`, for any ten clients and any bounds (`ClientAssumption`,
`BoundAssumption`): type correctness, `NoGap`, `HeldBackForGood`,
`CountsRight`, and that `Spec` implements `CausalMulticast` if nothing is
duplicated (`CausalOrder`). Its key is `HeadHeld`: the head of a nonempty queue
depends on something not delivered. As only the head is looked at, a call of
`deliver_messages()` takes the message that has just come or nothing
(`ReceiveArrives`), so each step of the loop is one delivery of the abstract
module. The rest of the invariant relates history and vectors: the messages of
a sender are numbered once each (`SentOnce`), all that is in flight, held back
or delivered was sent (`Known`), a vector counts deliveries (`Counts`) and
without duplicates says which (`LogIds`), and there are no more copies of
messages than messages and duplicates (`Copies`).

`ClientStartupProofs`, for any finite sets of clients and servers
(`ProcessAssumption`): type correctness, `IndexTellsApart`. The invariant
collects every index that is on its way to a client or was read by it (`Idx`):
below the counter of its server (`Given`), different for two clients of one
server (`Apart`). That the counter stays within the number of clients needs
`Requests` and `Room`: a client's GET_INDEX is pending once. `HaveLed` gives the
other half of the property: only leaders answer, and they lead until they die,
so that two that live need a leader superseded alive. `WaitsForReason` has an
invariant of its own (`Awaited`): without a loss or a death, the question of a
client that waits is with a leader, or an answer is offered to it, or it has
been refused; at rest the first two are excluded.

`ChatServerProofs`, for any clients, peers and numbers of descriptors, from 3 on
(`ConnectionAssumption`: room for the connections with which a follower starts;
`ClientAssumption`: clients with different IDs): type correctness,
`SlotsAccounted`, `Routed`, `DeathNeedsFaults`, `SelectSound`, `PeersListed`. The
invariant says of each table what its numbers are connected to: `LeaderSocket`,
`OneLeader`, `FollowerList` of a follower's sockets; `LeaderList` of the list;
`SlotsExact` and `AcceptedOf` of `ClientArray`; `Watched` of the select set, until a
connection is rejected or an index not sent; `Unanswered` says that in the latter
case the next `select()` fails, so that nothing comes between. `DeadPeers`,
`EndsCounted` and `LeaderCounted` count the ends of connections, without which
nothing can be said of the number that is used again. `DeathNeedsFaults` follows
from these counts: a follower that has lost its successor has had one end more
than it has leaders lost and ends unread, so that one that also reads an end on
the successor's number, or an election for want of its leader, has had two;
after a lost election there is no such successor, and one end is enough.

`DiscoveryProofs`, for any finite number of servers and any bounds
(`ServerAssumption`, `IdAssumption`): type correctness, `LeadersAccounted`,
`DeathNeedsNamesake`, `FollowersListed`. The invariant (`Consistent`, of states in
which everybody lives) says of every list whom it names (`ListOk`), of every
follower that its leader leads (`RoleOk`), of every connection who is at its
other end (`ConnectionOk`), and of every message in flight that its reader can
apply it (`Written`: an answer names a successor other than the reader and with an ID of
its own, and comes from a leader that lists the reader). `Accounted`
strengthens the count of leaders: those who wait and were neither late nor
passed over count as leaders already.

There also `RingsFollowLists`, for the states in which nobody is dead and no ID
is shared (`RingInv`). What a leader has written and what its peers have read are
compared by what each peer will believe when it has read everything: its last
instruction names the one after it in the list, or it has none left to read and
has that successor (`Obeys`). Instructions overtake deaths of connections:
`SuccessorOk` says that a connection to a successor is open and read unless that
successor has gone another way (`Missed`: it leads, follows another, or has been
connected to by another since), which it does for good (`MissedStays`). This
needs that a leader connects to a server that waits once, and its answer comes
first (`OnlyOne`), and that it names nobody that waits before it has connected to
it (`Named`). `InRing`, `RingShortened` and `RingGrown` say what sorted insertion
and deletion do to the neighbours in the list: only the predecessor's changes,
which is the one that `new_server()` and `ring_status()` write to. At rest, who is
listed and does not follow has the leader as successor in the ring of another
list, in which that leader would then be listed, and silent: only a peer that
`Lingers` is left.

`FailoverProofs`, for any finite set of servers, any of which may die
(`ServerAssumption`, `BoundAssumption`): type correctness, `SuccessorWatched`.
The invariant is that a list starts with its server, that one that does not
lead has at most three entries, the third that of `successor_socket`, and that
nobody has its own datagram. The first ring needs an ordering of any finite set
of IDs to exist, which `OrderingExists` shows by a least counterexample.

There also, step by step, that `Failover` implements `Election`
(`ImplementsElection`). "As long as no follower dies" is part of `ElectionSpec`
itself; heartbeats, losses and the death of the old leader are not excluded.
`Orderly` is what the mapping needs of the states in which all followers are
up, and its parts are about the two halves of a failover:

- on the old ring. `Stays`: who has not left it has the list of the start, so
  that "the successor" is the next greater follower. `Carry`: a vote is its
  sender's own or that of the greatest, since any other meets a greater server
  at the next hop (`Neighbour`: only the greatest has a smaller successor), so
  that only the greatest wins (`Wins`, `OneLeader`). `Swept`: the announcement
  is the last message of each connection, and where it has passed nothing
  follows, so that whoever has left reads no vote that could bring it back;
- around the new leader. `Asks`: who asks has left and is not listed; `Wins`:
  who is listed lists the leader, or has the news of it on the way; `Seeks`: who
  lists a leader is listed by it. These make the questions, the answers and the
  news stutters of the election, and say that no peer is taken for silent
  (`PeersAreHeard`), that nobody is sent an instruction of the old leader
  (`NoUpdate`), and that no list ever holds more than the election sees.

`SendingSucceeds`: while all followers are up, none of them fails to send to its
successor, so that those branches are not taken. Each step has a lemma
(`...Step`); `LeaverKeeps` and `LeaverAnnounces` carry those
in which a server leaves the old ring, `HearerKeeps` and `AnswerKeeps` those in which it
joins the new one.

And `OneFaultOneDeath`. `OneInv` says what at most one fault leaves. If all
followers are up, `Orderly` holds, the old leader has the list it started with
as long as it is up, and each follower lists the successor that it is connected
to (`Untouched`). If a follower has died, everybody else is up, no election has
started, and nothing but instructions that name the others is on its way
(`Bereft`). No heartbeat of a leader is on its way unless it is itself the fault
(`Spared`). In each case whatever a handler dereferences is there.

Model-checked only. Liveness (`ElectionEnds`, `SomeoneLeads`, `Reunite`,
`EverythingArrives`, `Settles`, `AnswerServes`, `TwinsPart`) is beyond the
prover, and so is ENABLED, by which `RingFollowsList` and `StrandedByLoss` of
`Failover` say that nothing more is due.

## 5. Not modelled

- suspicion of a live leader by its followers, and servers that join during a
  failover (its consequences for clients are in `ClientStartup`). A leader that
  is suspected goes on instructing those who have voted it off, and a follower
  whose list is empty by then reads through NULL (`socket_changes.c:63`):
  `DeathNeedsFaults` is stated of servers that suspect no living leader;
- the framing of the byte streams: 255 bytes of a client are read 256 at a time
  (`client_s.c:218`); the modules take a message as a unit;
- clients with equal IDs, and clients with an index beyond their vectors: what
  they do depends on the layout of memory, and nothing is promised for them;
- creating and configuring sockets (`socket_setup.c`, `join_multicast`), Windows
  branches, printing, and the wording of messages: I/O and layout;
- `udp.c`, `message_to_group()`, the TcpClient list, `get_pred_socket()`,
  `get_last_peer_socket()`, `get_service_info()`: without callers; `test.c`, scripts
  and container files.

## 6. Plan

1. Proofs: `RingFollowsList` and `StrandedByLoss` of `Failover`, from an invariant
   on what each server will believe as in `Discovery`; they need the state of
   rest to be said without ENABLED, and the rings in which one member is dead.
2. `Failover` with suspicion (heartbeats lost, the old leader leads on), and
   liveness after two crashes with votes repeated without bound.
3. `Framing`: 255 bytes sent, 256 read.
