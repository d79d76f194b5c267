------------------------------- MODULE HoldBack -------------------------------
(***************************************************************************)
(* The group chat of the clients: each multicasts its messages itself over *)
(* UDP, with a vector of what it has delivered, and holds back what it     *)
(* receives too early.  main() and deliver_messages() of                   *)
(* client/client_s.c, handle_group_receive() of client/group.c and the     *)
(* queue of client/data_structure.c.                                       *)
(*                                                                         *)
(* A client is named by its CLK_INDEX, drawn from the leader before it     *)
(* joins the group.                                                        *)
(***************************************************************************)
EXTENDS Integers, Sequences, SequencesExt, FiniteSetsExt

CONSTANTS
    Client,
    MaxSend,      \* bound: messages sent by each client
    MaxBlank,     \* bound: how many of all messages are blank
    MaxReorder,   \* bound: datagrams that overtake others
    MaxLoss,      \* bound: datagrams lost
    MaxDup        \* bound: datagrams duplicated

(* MAX_GROUP_SIZE.  The code checks it nowhere.                            *)
ASSUME ClientAssumption == IsFiniteSet(Client) /\ Cardinality(Client) <= 10
ASSUME BoundAssumption ==
    {MaxSend, MaxBlank, MaxReorder, MaxLoss, MaxDup} \subseteq Nat

VARIABLES
    status,      \* "out" of the group, "in" it, or "gone" for good
    SEND_SEQ,
    DELIVERED,
    queue,       \* bufferHead, the hold-back queue
    net,         \* datagrams on their way to each client, in order of sending
    sent, log,   \* history: all messages, and each client's deliveries
    spent        \* how much of each bound is used

vars == <<status, SEND_SEQ, DELIVERED, queue, net, sent, log, spent>>

(* "num" is the sender's own entry of deps, named for the reader.  What    *)
(* matters of the text is whether it is blank.                             *)
Message == [from : Client, num : Nat, deps : [Client -> Nat], blank : BOOLEAN]

(* Every variable has its type; in particular no vector that is sent has   *)
(* an entry below zero.                                                    *)
TypeOK ==
    /\ status \in [Client -> {"out", "in", "gone"}]
    /\ SEND_SEQ \in [Client -> 0 .. MaxSend]
    /\ DELIVERED \in [Client -> [Client -> Nat]]
    /\ queue \in [Client -> Seq(Message)]
    /\ net \in [Client -> Seq(Message)]
    /\ sent \subseteq Message
    /\ log \in [Client -> Seq(Message)]
    /\ spent \in [blank : 0 .. MaxBlank, reorder : 0 .. MaxReorder,
                  loss : 0 .. MaxLoss, dup : 0 .. MaxDup]

Init ==
    /\ status = [c \in Client |-> "out"]
    /\ SEND_SEQ = [c \in Client |-> 0]
    /\ DELIVERED = [c \in Client |-> [d \in Client |-> 0]]
    /\ queue = [c \in Client |-> << >>]
    /\ net = [c \in Client |-> << >>]
    /\ sent = {}
    /\ log = [c \in Client |-> << >>]
    /\ spent = [blank |-> 0, reorder |-> 0, loss |-> 0, dup |-> 0]

-----------------------------------------------------------------------------
Join(c) ==
    /\ status[c] = "out"
    /\ status' = [status EXCEPT ![c] = "in"]
    /\ UNCHANGED <<SEND_SEQ, DELIVERED, queue, net, sent, log, spent>>

(* The user enters an empty line, or the server closes the connection.     *)
Leave(c) ==
    /\ status[c] = "in"
    /\ status' = [status EXCEPT ![c] = "gone"]
    /\ queue' = [queue EXCEPT ![c] = << >>]
    /\ net' = [net EXCEPT ![c] = << >>]
    /\ UNCHANGED <<SEND_SEQ, DELIVERED, sent, log, spent>>

(* Faulty variants: SEND_SEQ is off by one, or only it is sent.            *)
DEPENDENCY_before(c) == [DELIVERED[c] EXCEPT ![c] = SEND_SEQ[c] - 1]
DEPENDENCY_after(c) == [DELIVERED[c] EXCEPT ![c] = SEND_SEQ[c] + 1]
DEPENDENCY_own(c) == [d \in Client |-> IF d = c THEN SEND_SEQ[c] ELSE 0]

(* The vector that goes with a message.                                    *)
DEPENDENCY(c) == [DELIVERED[c] EXCEPT ![c] = SEND_SEQ[c]]

(* Multicast reaches everybody in the group, the sender included: the      *)
(* clients leave the loopback on.                                          *)
Send(c, blank) ==
    LET m == [from |-> c, num |-> SEND_SEQ[c], deps |-> DEPENDENCY(c), blank |-> blank] IN
    /\ status[c] = "in" /\ SEND_SEQ[c] < MaxSend
    /\ blank => spent.blank < MaxBlank
    /\ spent' = [spent EXCEPT !.blank = IF blank THEN @ + 1 ELSE @]
    /\ SEND_SEQ' = [SEND_SEQ EXCEPT ![c] = @ + 1]
    /\ sent' = sent \cup {m}
    /\ net' = [d \in Client |-> IF status[d] = "in" THEN Append(net[d], m) ELSE net[d]]
    /\ UNCHANGED <<status, DELIVERED, queue, log>>

-----------------------------------------------------------------------------
(* Faulty variants: equal entries count as greater, one entry is enough.   *)
NoGreaterOrEqual(deps, counts) == \A d \in Client : deps[d] < counts[d]
SomeNotGreater(deps, counts) == \E d \in Client : deps[d] <= counts[d]

(* array_compare() of two vectors: 0 unless the first is greater somewhere.*)
NoGreater(deps, counts) == \A d \in Client : deps[d] <= counts[d]

(* Faulty variant: what stays in the queue is counted as well.             *)
CountedAll(counts, q, k) ==
    [d \in Client |-> counts[d] + Cardinality({i \in DOMAIN q : q[i].from = d})]

(* What DELIVERED is after the first k messages of q.                      *)
Counted(counts, q, k) ==
    [d \in Client |-> counts[d] + Cardinality({i \in 1 .. k : q[i].from = d})]

(* How many messages the loop of deliver_messages() takes from the queue:  *)
(* it stops at the first one that depends on something not delivered.      *)
Deliverable(counts, q) ==
    Max({k \in 0 .. Len(q) :
            \A i \in 1 .. k : NoGreater(q[i].deps, Counted(counts, q, i - 1))})

Take(c, i) == net' = [net EXCEPT ![c] = RemoveAt(@, i)]

(* Faulty variant: the message goes to the front of the queue.             *)
prepend_to_holdback_queue(q, m) == <<m>> \o q

append_to_holdback_queue(q, m) == Append(q, m)

(* handle_group_receive(): the message goes to the end of the queue, which *)
(* is then emptied from the front.  A blank one does not scan, and the     *)
(* queue is lost with it.                                                  *)
handle_group_receive(c, m) ==
    LET q == append_to_holdback_queue(queue[c], m)
        k == Deliverable(DELIVERED[c], q)
    IN
    \/ /\ m.blank
       /\ queue' = [queue EXCEPT ![c] = << >>]
       /\ UNCHANGED <<DELIVERED, log>>
    \/ /\ ~m.blank
       /\ queue' = [queue EXCEPT ![c] = SubSeq(q, k + 1, Len(q))]
       /\ DELIVERED' = [DELIVERED EXCEPT ![c] = Counted(@, q, k)]
       /\ log' = [log EXCEPT ![c] = @ \o SubSeq(q, 1, k)]

Receive(c) ==
    /\ net[c] # << >>
    /\ Take(c, 1)
    /\ handle_group_receive(c, Head(net[c]))
    /\ UNCHANGED <<status, SEND_SEQ, sent, spent>>

(* UDP: the i-th datagram overtakes those before it, is lost on the way to *)
(* one client, or comes again.                                             *)
ReceiveEarly(c, i) ==
    /\ i > 1 /\ spent.reorder < MaxReorder
    /\ spent' = [spent EXCEPT !.reorder = @ + 1]
    /\ Take(c, i)
    /\ handle_group_receive(c, net[c][i])
    /\ UNCHANGED <<status, SEND_SEQ, sent>>

Lose(c, i) ==
    /\ spent.loss < MaxLoss
    /\ spent' = [spent EXCEPT !.loss = @ + 1]
    /\ Take(c, i)
    /\ UNCHANGED <<status, SEND_SEQ, DELIVERED, queue, sent, log>>

Duplicate(c, i) ==
    /\ spent.dup < MaxDup
    /\ spent' = [spent EXCEPT !.dup = @ + 1]
    /\ net' = [net EXCEPT ![c] = Append(@, @[i])]
    /\ UNCHANGED <<status, SEND_SEQ, DELIVERED, queue, sent, log>>

Next ==
    \E c \in Client :
        \/ Join(c) \/ Leave(c) \/ Receive(c)
        \/ \E blank \in BOOLEAN : Send(c, blank)
        \/ \E i \in DOMAIN net[c] :
              ReceiveEarly(c, i) \/ Lose(c, i) \/ Duplicate(c, i)

(* A client polls its sockets every 100 ms.                                *)
Fairness == \A c \in Client : WF_vars(Receive(c))

Spec == Init /\ [][Next]_vars
FairSpec == Spec /\ Fairness

-----------------------------------------------------------------------------
IdOf(m) == <<m.from, m.num>>

(* DELIVERED counts the messages delivered, once more for each duplicate   *)
(* at most: that is what deps of the next message says of the past.        *)
CountsRight ==
    \A c, d \in Client :
        LET nums == {log[c][i].num : i \in {j \in DOMAIN log[c] : log[c][j].from = d}} IN
        /\ DELIVERED[c][d] >= Cardinality(nums)
        /\ DELIVERED[c][d] <= Cardinality(nums) + spent.dup

(* The messages of one sender are delivered in the order it sent them and  *)
(* without a gap, unless duplicates have been counted for others.          *)
NoGap ==
    spent.dup = 0 =>
        \A c \in Client : \A i \in DOMAIN log[c] :
            LET m == log[c][i] IN
            m.num = Cardinality({j \in 1 .. i - 1 : log[c][j].from = m.from})

(* The queue only holds back: deliver_messages() looks at its head alone,  *)
(* and a message that the head waits for comes to stand behind it.  Only a *)
(* blank message, which drops the queue, lets others through again.        *)
HeldBackForGood ==
    [][\A c \in Client : queue[c] # << >> =>
          /\ log'[c] = log[c]
          /\ IsPrefix(queue[c], queue'[c]) \/ queue'[c] = << >>]_vars

Missed(c) == {m \in sent : \A s \in {queue[c], net[c], log[c]} : m \notin ToSet(s)}

Faultless == \A b \in DOMAIN spent : spent[b] = 0

(* Without faults of the network and blank messages, whoever was in the    *)
(* group from the first message on delivers everything that is ever sent:  *)
(* handle_group_receive() is called for each datagram, and each call       *)
(* delivers its message.                                                   *)
EverythingArrives ==
    \A c \in Client :
        <>[](Faultless /\ status[c] = "in" /\ Missed(c) = {} => ToSet(log[c]) = sent)

-----------------------------------------------------------------------------
(* Without duplicates the clients keep the promise of CausalMulticast: the *)
(* past of a message is what its vector counts.                            *)
PastOf(m) == UNION {{d} \X (0 .. m.deps[d] - 1) : d \in Client}

Causal == INSTANCE CausalMulticast WITH
    sent <- {[id |-> IdOf(m), past |-> PastOf(m)] : m \in sent},
    log <- [c \in Client |-> [i \in DOMAIN log[c] |-> IdOf(log[c][i])]]

(* The loop of deliver_messages() with array_compare() implements it.      *)
CausalSpec == Causal!Spec
=============================================================================
