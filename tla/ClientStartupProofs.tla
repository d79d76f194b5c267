------------------------- MODULE ClientStartupProofs -------------------------
(***************************************************************************)
(* The start-up of the clients, for any clients, servers and bounds: an    *)
(* index is given once by each server, so two clients have the same one    *)
(* only from two servers, and both of these lead only after a leader was   *)
(* superseded alive; and whoever waits for ever was refused, unless a      *)
(* datagram was lost or a server died.                                     *)
(***************************************************************************)
EXTENDS ClientStartup, Lemmas

Count == Cardinality(Client)
Mail == {Text} \cup {Index(n) : n \in 0 .. Count}

LEMMA ClientCount == Count \in Nat
  BY ProcessAssumption, FS_CardinalityType DEF Count

-----------------------------------------------------------------------------
(* The indices in what a server has sent to a client, and the one that the *)
(* client has read (its own).                                              *)
Indices(box, own) == {n \in Nat : own = n \/ \E i \in 1 .. Len(box) : box[i] = Index(n)}

Idx(c) == Indices(inbox[c], CLK_INDEX[c])

LEMMA MailIs ==
    ASSUME NEW m \in Mail, m # Text
    PROVE  m[2] \in 0 .. Count /\ m = Index(m[2])
<1>1. PICK n \in 0 .. Count : m = Index(n)
  BY DEF Mail
<1> QED
  BY <1>1 DEF Index

LEMMA IndexIs ==
    ASSUME NEW m, NEW n
    PROVE  Index(m) = Index(n) => m = n
  BY DEF Index

LEMMA TextIs == \A n : Index(n) # Text
  BY DEF Index, Text

LEMMA IndicesEmpty ==
    ASSUME NEW box, NEW own
    PROVE  Indices(<< >>, own) \subseteq Indices(box, own)
  BY DEF Indices

LEMMA IndicesNone == Indices(<< >>, NoIndex) = {}
  BY DEF Indices, NoIndex

LEMMA IndicesTail ==
    ASSUME NEW box \in Seq(Mail), box # << >>, NEW own
    PROVE  /\ Tail(box) \in Seq(Mail) /\ Head(box) \in Mail
           /\ Indices(Tail(box), own) \subseteq Indices(box, own)
           /\ \A n \in Nat : Head(box) = Index(n) =>
                 Indices(Tail(box), n) \subseteq Indices(box, own)
<1>1. /\ Tail(box) \in Seq(Mail) /\ Len(Tail(box)) = Len(box) - 1 /\ Len(box) \in Nat
      /\ Head(box) = box[1] /\ 1 \in 1 .. Len(box)
      /\ \A i \in 1 .. Len(Tail(box)) : Tail(box)[i] = box[i + 1]
  BY HeadTailProperties
<1> DEFINE t == Tail(box)
<1> HIDE DEF t
<1>2. \A i \in 1 .. Len(t) : i + 1 \in 1 .. Len(box) /\ t[i] = box[i + 1]
  BY <1>1 DEF t
<1>3. \A n \in Nat : (\E i \in 1 .. Len(t) : t[i] = Index(n)) =>
                        \E i \in 1 .. Len(box) : box[i] = Index(n)
  BY <1>2
<1>4. Indices(t, own) \subseteq Indices(box, own)
  BY <1>3 DEF Indices
<1>5. \A n \in Nat : Head(box) = Index(n) => Indices(t, n) \subseteq Indices(box, own)
  BY <1>1, <1>3 DEF Indices
<1>6. Head(box) \in Mail
  BY <1>1
<1> QED
  BY <1>1, <1>4, <1>5, <1>6 DEF t

LEMMA IndicesAppend ==
    ASSUME NEW box \in Seq(Mail), NEW own, NEW m \in Mail
    PROVE  /\ Append(box, m) \in Seq(Mail)
           /\ m = Text => Indices(Append(box, m), own) = Indices(box, own)
           /\ \A n \in Nat : m = Index(n) =>
                 Indices(Append(box, m), own) = Indices(box, own) \cup {n}
<1> DEFINE a == Append(box, m)
<1>1. /\ a \in Seq(Mail) /\ Len(a) = Len(box) + 1 /\ Len(box) \in Nat
      /\ \A i \in 1 .. Len(box) : a[i] = box[i]
      /\ a[Len(box) + 1] = m
  BY AppendProperties
<1> HIDE DEF a
<1>2. \A n \in Nat : (\E i \in 1 .. Len(a) : a[i] = Index(n)) <=>
                        (\E i \in 1 .. Len(box) : box[i] = Index(n)) \/ m = Index(n)
  BY <1>1
<1>3. m = Text => Indices(a, own) = Indices(box, own)
  BY <1>2, TextIs DEF Indices
<1>4. \A n \in Nat : m = Index(n) => Indices(a, own) = Indices(box, own) \cup {n}
  BY <1>2, IndexIs DEF Indices
<1> QED
  BY <1>1, <1>3, <1>4 DEF a

-----------------------------------------------------------------------------
(* Where a client is says whether it has a server, and an index.           *)
Places ==
    \A c \in Client :
        /\ pc[c] \in {"new", "asked", "listening"} => server[c] = NoServer
        /\ pc[c] \in {"told", "connected", "in"} => server[c] \in Server
        /\ pc[c] \in {"new", "asked", "listening", "told"} => Idx(c) = {}

(* GET_INDEX is sent once, to the server of the client.                    *)
Requests ==
    \A s \in Server : \A c \in requests[s] :
        server[c] = s /\ pc[c] \in {"connected", "failed"} /\ Idx(c) = {}

(* A server gives away the numbers below its clk_index, each once.         *)
Given == \A c \in Client : \A n \in Idx(c) : server[c] \in Server /\ n < clk_index[server[c]]
Apart == \A c, d \in Client : c # d /\ server[c] = server[d] => Idx(c) \cap Idx(d) = {}

(* It gives away as many as clients have sent GET_INDEX to it.             *)
Served(s) == {c \in Client : server[c] = s /\ pc[c] # "told"}
Room == \A s \in Server : clk_index[s] + Cardinality(requests[s]) <= Cardinality(Served(s))

(* Only leaders answer, and they lead for the rest of their lives.         *)
HaveLed ==
    /\ spent.usurp = 0 => \A s, t \in leader : s = t
    /\ \A c \in Client :
          /\ server[c] \in up => server[c] \in leader
          /\ \A i \in 1 .. Len(offers[c]) :
                offers[c][i].from \in up => offers[c][i].from \in leader

IInv == TypeOK /\ Places /\ Requests /\ Given /\ Apart /\ Room /\ HaveLed

Spent == [loss : 0 .. MaxLoss, crash : 0 .. MaxCrash,
          usurp : 0 .. MaxUsurp, forward : 0 .. MaxForward]

LEMMA Types ==
    TypeOK <=>
        /\ up \subseteq Server /\ leader \subseteq up
        /\ queue \in [Server -> Seq(Client)]
        /\ requests \in [Server -> SUBSET Client]
        /\ clk_index \in [Server -> 0 .. Count]
        /\ pc \in [Client -> State]
        /\ offers \in [Client -> Seq(Offer)]
        /\ inbox \in [Client -> Seq(Mail)]
        /\ server \in [Client -> Server \cup {NoServer}]
        /\ CLK_INDEX \in [Client -> Nat \cup {NoIndex}]
        /\ refused \subseteq Client
        /\ spent \in Spent
        /\ \A c \in Client :
              pc[c] = "in" => server[c] # NoServer /\ CLK_INDEX[c] \in 0 .. clk_index[server[c]] - 1
  BY DEF TypeOK, Count, Mail, Spent

LEMMA SubsetSize ==
    ASSUME NEW S \in SUBSET Client
    PROVE  IsFiniteSet(S) /\ Cardinality(S) \in Nat /\ Cardinality(S) <= Count
  BY ProcessAssumption, FS_Subset, FS_CardinalityType DEF Count

LEMMA SmallerSubset ==
    ASSUME NEW T \in SUBSET Client, NEW S \in SUBSET T
    PROVE  /\ Cardinality(S) \in Nat /\ Cardinality(T) \in Nat
           /\ Cardinality(S) <= Cardinality(T)
<1>1. IsFiniteSet(T) /\ Cardinality(T) \in Nat /\ Cardinality(S) \in Nat
  BY SubsetSize
<1> QED
  BY <1>1, FS_Subset

LEMMA FewerIndices ==
    ASSUME Given, Apart, UNCHANGED <<server, clk_index>>,
           \A c \in Client : Idx(c)' \subseteq Idx(c)
    PROVE  Given' /\ Apart'
  BY DEF Given, Apart

LEMMA RoomKept ==
    ASSUME TypeOK, TypeOK', Room, UNCHANGED clk_index,
           \A s \in Server : requests'[s] \subseteq requests[s],
           \A s \in Server : Served(s) \subseteq Served(s)'
    PROVE  Room'
<1> SUFFICES ASSUME NEW s \in Server
             PROVE  clk_index[s] + Cardinality(requests'[s]) <= Cardinality(Served(s)')
  BY DEF Room
<1>1. clk_index[s] + Cardinality(requests[s]) <= Cardinality(Served(s))
  BY DEF Room
<1>2. clk_index[s] \in Nat /\ requests[s] \in SUBSET Client
  BY Types, ClientCount
<1>3. /\ Cardinality(requests'[s]) \in Nat /\ Cardinality(requests[s]) \in Nat
      /\ Cardinality(requests'[s]) <= Cardinality(requests[s])
  BY <1>2, SmallerSubset
<1>4. Served(s)' \in SUBSET Client
  BY DEF Served
<1>5. /\ Cardinality(Served(s)) \in Nat /\ Cardinality(Served(s)') \in Nat
      /\ Cardinality(Served(s)) <= Cardinality(Served(s)')
  BY <1>4, SmallerSubset
<1> QED
  BY <1>1, <1>2, <1>3, <1>5

(* Where nobody leads or offers anything new.                              *)
LEMMA HaveLedKept ==
    ASSUME HaveLed, UNCHANGED <<up, leader, server>>, spent'.usurp = spent.usurp,
           \A c \in Client : offers'[c] = offers[c] \/ offers'[c] = << >>
    PROVE  HaveLed'
  BY DEF HaveLed

LEMMA InitIInv == Init => IInv
<1> SUFFICES ASSUME Init PROVE IInv
  OBVIOUS
<1>1. PICK s \in Server : leader = {s}
  BY DEF Init
<1>2. spent \in Spent
  BY BoundAssumption DEF Init, Spent
<1>3. TypeOK
  BY <1>1, <1>2, Types, ClientCount DEF Init, State
<1>4. \A c \in Client : Idx(c) = {}
  BY IndicesNone DEF Init, Idx
<1>5. Places /\ Requests /\ Given /\ Apart
  BY <1>4 DEF Init, Places, Requests, Given, Apart
<1>6. Room
  <2> SUFFICES ASSUME NEW t \in Server
               PROVE  clk_index[t] + Cardinality(requests[t]) <= Cardinality(Served(t))
    BY DEF Room
  <2>1. clk_index[t] = 0 /\ Cardinality(requests[t]) = 0
    BY FS_EmptySet DEF Init
  <2>2. Served(t) \in SUBSET Client
    BY DEF Served
  <2> QED
    BY <2>1, <2>2, SubsetSize
<1>7. HaveLed
  BY <1>1, ProcessAssumption DEF Init, HaveLed
<1> QED
  BY <1>3, <1>5, <1>6, <1>7 DEF IInv

-----------------------------------------------------------------------------
LEMMA AskKeeps ==
    ASSUME IInv, NEW c \in Client, Ask(c)
    PROVE  IInv'
<1>1. /\ pc[c] = "new" /\ pc' = [pc EXCEPT ![c] = "asked"]
      /\ UNCHANGED <<up, leader, requests, clk_index, offers, inbox, server, CLK_INDEX, refused>>
  BY DEF Ask
<1>2. PICK lost \in SUBSET up :
          /\ spent.loss + Cardinality(lost) <= MaxLoss
          /\ queue' = [s \in Server |-> IF s \in up \ lost THEN Append(queue[s], c) ELSE queue[s]]
          /\ spent' = [spent EXCEPT !.loss = spent.loss + Cardinality(lost)]
  BY DEF Ask
<1>3. TypeOK /\ Places
  BY DEF IInv
<1>4. spent' \in Spent /\ spent'.usurp = spent.usurp
  <2>1. spent \in Spent /\ spent.loss \in Nat /\ MaxLoss \in Nat
    BY <1>3, Types, BoundAssumption DEF Spent
  <2>2. Cardinality(lost) \in Nat
    BY <1>3, Types, ProcessAssumption, FS_Subset, FS_CardinalityType
  <2>3. spent.loss + Cardinality(lost) \in 0 .. MaxLoss
    BY <1>2, <2>1, <2>2
  <2> QED
    BY <1>2, <2>1, <2>3 DEF Spent
<1>5. queue' \in [Server -> Seq(Client)]
  <2>1. \A s \in Server : queue[s] \in Seq(Client) /\ Append(queue[s], c) \in Seq(Client)
    BY <1>3, Types
  <2> QED
    BY <1>2, <2>1
<1>6. pc' \in [Client -> State] /\ pc'[c] = "asked" /\ \A d \in Client \ {c} : pc'[d] = pc[d]
  BY <1>1, <1>3, Types DEF State
<1>7. TypeOK'
  BY <1>1, <1>3, <1>4, <1>5, <1>6 DEF TypeOK, Count, Mail, Spent
<1>8. \A d \in Client : Idx(d)' = Idx(d)
  BY <1>1 DEF Idx
<1>9. Places'
  BY <1>1, <1>6, <1>8 DEF IInv, Places
<1>10. Requests'
  BY <1>1, <1>6, <1>8 DEF IInv, Requests, TypeOK
<1>11. Given' /\ Apart'
  BY <1>1, <1>8, FewerIndices DEF IInv
<1>12. Room'
  BY <1>1, <1>3, <1>6, <1>7, RoomKept DEF IInv, Served
<1>13. HaveLed'
  BY <1>1, <1>4, HaveLedKept DEF IInv
<1> QED
  BY <1>7, <1>9, <1>10, <1>11, <1>12, <1>13 DEF IInv

LEMMA ListenKeeps ==
    ASSUME IInv, NEW c \in Client, Listen(c)
    PROVE  IInv'
<1>1. /\ pc[c] = "asked" /\ pc' = [pc EXCEPT ![c] = "listening"]
      /\ UNCHANGED <<up, leader, queue, requests, clk_index, offers, inbox, server,
                     CLK_INDEX, refused, spent>>
  BY DEF Listen, servers
<1>2. TypeOK /\ Places
  BY DEF IInv
<1>3. /\ pc' \in [Client -> State] /\ pc'[c] = "listening"
      /\ \A d \in Client \ {c} : pc'[d] = pc[d]
  BY <1>1, <1>2, Types DEF State
<1>4. TypeOK'
  BY <1>1, <1>2, <1>3 DEF TypeOK, Count, Mail, Spent
<1>5. \A d \in Client : Idx(d)' = Idx(d)
  BY <1>1 DEF Idx
<1>6. Places'
  BY <1>1, <1>3, <1>5 DEF IInv, Places
<1>7. Requests'
  BY <1>1, <1>3, <1>5 DEF IInv, Requests, TypeOK
<1>8. Given' /\ Apart'
  BY <1>1, <1>5, FewerIndices DEF IInv
<1>9. Room'
  BY <1>1, <1>2, <1>3, <1>4, RoomKept DEF IInv, Served
<1>10. HaveLed'
  BY <1>1, HaveLedKept DEF IInv
<1> QED
  BY <1>4, <1>6, <1>7, <1>8, <1>9, <1>10 DEF IInv

LEMMA AcceptKeeps ==
    ASSUME IInv, NEW c \in Client, Accept(c)
    PROVE  IInv'
<1> DEFINE o == Head(offers[c])
<1>1. /\ pc[c] = "listening" /\ offers[c] # << >>
      /\ offers' = [offers EXCEPT ![c] = << >>]
      /\ \/ /\ o.whole /\ server' = [server EXCEPT ![c] = o.from]
            /\ pc' = [pc EXCEPT ![c] = "told"]
         \/ pc' = [pc EXCEPT ![c] = "failed"] /\ server' = server
      /\ UNCHANGED <<up, leader, queue, requests, clk_index, inbox, CLK_INDEX, refused, spent>>
  BY DEF Accept, servers
<1>2. TypeOK /\ Places
  BY DEF IInv
<1>3. offers[c] \in Seq(Offer)
  BY <1>2, Types
<1>4. o = offers[c][1] /\ 1 \in 1 .. Len(offers[c]) /\ o \in Offer
  BY <1>1, <1>3
<1>5. o.from \in Server
  BY <1>4 DEF Offer
<1>6. o.from \in up => o.from \in leader
  BY <1>4 DEF IInv, HaveLed
<1> HIDE DEF o
<1>7. /\ pc' \in [Client -> State] /\ server' \in [Client -> Server \cup {NoServer}]
      /\ \/ pc'[c] = "told" /\ server'[c] = o.from
         \/ pc'[c] = "failed" /\ server'[c] = server[c]
      /\ \A d \in Client \ {c} : pc'[d] = pc[d] /\ server'[d] = server[d]
  BY <1>1, <1>2, <1>5, Types DEF State
<1>8. /\ offers' \in [Client -> Seq(Offer)] /\ offers'[c] = << >>
      /\ \A d \in Client \ {c} : offers'[d] = offers[d]
  BY <1>1, <1>2, Types
<1>9. TypeOK'
  BY <1>1, <1>2, <1>7, <1>8 DEF TypeOK, Count, Mail, Spent
<1>10. Idx(c)' = {} /\ \A d \in Client : Idx(d)' = Idx(d)
  BY <1>1, <1>2 DEF Idx, Places
<1>11. Places'
  BY <1>2, <1>5, <1>7, <1>10 DEF Places
<1>12. \A s \in Server : c \notin requests[s]
  BY <1>1 DEF IInv, Requests
<1>13. Requests'
  BY <1>1, <1>2, <1>7, <1>10, <1>12 DEF IInv, Requests, TypeOK
<1>14. Given' /\ Apart'
  <2>1. Given'
    BY <1>1, <1>7, <1>10 DEF IInv, Given
  <2>2. Apart'
    BY <1>1, <1>7, <1>10 DEF IInv, Apart
  <2> QED
    BY <2>1, <2>2
<1>15. Room'
  <2>1. server[c] = NoServer
    BY <1>1, <1>2 DEF Places
  <2>2. \A s \in Server : Served(s) \subseteq Served(s)'
    BY <1>7, <2>1, ProcessAssumption DEF Served
  <2> QED
    BY <1>1, <1>2, <1>9, <2>2, RoomKept DEF IInv
<1>16. HaveLed'
  <2>1. \A d \in Client : server'[d] \in up => server'[d] \in leader
    BY <1>6, <1>7 DEF IInv, HaveLed
  <2> QED
    BY <1>1, <1>8, <2>1 DEF IInv, HaveLed
<1> QED
  BY <1>9, <1>11, <1>13, <1>14, <1>15, <1>16 DEF IInv

LEMMA ConnectKeeps ==
    ASSUME IInv, NEW c \in Client, Connect(c)
    PROVE  IInv'
<1> DEFINE s == server[c]
<1>1. /\ pc[c] = "told"
      /\ \/ /\ pc' = [pc EXCEPT ![c] = "connected"]
            /\ requests' = [requests EXCEPT ![s] = requests[s] \cup {c}]
         \/ pc' = [pc EXCEPT ![c] = "failed"] /\ requests' = requests
      /\ UNCHANGED <<up, leader, queue, clk_index, offers, inbox, server, CLK_INDEX,
                     refused, spent>>
  BY DEF Connect
<1>2. TypeOK /\ Places
  BY DEF IInv
<1>3. s \in Server /\ Idx(c) = {}
  BY <1>1, <1>2 DEF Places
<1> HIDE DEF s
<1>4. /\ pc' \in [Client -> State] /\ pc'[c] \in {"connected", "failed"}
      /\ \A d \in Client \ {c} : pc'[d] = pc[d]
  BY <1>1, <1>2, Types DEF State
<1>5. /\ requests' \in [Server -> SUBSET Client]
      /\ requests'[s] \subseteq requests[s] \cup {c}
      /\ \A t \in Server \ {s} : requests'[t] = requests[t]
  <2>1. requests \in [Server -> SUBSET Client] /\ requests[s] \cup {c} \in SUBSET Client
    BY <1>2, <1>3, Types
  <2>2. CASE requests' = requests
    BY <2>1, <2>2
  <2>3. CASE requests' = [requests EXCEPT ![s] = requests[s] \cup {c}]
    <3> DEFINE R == requests[s] \cup {c}
    <3>1. requests' = [requests EXCEPT ![s] = R] /\ R \in SUBSET Client
      BY <2>1, <2>3
    <3> HIDE DEF R
    <3>2. /\ requests' \in [Server -> SUBSET Client] /\ requests'[s] = R
          /\ \A t \in Server \ {s} : requests'[t] = requests[t]
      BY <1>3, <2>1, <3>1
    <3> QED
      BY <3>2 DEF R
  <2> QED
    BY <1>1, <2>2, <2>3
<1>6. TypeOK'
  BY <1>1, <1>2, <1>4, <1>5 DEF TypeOK, Count, Mail, Spent
<1>7. \A d \in Client : Idx(d)' = Idx(d)
  BY <1>1 DEF Idx
<1>8. Places'
  BY <1>1, <1>2, <1>3, <1>4, <1>7 DEF Places, s
<1>9. Requests'
  <2> SUFFICES ASSUME NEW t \in Server, NEW d \in requests'[t]
               PROVE  server'[d] = t /\ pc'[d] \in {"connected", "failed"} /\ Idx(d)' = {}
    BY DEF Requests
  <2>1. CASE d = c /\ t = s
    BY <1>1, <1>3, <1>4, <1>7, <2>1 DEF s
  <2>2. CASE ~(d = c /\ t = s)
    <3>1. d \in requests[t] /\ d \in Client
      BY <1>2, <1>5, <2>2, Types
    <3> QED
      BY <1>1, <1>4, <1>7, <3>1 DEF IInv, Requests
  <2> QED
    BY <2>1, <2>2
<1>10. Given' /\ Apart'
  BY <1>1, <1>7, FewerIndices DEF IInv
<1>11. Room'
  <2> SUFFICES ASSUME NEW t \in Server
               PROVE  clk_index[t] + Cardinality(requests'[t]) <= Cardinality(Served(t)')
    BY <1>1 DEF Room
  <2>1. clk_index[t] + Cardinality(requests[t]) <= Cardinality(Served(t))
    BY DEF IInv, Room
  <2>2. clk_index[t] \in Nat /\ requests[t] \in SUBSET Client /\ requests'[t] \in SUBSET Client
    BY <1>2, <1>5, Types, ClientCount
  <2>3. /\ Served(t) \in SUBSET Client /\ Served(t)' \in SUBSET Client
        /\ Served(t)' = IF t = s THEN Served(t) \cup {c} ELSE Served(t)
        /\ c \notin Served(t)
    BY <1>1, <1>4 DEF Served, s
  <2>4. /\ IsFiniteSet(requests[t]) /\ Cardinality(requests[t]) \in Nat
        /\ IsFiniteSet(Served(t)) /\ Cardinality(Served(t)) \in Nat
    BY <2>2, <2>3, SubsetSize
  <2>5. Cardinality(Served(t) \cup {c}) = Cardinality(Served(t)) + 1
    BY <2>3, <2>4, FS_AddElement
  <2>6. /\ Cardinality(requests[t] \cup {c}) \in Nat
        /\ Cardinality(requests[t] \cup {c}) <= Cardinality(requests[t]) + 1
    <3>1. IsFiniteSet({c}) /\ Cardinality({c}) = 1
      BY FS_Singleton
    <3> QED
      BY <2>4, <3>1, UnionSize
  <2>7. CASE t = s
    <3>1. /\ Cardinality(requests'[t]) \in Nat
          /\ Cardinality(requests'[t]) <= Cardinality(requests[t] \cup {c})
      BY <1>5, <2>2, <2>7, SmallerSubset
    <3> QED
      BY <2>1, <2>2, <2>3, <2>4, <2>5, <2>6, <2>7, <3>1
  <2>8. CASE t # s
    BY <1>5, <2>1, <2>3, <2>8
  <2> QED
    BY <2>7, <2>8
<1>12. HaveLed'
  BY <1>1, HaveLedKept DEF IInv
<1> QED
  BY <1>6, <1>8, <1>9, <1>10, <1>11, <1>12 DEF IInv

LEMMA RecvInboxKeeps ==
    ASSUME IInv, NEW c \in Client, RecvInbox(c)
    PROVE  IInv'
<1> DEFINE m == Head(inbox[c])
<1>1. /\ pc[c] \in {"connected", "in"} /\ inbox[c] # << >>
      /\ inbox' = [inbox EXCEPT ![c] = Tail(inbox[c])]
      /\ \/ pc[c] = "in" /\ pc' = pc /\ CLK_INDEX' = CLK_INDEX
         \/ /\ pc[c] = "connected" /\ m # Text
            /\ pc' = [pc EXCEPT ![c] = "in"]
            /\ CLK_INDEX' = [CLK_INDEX EXCEPT ![c] = m[2]]
         \/ /\ pc[c] = "connected" /\ m = Text
            /\ pc' = [pc EXCEPT ![c] = "failed"] /\ CLK_INDEX' = CLK_INDEX
      /\ UNCHANGED <<up, leader, queue, requests, clk_index, offers, server, refused, spent>>
  BY DEF RecvInbox, servers
<1>2. TypeOK /\ Places
  BY DEF IInv
<1>3. inbox[c] \in Seq(Mail) /\ inbox \in [Client -> Seq(Mail)] /\ server[c] \in Server
  BY <1>1, <1>2, Types DEF Places
<1>4. /\ Tail(inbox[c]) \in Seq(Mail) /\ m \in Mail
      /\ Indices(Tail(inbox[c]), CLK_INDEX[c]) \subseteq Idx(c)
      /\ \A n \in Nat : m = Index(n) => Indices(Tail(inbox[c]), n) \subseteq Idx(c)
  BY <1>1, <1>3, IndicesTail DEF Idx
<1> HIDE DEF m
<1>5. /\ inbox' \in [Client -> Seq(Mail)] /\ inbox'[c] = Tail(inbox[c])
      /\ \A d \in Client \ {c} : inbox'[d] = inbox[d]
  BY <1>1, <1>3, <1>4
<1>6. m # Text => m[2] \in Nat /\ m = Index(m[2])
  BY <1>4, MailIs, ClientCount
<1>7. /\ pc' \in [Client -> State] /\ CLK_INDEX' \in [Client -> Nat \cup {NoIndex}]
      /\ \A d \in Client \ {c} : pc'[d] = pc[d] /\ CLK_INDEX'[d] = CLK_INDEX[d]
      /\ \/ pc[c] = "in" /\ pc'[c] = "in" /\ CLK_INDEX'[c] = CLK_INDEX[c]
         \/ pc[c] = "connected" /\ pc'[c] = "in" /\ m # Text /\ CLK_INDEX'[c] = m[2]
         \/ pc[c] = "connected" /\ pc'[c] = "failed" /\ CLK_INDEX'[c] = CLK_INDEX[c]
  <2>1. pc \in [Client -> State] /\ CLK_INDEX \in [Client -> Nat \cup {NoIndex}]
    BY <1>2, Types
  <2> QED
    BY <1>1, <1>6, <2>1 DEF State
<1>8. \A d \in Client : Idx(d)' \subseteq Idx(d)
  <2>1. Idx(c)' \subseteq Idx(c)
    BY <1>4, <1>5, <1>6, <1>7 DEF Idx
  <2>2. \A d \in Client \ {c} : Idx(d)' = Idx(d)
    BY <1>5, <1>7 DEF Idx
  <2> QED
    BY <2>1, <2>2
<1>9. pc[c] = "connected" /\ m # Text => m[2] \in Idx(c)
  <2>1. m # Text => m[2] \in Nat /\ inbox[c][1] = Index(m[2]) /\ 1 \in 1 .. Len(inbox[c])
    BY <1>1, <1>3, <1>6 DEF m
  <2> QED
    BY <2>1 DEF Idx, Indices
<1>10. TypeOK'
  <2>1. ASSUME NEW d \in Client, pc'[d] = "in"
        PROVE  server[d] # NoServer /\ CLK_INDEX'[d] \in 0 .. clk_index[server[d]] - 1
    <3>1. CASE pc[d] = "in" /\ CLK_INDEX'[d] = CLK_INDEX[d]
      BY <1>2, <3>1, Types
    <3>2. CASE d = c /\ pc[c] = "connected" /\ m # Text /\ CLK_INDEX'[c] = m[2]
      <4>1. m[2] \in Nat /\ m[2] < clk_index[server[c]]
        BY <1>6, <1>9, <3>2 DEF IInv, Given
      <4>2. clk_index[server[c]] \in Nat
        BY <1>2, <1>3, Types, ClientCount
      <4> QED
        BY <1>3, <3>2, <4>1, <4>2, ProcessAssumption
    <3> QED
      BY <1>7, <2>1, <3>1, <3>2
  <2> QED
    BY <1>1, <1>2, <1>5, <1>7, <2>1 DEF TypeOK, Count, Mail, Spent
<1>11. Places'
  BY <1>1, <1>3, <1>7, <1>8 DEF IInv, Places
<1>12. Requests'
  <2> SUFFICES ASSUME NEW t \in Server, NEW d \in requests[t]
               PROVE  server'[d] = t /\ pc'[d] \in {"connected", "failed"} /\ Idx(d)' = {}
    BY <1>1 DEF Requests
  <2>1. d \in Client /\ server[d] = t /\ pc[d] \in {"connected", "failed"} /\ Idx(d) = {}
    BY <1>2, Types DEF IInv, Requests
  <2> QED
    BY <1>1, <1>7, <1>8, <1>9, <2>1
<1>13. Given' /\ Apart'
  BY <1>1, <1>8, FewerIndices DEF IInv
<1>14. Room'
  BY <1>1, <1>2, <1>7, <1>10, RoomKept DEF IInv, Served
<1>15. HaveLed'
  BY <1>1, HaveLedKept DEF IInv
<1> QED
  BY <1>10, <1>11, <1>12, <1>13, <1>14, <1>15 DEF IInv

(* A client ends, and what its server has sent to it is lost.              *)
Ends(c) ==
    /\ pc[c] \in {"connected", "in"}
    /\ \/ pc' = [pc EXCEPT ![c] = "failed"]
       \/ pc[c] = "in" /\ pc' = [pc EXCEPT ![c] = "left"]
    /\ inbox' = [inbox EXCEPT ![c] = << >>]
    /\ UNCHANGED <<servers, offers, server, CLK_INDEX, refused, spent>>

LEMMA EndsKeeps ==
    ASSUME IInv, NEW c \in Client, Ends(c)
    PROVE  IInv'
<1>1. /\ pc[c] \in {"connected", "in"}
      /\ \/ pc' = [pc EXCEPT ![c] = "failed"]
         \/ pc[c] = "in" /\ pc' = [pc EXCEPT ![c] = "left"]
      /\ inbox' = [inbox EXCEPT ![c] = << >>]
      /\ UNCHANGED <<up, leader, queue, requests, clk_index, offers, server, CLK_INDEX,
                     refused, spent>>
  BY DEF Ends, servers
<1>2. TypeOK
  BY DEF IInv
<1>3. /\ pc' \in [Client -> State] /\ pc'[c] \in {"failed", "left"}
      /\ pc[c] = "connected" => pc'[c] = "failed"
      /\ \A d \in Client \ {c} : pc'[d] = pc[d]
  BY <1>1, <1>2, Types DEF State
<1>4. /\ inbox' \in [Client -> Seq(Mail)] /\ inbox'[c] = << >>
      /\ \A d \in Client \ {c} : inbox'[d] = inbox[d]
  BY <1>1, <1>2, Types
<1>5. TypeOK'
  BY <1>1, <1>2, <1>3, <1>4 DEF TypeOK, Count, Mail, Spent
<1>6. \A d \in Client : Idx(d)' \subseteq Idx(d)
  BY <1>1, <1>4, IndicesEmpty DEF Idx
<1>7. Places'
  BY <1>1, <1>3, <1>6 DEF IInv, Places
<1>8. Requests'
  <2> SUFFICES ASSUME NEW t \in Server, NEW d \in requests[t]
               PROVE  server'[d] = t /\ pc'[d] \in {"connected", "failed"} /\ Idx(d)' = {}
    BY <1>1 DEF Requests
  <2>1. d \in Client /\ server[d] = t /\ pc[d] \in {"connected", "failed"} /\ Idx(d) = {}
    BY <1>2, Types DEF IInv, Requests
  <2> QED
    BY <1>1, <1>3, <1>6, <2>1
<1>9. Given' /\ Apart'
  BY <1>1, <1>6, FewerIndices DEF IInv
<1>10. Room'
  BY <1>1, <1>2, <1>3, <1>5, RoomKept DEF IInv, Served
<1>11. HaveLed'
  BY <1>1, HaveLedKept DEF IInv
<1> QED
  BY <1>5, <1>7, <1>8, <1>9, <1>10, <1>11 DEF IInv

(* A server that leads connects to a client.                               *)
LEMMA Offered ==
    ASSUME IInv, NEW s \in Server, NEW c \in Client, NEW w \in BOOLEAN, new_client(s, c, w)
    PROVE  /\ offers' \in [Client -> Seq(Offer)] /\ refused' \subseteq Client
           /\ \A d \in Client : \A i \in 1 .. Len(offers'[d]) :
                 offers'[d][i].from = s \/ \E j \in 1 .. Len(offers[d]) : offers'[d][i] = offers[d][j]
<1>1. offers \in [Client -> Seq(Offer)] /\ refused \subseteq Client
  BY DEF IInv, TypeOK
<1>2. CASE pc[c] # "listening"
  BY <1>1, <1>2 DEF new_client
<1>3. CASE pc[c] = "listening"
  <2> DEFINE o == [from |-> s, whole |-> w]
             a == Append(offers[c], o)
  <2>1. offers' = [offers EXCEPT ![c] = a] /\ refused' = refused
    BY <1>3 DEF new_client
  <2>2. o \in Offer /\ o.from = s
    BY DEF Offer
  <2> HIDE DEF o
  <2>3. /\ a \in Seq(Offer) /\ Len(a) = Len(offers[c]) + 1 /\ Len(offers[c]) \in Nat
        /\ \A i \in 1 .. Len(offers[c]) : a[i] = offers[c][i]
        /\ a[Len(offers[c]) + 1] = o
    BY <1>1, <2>2, AppendProperties
  <2> HIDE DEF a
  <2>4. \A i \in 1 .. Len(a) : a[i].from = s \/ \E j \in 1 .. Len(offers[c]) : a[i] = offers[c][j]
    BY <2>2, <2>3
  <2>5. /\ offers' \in [Client -> Seq(Offer)] /\ offers'[c] = a
        /\ \A d \in Client \ {c} : offers'[d] = offers[d]
    BY <1>1, <2>1, <2>3
  <2> QED
    BY <1>1, <2>1, <2>4, <2>5
<1> QED
  BY <1>2, <1>3

(* Steps of the servers that leave the clients as they are.                *)
LEMMA ServerStep ==
    ASSUME IInv, TypeOK', UNCHANGED <<clk_index, pc, inbox, server, CLK_INDEX>>,
           \A s \in Server : requests'[s] \subseteq requests[s], HaveLed'
    PROVE  IInv'
<1>1. \A d \in Client : Idx(d)' = Idx(d)
  BY DEF Idx
<1>2. Places'
  BY <1>1 DEF IInv, Places
<1>3. Requests'
  BY <1>1 DEF IInv, Requests, TypeOK
<1>4. Given' /\ Apart'
  BY <1>1, FewerIndices DEF IInv
<1>5. Room'
  BY RoomKept DEF IInv, Served
<1> QED
  BY <1>2, <1>3, <1>4, <1>5 DEF IInv

LEMMA RecvNewClientKeeps ==
    ASSUME IInv, NEW s \in Server, RecvNewClient(s)
    PROVE  IInv'
<1>1. /\ s \in up /\ queue[s] # << >> /\ queue' = [queue EXCEPT ![s] = Tail(queue[s])]
      /\ IF s \in leader THEN new_client(s, Head(queue[s]), TRUE)
         ELSE UNCHANGED <<offers, refused>>
      /\ UNCHANGED <<up, leader, requests, clk_index, pc, inbox, server, CLK_INDEX, spent>>
  BY DEF RecvNewClient
<1>2. TypeOK /\ HaveLed
  BY DEF IInv
<1>3. /\ queue \in [Server -> Seq(Client)] /\ queue[s] \in Seq(Client)
      /\ Head(queue[s]) \in Client /\ Tail(queue[s]) \in Seq(Client)
  BY <1>1, <1>2, Types
<1>4. /\ offers' \in [Client -> Seq(Offer)] /\ refused' \subseteq Client
      /\ \A d \in Client : \A i \in 1 .. Len(offers'[d]) :
            \/ s \in leader /\ offers'[d][i].from = s
            \/ \E j \in 1 .. Len(offers[d]) : offers'[d][i] = offers[d][j]
  <2>1. CASE s \in leader
    BY <1>1, <1>3, <2>1, Offered
  <2>2. CASE s \notin leader
    BY <1>1, <1>2, <2>2, Types
  <2> QED
    BY <2>1, <2>2
<1>5. queue' \in [Server -> Seq(Client)]
  BY <1>1, <1>3
<1>6. TypeOK'
  BY <1>1, <1>2, <1>4, <1>5 DEF TypeOK, Count, Mail, Spent
<1>7. HaveLed'
  BY <1>1, <1>2, <1>4, SMTT(30) DEF HaveLed
<1> QED
  BY <1>1, <1>6, <1>7, ServerStep

LEMMA CrashKeeps ==
    ASSUME IInv, NEW s \in Server, Crash(s)
    PROVE  IInv'
<1>1. /\ s \in up /\ spent.crash < MaxCrash
      /\ up' = up \ {s} /\ leader' = leader \ {s}
      /\ queue' = [queue EXCEPT ![s] = << >>] /\ requests' = [requests EXCEPT ![s] = {}]
      /\ spent' = [spent EXCEPT !.crash = spent.crash + 1]
      /\ \/ UNCHANGED <<offers, refused>>
         \/ queue[s] # << >> /\ new_client(s, Head(queue[s]), FALSE)
      /\ UNCHANGED <<clk_index, pc, inbox, server, CLK_INDEX>>
  BY DEF Crash
<1>2. TypeOK /\ HaveLed
  BY DEF IInv
<1>3. /\ queue \in [Server -> Seq(Client)] /\ queue[s] \in Seq(Client)
      /\ queue[s] # << >> => Head(queue[s]) \in Client
  BY <1>1, <1>2, Types
<1>4. /\ offers' \in [Client -> Seq(Offer)] /\ refused' \subseteq Client
      /\ \A d \in Client : \A i \in 1 .. Len(offers'[d]) :
            \/ offers'[d][i].from = s
            \/ \E j \in 1 .. Len(offers[d]) : offers'[d][i] = offers[d][j]
  <2>1. CASE UNCHANGED <<offers, refused>>
    BY <1>2, <2>1, Types
  <2>2. CASE queue[s] # << >> /\ new_client(s, Head(queue[s]), FALSE)
    BY <1>3, <2>2, Offered
  <2> QED
    BY <1>1, <2>1, <2>2
<1>5. /\ queue' \in [Server -> Seq(Client)] /\ requests' \in [Server -> SUBSET Client]
      /\ \A t \in Server : requests'[t] \subseteq requests[t]
  BY <1>1, <1>2, <1>3, Types
<1>6. spent' \in Spent /\ spent'.usurp = spent.usurp
  <2>1. spent \in Spent /\ spent.crash \in Nat /\ MaxCrash \in Nat
    BY <1>2, Types, BoundAssumption DEF Spent
  <2>2. spent.crash + 1 \in 0 .. MaxCrash
    BY <1>1, <2>1
  <2> QED
    BY <1>1, <2>1, <2>2 DEF Spent
<1>7. up' \subseteq Server /\ leader' \subseteq up'
  BY <1>1, <1>2, Types
<1>8. TypeOK'
  BY <1>1, <1>2, <1>4, <1>5, <1>6, <1>7 DEF TypeOK, Count, Mail, Spent
<1>9. HaveLed'
  <2>1. spent'.usurp = 0 => \A t, u \in leader' : t = u
    BY <1>1, <1>2, <1>6 DEF HaveLed
  <2>2. \A d \in Client : server'[d] \in up' => server'[d] \in leader'
    BY <1>1, <1>2 DEF HaveLed
  <2>3. \A d \in Client : \A i \in 1 .. Len(offers'[d]) :
           offers'[d][i].from \in up' => offers'[d][i].from \in leader'
    BY <1>1, <1>2, <1>4 DEF HaveLed
  <2> QED
    BY <2>1, <2>2, <2>3 DEF HaveLed
<1> QED
  BY <1>1, <1>5, <1>8, <1>9, ServerStep

LEMMA TakeOverKeeps ==
    ASSUME IInv, NEW s \in Server, TakeOver(s)
    PROVE  IInv'
<1>1. /\ s \in up /\ leader' = leader \cup {s}
      /\ \/ leader = {} /\ spent' = spent
         \/ spent.usurp < MaxUsurp /\ spent' = [spent EXCEPT !.usurp = spent.usurp + 1]
      /\ UNCHANGED <<up, queue, requests, clk_index, pc, offers, inbox, server, CLK_INDEX,
                     refused>>
  BY DEF TakeOver, clients
<1>2. TypeOK /\ HaveLed
  BY DEF IInv
<1>3. /\ spent' \in Spent
      /\ spent'.usurp = 0 => leader = {}
  <2>1. spent \in Spent /\ spent.usurp \in Nat /\ MaxUsurp \in Nat
    BY <1>2, Types, BoundAssumption DEF Spent
  <2>2. spent.usurp < MaxUsurp => spent.usurp + 1 \in 0 .. MaxUsurp
    BY <2>1
  <2> QED
    BY <1>1, <2>1, <2>2 DEF Spent
<1>4. TypeOK'
  BY <1>1, <1>2, <1>3 DEF TypeOK, Count, Mail, Spent
<1>5. HaveLed'
  BY <1>1, <1>2, <1>3 DEF HaveLed
<1> QED
  BY <1>1, <1>4, <1>5, ServerStep

LEMMA GetIndexKeeps ==
    ASSUME IInv, NEW s \in Server, NEW c \in Client, GetIndex(s, c)
    PROVE  IInv'
<1> DEFINE n == clk_index[s]
           k == Cardinality(requests[s])
           m == Index(n)
<1>1. /\ s \in up /\ c \in requests[s]
      /\ requests' = [requests EXCEPT ![s] = requests[s] \ {c}]
      /\ inbox' = [inbox EXCEPT ![c] = Append(inbox[c], m)]
      /\ clk_index' = [clk_index EXCEPT ![s] = n + 1]
      /\ UNCHANGED <<up, leader, queue, pc, offers, server, CLK_INDEX, refused, spent>>
  BY DEF GetIndex, NextIndex
<1>2. TypeOK
  BY DEF IInv
<1>3. /\ server[c] = s /\ pc[c] \in {"connected", "failed"} /\ Idx(c) = {}
  BY <1>1 DEF IInv, Requests
<1>4. /\ requests \in [Server -> SUBSET Client] /\ inbox \in [Client -> Seq(Mail)]
      /\ clk_index \in [Server -> 0 .. Count] /\ Count \in Nat /\ n \in Nat
  BY <1>2, Types, ClientCount
<1>5. /\ IsFiniteSet(requests[s]) /\ k \in Nat
      /\ Cardinality(requests[s] \ {c}) = k - 1
  <2>1. IsFiniteSet(requests[s]) /\ k \in Nat
    BY <1>4, SubsetSize
  <2>2. Cardinality(requests[s] \ {c}) = k - 1
    BY <1>1, <2>1, FS_RemoveElement
  <2> QED
    BY <2>1, <2>2
<1>6. /\ n + k <= Cardinality(Served(s)) /\ Cardinality(Served(s)) \in Nat
      /\ Cardinality(Served(s)) <= Count /\ k >= 1
  <2>1. Served(s) \in SUBSET Client
    BY DEF Served
  <2>2. k # 0
    BY <1>1, <1>5, FS_EmptySet
  <2> QED
    BY <1>5, <2>1, <2>2, SubsetSize DEF IInv, Room
<1>7. n + 1 \in 0 .. Count /\ n \in 0 .. Count
  BY <1>4, <1>5, <1>6
<1>8. m \in Mail /\ m = Index(n)
  BY <1>7 DEF Mail
<1> HIDE DEF m, k
<1>9. /\ Append(inbox[c], m) \in Seq(Mail)
      /\ Indices(Append(inbox[c], m), CLK_INDEX[c]) = {n}
  <2>1. Indices(Append(inbox[c], m), CLK_INDEX[c]) = Idx(c) \cup {n}
    BY <1>4, <1>8, IndicesAppend DEF Idx
  <2> QED
    BY <1>3, <1>4, <1>8, <2>1
<1>10. /\ inbox' \in [Client -> Seq(Mail)] /\ inbox'[c] = Append(inbox[c], m)
       /\ \A d \in Client \ {c} : inbox'[d] = inbox[d]
  BY <1>1, <1>4, <1>9
<1> HIDE DEF n
<1>11. /\ clk_index' \in [Server -> 0 .. Count] /\ clk_index'[s] = n + 1
       /\ \A t \in Server \ {s} : clk_index'[t] = clk_index[t]
       /\ clk_index[s] = n
  BY <1>1, <1>4, <1>7 DEF n
<1>12. /\ requests' \in [Server -> SUBSET Client] /\ requests'[s] = requests[s] \ {c}
       /\ \A t \in Server \ {s} : requests'[t] = requests[t]
  BY <1>1, <1>4
<1>13. \A t \in Server : /\ clk_index[t] \in Nat /\ clk_index'[t] \in Nat
                         /\ clk_index[t] <= clk_index'[t]
  <2> TAKE t \in Server
  <2>1. clk_index[t] \in Nat
    BY <1>4
  <2>2. CASE t = s
    BY <1>4, <1>11, <2>2
  <2>3. CASE t # s
    <3>1. clk_index'[t] = clk_index[t]
      BY <1>11, <2>3
    <3> QED
      BY <2>1, <3>1
  <2> QED
    BY <2>2, <2>3
<1>14. TypeOK'
  <2>1. ASSUME NEW d \in Client, pc[d] = "in"
        PROVE  server[d] # NoServer /\ CLK_INDEX[d] \in 0 .. clk_index'[server[d]] - 1
    <3>1. server[d] \in Server /\ CLK_INDEX[d] \in 0 .. clk_index[server[d]] - 1
          /\ server[d] # NoServer
      BY <1>2, <2>1, Types
    <3>2. clk_index[server[d]] \in Nat /\ clk_index'[server[d]] \in Nat
          /\ clk_index[server[d]] <= clk_index'[server[d]]
      BY <1>13, <3>1
    <3> QED
      BY <3>1, <3>2
  <2> QED
    BY <1>1, <1>2, <1>10, <1>11, <1>12, <2>1 DEF TypeOK, Count, Mail, Spent
<1>15. Idx(c)' = {n} /\ \A d \in Client \ {c} : Idx(d)' = Idx(d)
  BY <1>1, <1>9, <1>10 DEF Idx
<1>16. Places'
  BY <1>1, <1>3, <1>15 DEF IInv, Places
<1>17. Requests'
  <2> SUFFICES ASSUME NEW t \in Server, NEW d \in requests'[t]
               PROVE  server'[d] = t /\ pc'[d] \in {"connected", "failed"} /\ Idx(d)' = {}
    BY DEF Requests
  <2>1. d \in requests[t] /\ ~(t = s /\ d = c)
    BY <1>12
  <2>2. d \in Client /\ server[d] = t /\ pc[d] \in {"connected", "failed"} /\ Idx(d) = {}
    BY <1>2, <2>1, Types DEF IInv, Requests
  <2> QED
    BY <1>1, <1>3, <1>15, <2>1, <2>2
<1>18. Given'
  <2> SUFFICES ASSUME NEW d \in Client, NEW i \in Idx(d)'
               PROVE  server[d] \in Server /\ i < clk_index'[server[d]]
    BY <1>1 DEF Given
  <2>1. CASE d = c
    BY <1>3, <1>4, <1>11, <1>15, <2>1
  <2>2. CASE d # c
    <3>0. i \in Idx(d) /\ \A j \in Idx(d) : j \in Nat
      BY <1>15, <2>2 DEF Idx, Indices
    <3>1. server[d] \in Server /\ i < clk_index[server[d]] /\ i \in Nat
      BY <3>0 DEF IInv, Given
    <3>2. clk_index[server[d]] \in Nat /\ clk_index'[server[d]] \in Nat
          /\ clk_index[server[d]] <= clk_index'[server[d]]
      BY <1>13, <3>1
    <3> QED
      BY <3>1, <3>2
  <2> QED
    BY <2>1, <2>2
<1>19. Apart'
  <2>1. ASSUME NEW d \in Client, server[d] = s PROVE n \notin Idx(d)
    BY <1>4, <1>11, <2>1 DEF IInv, Given
  <2> SUFFICES ASSUME NEW d \in Client, NEW e \in Client, d # e, server[d] = server[e]
               PROVE  Idx(d)' \cap Idx(e)' = {}
    BY <1>1 DEF Apart
  <2>2. Idx(d) \cap Idx(e) = {}
    BY DEF IInv, Apart
  <2> QED
    BY <1>3, <1>15, <2>1, <2>2
<1>20. Room'
  <2> SUFFICES ASSUME NEW t \in Server
               PROVE  clk_index'[t] + Cardinality(requests'[t]) <= Cardinality(Served(t))
    BY <1>1 DEF Room, Served
  <2>1. CASE t = s
    <3>1. clk_index'[t] = n + 1 /\ Cardinality(requests'[t]) = k - 1
      BY <1>5, <1>11, <1>12, <2>1
    <3>2. n \in Nat /\ k \in Nat /\ (n + 1) + (k - 1) = n + k
      BY <1>4, <1>5
    <3>3. n + k <= Cardinality(Served(t))
      BY <1>6, <2>1
    <3> QED
      BY <3>1, <3>2, <3>3
  <2>2. CASE t # s
    BY <1>11, <1>12, <2>2 DEF IInv, Room
  <2> QED
    BY <2>1, <2>2
<1>21. HaveLed'
  BY <1>1, HaveLedKept DEF IInv
<1> QED
  BY <1>14, <1>16, <1>17, <1>18, <1>19, <1>20, <1>21 DEF IInv

LEMMA ForwardKeeps ==
    ASSUME IInv, NEW d \in Client, NEW c \in Client, Forward(d, c)
    PROVE  IInv'
<1>1. /\ spent.forward < MaxForward
      /\ inbox' = [inbox EXCEPT ![c] = Append(inbox[c], Text)]
      /\ spent' = [spent EXCEPT !.forward = spent.forward + 1]
      /\ UNCHANGED <<up, leader, queue, requests, clk_index, pc, offers, server, CLK_INDEX,
                     refused>>
  BY DEF Forward, servers
<1>2. TypeOK
  BY DEF IInv
<1>3. inbox \in [Client -> Seq(Mail)] /\ Text \in Mail
  BY <1>2, Types DEF Mail
<1>4. /\ Append(inbox[c], Text) \in Seq(Mail)
      /\ Indices(Append(inbox[c], Text), CLK_INDEX[c]) = Idx(c)
  BY <1>3, IndicesAppend DEF Idx
<1>5. /\ inbox' \in [Client -> Seq(Mail)] /\ inbox'[c] = Append(inbox[c], Text)
      /\ \A e \in Client \ {c} : inbox'[e] = inbox[e]
  BY <1>1, <1>3, <1>4
<1>6. spent' \in Spent /\ spent'.usurp = spent.usurp
  <2>1. spent \in Spent /\ spent.forward \in Nat /\ MaxForward \in Nat
    BY <1>2, Types, BoundAssumption DEF Spent
  <2>2. spent.forward + 1 \in 0 .. MaxForward
    BY <1>1, <2>1
  <2> QED
    BY <1>1, <2>1, <2>2 DEF Spent
<1>7. TypeOK'
  BY <1>1, <1>2, <1>5, <1>6 DEF TypeOK, Count, Mail, Spent
<1>8. \A e \in Client : Idx(e)' = Idx(e)
  BY <1>1, <1>4, <1>5 DEF Idx
<1>9. Places'
  BY <1>1, <1>8 DEF IInv, Places
<1>10. Requests'
  BY <1>1, <1>8 DEF IInv, Requests, TypeOK
<1>11. Given' /\ Apart'
  BY <1>1, <1>8, FewerIndices DEF IInv
<1>12. Room'
  BY <1>1, <1>2, <1>7, RoomKept DEF IInv, Served
<1>13. HaveLed'
  BY <1>1, <1>6, HaveLedKept DEF IInv
<1> QED
  BY <1>7, <1>9, <1>10, <1>11, <1>12, <1>13 DEF IInv

LEMMA StutterKeeps == IInv /\ UNCHANGED vars => IInv'
<1> SUFFICES ASSUME IInv, UNCHANGED vars PROVE IInv'
  OBVIOUS
<1>1. UNCHANGED <<up, leader, queue, requests, clk_index, pc, offers, inbox, server,
                  CLK_INDEX, refused, spent>>
  BY DEF vars, servers, clients
<1>2. TypeOK'
  BY <1>1 DEF IInv, TypeOK
<1>3. HaveLed'
  BY <1>1, HaveLedKept DEF IInv
<1> QED
  BY <1>1, <1>2, <1>3, ServerStep

LEMMA NextKeeps == IInv /\ [Next]_vars => IInv'
<1> SUFFICES ASSUME IInv, [Next]_vars PROVE IInv'
  OBVIOUS
<1>1. CASE UNCHANGED vars
  BY <1>1, StutterKeeps
<1>2. ASSUME NEW c \in Client, Ask(c) PROVE IInv'
  BY <1>2, AskKeeps
<1>3. ASSUME NEW c \in Client, Listen(c) PROVE IInv'
  BY <1>3, ListenKeeps
<1>4. ASSUME NEW c \in Client, Accept(c) PROVE IInv'
  BY <1>4, AcceptKeeps
<1>5. ASSUME NEW c \in Client, Connect(c) PROVE IInv'
  BY <1>5, ConnectKeeps
<1>6. ASSUME NEW c \in Client, RecvInbox(c) PROVE IInv'
  BY <1>6, RecvInboxKeeps
<1>7. ASSUME NEW c \in Client, RecvEnd(c) \/ Leave(c) PROVE IInv'
  <2>1. Ends(c)
    BY <1>7 DEF RecvEnd, Leave, Ended, Ends
  <2> QED
    BY <2>1, EndsKeeps
<1>8. ASSUME NEW s \in Server, RecvNewClient(s) PROVE IInv'
  BY <1>8, RecvNewClientKeeps
<1>9. ASSUME NEW s \in Server, NEW c \in Client, GetIndex(s, c) PROVE IInv'
  BY <1>9, GetIndexKeeps
<1>10. ASSUME NEW c \in Client, NEW d \in Client, Forward(d, c) PROVE IInv'
  BY <1>10, ForwardKeeps
<1>11. ASSUME NEW s \in Server, Crash(s) PROVE IInv'
  BY <1>11, CrashKeeps
<1>12. ASSUME NEW s \in Server, TakeOver(s) PROVE IInv'
  BY <1>12, TakeOverKeeps
<1> QED
  BY <1>1, <1>2, <1>3, <1>4, <1>5, <1>6, <1>7, <1>8, <1>9, <1>10, <1>11, <1>12
     DEF Next, Progress

LEMMA Invariance == Spec => []IInv
<1>1. Init => IInv
  BY InitIInv
<1>2. IInv /\ [Next]_vars => IInv'
  BY NextKeeps
<1> QED
  BY <1>1, <1>2, PTL DEF Spec

(* The types of ClientStartup.  A server never gives away more indices     *)
(* than there are clients, and a client in the group has one of them.      *)
THEOREM TypeCorrect == Spec => []TypeOK
<1>1. IInv => TypeOK
  BY DEF IInv
<1> QED
  BY <1>1, Invariance, PTL

(* Two clients of one server never have the same entry of the vectors, and *)
(* of two servers only if one of them has died or a leader was superseded. *)
THEOREM IndicesApart == Spec => []IndexTellsApart
<1>1. IInv => IndexTellsApart
  <2> SUFFICES ASSUME IInv, NEW c \in Client, NEW d \in Client, Twins(c, d)
               PROVE  /\ server[c] # server[d]
                      /\ spent.usurp = 0 => ~({server[c], server[d]} \subseteq up)
    BY DEF IndexTellsApart
  <2>1. /\ c # d /\ CLK_INDEX[c] = CLK_INDEX[d]
        /\ CLK_INDEX[c] \in 0 .. clk_index[server[c]] - 1
    BY Types DEF IInv, Twins
  <2>2. CLK_INDEX[c] \in Idx(c) /\ CLK_INDEX[c] \in Idx(d)
    BY <2>1 DEF Idx, Indices
  <2>3. server[c] # server[d]
    BY <2>1, <2>2 DEF IInv, Apart
  <2> QED
    BY <2>3 DEF IInv, HaveLed
<1> QED
  BY <1>1, Invariance, PTL

-----------------------------------------------------------------------------
(* Before a datagram is lost or a server dies, the question of a client    *)
(* that waits is with a leader, unless it is answered or refused.          *)
Asked(c, s) == \E i \in 1 .. Len(queue[s]) : queue[s][i] = c

Waiting == {"asked", "listening"}

AwaitedBy(c) ==
    pc[c] \in Waiting => c \in refused \/ offers[c] # << >> \/ \E s \in leader : Asked(c, s)

Awaited ==
    spent.loss + spent.crash = 0 =>
        up = Server /\ leader # {} /\ \A c \in Client : AwaitedBy(c)

LEMMA StillAwaited ==
    ASSUME NEW c \in Client, AwaitedBy(c), pc'[c] \in Waiting => pc[c] \in Waiting,
           refused \subseteq refused', offers'[c] = offers[c], leader \subseteq leader',
           \A s \in leader : Asked(c, s) => Asked(c, s)'
    PROVE  AwaitedBy(c)'
  BY DEF AwaitedBy

(* A client that does something other than to ask.                         *)
LEMMA ClientGoesOn ==
    ASSUME IInv, NEW c \in Client, \A d \in Client : AwaitedBy(d),
           \/ Listen(c) \/ Accept(c) \/ Connect(c) \/ RecvInbox(c) \/ RecvEnd(c) \/ Leave(c)
    PROVE  \A d \in Client : AwaitedBy(d)'
<1>1. pc \in [Client -> State] /\ offers \in [Client -> Seq(Offer)]
  BY DEF IInv, TypeOK
<1>2. UNCHANGED <<leader, queue, refused>>
  BY DEF Listen, Accept, Connect, RecvInbox, RecvEnd, Leave, servers
<1>3. \A d \in Client : d # c => pc'[d] = pc[d] /\ offers'[d] = offers[d]
  BY <1>1 DEF Listen, Accept, Connect, RecvInbox, RecvEnd, Leave
<1>4. (offers'[c] = offers[c] /\ pc[c] \in Waiting) \/ pc'[c] \notin Waiting
  BY <1>1 DEF Listen, Accept, Connect, RecvInbox, RecvEnd, Leave, Ended, Waiting
<1> QED
  BY <1>2, <1>3, <1>4 DEF AwaitedBy, Asked

(* Without a loss the question gets to every server.                       *)
LEMMA EverybodyIsAsked ==
    ASSUME IInv, NEW c \in Client, Ask(c), spent.loss = 0, spent'.loss = 0,
           up = Server, leader # {}, \A d \in Client : AwaitedBy(d)
    PROVE  \A d \in Client : AwaitedBy(d)'
<1>1. PICK lost \in SUBSET up :
          /\ queue' = [s \in Server |-> IF s \in up \ lost THEN Append(queue[s], c) ELSE queue[s]]
          /\ spent' = [spent EXCEPT !.loss = @ + Cardinality(lost)]
  BY DEF Ask
<1>2. /\ leader \subseteq Server /\ pc \in [Client -> State] /\ spent.loss \in Nat
      /\ queue \in [Server -> Seq(Client)] /\ spent \in Spent
  BY BoundAssumption DEF IInv, TypeOK, Spent
<1>3. lost = {}
  <2>1. IsFiniteSet(lost) /\ Cardinality(lost) \in Nat
    BY <1>1, ProcessAssumption, FS_Subset, FS_CardinalityType
  <2>2. spent'.loss = Cardinality(lost)
    BY <1>1, <1>2, <2>1 DEF Spent
  <2> QED
    BY <2>1, <2>2, FS_EmptySet
<1>4. ASSUME NEW s \in Server
      PROVE  Asked(c, s)' /\ \A d \in Client : Asked(d, s) => Asked(d, s)'
  <2> DEFINE a == Append(queue[s], c)
  <2>1. queue'[s] = a /\ queue[s] \in Seq(Client)
    BY <1>1, <1>2, <1>3
  <2>2. /\ Len(a) = Len(queue[s]) + 1 /\ Len(queue[s]) \in Nat
        /\ \A i \in 1 .. Len(queue[s]) : a[i] = queue[s][i]
        /\ a[Len(queue[s]) + 1] = c
    BY <2>1, AppendProperties
  <2> HIDE DEF a
  <2>3. Len(a) \in 1 .. Len(a) /\ a[Len(a)] = c
    BY <2>2
  <2>4. \A d \in Client : (\E i \in 1 .. Len(queue[s]) : queue[s][i] = d)
                             => \E i \in 1 .. Len(a) : a[i] = d
    BY <2>2
  <2> QED
    BY <2>1, <2>3, <2>4 DEF Asked
<1>5. UNCHANGED <<leader, offers, refused>> /\ \A d \in Client : d # c => pc'[d] = pc[d]
  BY <1>2 DEF Ask
<1>6. AwaitedBy(c)'
  BY <1>2, <1>4, <1>5 DEF AwaitedBy
<1> QED
  BY <1>2, <1>4, <1>5, <1>6, StillAwaited

(* A leader that reads a question answers it, or is refused.               *)
LEMMA QuestionRead ==
    ASSUME IInv, NEW s \in Server, RecvNewClient(s), \A d \in Client : AwaitedBy(d)
    PROVE  \A d \in Client : AwaitedBy(d)'
<1>1. /\ queue[s] # << >> /\ UNCHANGED <<leader, pc>>
      /\ queue' = [queue EXCEPT ![s] = Tail(queue[s])]
      /\ IF s \in leader THEN new_client(s, Head(queue[s]), TRUE)
         ELSE UNCHANGED <<offers, refused>>
  BY DEF RecvNewClient
<1>2. /\ queue \in [Server -> Seq(Client)] /\ offers \in [Client -> Seq(Offer)]
      /\ leader \subseteq Server
  BY DEF IInv, TypeOK
<1>3. queue'[s] = Tail(queue[s]) /\ \A t \in Server : t # s => queue'[t] = queue[t]
  BY <1>1, <1>2
<1>4. PICK c \in Client : c = Head(queue[s])
  BY <1>1, <1>2
<1>5. ASSUME NEW d \in Client, NEW t \in Server, Asked(d, t), t # s \/ d # c
      PROVE  Asked(d, t)'
  <2>1. CASE t # s
    BY <1>3, <1>5, <2>1 DEF Asked
  <2>2. CASE t = s
    <3> DEFINE q == queue[s]
               r == Tail(q)
    <3>1. /\ q \in Seq(Client) /\ q # << >> /\ Len(q) \in Nat /\ Len(r) = Len(q) - 1
          /\ Head(q) = q[1] /\ \A i \in 1 .. Len(r) : r[i] = q[i + 1]
      BY <1>1, <1>2, HeadTailProperties
    <3>2. PICK i \in 1 .. Len(q) : q[i] = d
      BY <1>5, <2>2 DEF Asked
    <3> HIDE DEF r
    <3>3. i # 1
      BY <1>4, <1>5, <2>2, <3>1, <3>2
    <3>4. i - 1 \in 1 .. Len(r) /\ (i - 1) + 1 = i
      BY <3>1, <3>2, <3>3
    <3>5. r[i - 1] = d
      BY <3>1, <3>2, <3>4
    <3>6. queue'[s] = r
      BY <1>3 DEF r
    <3> QED
      BY <2>2, <3>4, <3>5, <3>6 DEF Asked
  <2> QED
    BY <2>1, <2>2
<1>6. CASE s \in leader
  <2>1. new_client(s, c, TRUE)
    BY <1>1, <1>4, <1>6
  <2>2. \/ pc[c] = "listening" /\ refused' = refused /\ offers'[c] # << >>
        \/ c \in refused' /\ refused \subseteq refused' /\ offers' = offers
    <3> DEFINE o == [from |-> s, whole |-> TRUE]
               a == Append(offers[c], o)
    <3>1. offers' = [offers EXCEPT ![c] = a] => offers'[c] = a
      BY <1>2
    <3>2. Len(a) = Len(offers[c]) + 1 /\ Len(offers[c]) \in Nat
      BY <1>2
    <3>3. a # << >>
      <4> HIDE DEF a
      <4> QED
        BY <3>2
    <3> QED
      BY <2>1, <3>1, <3>3 DEF new_client
  <2>3. refused \subseteq refused' /\ \A d \in Client : d # c => offers'[d] = offers[d]
    BY <1>2, <2>1 DEF new_client
  <2>4. AwaitedBy(c)'
    BY <2>2 DEF AwaitedBy
  <2> QED
    BY <1>1, <1>2, <1>5, <2>3, <2>4, StillAwaited
<1>7. CASE s \notin leader
  BY <1>1, <1>2, <1>5, <1>7, StillAwaited
<1> QED
  BY <1>6, <1>7

LEMMA AwaitedStays ==
    ASSUME IInv, Awaited, [Next]_vars
    PROVE  Awaited'
<1> SUFFICES ASSUME spent'.loss + spent'.crash = 0
             PROVE  up' = Server /\ leader' # {} /\ \A c \in Client : AwaitedBy(c)'
  BY DEF Awaited
<1>1. spent \in Spent /\ spent.loss \in Nat /\ spent.crash \in Nat
  BY BoundAssumption DEF IInv, TypeOK, Spent
<1>2. \A s \in Server : ~Crash(s)
  <2> SUFFICES ASSUME NEW s \in Server, Crash(s) PROVE FALSE
    OBVIOUS
  <2>1. spent'.crash = spent.crash + 1 /\ spent'.loss = spent.loss
    BY <1>1 DEF Crash, Spent
  <2> QED
    BY <1>1, <2>1
<1>3. /\ spent.loss = 0 /\ spent.crash = 0 /\ spent'.loss = 0
      /\ up' = up /\ leader \subseteq leader'
  <2>1. CASE \E c \in Client : Ask(c)
    <3>1. PICK c \in Client, lost \in SUBSET up :
              spent' = [spent EXCEPT !.loss = @ + Cardinality(lost)]
      BY <2>1 DEF Ask
    <3>2. Cardinality(lost) \in Nat
      BY <3>1, ProcessAssumption, FS_Subset, FS_CardinalityType DEF IInv, TypeOK
    <3>3. spent'.loss = spent.loss + Cardinality(lost) /\ spent'.crash = spent.crash
      BY <1>1, <3>1 DEF Spent
    <3>4. UNCHANGED <<up, leader>>
      BY <2>1 DEF Ask
    <3> QED
      BY <1>1, <3>2, <3>3, <3>4
  <2>2. CASE ~\E c \in Client : Ask(c)
    <3>1. spent'.loss = spent.loss /\ spent'.crash = spent.crash
      BY <1>1, <1>2, <2>2
         DEF Next, Progress, Listen, Accept, Connect, RecvInbox, RecvEnd, RecvNewClient, GetIndex,
             Leave, Forward, TakeOver, vars, Spent
    <3>2. up' = up /\ leader \subseteq leader'
      BY <1>2, <2>2
         DEF Next, Progress, Listen, Accept, Connect, RecvInbox, RecvEnd, RecvNewClient, GetIndex,
             Leave, Forward, TakeOver, vars, servers
    <3> QED
      BY <1>1, <3>1, <3>2
  <2> QED
    BY <2>1, <2>2
<1>4. up = Server /\ leader # {} /\ \A c \in Client : AwaitedBy(c)
  BY <1>3 DEF Awaited
<1>5. ASSUME NEW c \in Client,
             \/ Listen(c) \/ Accept(c) \/ Connect(c) \/ RecvInbox(c) \/ RecvEnd(c) \/ Leave(c)
      PROVE  \A d \in Client : AwaitedBy(d)'
  BY <1>4, <1>5, ClientGoesOn
<1>6. ASSUME NEW c \in Client, Ask(c) PROVE \A d \in Client : AwaitedBy(d)'
  BY <1>3, <1>4, <1>6, EverybodyIsAsked
<1>7. ASSUME NEW s \in Server, RecvNewClient(s) PROVE \A d \in Client : AwaitedBy(d)'
  BY <1>4, <1>7, QuestionRead
<1>8. ASSUME UNCHANGED <<queue, pc, offers, refused>> PROVE \A d \in Client : AwaitedBy(d)'
  BY <1>3, <1>4, <1>8, StillAwaited DEF Asked
<1>9. ASSUME \/ \E s \in Server : TakeOver(s) \/ \E c \in Client : GetIndex(s, c)
             \/ \E c, d \in Client : Forward(d, c)
             \/ UNCHANGED vars
      PROVE  UNCHANGED <<queue, pc, offers, refused>>
  BY <1>9 DEF TakeOver, GetIndex, Forward, vars, servers, clients
<1> QED
  BY <1>2, <1>3, <1>4, <1>5, <1>6, <1>7, <1>8, <1>9 DEF Next, Progress

(* A client that waits for an answer for ever, while some server leads and *)
(* nobody has anything left to read, was refused by a leader that was      *)
(* quicker than it, unless a datagram was lost or a server died.           *)
THEOREM WaitersWereRefused == Spec => []WaitsForReason
<1>1. Init => Awaited
  BY ProcessAssumption DEF Init, Awaited, AwaitedBy, Waiting
<1>2. IInv /\ Awaited /\ [Next]_vars => Awaited'
  BY AwaitedStays
<1>3. ASSUME IInv, Awaited PROVE WaitsForReason
  <2> SUFFICES ASSUME Settled, NEW c \in Client, pc[c] = "listening",
                      ~(spent.loss + spent.crash > 0)
               PROVE  c \in refused
    BY DEF WaitsForReason
  <2>1. spent.loss + spent.crash = 0
    <3>1. spent.loss \in Nat /\ spent.crash \in Nat
      BY <1>3, BoundAssumption DEF IInv, TypeOK
    <3> QED
      BY <3>1
  <2>2. AwaitedBy(c) /\ offers[c] = << >>
    BY <1>3, <2>1 DEF Awaited, Settled
  <2>3. ASSUME NEW s \in leader PROVE ~Asked(c, s)
    <3>1. s \in up
      BY <1>3 DEF IInv, TypeOK
    <3>2. queue[s] = << >>
      BY <3>1 DEF Settled
    <3> QED
      BY <3>2 DEF Asked
  <2> QED
    BY <2>2, <2>3 DEF AwaitedBy, Waiting
<1>4. Spec => []IInv
  BY Invariance
<1> QED
  BY <1>1, <1>2, <1>3, <1>4, PTL DEF Spec
=============================================================================
