---------------------------- MODULE DiscoveryProofs ----------------------------
(***************************************************************************)
(* The invariants of Discovery for any number of servers, IDs and mishaps. *)
(* Nothing happens after a death in that module, so all but the type, the  *)
(* count of the leaders and the reason of the death is said of states in   *)
(* which everybody lives.  The second half, from NoNamesakes on, is about  *)
(* the rings of the leaders, as long as no ID is shared.                   *)
(***************************************************************************)
EXTENDS Discovery, Lemmas

Started(s) == phase[s] # "off"

(* The list starts with the server itself and names servers that have      *)
(* started, no ID twice.                                                   *)
ListOk(s) ==
    /\ phase[s] = "off" => id[s] = 0 /\ lst[s] = << >> /\ box[s] = << >>
    /\ Started(s) => id[s] \in Id /\ Len(lst[s]) > 0 /\ lst[s][1] = Entry(id[s], s, 0)
    /\ \A n \in DOMAIN lst[s] :
          Started(lst[s][n].who) /\ lst[s][n].id = id[lst[s][n].who]
    /\ Distinct(lst[s])

(* Only a follower has a leader, which leads, and may have a successor.    *)
(* After itself it lists its leader and then its successor: one of them is *)
(* missing only if IDs are shared.                                         *)
RoleOk(s) ==
    /\ ~Follows(s) => ltcp[s] = 0 /\ succ[s].who = Nobody
    /\ phase[s] \in {"off", "waits"} => Len(lst[s]) <= 1 /\ attempt[s] <= 2
    /\ Follows(s) => ltcp[s] > 0 /\ Leads(LeaderOf(s)) /\ Len(lst[s]) \in 2 .. 3
    /\ Follows(s) /\ ~Namesake(s) => /\ lst[s][2].id = id[LeaderOf(s)]
                                     /\ succ[s].who # Nobody => Len(lst[s]) = 3

(* x writes on the connection that is at this place with s: should s read  *)
(* it, x is at its other end.                                              *)
Joins(x, s, at) ==
    at > 0 /\ (Waits(s) \/ Follows(s)) => at <= Len(box[s]) /\ box[s][at].from = x

(* Leaders and followers write to those whom they mean.                    *)
ConnectionOk(s) ==
    /\ Leads(s) => \A n \in 2 .. Len(lst[s]) : Joins(s, lst[s][n].who, lst[s][n].at)
    /\ succ[s].who # Nobody => Started(succ[s].who) /\ Joins(s, succ[s].who, succ[s].at)

(* The peers of l hold s with the connection at this place.                *)
Listed(l, s, at) == \E n \in 2 .. Len(lst[l]) : lst[l][n] = Entry(id[s], s, at)

(* A server reads heartbeats from followers.  What a leader writes names   *)
(* somebody else whom the reader can list after the leader; nobody is      *)
(* named only if the leader itself can be listed.  A server that has been  *)
(* answered and waits is listed.                                           *)
Written(s, i, m) ==
    LET l == box[s][i].from IN
    IF m.kind \in {"HEARTBEAT", "end"} THEN Follows(l)
    ELSE /\ Leads(l)
         /\ m.succ # Nobody => m.succ # s /\ Started(m.succ) /\ id[m.succ] # id[l]
         /\ m.succ = Nobody => id[l] # id[s]
         /\ m.kind = "answer" /\ Waits(s) /\ ~Namesake(s) => Listed(l, s, i)
MessagesOk(s) ==
    \A i \in DOMAIN box[s] : \A m \in ToSet(box[s][i].msgs) : Written(s, i, m)

(* Nobody hears its own question, and a leader does not list yet whom it   *)
(* has to answer.                                                          *)
QuestionsOk(l) ==
    \A s \in mc[l] :
        /\ s # l /\ Started(s)
        /\ Leads(l) /\ Waits(s) => \A n \in 2 .. Len(lst[l]) : lst[l][n].who # s

ListedOk(s) == Follows(s) /\ ~Namesake(s) => Listed(LeaderOf(s), s, ltcp[s])

(* The leaders, and those who will lead if nothing happens to them that is *)
(* counted as a mishap.                                                    *)
Leading == {s \in Server : Leads(s)}
Unanswered == {s \in Server : Waits(s) /\ ~Late(s) /\ ~Passed(s)}
Mishaps == spent.rush + spent.loss + spent.late + spent.passed
Accounted == Cardinality(Leading \cup Unanswered) <= 1 + Mishaps

Consistent ==
    /\ \A s \in Server : ListOk(s)
    /\ \A s \in Server : RoleOk(s)
    /\ \A s \in Server : ConnectionOk(s)
    /\ \A s \in Server : MessagesOk(s)
    /\ \A s \in Server : QuestionsOk(s)
    /\ \A s \in Server : ListedOk(s)
    /\ Accounted

IInv ==
    /\ TypeOK /\ LeadersAccounted /\ DeathNeedsNamesake
    /\ Alive => Consistent

-----------------------------------------------------------------------------
Record == [id : Id, who : Server, at : Nat]
Connection == [from : Server, msgs : Seq(Message)]
Boxes == [Server -> Seq(Connection)]

(* What ToSet() makes of the sequences of messages.                        *)
LEMMA Elements ==
    ASSUME NEW E, NEW q \in Seq(E), NEW e \in E
    PROVE  /\ \A x \in ToSet(q) : x \in E
           /\ Append(q, e) \in Seq(E) /\ ToSet(Append(q, e)) = ToSet(q) \cup {e}
           /\ q # << >> => /\ Head(q) \in ToSet(q) /\ Tail(q) \in Seq(E)
                           /\ \A x \in ToSet(Tail(q)) : x \in ToSet(q)
<1>1. Len(q) \in Nat /\ DOMAIN q = 1 .. Len(q)
  OBVIOUS
<1>2. \A x \in ToSet(q) : x \in E
  BY <1>1, ElementOfSeq DEF ToSet
<1>3. Append(q, e) \in Seq(E) /\ ToSet(Append(q, e)) = ToSet(q) \cup {e}
  <2> DEFINE m == Append(q, e)
  <2>1. /\ m \in Seq(E) /\ Len(m) = Len(q) + 1 /\ DOMAIN m = 1 .. Len(m)
        /\ \A i \in 1 .. Len(q) : m[i] = q[i]
        /\ m[Len(q) + 1] = e
    <3>1. m \in Seq(E) /\ Len(m) = Len(q) + 1
          /\ (\A i \in 1 .. Len(q) : m[i] = q[i]) /\ m[Len(q) + 1] = e
      BY AppendProperties
    <3> HIDE DEF m
    <3> QED
      BY <3>1
  <2> HIDE DEF m
  <2>2. \A x \in ToSet(m) : x \in ToSet(q) \cup {e}
    <3> SUFFICES ASSUME NEW i \in 1 .. Len(q) + 1 PROVE m[i] \in ToSet(q) \cup {e}
      BY <2>1 DEF ToSet
    <3>1. i \in 1 .. Len(q) \/ i = Len(q) + 1
      BY <1>1
    <3> QED
      BY <1>1, <2>1, <3>1 DEF ToSet
  <2>3. \A x \in ToSet(q) : x \in ToSet(m)
    <3> SUFFICES ASSUME NEW i \in 1 .. Len(q) PROVE q[i] \in ToSet(m)
      BY <1>1 DEF ToSet
    <3>1. i \in DOMAIN m /\ m[i] = q[i]
      BY <1>1, <2>1
    <3> QED
      BY <3>1 DEF ToSet
  <2>4. e \in ToSet(m)
    <3>1. Len(q) + 1 \in DOMAIN m
      BY <1>1, <2>1
    <3> QED
      BY <2>1, <3>1 DEF ToSet
  <2>5. ToSet(m) = ToSet(q) \cup {e}
    BY <2>2, <2>3, <2>4
  <2> QED
    BY <2>1, <2>5 DEF m
<1>4. ASSUME q # << >>
      PROVE  /\ Head(q) \in ToSet(q) /\ Tail(q) \in Seq(E)
             /\ \A x \in ToSet(Tail(q)) : x \in ToSet(q)
  <2> DEFINE m == Tail(q)
  <2>1. m \in Seq(E) /\ Len(m) = Len(q) - 1 /\ Len(q) > 0 /\ Head(q) = q[1]
    BY <1>4
  <2>2. \A i \in 1 .. Len(m) : m[i] = q[i+1]
    BY <1>4
  <2>3. DOMAIN m = 1 .. Len(m)
    BY <2>1
  <2> HIDE DEF m
  <2>4. ASSUME NEW i \in 1 .. Len(m) PROVE m[i] \in ToSet(q)
    <3>1. i + 1 \in DOMAIN q /\ m[i] = q[i+1]
      BY <1>1, <2>1, <2>2
    <3> QED
      BY <3>1 DEF ToSet
  <2>5. \A x \in ToSet(m) : x \in ToSet(q)
    BY <2>3, <2>4 DEF ToSet
  <2>6. 1 \in DOMAIN q
    BY <1>1, <2>1
  <2>7. Head(q) \in ToSet(q)
    BY <2>1, <2>6 DEF ToSet
  <2> QED
    BY <2>1, <2>5, <2>7 DEF m
<1> QED
  BY <1>2, <1>3, <1>4

LEMMA NoElements == ToSet(<< >>) = {} /\ << >> \in Seq(Message)
BY DEF ToSet

(* The messages have their kind and name whom they name.                   *)
LEMMA Kinds ==
    /\ \A t \in Server \cup {Nobody} :
          Answer(t) \in Message /\ Answer(t).kind = "answer" /\ Answer(t).succ = t
    /\ \A t \in Server :
          /\ Update(t) \in Message
          /\ Update(t).kind = "UPDATE_FROM_LEADER" /\ Update(t).succ = t
    /\ Heartbeat \in Message /\ Heartbeat.kind = "HEARTBEAT"
    /\ EndOfFile \in Message /\ EndOfFile.kind = "end"
    /\ \A m \in Message : /\ m.succ \in Server \cup {Nobody}
                          /\ m.kind = "UPDATE_FROM_LEADER" => m.succ \in Server
                          /\ m.kind \in {"answer", "UPDATE_FROM_LEADER", "HEARTBEAT", "end"}
<1>1. \A t \in Server \cup {Nobody} : Answer(t).kind = "answer" /\ Answer(t).succ = t
  BY DEF Answer
<1>2. \A t \in Server : /\ Update(t).kind = "UPDATE_FROM_LEADER" /\ Update(t).succ = t
  BY DEF Update
<1>3. Heartbeat.kind = "HEARTBEAT" /\ EndOfFile.kind = "end"
      /\ Heartbeat.succ = Nobody /\ EndOfFile.succ = Nobody
  BY DEF Heartbeat, EndOfFile
<1>4. /\ Heartbeat \in Message /\ EndOfFile \in Message
      /\ \A t \in Server : Update(t) \in Message
      /\ \A t \in Server \cup {Nobody} : Answer(t) \in Message
  BY DEF Message
<1>5. ASSUME NEW m \in Message
      PROVE  /\ m.succ \in Server \cup {Nobody}
             /\ m.kind = "UPDATE_FROM_LEADER" => m.succ \in Server
             /\ m.kind \in {"answer", "UPDATE_FROM_LEADER", "HEARTBEAT", "end"}
  <2>1. CASE m = Heartbeat \/ m = EndOfFile
    BY <1>3, <2>1
  <2>2. CASE \E t \in Server : m = Update(t)
    BY <1>2, <2>2
  <2>3. CASE \E t \in Server \cup {Nobody} : m = Answer(t)
    BY <1>1, <2>3
  <2> QED
    BY <2>1, <2>2, <2>3 DEF Message
<1> QED
  BY <1>1, <1>2, <1>3, <1>4, <1>5

(* Other messages at one place.                                            *)
Rewrite(b, s, at, q) == [b EXCEPT ![s][at].msgs = q]

LEMMA Rewritten ==
    ASSUME NEW b \in Boxes, NEW s \in Server, NEW at \in 1 .. Len(b[s]),
           NEW q \in Seq(Message), NEW c, c = Rewrite(b, s, at, q)
    PROVE  /\ c \in Boxes
           /\ \A t \in Server \ {s} : c[t] = b[t]
           /\ \A t \in Server : Len(c[t]) = Len(b[t]) /\ Len(b[t]) \in Nat
           /\ \A t \in Server : \A i \in 1 .. Len(b[t]) :
                 c[t][i] = IF t = s /\ i = at THEN [from |-> b[s][at].from, msgs |-> q]
                           ELSE b[t][i]
<1> DEFINE x == [b[s][at] EXCEPT !.msgs = q]
           y == [b[s] EXCEPT ![at] = x]
<1>1. b[s] \in Seq(Connection) /\ \A t \in Server : b[t] \in Seq(Connection) /\ Len(b[t]) \in Nat
  BY DEF Boxes
<1>2. b[s][at] \in Connection
  BY <1>1, ElementOfSeq
<1>3. x = [from |-> b[s][at].from, msgs |-> q] /\ x \in Connection
  BY <1>2 DEF Connection
<1>4. c = [b EXCEPT ![s] = y]
  BY DEF Rewrite
<1> HIDE DEF x
<1>5. /\ y \in Seq(Connection) /\ Len(y) = Len(b[s])
      /\ \A j \in 1 .. Len(b[s]) : y[j] = IF j = at THEN x ELSE b[s][j]
  BY <1>1, <1>3, ExceptSeq
<1> HIDE DEF y
<1>6. c \in Boxes /\ c[s] = y /\ \A t \in Server \ {s} : c[t] = b[t]
  BY <1>4, <1>5 DEF Boxes
<1> QED
  BY <1>1, <1>3, <1>5, <1>6

-----------------------------------------------------------------------------
(* The message m has arrived at s, at this place.                          *)
Has(b, s, i, m) == i \in 1 .. Len(b[s]) /\ m \in ToSet(b[s][i].msgs)

(* c are the connections b with more connections, or more messages.        *)
More(b, c) ==
    \A t \in Server : \A i \in 1 .. Len(b[t]) :
        i \in 1 .. Len(c[t]) /\ c[t][i].from = b[t][i].from

LEMMA BoxType ==
    ASSUME NEW b \in Boxes, NEW t \in Server
    PROVE  /\ b[t] \in Seq(Connection) /\ Len(b[t]) \in Nat /\ DOMAIN b[t] = 1 .. Len(b[t])
           /\ \A i \in 1 .. Len(b[t]) :
                 /\ b[t][i] \in Connection
                 /\ b[t][i].from \in Server /\ b[t][i].msgs \in Seq(Message)
                 /\ \A m \in ToSet(b[t][i].msgs) : m \in Message
<1>1. b[t] \in Seq(Connection) /\ Len(b[t]) \in Nat /\ DOMAIN b[t] = 1 .. Len(b[t])
  BY DEF Boxes
<1>2. ASSUME NEW i \in 1 .. Len(b[t])
      PROVE  /\ b[t][i] \in Connection
             /\ b[t][i].from \in Server /\ b[t][i].msgs \in Seq(Message)
             /\ \A m \in ToSet(b[t][i].msgs) : m \in Message
  <2>1. b[t][i] \in Connection
    BY <1>1, ElementOfSeq
  <2>2. b[t][i].from \in Server /\ b[t][i].msgs \in Seq(Message)
    BY <2>1 DEF Connection
  <2>3. \A m \in ToSet(b[t][i].msgs) : m \in Message
    BY <2>2, Kinds, Elements
  <2> QED
    BY <2>1, <2>2, <2>3
<1> QED
  BY <1>1, <1>2

(* setup_tcp_client() adds an empty connection to those of a server that   *)
(* waits.                                                                  *)
MoreConnections(b, x, s, c) ==
    /\ c \in Boxes /\ More(b, c)
    /\ \A t \in Server : ~(Waits(s) /\ t = s) => c[t] = b[t]
    /\ \A t, i, m : Has(b, t, i, m) /\ t \in Server => Has(c, t, i, m)
    /\ \A t, i, m : Has(c, t, i, m) /\ t \in Server => Has(b, t, i, m)
    /\ PlaceAt(c, s) \in Nat
    /\ ~Waits(s) => PlaceAt(c, s) = 0
    /\ Waits(s) => /\ Len(c[s]) = Len(b[s]) + 1
                   /\ PlaceAt(c, s) = Len(c[s]) /\ Len(c[s]) \in Nat \ {0}
                   /\ c[s][Len(c[s])].from = x

LEMMA ConnectedAdds ==
    ASSUME NEW b \in Boxes, NEW x \in Server, NEW s \in Server,
           NEW c, c = Connected(b, x, s)
    PROVE  MoreConnections(b, x, s, c)
<1> DEFINE y == [from |-> x, msgs |-> << >>]
<1>1. y \in Connection
  BY DEF Connection
<1>2. \A t \in Server : b[t] \in Seq(Connection) /\ Len(b[t]) \in Nat
  BY BoxType
<1>3. CASE ~Waits(s)
  <2>1. c = b /\ PlaceAt(c, s) = 0
    BY <1>3 DEF Connected, PlaceAt
  <2> QED
    BY <1>3, <2>1 DEF More, MoreConnections
<1>4. CASE Waits(s)
  <2> DEFINE q == Append(b[s], y)
  <2>1. c = [b EXCEPT ![s] = q]
    BY <1>4 DEF Connected
  <2>2. /\ q \in Seq(Connection) /\ Len(q) = Len(b[s]) + 1
        /\ \A i \in 1 .. Len(b[s]) : q[i] = b[s][i]
        /\ q[Len(b[s]) + 1] = y
    <3> HIDE DEF y
    <3> QED
      BY <1>1, <1>2, AppendProperties
  <2> HIDE DEF q
  <2>3. c \in Boxes /\ c[s] = q /\ \A t \in Server \ {s} : c[t] = b[t]
    BY <2>1, <2>2 DEF Boxes
  <2>4. /\ Len(c[s]) = Len(b[s]) + 1 /\ Len(b[s]) \in Nat
        /\ \A i \in 1 .. Len(b[s]) : c[s][i] = b[s][i]
        /\ c[s][Len(b[s]) + 1] = y
    BY <1>2, <2>2, <2>3
  <2>5. \A i : i \in 1 .. Len(c[s]) <=> i \in 1 .. Len(b[s]) \/ i = Len(b[s]) + 1
    BY <2>4
  <2>6. More(b, c)
    BY <2>3, <2>4, <2>5 DEF More
  <2>7. ToSet(c[s][Len(b[s]) + 1].msgs) = {}
    <3>1. c[s][Len(b[s]) + 1].msgs = << >>
      BY <2>4
    <3> QED
      BY <3>1, NoElements
  <2>8. \A t \in Server : \A i, m : Has(c, t, i, m) <=> Has(b, t, i, m)
    <3> SUFFICES ASSUME NEW t \in Server, NEW i, NEW m
                 PROVE  Has(c, t, i, m) <=> Has(b, t, i, m)
      OBVIOUS
    <3>1. CASE t # s
      BY <2>3, <3>1 DEF Has
    <3>2. CASE t = s
      BY <2>4, <2>5, <2>7, <3>2 DEF Has
    <3> QED
      BY <3>1, <3>2
  <2>9. PlaceAt(c, s) = Len(c[s])
    BY <1>4 DEF PlaceAt
  <2> QED
    BY <1>4, <2>3, <2>4, <2>6, <2>8, <2>9 DEF MoreConnections
<1> QED
  BY <1>3, <1>4

(* ... at each place.                                                      *)
LEMMA ConnectedAt ==
    ASSUME NEW b \in Boxes, NEW x \in Server, NEW s \in Server,
           NEW c, c = Connected(b, x, s)
    PROVE  /\ \A t \in Server : \A i \in 1 .. Len(b[t]) :
                 i \in 1 .. Len(c[t]) /\ c[t][i] = b[t][i]
           /\ \A t \in Server : \A i \in 1 .. Len(c[t]) :
                 \/ i \in 1 .. Len(b[t])
                 \/ t = s /\ Waits(s) /\ i = Len(c[t]) /\ c[t][i].from = x /\ c[t][i].msgs = << >>
<1> DEFINE y == [from |-> x, msgs |-> << >>]
<1>0. y \in Connection /\ y.from = x /\ y.msgs = << >>
  BY DEF Connection
<1>1. \A t \in Server : b[t] \in Seq(Connection) /\ Len(b[t]) \in Nat
  BY BoxType
<1>2. CASE ~Waits(s)
  <2>1. c = b
    BY <1>2 DEF Connected
  <2> QED
    BY <2>1
<1>3. CASE Waits(s)
  <2> DEFINE q == Append(b[s], y)
  <2>1. c = [b EXCEPT ![s] = q]
    BY <1>3 DEF Connected
  <2> HIDE DEF y
  <2>2. /\ Len(q) = Len(b[s]) + 1
        /\ \A i \in 1 .. Len(b[s]) : q[i] = b[s][i]
        /\ q[Len(b[s]) + 1] = y
    BY <1>0, <1>1, AppendProperties
  <2> HIDE DEF q
  <2>3. c[s] = q /\ \A t \in Server \ {s} : c[t] = b[t]
    BY <2>1 DEF Boxes
  <2>4. /\ Len(c[s]) = Len(b[s]) + 1 /\ Len(b[s]) \in Nat
        /\ \A i \in 1 .. Len(b[s]) : c[s][i] = b[s][i]
        /\ c[s][Len(b[s]) + 1] = y
    BY <1>1, <2>2, <2>3
  <2>5. \A i : i \in 1 .. Len(c[s]) <=> i \in 1 .. Len(b[s]) \/ i = Len(b[s]) + 1
    BY <2>4
  <2> QED
    BY <1>0, <1>3, <2>3, <2>4, <2>5
<1> QED
  BY <1>2, <1>3

(* A message that is sent arrives, at a place that exists, with those who  *)
(* read there, and nothing else changes.                                   *)
Reading(s, at) == at > 0 /\ (Waits(s) \/ (Follows(s) /\ ltcp[s] = at))

SentOn(b, s, at, msg, c) ==
    /\ c \in Boxes /\ More(b, c)
    /\ \A t \in Server : Len(c[t]) = Len(b[t])
    /\ \A t \in Server : ~(Reading(s, at) /\ t = s) => c[t] = b[t]
    /\ \A t, i, m : Has(b, t, i, m) /\ t \in Server => Has(c, t, i, m)
    /\ \A t, i, m : Has(c, t, i, m) /\ t \in Server =>
          Has(b, t, i, m) \/ (t = s /\ i = at /\ m = msg /\ Reading(s, at))
    /\ Reading(s, at) => Has(c, s, at, msg)

LEMMA SentAdds ==
    ASSUME NEW b \in Boxes, NEW s \in Server, NEW at \in Nat, NEW msg \in Message,
           Reading(s, at) => at <= Len(b[s]),
           NEW c, c = Sent(b, s, at, msg)
    PROVE  SentOn(b, s, at, msg, c)
<1>1. CASE ~Reading(s, at)
  <2>1. c = b
    BY <1>1 DEF Sent, Reading
  <2> QED
    BY <1>1, <2>1, BoxType DEF More, SentOn
<1>2. CASE Reading(s, at)
  <2> DEFINE q == Append(b[s][at].msgs, msg)
  <2>1. at \in 1 .. Len(b[s])
    BY <1>2, BoxType DEF Reading
  <2>2. c = [b EXCEPT ![s][at].msgs = q]
    BY <1>2 DEF Sent, Reading
  <2>3. b[s][at].msgs \in Seq(Message)
    BY <2>1, BoxType
  <2>4. q \in Seq(Message) /\ ToSet(q) = ToSet(b[s][at].msgs) \cup {msg}
    BY <2>3, Elements
  <2> HIDE DEF q
  <2>5. /\ c \in Boxes /\ \A t \in Server \ {s} : c[t] = b[t]
        /\ \A t \in Server : Len(c[t]) = Len(b[t]) /\ Len(b[t]) \in Nat
        /\ \A t \in Server : \A i \in 1 .. Len(b[t]) :
              c[t][i] = IF t = s /\ i = at THEN [from |-> b[s][at].from, msgs |-> q]
                        ELSE b[t][i]
    <3>1. c = Rewrite(b, s, at, q)
      BY <2>2 DEF Rewrite
    <3> QED
      BY <2>1, <2>4, <3>1, Rewritten
  <2>6. c[s][at].msgs = q /\ c[s][at].from = b[s][at].from
    BY <2>1, <2>5
  <2>7. \A t \in Server : \A i \in 1 .. Len(b[t]) : t # s \/ i # at => c[t][i] = b[t][i]
    BY <2>5
  <2>8. More(b, c)
    <3> SUFFICES ASSUME NEW t \in Server, NEW i \in 1 .. Len(b[t])
                 PROVE  i \in 1 .. Len(c[t]) /\ c[t][i].from = b[t][i].from
      BY DEF More
    <3> QED
      BY <2>5, <2>6, <2>7
  <2>9. ASSUME NEW t \in Server, NEW i, NEW m
        PROVE  Has(c, t, i, m) <=> Has(b, t, i, m) \/ (t = s /\ i = at /\ m = msg)
    <3>1. CASE t = s /\ i = at
      BY <2>1, <2>4, <2>5, <2>6, <3>1 DEF Has
    <3>2. CASE ~(t = s /\ i = at)
      BY <2>5, <2>7, <3>2 DEF Has
    <3> QED
      BY <3>1, <3>2
  <2> QED
    BY <1>2, <2>5, <2>8, <2>9 DEF SentOn
<1> QED
  BY <1>1, <1>2

(* Nothing is written but what is sent, where it is sent.                  *)
JustThere(b, s, at, msg, c) ==
    /\ \A x \in Server : Len(c[x]) = Len(b[x])
    /\ \A x \in Server : \A i \in 1 .. Len(b[x]) :
          /\ c[x][i].from = b[x][i].from
          /\ ~(x = s /\ i = at /\ Reading(s, at)) => c[x][i].msgs = b[x][i].msgs
    /\ Reading(s, at) => c[s][at].msgs = Append(b[s][at].msgs, msg)

LEMMA SentAt ==
    ASSUME NEW b \in Boxes, NEW s \in Server, NEW at \in Nat, NEW msg \in Message,
           Reading(s, at) => at <= Len(b[s]),
           NEW c, c = Sent(b, s, at, msg)
    PROVE  JustThere(b, s, at, msg, c)
<1>1. CASE ~Reading(s, at)
  <2>1. c = b
    BY <1>1 DEF Sent, Reading
  <2> QED
    BY <1>1, <2>1 DEF JustThere
<1>2. CASE Reading(s, at)
  <2> DEFINE q == Append(b[s][at].msgs, msg)
  <2>1. at \in 1 .. Len(b[s])
    BY <1>2, BoxType DEF Reading
  <2>2. c = Rewrite(b, s, at, q)
    BY <1>2 DEF Sent, Reading, Rewrite
  <2>3. b[s][at].msgs \in Seq(Message)
    BY <2>1, BoxType
  <2>4. q \in Seq(Message)
    BY <2>3, Elements
  <2> HIDE DEF q
  <2>5. /\ \A x \in Server : Len(c[x]) = Len(b[x])
        /\ \A x \in Server : \A i \in 1 .. Len(b[x]) :
              c[x][i] = IF x = s /\ i = at THEN [from |-> b[s][at].from, msgs |-> q]
                        ELSE b[x][i]
    BY <2>1, <2>2, <2>4, Rewritten
  <2>6. c[s][at].msgs = q /\ c[s][at].from = b[s][at].from
    BY <2>1, <2>5
  <2>7. ASSUME NEW x \in Server, NEW i \in 1 .. Len(b[x]), x # s \/ i # at
        PROVE  c[x][i] = b[x][i]
    BY <2>5, <2>7
  <2>8. c[s][at].msgs = Append(b[s][at].msgs, msg)
    BY <2>6 DEF q
  <2> QED
    BY <1>2, <2>5, <2>6, <2>7, <2>8 DEF JustThere
<1> QED
  BY <1>1, <1>2

-----------------------------------------------------------------------------
(* Of a step after which everybody lives: nobody goes back in its life, no *)
(* connection is lost as long as it is read, and leaders go on listing     *)
(* those who wait and those who follow them.                               *)
Ages ==
    \A s \in Server :
        /\ Started(s) => phase'[s] # "off" /\ id'[s] = id[s]
        /\ Leads(s) => phase'[s] = "leads"
        /\ Follows(s) => phase'[s] = "follows" /\ ltcp'[s] = ltcp[s]
        /\ ~Started(s) => phase'[s] \in {"off", "waits"}

Widens ==
    \A t \in Server :
        /\ phase'[t] \in {"waits", "follows"} => Len(box[t]) <= Len(box'[t])
        /\ \A i \in 1 .. Len(box[t]) :
              i \in 1 .. Len(box'[t]) => box'[t][i].from = box[t][i].from

StillListed(l, s, at) ==
    \E n \in 2 .. Len(lst'[l]) : lst'[l][n] = Entry(id'[s], s, at)
ListsOn ==
    \A l, s \in Server : \A at :
        /\ Leads(l) /\ (Waits(s) \/ (Follows(s) /\ LeaderOf(s) = l))
        /\ Listed(l, s, at)
        => StillListed(l, s, at)

GoesOn ==
    /\ TypeOK /\ TypeOK' /\ Alive /\ Alive' /\ Consistent
    /\ Ages /\ Widens /\ ListsOn

(* What leaders list after themselves they have listed before.             *)
Thins(l) ==
    \A n \in 2 .. Len(lst'[l]) :
        Leads(l) /\ \E k \in 2 .. Len(lst[l]) : lst'[l][n] = lst[l][k]

LEMMA ListType ==
    ASSUME TypeOK, NEW s \in Server
    PROVE  /\ lst[s] \in Seq(Record) /\ Len(lst[s]) \in Nat /\ DOMAIN lst[s] = 1 .. Len(lst[s])
           /\ \A n \in 1 .. Len(lst[s]) :
                 /\ lst[s][n] \in Record /\ lst[s][n].id \in Id
                 /\ lst[s][n].who \in Server /\ lst[s][n].at \in Nat
<1>0. lst[s] \in Seq(Record)
  BY DEF TypeOK, Record
<1>1. lst[s] \in Seq(Record) /\ Len(lst[s]) \in Nat /\ DOMAIN lst[s] = 1 .. Len(lst[s])
  BY <1>0
<1>2. \A n \in 1 .. Len(lst[s]) : lst[s][n] \in Record
  BY <1>1, ElementOfSeq
<1> QED
  BY <1>1, <1>2 DEF Record

LEMMA SuccessorType ==
    ASSUME TypeOK, NEW f \in Server
    PROVE  /\ succ[f].who \in Server \cup {Nobody}
           /\ succ[f].who # Nobody => succ[f].at \in Nat
           /\ succ[f].is \in {"open", "unread", "closed"}
           /\ succ[f].is # "closed" => succ[f].who \in Server
<1>1. succ[f] \in [who : Server, at : Nat, is : {"open", "unread", "closed"}] \/ succ[f] = NoSucc
  BY DEF TypeOK
<1>2. NoSucc.who = Nobody /\ NoSucc.is = "closed"
  BY DEF NoSucc
<1> QED
  BY <1>1, <1>2

(* A follower's leader is at the other end of a connection it has.         *)
LEMMA LeaderThere ==
    ASSUME TypeOK, Consistent, NEW s \in Server, Follows(s)
    PROVE  /\ ltcp[s] \in 1 .. Len(box[s]) /\ LeaderOf(s) \in Server
           /\ Leads(LeaderOf(s)) /\ LeaderOf(s) # s
<1>1. box \in Boxes /\ ltcp[s] \in Nat /\ taken[s] \in Nat
      /\ ltcp[s] <= taken[s] /\ taken[s] <= Len(box[s])
  BY DEF TypeOK, Boxes, Connection
<1>2. ltcp[s] > 0 /\ Leads(LeaderOf(s))
  BY DEF Consistent, RoleOk
<1>3. Len(box[s]) \in Nat /\ \A i \in 1 .. Len(box[s]) : box[s][i].from \in Server
  BY <1>1, BoxType
<1>4. ltcp[s] \in 1 .. Len(box[s])
  BY <1>1, <1>2, <1>3
<1> QED
  BY <1>2, <1>3, <1>4 DEF LeaderOf, Leads, Follows

LEMMA LeaderStays ==
    ASSUME GoesOn, NEW s \in Server, Follows(s)
    PROVE  LeaderOf(s)' = LeaderOf(s)
<1>1. ltcp[s] \in 1 .. Len(box[s]) /\ phase'[s] = "follows" /\ ltcp'[s] = ltcp[s]
  BY LeaderThere DEF GoesOn, Ages
<1>2. box' \in Boxes
  BY DEF GoesOn, TypeOK, Boxes, Connection
<1>3. Len(box'[s]) \in Nat
  BY <1>2, BoxType
<1>4. Len(box[s]) <= Len(box'[s])
  BY <1>1 DEF GoesOn, Widens
<1>5. box \in Boxes
  BY DEF GoesOn, TypeOK, Boxes, Connection
<1>6. Len(box[s]) \in Nat
  BY <1>5, BoxType
<1>7. ltcp[s] \in 1 .. Len(box'[s])
  BY <1>1, <1>3, <1>4, <1>6
<1> QED
  BY <1>1, <1>7 DEF GoesOn, Widens, LeaderOf

LEMMA NamesakeStays ==
    ASSUME GoesOn, NEW s \in Server, Started(s), Namesake(s)
    PROVE  Namesake(s)'
<1>1. PICK t \in Server \ {s} : id[t] = id[s] /\ id[s] # 0
  BY DEF Namesake
<1>2. Started(t)
  BY <1>1 DEF GoesOn, Consistent, ListOk, Started
<1> QED
  BY <1>1, <1>2 DEF GoesOn, Ages, Namesake

LEMMA WaitedBefore ==
    ASSUME GoesOn, NEW s \in Server, Started(s), phase'[s] = "waits"
    PROVE  Waits(s)
<1>1. phase[s] \in {"off", "waits", "leads", "follows", "down"}
      /\ phase[s] # "off" /\ phase[s] # "down"
  BY DEF GoesOn, TypeOK, Alive, Started
<1>2. phase[s] # "leads" /\ phase[s] # "follows"
  BY DEF GoesOn, Ages, Leads, Follows
<1> QED
  BY <1>1, <1>2 DEF Waits

LEMMA ListKept ==
    ASSUME GoesOn, NEW s \in Server, lst'[s] = lst[s],
           Started(s) \/ (phase'[s] = "off" /\ box'[s] = box[s] /\ id'[s] = id[s])
    PROVE  ListOk(s)'
<1>1. ListOk(s)
  BY DEF GoesOn, Consistent
<1>2. Started(s) => Started(s)' /\ id'[s] = id[s]
  BY DEF GoesOn, Ages, Started
<1>3. ASSUME NEW n \in DOMAIN lst[s]
      PROVE  Started(lst[s][n].who)' /\ lst[s][n].id = id'[lst[s][n].who]
  <2>1. lst[s][n].who \in Server /\ Started(lst[s][n].who)
    BY <1>1, ListType DEF GoesOn, ListOk
  <2> QED
    BY <1>1, <2>1 DEF GoesOn, Ages, Started, ListOk
<1> QED
  BY <1>1, <1>2, <1>3 DEF ListOk, Entry, Started

LEMMA RoleKept ==
    ASSUME GoesOn, NEW s \in Server, phase'[s] = phase[s], lst'[s] = lst[s],
           ltcp'[s] = ltcp[s], attempt'[s] = attempt[s], succ'[s].who = succ[s].who
    PROVE  RoleOk(s)'
<1>1. RoleOk(s)
  BY DEF GoesOn, Consistent
<1>2. CASE ~Follows(s)
  BY <1>1, <1>2 DEF RoleOk, Follows
<1>3. CASE Follows(s)
  <2>1. /\ LeaderOf(s)' = LeaderOf(s) /\ LeaderOf(s) \in Server /\ Leads(LeaderOf(s))
    BY <1>3, LeaderStays, LeaderThere DEF GoesOn
  <2>2. Leads(LeaderOf(s))' /\ id'[LeaderOf(s)] = id[LeaderOf(s)]
    BY <2>1 DEF GoesOn, Ages, Leads, Started
  <2>3. Namesake(s) => Namesake(s)'
    BY <1>3, NamesakeStays DEF Follows, Started
  <2>4. Leads(LeaderOf(s)') /\ id'[LeaderOf(s)'] = id[LeaderOf(s)]
    BY <2>1, <2>2
  <2> QED
    BY <1>1, <1>3, <2>1, <2>2, <2>3, <2>4 DEF RoleOk, Follows
<1> QED
  BY <1>2, <1>3

(* Joins() after the step, for a place known before it.                    *)
StillJoins(x, s, at) ==
    at > 0 /\ phase'[s] \in {"waits", "follows"} =>
        at <= Len(box'[s]) /\ box'[s][at].from = x

LEMMA JoinsStay ==
    ASSUME GoesOn, NEW x \in Server, NEW s \in Server, NEW at \in Nat,
           Started(s), Joins(x, s, at)
    PROVE  StillJoins(x, s, at)
<1> SUFFICES ASSUME at > 0, phase'[s] \in {"waits", "follows"}
             PROVE  at <= Len(box'[s]) /\ box'[s][at].from = x
  BY DEF StillJoins
<1>1. phase[s] \in {"off", "waits", "leads", "follows", "down"}
      /\ phase[s] # "off" /\ phase[s] # "down"
  BY DEF GoesOn, TypeOK, Alive, Started
<1>2. Waits(s) \/ Follows(s)
  BY <1>1 DEF GoesOn, Ages, Waits, Follows, Leads
<1>3. at <= Len(box[s]) /\ box[s][at].from = x
  BY <1>2 DEF Joins
<1>4. box \in Boxes /\ box' \in Boxes
  BY DEF GoesOn, TypeOK, Boxes, Connection
<1>5. Len(box[s]) \in Nat /\ Len(box'[s]) \in Nat /\ Len(box[s]) <= Len(box'[s])
  BY <1>4, BoxType DEF GoesOn, Widens
<1>6. at \in 1 .. Len(box[s]) /\ at \in 1 .. Len(box'[s])
  BY <1>3, <1>5
<1> QED
  BY <1>3, <1>5, <1>6 DEF GoesOn, Widens

LEMMA ConnectionKept ==
    ASSUME GoesOn, NEW s \in Server, Leads(s)' => Thins(s),
           succ'[s].who = succ[s].who, succ'[s].at = succ[s].at
    PROVE  ConnectionOk(s)'
<1>1. ConnectionOk(s)
  BY DEF GoesOn, Consistent
<1>2. ASSUME Leads(s)', NEW n \in 2 .. Len(lst'[s])
      PROVE  StillJoins(s, lst'[s][n].who, lst'[s][n].at)
  <2>1. PICK k \in 2 .. Len(lst[s]) : lst'[s][n] = lst[s][k]
    BY <1>2 DEF Thins
  <2>2. Leads(s)
    BY <1>2 DEF Thins
  <2>3. Joins(s, lst[s][k].who, lst[s][k].at)
    BY <1>1, <2>2 DEF ConnectionOk
  <2>4. k \in 1 .. Len(lst[s]) /\ k \in DOMAIN lst[s]
    BY ListType DEF GoesOn
  <2>5. lst[s][k].who \in Server /\ lst[s][k].at \in Nat
    BY <2>4, ListType DEF GoesOn
  <2>6. Started(lst[s][k].who)
    BY <2>4 DEF GoesOn, Consistent, ListOk
  <2>7. StillJoins(s, lst[s][k].who, lst[s][k].at)
    BY <2>3, <2>5, <2>6, JoinsStay
  <2> QED
    BY <2>1, <2>7
<1>3. ASSUME succ'[s].who # Nobody
      PROVE  /\ phase'[succ'[s].who] # "off"
             /\ StillJoins(s, succ'[s].who, succ'[s].at)
  <2> DEFINE x == succ[s].who
             at == succ[s].at
  <2>0. TypeOK
    BY DEF GoesOn
  <2>1. x \in Server /\ at \in Nat
    BY <1>3, <2>0, SuccessorType
  <2>2. Started(x) /\ Joins(s, x, at)
    BY <1>1, <1>3 DEF ConnectionOk
  <2>3. phase'[x] # "off"
    BY <2>1, <2>2 DEF GoesOn, Ages
  <2> HIDE DEF x, at
  <2>4. StillJoins(s, x, at)
    BY <2>1, <2>2, JoinsStay
  <2> QED
    BY <2>3, <2>4 DEF x, at
<1> QED
  BY <1>2, <1>3 DEF ConnectionOk, Joins, StillJoins, Started, Waits, Follows

LEMMA WrittenStays ==
    ASSUME GoesOn, NEW s \in Server, NEW i, NEW m,
           Has(box, s, i, m), i \in 1 .. Len(box'[s])
    PROVE  Written(s, i, m)'
<1> DEFINE l == box[s][i].from
<1>1. box \in Boxes
  BY DEF GoesOn, TypeOK, Boxes, Connection
<1>2. i \in 1 .. Len(box[s]) /\ m \in ToSet(box[s][i].msgs)
  BY DEF Has
<1>3. l \in Server /\ m \in Message /\ DOMAIN box[s] = 1 .. Len(box[s])
  BY <1>1, <1>2, BoxType
<1>4. Written(s, i, m)
  BY <1>2, <1>3 DEF GoesOn, Consistent, MessagesOk
<1>5. box'[s][i].from = l
  BY <1>2 DEF GoesOn, Widens
<1>6. Started(s)
  <2>1. ListOk(s)
    BY DEF GoesOn, Consistent
  <2>2. box[s] # << >>
    BY <1>2
  <2> QED
    BY <2>1, <2>2 DEF ListOk, Started
<1> HIDE DEF l
<1>7. CASE m.kind \in {"HEARTBEAT", "end"}
  <2>1. Follows(l)
    BY <1>4, <1>7 DEF Written, l
  <2>2. phase'[l] = "follows"
    BY <1>3, <2>1 DEF GoesOn, Ages
  <2> QED
    BY <1>5, <1>7, <2>2 DEF Written, Follows, l
<1>8. CASE m.kind \notin {"HEARTBEAT", "end"}
  <2>1. /\ Leads(l)
        /\ m.succ # Nobody => m.succ # s /\ Started(m.succ) /\ id[m.succ] # id[l]
        /\ m.succ = Nobody => id[l] # id[s]
        /\ m.kind = "answer" /\ Waits(s) /\ ~Namesake(s) => Listed(l, s, i)
    BY <1>4, <1>8 DEF Written, l
  <2>2. phase'[l] = "leads" /\ id'[l] = id[l] /\ id'[s] = id[s]
    BY <1>3, <1>6, <2>1 DEF GoesOn, Ages, Leads, Started, l
  <2>3. m.succ # Nobody => m.succ \in Server /\ phase'[m.succ] # "off" /\ id'[m.succ] = id[m.succ]
    BY <1>3, <2>1, Kinds DEF GoesOn, Ages
  <2>4. ASSUME m.kind = "answer", phase'[s] = "waits", ~Namesake(s)'
        PROVE  StillListed(l, s, i)
    <3>1. Waits(s)
      BY <1>6, <2>4, WaitedBefore
    <3>2. ~Namesake(s)
      BY <1>6, <2>4, NamesakeStays
    <3>3. Listed(l, s, i)
      BY <2>1, <2>4, <3>1, <3>2
    <3> QED
      BY <1>3, <2>1, <3>1, <3>3 DEF GoesOn, ListsOn
  <2> QED
    BY <1>5, <1>8, <2>1, <2>2, <2>3, <2>4 DEF Written, Leads, Waits, Started, Listed, StillListed, Entry, l
<1> QED
  BY <1>7, <1>8

LEMMA MessagesKept ==
    ASSUME GoesOn, NEW s \in Server,
           \A i, m : Has(box', s, i, m) => Has(box, s, i, m) \/ Written(s, i, m)'
    PROVE  MessagesOk(s)'
<1>1. box' \in Boxes
  BY DEF GoesOn, TypeOK, Boxes, Connection
<1>2. DOMAIN box'[s] = 1 .. Len(box'[s])
  BY <1>1, BoxType
<1> SUFFICES ASSUME NEW i \in 1 .. Len(box'[s]), NEW m \in ToSet(box'[s][i].msgs)
             PROVE  Written(s, i, m)'
  BY <1>2 DEF MessagesOk
<1>3. Has(box', s, i, m)
  BY DEF Has
<1> QED
  BY <1>3, WrittenStays

LEMMA QuestionsKept ==
    ASSUME GoesOn, NEW l \in Server, Leads(l)' => Thins(l), mc'[l] \subseteq mc[l]
    PROVE  QuestionsOk(l)'
<1>1. QuestionsOk(l)
  BY DEF GoesOn, Consistent
<1> SUFFICES ASSUME NEW s \in mc'[l]
             PROVE  /\ s # l /\ phase'[s] # "off"
                    /\ Leads(l)' /\ phase'[s] = "waits" =>
                          \A n \in 2 .. Len(lst'[l]) : lst'[l][n].who # s
  BY DEF QuestionsOk, Started, Waits
<1>2. s \in mc[l] /\ s \in Server /\ s # l /\ Started(s)
  BY <1>1 DEF QuestionsOk, GoesOn, TypeOK
<1>3. phase'[s] # "off"
  BY <1>2 DEF GoesOn, Ages
<1>4. ASSUME Leads(l)', phase'[s] = "waits", NEW n \in 2 .. Len(lst'[l])
      PROVE  lst'[l][n].who # s
  <2>1. Waits(s)
    BY <1>2, <1>4, WaitedBefore
  <2>2. Leads(l) /\ \E k \in 2 .. Len(lst[l]) : lst'[l][n] = lst[l][k]
    BY <1>4 DEF Thins
  <2> QED
    BY <1>1, <1>2, <2>1, <2>2 DEF QuestionsOk
<1> QED
  BY <1>2, <1>3, <1>4

LEMMA ListedKept ==
    ASSUME GoesOn, NEW s \in Server, phase'[s] = phase[s]
    PROVE  ListedOk(s)'
<1> SUFFICES ASSUME phase'[s] = "follows", ~Namesake(s)'
             PROVE  Listed(LeaderOf(s), s, ltcp[s])'
  BY DEF ListedOk, Follows
<1>1. Follows(s) /\ ltcp'[s] = ltcp[s]
  BY DEF GoesOn, Ages, Follows
<1>2. ~Namesake(s)
  BY <1>1, NamesakeStays DEF Follows, Started
<1>3. Listed(LeaderOf(s), s, ltcp[s])
  BY <1>1, <1>2 DEF GoesOn, Consistent, ListedOk
<1>4. LeaderOf(s)' = LeaderOf(s) /\ LeaderOf(s) \in Server /\ Leads(LeaderOf(s))
  BY <1>1, LeaderStays, LeaderThere DEF GoesOn
<1> DEFINE l == LeaderOf(s)
           at == ltcp[s]
<1>5. l \in Server /\ Leads(l) /\ Listed(l, s, at) /\ Follows(s) /\ LeaderOf(s) = l
  BY <1>1, <1>3, <1>4
<1> HIDE DEF l, at
<1>6. \E n \in 2 .. Len(lst'[l]) : lst'[l][n] = Entry(id'[s], s, at)
  BY <1>5 DEF GoesOn, ListsOn, StillListed
<1> QED
  BY <1>1, <1>4, <1>6 DEF Listed, Entry, l, at

(* An answer that has arrived and stays there has not been read.           *)
LEMMA StillPassed ==
    ASSUME TypeOK, TypeOK', NEW t \in Server,
           \A i, m : Has(box, t, i, m) /\ m.kind = "answer" => Has(box', t, i, m),
           Passed(t)
    PROVE  Passed(t)'
<1>1. box \in Boxes /\ box' \in Boxes
  BY DEF TypeOK, Boxes, Connection
<1>2. DOMAIN box[t] = 1 .. Len(box[t]) /\ DOMAIN box'[t] = 1 .. Len(box'[t])
  BY <1>1, BoxType
<1>3. PICK i \in DOMAIN box[t] : \E m \in ToSet(box[t][i].msgs) : m.kind = "answer"
  BY DEF Passed
<1>4. PICK m \in ToSet(box[t][i].msgs) : m.kind = "answer"
  BY <1>3
<1>5. Has(box', t, i, m)
  BY <1>2, <1>3, <1>4 DEF Has
<1> QED
  BY <1>2, <1>4, <1>5 DEF Has, Passed

(* The servers that lead or are about to, and the mishaps, after a step.   *)
LEMMA AccountKept ==
    ASSUME Accounted, TypeOK, TypeOK',
           \A s \in Server : s \in (Leading \cup Unanswered)' => s \in Leading \cup Unanswered,
           Mishaps' >= Mishaps
    PROVE  Accounted'
<1>1. IsFiniteSet(Leading \cup Unanswered) /\ (Leading \cup Unanswered)' \subseteq Leading \cup Unanswered
  <2>1. Leading \cup Unanswered \subseteq Server /\ (Leading \cup Unanswered)' \subseteq Server
    BY DEF Leading, Unanswered
  <2> QED
    BY <2>1, ServerAssumption, FS_Subset
<1>2. Cardinality((Leading \cup Unanswered)') <= Cardinality(Leading \cup Unanswered)
  BY <1>1, FS_Subset
<1>3. Cardinality(Leading \cup Unanswered) \in Nat /\ Cardinality((Leading \cup Unanswered)') \in Nat
  BY <1>1, FS_Subset, FS_CardinalityType
<1>4. Mishaps \in Nat /\ Mishaps' \in Nat
  <2>1. spent.rush \in Nat /\ spent.loss \in Nat /\ spent.late \in Nat /\ spent.passed \in Nat
    BY BoundAssumption DEF TypeOK
  <2>2. spent'.rush \in Nat /\ spent'.loss \in Nat /\ spent'.late \in Nat /\ spent'.passed \in Nat
    BY BoundAssumption DEF TypeOK
  <2> QED
    BY <2>1, <2>2 DEF Mishaps
<1> QED
  BY <1>2, <1>3, <1>4 DEF Accounted

LEMMA AccountGrows ==
    ASSUME Accounted, TypeOK, TypeOK', NEW x \in Server,
           \A s \in Server : s \in (Leading \cup Unanswered)' =>
               s \in Leading \cup Unanswered \/ s = x,
           Mishaps' >= Mishaps + 1
    PROVE  Accounted'
<1> DEFINE A == Leading \cup Unanswered
           B == (Leading \cup Unanswered)'
<1>1. A \subseteq Server /\ B \subseteq Server
  BY DEF Leading, Unanswered
<1>2. B \subseteq A \cup {x}
  BY <1>1
<1>3. Mishaps \in Nat /\ Mishaps' \in Nat
  <2>1. spent.rush \in Nat /\ spent.loss \in Nat /\ spent.late \in Nat /\ spent.passed \in Nat
    BY BoundAssumption DEF TypeOK
  <2>2. spent'.rush \in Nat /\ spent'.loss \in Nat /\ spent'.late \in Nat /\ spent'.passed \in Nat
    BY BoundAssumption DEF TypeOK
  <2> QED
    BY <2>1, <2>2 DEF Mishaps
<1>4. Cardinality(A) <= 1 + Mishaps
  BY DEF Accounted
<1> HIDE DEF A, B
<1>5. IsFiniteSet(A) /\ IsFiniteSet(A \cup {x})
  BY <1>1, ServerAssumption, FS_Subset, FS_AddElement
<1>6. Cardinality(B) <= Cardinality(A \cup {x}) /\ IsFiniteSet(B)
  BY <1>2, <1>5, FS_Subset
<1>7. Cardinality(A \cup {x}) <= Cardinality(A) + 1
  BY <1>5, FS_AddElement, FS_CardinalityType
<1>8. Cardinality(A) \in Nat /\ Cardinality(B) \in Nat /\ Cardinality(A \cup {x}) \in Nat
  BY <1>5, <1>6, FS_CardinalityType
<1>9. Cardinality(B) <= 1 + Mishaps'
  BY <1>3, <1>4, <1>6, <1>7, <1>8
<1> QED
  BY <1>9 DEF Accounted, B

(* What is left to show of a step after which everybody lives.             *)
LEMMA Assembled ==
    ASSUME TypeOK', Alive', Consistent'
    PROVE  IInv'
<1>1. IsFiniteSet((Leading \cup Unanswered)') /\ Leading' \subseteq (Leading \cup Unanswered)'
  <2>1. (Leading \cup Unanswered)' \subseteq Server
    BY DEF Leading, Unanswered
  <2> QED
    BY <2>1, ServerAssumption, FS_Subset
<1>2. Cardinality(Leading') <= Cardinality((Leading \cup Unanswered)')
  BY <1>1, FS_Subset
<1>3. Cardinality((Leading \cup Unanswered)') \in Nat /\ Cardinality(Leading') \in Nat
  BY <1>1, FS_Subset, FS_CardinalityType
<1>4. Mishaps' \in Nat
  BY BoundAssumption, SMTT(30) DEF TypeOK, Mishaps
<1>5. Cardinality((Leading \cup Unanswered)') <= 1 + Mishaps'
  BY DEF Consistent, Accounted
<1>6. Cardinality(Leading') <= 1 + Mishaps'
  BY <1>2, <1>3, <1>4, <1>5
<1>7. LeadersAccounted'
  <2>1. Leading' = {s \in Server : Leads(s)'}
    BY DEF Leading
  <2>2. spent'.rush \in Nat /\ spent'.loss \in Nat /\ spent'.late \in Nat /\ spent'.passed \in Nat
    BY BoundAssumption DEF TypeOK
  <2>3. 1 + Mishaps' = 1 + spent'.rush + spent'.loss + spent'.late + spent'.passed
    BY <2>2 DEF Mishaps
  <2> QED
    BY <1>6, <2>1, <2>3 DEF LeadersAccounted, Leads
<1>8. DeathNeedsNamesake'
  BY DEF DeathNeedsNamesake, Alive
<1> QED
  BY <1>7, <1>8 DEF IInv

-----------------------------------------------------------------------------
LEMMA MoreGrows ==
    ASSUME NEW b \in Boxes, NEW c \in Boxes, More(b, c), NEW t \in Server
    PROVE  Len(b[t]) <= Len(c[t]) /\ Len(b[t]) \in Nat /\ Len(c[t]) \in Nat
<1>1. Len(b[t]) \in Nat /\ Len(c[t]) \in Nat
  BY BoxType
<1>2. \A i \in 1 .. Len(b[t]) : i \in 1 .. Len(c[t])
  BY DEF More
<1>3. Len(b[t]) = 0 \/ Len(b[t]) \in 1 .. Len(b[t])
  BY <1>1
<1> QED
  BY <1>1, <1>2, <1>3

(* What is common to steps at which nobody changes its role.               *)
LEMMA Quiet ==
    ASSUME TypeOK, phase' = phase, id' = id, ltcp' = ltcp, More(box, box'), box' \in Boxes
    PROVE  Ages /\ Widens
<1>1. Ages
  BY DEF Ages, Started, Leads, Follows
<1>2. box \in Boxes
  BY DEF TypeOK, Boxes, Connection
<1>3. \A t \in Server : Len(box[t]) <= Len(box'[t])
  BY <1>2, MoreGrows
<1> QED
  BY <1>1, <1>3 DEF Widens, More

(* Leaders that keep their lists.                                          *)
LEMMA ListsUntouched ==
    ASSUME Ages, \A l \in Server : Leads(l) => lst'[l] = lst[l]
    PROVE  ListsOn
<1> SUFFICES ASSUME NEW l \in Server, NEW s \in Server, NEW at,
                    Leads(l), Waits(s) \/ (Follows(s) /\ LeaderOf(s) = l), Listed(l, s, at)
             PROVE  StillListed(l, s, at)
  BY DEF ListsOn
<1>1. id'[s] = id[s]
  BY DEF Ages, Waits, Follows, Started
<1> QED
  BY <1>1 DEF StillListed, Listed

LEMMA NothingMore ==
    ASSUME TypeOK
    PROVE  box \in Boxes /\ More(box, box)
BY DEF TypeOK, Boxes, Connection, More

(* Who still waits unanswered had been waiting unanswered, as long as      *)
(* leaders keep the questions, and answers that have come stay.            *)
LEMMA StillUnanswered ==
    ASSUME GoesOn, NEW s \in Server, s \in Unanswered', Started(s),
           \A l \in Server : Leads(l) => mc[l] \subseteq mc'[l],
           \A i, m : Has(box, s, i, m) /\ m.kind = "answer" => Has(box', s, i, m)
    PROVE  s \in Unanswered
<1>1. phase'[s] = "waits" /\ ~Late(s)' /\ ~Passed(s)'
  BY DEF Unanswered, Waits
<1>2. Waits(s)
  BY <1>1, WaitedBefore
<1>3. ~Late(s)
  BY <1>1 DEF Late, GoesOn, Ages, Leads
<1>4. ~Passed(s)
  BY <1>1, StillPassed DEF GoesOn
<1> QED
  BY <1>2, <1>3, <1>4 DEF Unanswered

SameMishaps ==
    /\ spent'.rush = spent.rush /\ spent'.loss = spent.loss
    /\ spent'.late = spent.late /\ spent'.passed = spent.passed

LEMMA QuietAccount ==
    ASSUME GoesOn, phase' = phase, SameMishaps,
           \A x \in Server : x \in Unanswered' /\ Started(x) => x \in Unanswered
    PROVE  Accounted'
<1>1. TypeOK /\ TypeOK' /\ Accounted
  BY DEF GoesOn, Consistent
<1>2. spent.rush \in Nat /\ spent.loss \in Nat /\ spent.late \in Nat /\ spent.passed \in Nat
  BY <1>1, BoundAssumption DEF TypeOK
<1>3. Mishaps' >= Mishaps
  BY <1>2 DEF Mishaps, SameMishaps
<1>4. ASSUME NEW x \in Server, x \in (Leading \cup Unanswered)'
      PROVE  x \in Leading \cup Unanswered
  <2>1. CASE x \in Leading'
    BY <2>1 DEF Leading, Leads
  <2>2. CASE x \in Unanswered'
    <3>1. Started(x)
      BY <2>2 DEF Unanswered, Waits, Started
    <3> QED
      BY <2>2, <3>1
  <2> QED
    BY <1>4, <2>1, <2>2
<1> QED
  BY <1>1, <1>3, <1>4, AccountKept

LEMMA LoseKeeps ==
    ASSUME IInv, Alive, NEW t \in Server, NEW s \in Server, Lose(t, s)
    PROVE  IInv'
<1>1. /\ s \in mc[t] /\ ~Follows(t) /\ spent.loss < MaxLoss
      /\ spent' = [spent EXCEPT !.loss = @ + 1]
      /\ mc' = [mc EXCEPT ![t] = @ \ {s}]
      /\ UNCHANGED <<phase, id, lst, attempt, box, taken, ltcp, succ>>
  BY DEF Lose
<1>2. TypeOK /\ Consistent /\ TypeOK' /\ Alive'
  <2>1. TypeOK /\ Consistent /\ Alive'
    BY <1>1 DEF IInv, Alive
  <2>2. mc' \in [Server -> SUBSET Server]
    BY <1>1, <2>1 DEF TypeOK
  <2>3. spent' \in [rush : 0 .. MaxRush, late : 0 .. MaxLate, passed : 0 .. MaxPassed,
                    loss : 0 .. MaxLoss, same : 0 .. MaxSame, beats : 0 .. MaxBeats]
    <3>1. MaxLoss \in Nat
      BY BoundAssumption
    <3>2. spent.loss + 1 \in 0 .. MaxLoss
      BY <1>1, <2>1, <3>1, SMTT(30) DEF TypeOK
    <3> QED
      BY <1>1, <2>1, <3>2 DEF TypeOK
  <2> QED
    BY <1>1, <2>1, <2>2, <2>3 DEF TypeOK, Follows
<1>3. GoesOn
  BY <1>1, <1>2, NothingMore, Quiet, ListsUntouched DEF GoesOn
<1>4. \A x \in Server : ListOk(x)' /\ RoleOk(x)'
  BY <1>1, <1>3, ListKept, RoleKept DEF Started
<1>5. \A x \in Server : Leads(x)' => Thins(x)
  BY <1>1 DEF Thins, Leads
<1>6. \A x \in Server : mc'[x] \subseteq mc[x]
  BY <1>1, <1>2 DEF TypeOK
<1>7. \A x \in Server : ConnectionOk(x)' /\ QuestionsOk(x)' /\ ListedOk(x)'
  BY <1>1, <1>3, <1>5, <1>6, ConnectionKept, QuestionsKept, ListedKept
<1>8. \A x \in Server : MessagesOk(x)'
  BY <1>1, <1>3, MessagesKept
<1>9. Accounted'
  <2>1. spent.rush \in Nat /\ spent.loss \in Nat /\ spent.late \in Nat /\ spent.passed \in Nat
        /\ spent'.rush = spent.rush /\ spent'.loss = spent.loss + 1
        /\ spent'.late = spent.late /\ spent'.passed = spent.passed
    BY <1>1, <1>2, BoundAssumption DEF TypeOK
  <2>2. Mishaps' >= Mishaps + 1
    BY <2>1 DEF Mishaps
  <2>3. ASSUME NEW x \in Server, x \in (Leading \cup Unanswered)'
        PROVE  x \in Leading \cup Unanswered \/ x = s
    <3>1. CASE phase'[x] = "leads"
      BY <1>1, <3>1 DEF Leading, Leads
    <3>2. CASE phase'[x] # "leads"
      <4>1. Waits(x) /\ ~Late(x)' /\ ~Passed(x)'
        BY <1>1, <2>3, <3>2 DEF Leading, Unanswered, Leads, Waits
      <4>2. ~Passed(x)
        BY <1>1, <4>1 DEF Passed
      <4>3. x # s => ~Late(x)
        BY <1>1, <1>2, <4>1 DEF Late, Leads, TypeOK
      <4> QED
        BY <4>1, <4>2, <4>3 DEF Unanswered
    <3> QED
      BY <3>1, <3>2
  <2> QED
    BY <1>2, <2>2, <2>3, AccountGrows DEF Consistent
<1> QED
  BY <1>2, <1>4, <1>7, <1>8, <1>9, Assembled DEF Consistent

(* A mail that a follower takes from the multicast socket changes nothing. *)
LEMMA HeardKeeps ==
    ASSUME IInv, Alive, NEW l \in Server, NEW s \in Server, Follows(l),
           mc' = [mc EXCEPT ![l] = @ \ {s}],
           UNCHANGED <<phase, id, lst, attempt, box, taken, ltcp, succ, spent>>
    PROVE  IInv'
<1>2. TypeOK /\ Consistent /\ TypeOK' /\ Alive'
  <2>1. TypeOK /\ Consistent /\ Alive'
    BY DEF IInv, Alive
  <2>2. mc' \in [Server -> SUBSET Server]
    BY <2>1 DEF TypeOK
  <2> QED
    BY <2>1, <2>2 DEF TypeOK, Follows
<1>3. GoesOn
  BY <1>2, NothingMore, Quiet, ListsUntouched DEF GoesOn
<1>4. \A x \in Server : ListOk(x)' /\ RoleOk(x)'
  BY <1>3, ListKept, RoleKept DEF Started
<1>5. \A x \in Server : Leads(x)' => Thins(x)
  BY DEF Thins, Leads
<1>6. \A x \in Server : mc'[x] \subseteq mc[x]
  BY <1>2 DEF TypeOK
<1>7. \A x \in Server : ConnectionOk(x)' /\ QuestionsOk(x)' /\ ListedOk(x)'
  BY <1>3, <1>5, <1>6, ConnectionKept, QuestionsKept, ListedKept
<1>8. \A x \in Server : MessagesOk(x)'
  BY <1>3, MessagesKept
<1>9. Accounted'
  <2>1. Mishaps' = Mishaps
    BY DEF Mishaps
  <2>2. \A x \in Server : Late(x)' <=> Late(x)
    <3>1. \A k \in Server : Leads(k) => mc'[k] = mc[k]
      BY <1>2 DEF TypeOK, Leads, Follows
    <3> QED
      BY <3>1 DEF Late, Leads
  <2>3. (Leading \cup Unanswered)' = Leading \cup Unanswered
    BY <2>2 DEF Leading, Unanswered, Leads, Waits, Passed
  <2> QED
    BY <1>2, <2>1, <2>3 DEF Consistent, Accounted
<1> QED
  BY <1>2, <1>4, <1>7, <1>8, <1>9, Assembled DEF Consistent

(* The heartbeat timer.                                                    *)
LEMMA SendHeartbeatKeeps ==
    ASSUME IInv, Alive, NEW f \in Server, SendHeartbeat(f)
    PROVE  IInv'
<1>1. /\ Follows(f) /\ Waits(succ[f].who) /\ spent.beats < MaxBeats /\ succ[f].is = "open"
      /\ spent' = [spent EXCEPT !.beats = @ + 1]
      /\ box' = Sent(box, succ[f].who, succ[f].at, Heartbeat)
      /\ UNCHANGED <<phase, id, lst, attempt, taken, ltcp, succ, mc>>
  BY DEF SendHeartbeat
<1>2. TypeOK /\ Consistent /\ Alive' /\ box \in Boxes
  BY <1>1, NothingMore DEF IInv, Alive
<1>3. PICK s \in Server, at \in Nat : s = succ[f].who /\ at = succ[f].at /\ s # Nobody
  BY <1>1, <1>2, SuccessorType, ServerAssumption
<1>4. Joins(f, s, at)
  BY <1>2, <1>3 DEF Consistent, ConnectionOk
<1>5. Reading(s, at) => at <= Len(box[s]) /\ box[s][at].from = f
  BY <1>4 DEF Joins, Reading
<1>6. /\ box' \in Boxes /\ More(box, box')
      /\ \A t \in Server : Len(box'[t]) = Len(box[t])
      /\ \A t \in Server : ~(Reading(s, at) /\ t = s) => box'[t] = box[t]
      /\ \A t, i, m : Has(box, t, i, m) /\ t \in Server => Has(box', t, i, m)
      /\ \A t, i, m : Has(box', t, i, m) /\ t \in Server =>
            Has(box, t, i, m) \/ (t = s /\ i = at /\ m = Heartbeat /\ Reading(s, at))
  <2>1. box' = Sent(box, s, at, Heartbeat) /\ Heartbeat \in Message
    BY <1>1, <1>3, Kinds
  <2>2. Reading(s, at) => at <= Len(box[s])
    BY <1>5
  <2> QED
    BY <1>2, <2>1, <2>2, SentAdds DEF SentOn
<1>7. TypeOK'
  <2>1. spent.beats + 1 \in 0 .. MaxBeats
    <3>1. MaxBeats \in Nat /\ spent.beats \in 0 .. MaxBeats
      BY <1>2, BoundAssumption DEF TypeOK
    <3> QED
      BY <1>1, <3>1
  <2>2. spent' \in [rush : 0 .. MaxRush, late : 0 .. MaxLate, passed : 0 .. MaxPassed,
                    loss : 0 .. MaxLoss, same : 0 .. MaxSame, beats : 0 .. MaxBeats]
    BY <1>1, <1>2, <2>1 DEF TypeOK
  <2> QED
    BY <1>1, <1>2, <1>6, <2>2 DEF TypeOK, Follows, Boxes, Connection
<1>8. GoesOn
  BY <1>1, <1>2, <1>6, <1>7, Quiet, ListsUntouched DEF GoesOn
<1>9. \A x \in Server : ListOk(x)' /\ RoleOk(x)'
  <2>1. \A x \in Server : ~Started(x) => box'[x] = box[x]
    BY <1>6 DEF Reading, Started, Waits, Follows
  <2> QED
    BY <1>1, <1>8, <2>1, ListKept, RoleKept DEF Started
<1>10. \A x \in Server : Leads(x)' => Thins(x)
  BY <1>1 DEF Thins, Leads
<1>11. \A x \in Server : ConnectionOk(x)' /\ QuestionsOk(x)' /\ ListedOk(x)'
  BY <1>1, <1>8, <1>10, ConnectionKept, QuestionsKept, ListedKept
<1>12. ASSUME NEW x \in Server PROVE MessagesOk(x)'
  <2>1. ASSUME Reading(s, at) PROVE Written(s, at, Heartbeat)'
    <3>1. at \in 1 .. Len(box[s]) /\ box[s][at].from = f
      BY <1>2, <1>3, <1>5, <2>1, BoxType DEF Reading
    <3>2. box'[s][at].from = f /\ phase'[f] = "follows"
      BY <1>1, <1>3, <1>6, <3>1 DEF More, Follows
    <3> QED
      BY <3>2, Kinds DEF Written, Follows, Heartbeat
  <2>2. \A i, m : Has(box', x, i, m) => Has(box, x, i, m) \/ Written(x, i, m)'
    BY <1>6, <2>1
  <2> QED
    BY <1>8, <2>2, MessagesKept
<1>13. Accounted'
  <2>1. SameMishaps
    BY <1>1, <1>2 DEF SameMishaps, TypeOK
  <2> QED
    BY <1>1, <1>6, <1>8, <2>1, StillUnanswered, QuietAccount
<1> QED
  BY <1>2, <1>7, <1>9, <1>11, <1>12, <1>13, Assembled DEF Consistent

-----------------------------------------------------------------------------
(* The list of a follower without its successor, and with another.         *)
LEMMA ThirdDropped ==
    ASSUME NEW l \in Seq(Record), Distinct(l), Len(l) \in 2 .. 3,
           NEW k, k = IF Len(l) > 2 THEN delete_server(l, l[3].id) ELSE l
    PROVE  /\ k \in Seq(Record) /\ Distinct(k) /\ Len(k) = 2
           /\ k[1] = l[1] /\ k[2] = l[2]
<1>1. CASE Len(l) = 2
  BY <1>1
<1>2. CASE Len(l) = 3
  <2>1. 3 \in 2 .. Len(l) /\ k = delete_server(l, l[3].id)
    BY <1>2
  <2>2. /\ k \in Seq(Record) /\ Len(k) = Len(l) - 1
        /\ \A i \in 1 .. 3-1 : k[i] = l[i]
        /\ Distinct(k)
    BY <2>1, Deleted DEF Shortened
  <2>3. 1 \in 1 .. 3-1 /\ 2 \in 1 .. 3-1
    OBVIOUS
  <2> QED
    BY <1>2, <2>2, <2>3
<1> QED
  BY <1>1, <1>2

LEMMA NewSuccessor ==
    ASSUME NEW k \in Seq(Record), Distinct(k), Len(k) = 2, NEW e \in Record,
           NEW m, m = append_server(k, e)
    PROVE  /\ m \in Seq(Record) /\ Distinct(m) /\ Len(m) \in 2 .. 3
           /\ m[1] = k[1] /\ m[2] = k[2]
           /\ e.id # k[1].id /\ e.id # k[2].id => Len(m) = 3
           /\ \A n \in 1 .. Len(m) : m[n] \in {k[1], k[2], e}
<1>1. /\ m \in Seq(Record) /\ Distinct(m)
      /\ \A i \in 1 .. Len(k) : m[i] = k[i]
      /\ server_info_exist(e.id, k) => m = k
      /\ ~server_info_exist(e.id, k) => Len(m) = Len(k) + 1 /\ m[Len(k) + 1] = e
  <2>1. /\ m \in Seq(Record)
        /\ server_info_exist(e.id, k) => m = k
        /\ ~server_info_exist(e.id, k) => AddedLast(k, e, m)
        /\ Distinct(k) => Distinct(m)
    BY Appended
  <2> QED
    BY <2>1 DEF AddedLast
<1>2. server_info_exist(e.id, k) <=> e.id = k[1].id \/ e.id = k[2].id
  BY DEF server_info_exist
<1>3. CASE server_info_exist(e.id, k)
  <2>1. m = k
    BY <1>1, <1>3
  <2>2. \A n \in 1 .. 2 : n = 1 \/ n = 2
    OBVIOUS
  <2>3. \A n \in 1 .. Len(m) : m[n] \in {k[1], k[2], e}
    BY <2>1, <2>2
  <2> QED
    BY <1>1, <1>2, <1>3, <2>1, <2>3
<1>4. CASE ~server_info_exist(e.id, k)
  <2>1. Len(m) = 3 /\ m[3] = e /\ m[1] = k[1] /\ m[2] = k[2]
    BY <1>1, <1>4
  <2>2. \A n \in 1 .. 3 : n = 1 \/ n = 2 \/ n = 3
    OBVIOUS
  <2> QED
    BY <1>1, <2>1, <2>2
<1> QED
  BY <1>3, <1>4

(* A death that its cause explains.                                        *)
LEMMA Dies ==
    ASSUME IInv, NEW f \in Server, Namesake(f), TypeOK',
           phase' = [phase EXCEPT ![f] = "down"], id' = id, spent' = spent
    PROVE  IInv'
<1>1. phase \in [Server -> {"off", "waits", "leads", "follows", "down"}]
  BY DEF IInv, TypeOK
<1>2. ~Alive'
  BY <1>1 DEF Alive
<1>3. DeathNeedsNamesake'
  <2>1. \A s \in Server : Namesake(s) => Namesake(s)'
    BY DEF Namesake
  <2>2. \A s \in Server : phase'[s] = "down" => phase[s] = "down" \/ s = f
    BY <1>1
  <2> QED
    BY <2>1, <2>2 DEF IInv, DeathNeedsNamesake
<1>4. LeadersAccounted'
  <2> DEFINE A == {s \in Server : Leads(s)}
             B == {s \in Server : Leads(s)'}
  <2>1. B \subseteq A /\ A \subseteq Server
    BY <1>1 DEF Leads
  <2>2. Cardinality(A) <= 1 + spent.rush + spent.loss + spent.late + spent.passed
    BY DEF IInv, LeadersAccounted
  <2>3. spent.rush \in Nat /\ spent.loss \in Nat /\ spent.late \in Nat /\ spent.passed \in Nat
    BY BoundAssumption DEF IInv, TypeOK
  <2>4. LeadersAccounted' <=>
          Cardinality(B) <= 1 + spent.rush + spent.loss + spent.late + spent.passed
    BY DEF LeadersAccounted
  <2> HIDE DEF A, B
  <2>5. /\ IsFiniteSet(A) /\ Cardinality(B) <= Cardinality(A)
        /\ Cardinality(A) \in Nat /\ Cardinality(B) \in Nat
    BY <2>1, ServerAssumption, FS_Subset, FS_CardinalityType
  <2> QED
    BY <2>2, <2>3, <2>4, <2>5
<1> QED
  BY <1>2, <1>3, <1>4 DEF IInv

(* handle_disconnection() of the successor's connection.                   *)
LEMMA SuccessorGoneKeeps ==
    ASSUME IInv, Alive, NEW f \in Server, SuccessorGone(f)
    PROVE  IInv'
<1>1. TypeOK /\ Consistent /\ Follows(f) /\ succ[f].who # Nobody
  BY DEF IInv, SuccessorGone
<1>2. CASE Len(lst[f]) <= 2 /\ NullDeref(f)
  <2>1. phase' = [phase EXCEPT ![f] = "down"]
        /\ UNCHANGED <<id, lst, attempt, box, taken, ltcp, succ, mc, spent>>
    BY <1>2 DEF NullDeref
  <2>2. TypeOK'
    <3>1. \A s \in Server : phase'[s] = "follows" => phase[s] = "follows"
      BY <1>1, <2>1 DEF TypeOK
    <3> QED
      BY <1>1, <2>1, <3>1 DEF TypeOK, Follows
  <2>3. Namesake(f)
    <3>1. ~Namesake(f) => Len(lst[f]) = 3
      BY <1>1 DEF Consistent, RoleOk
    <3>2. Len(lst[f]) # 3
      BY <1>2
    <3> QED
      BY <3>1, <3>2
  <2> QED
    BY <2>1, <2>2, <2>3, Dies
<1>3. CASE Len(lst[f]) > 2 /\ ~(Len(lst[f]) <= 2 /\ NullDeref(f))
  <2>1. /\ lst' = [lst EXCEPT ![f] = delete_server(@, @[3].id)]
        /\ succ' = [succ EXCEPT ![f] = NoSucc]
        /\ UNCHANGED <<phase, id, attempt, box, taken, ltcp, mc, spent>>
    BY <1>1, <1>3, ListType DEF SuccessorGone
  <2> DEFINE k == lst'[f]
  <2>2. k \in Seq(Record) /\ Distinct(k) /\ Len(k) = 2 /\ k[1] = lst[f][1] /\ k[2] = lst[f][2]
    <3>1. lst[f] \in Seq(Record) /\ Distinct(lst[f]) /\ Len(lst[f]) \in 2 .. 3
      BY <1>1, ListType DEF Consistent, ListOk, RoleOk
    <3>2. k = IF Len(lst[f]) > 2 THEN delete_server(lst[f], lst[f][3].id) ELSE lst[f]
      BY <1>1, <1>3, <2>1 DEF TypeOK
    <3> HIDE DEF k
    <3> QED
      BY <3>1, <3>2, ThirdDropped
  <2>3. TypeOK' /\ Alive'
    <3>1. lst' \in [Server -> Seq(Record)] /\ succ' \in [Server -> [who : Server, at : Nat,
               is : {"open", "unread", "closed"}] \cup {NoSucc}]
      BY <1>1, <2>1, <2>2 DEF TypeOK, Record
    <3>2. \A s \in Server : phase'[s] = "follows" => Len(lst'[s]) > 1
      BY <1>1, <2>1, <2>2 DEF TypeOK, Follows
    <3> QED
      BY <1>1, <2>1, <3>1, <3>2 DEF TypeOK, Alive, Record, Follows
  <2>4. \A s \in Server \ {f} : lst'[s] = lst[s] /\ succ'[s] = succ[s]
    BY <1>1, <2>1 DEF TypeOK
  <2>5. succ'[f] = NoSucc /\ NoSucc.who = Nobody
    BY <1>1, <2>1 DEF TypeOK, NoSucc
  <2>6. GoesOn
    BY <1>1, <2>1, <2>3, <2>4, NothingMore, Quiet, ListsUntouched DEF GoesOn, Leads, Follows
  <2>7. ASSUME NEW s \in Server PROVE ListOk(s)'
    <3>1. CASE s # f
      BY <2>1, <2>4, <2>6, <3>1, ListKept DEF Started
    <3>2. CASE s = f
      <4>1. ListOk(f)
        BY <1>1 DEF Consistent
      <4>2. \A n \in DOMAIN k : n \in DOMAIN lst[f] /\ k[n] = lst[f][n]
        <5>1. \A n \in 1 .. 2 : n = 1 \/ n = 2
          OBVIOUS
        <5>2. DOMAIN k = 1 .. 2
          BY <2>2
        <5>3. DOMAIN lst[f] = 1 .. Len(lst[f]) /\ Len(lst[f]) \in Nat
          BY <1>1, ListType
        <5>4. 1 \in DOMAIN lst[f] /\ 2 \in DOMAIN lst[f]
          BY <1>3, <5>3
        <5> QED
          BY <2>2, <5>1, <5>2, <5>4
      <4>3. Started(f)
        BY <1>1 DEF Started, Follows
      <4> QED
        BY <2>1, <2>2, <3>2, <4>1, <4>2, <4>3 DEF ListOk, Started
    <3> QED
      BY <3>1, <3>2
  <2>8. ASSUME NEW s \in Server PROVE RoleOk(s)'
    <3>1. CASE s # f
      BY <2>1, <2>4, <2>6, <3>1, RoleKept
    <3>2. CASE s = f
      <4>1. RoleOk(f)
        BY <1>1 DEF Consistent
      <4>2. Namesake(f)' <=> Namesake(f)
        BY <2>1 DEF Namesake
      <4>3. LeaderOf(f)' = LeaderOf(f)
        BY <2>1 DEF LeaderOf
      <4> QED
        BY <1>1, <2>1, <2>2, <2>5, <3>2, <4>1, <4>2, <4>3 DEF RoleOk, Follows, Leads
    <3> QED
      BY <3>1, <3>2
  <2>9. \A s \in Server : Leads(s)' => Thins(s)
    <3>1. \A s \in Server : Leads(s) => s # f
      BY <1>1 DEF Leads, Follows
    <3> QED
      BY <2>1, <2>4, <3>1 DEF Thins, Leads
  <2>10. ASSUME NEW s \in Server PROVE ConnectionOk(s)'
    <3>1. CASE s # f
      BY <2>4, <2>6, <2>9, <3>1, ConnectionKept
    <3>2. CASE s = f
      BY <1>1, <2>1, <2>5, <3>2 DEF ConnectionOk, Leads, Follows
    <3> QED
      BY <3>1, <3>2
  <2>11. \A s \in Server : MessagesOk(s)' /\ QuestionsOk(s)' /\ ListedOk(s)'
    BY <2>1, <2>6, <2>9, MessagesKept, QuestionsKept, ListedKept
  <2>12. Accounted'
    <3>1. SameMishaps
      BY <2>1 DEF SameMishaps
    <3> QED
      BY <2>1, <2>6, <3>1, StillUnanswered, QuietAccount
  <2> QED
    BY <2>3, <2>7, <2>8, <2>10, <2>11, <2>12, Assembled DEF Consistent
<1>4. Len(lst[f]) <= 2 \/ Len(lst[f]) > 2
  BY <1>1, ListType
<1> QED
  BY <1>2, <1>3, <1>4 DEF SuccessorGone

(* Messages that are read at one place are gone.                           *)
FewerMessages(b, s, c) ==
    /\ c \in Boxes /\ More(b, c)
    /\ \A t \in Server : Len(c[t]) = Len(b[t])
    /\ \A t \in Server \ {s} : c[t] = b[t]
    /\ \A t, i, m : Has(c, t, i, m) /\ t \in Server => Has(b, t, i, m)

LEMMA Removed ==
    ASSUME NEW b \in Boxes, NEW s \in Server, NEW at \in 1 .. Len(b[s]),
           NEW q \in Seq(Message), \A m \in ToSet(q) : m \in ToSet(b[s][at].msgs),
           NEW c, c = Rewrite(b, s, at, q)
    PROVE  FewerMessages(b, s, c)
<1>1. /\ c \in Boxes /\ \A t \in Server \ {s} : c[t] = b[t]
      /\ \A t \in Server : Len(c[t]) = Len(b[t]) /\ Len(b[t]) \in Nat
      /\ \A t \in Server : \A i \in 1 .. Len(b[t]) :
            c[t][i] = IF t = s /\ i = at THEN [from |-> b[s][at].from, msgs |-> q]
                      ELSE b[t][i]
  BY Rewritten
<1>2. c[s][at].msgs = q /\ c[s][at].from = b[s][at].from
  BY <1>1
<1>3. \A t \in Server : \A i \in 1 .. Len(b[t]) : t # s \/ i # at => c[t][i] = b[t][i]
  BY <1>1
<1>4. More(b, c)
  <2> SUFFICES ASSUME NEW t \in Server, NEW i \in 1 .. Len(b[t])
               PROVE  i \in 1 .. Len(c[t]) /\ c[t][i].from = b[t][i].from
    BY DEF More
  <2> QED
    BY <1>1, <1>2, <1>3
<1>5. ASSUME NEW t \in Server, NEW i, NEW m, Has(c, t, i, m)
      PROVE  Has(b, t, i, m)
  <2>1. CASE t = s /\ i = at
    BY <1>1, <1>2, <1>5, <2>1 DEF Has
  <2>2. CASE ~(t = s /\ i = at)
    BY <1>1, <1>3, <1>5, <2>2 DEF Has
  <2> QED
    BY <2>1, <2>2
<1> QED
  BY <1>1, <1>4, <1>5 DEF FewerMessages

LEMMA MoreAndMore ==
    ASSUME NEW b, NEW c, NEW d, More(b, c), More(c, d)
    PROVE  More(b, d)
BY DEF More

(* A follower learns of another successor.                                 *)
LEMMA RecvUpdateKeeps ==
    ASSUME IInv, Alive, NEW f \in Server, RecvUpdate(f)
    PROVE  IInv'
<1>1. TypeOK /\ Consistent /\ Follows(f) /\ box \in Boxes
  BY NothingMore DEF IInv, RecvUpdate
<1>2. PICK l \in Server, i \in 1 .. Len(box[f]) :
         /\ l = LeaderOf(f) /\ i = ltcp[f] /\ Leads(l) /\ l # f
         /\ box[f][i].from = l /\ box[f][i].msgs \in Seq(Message)
  BY <1>1, LeaderThere, BoxType DEF LeaderOf
<1> DEFINE q == box[f][i].msgs
           old == succ[f]
<1>3. PICK t \in Server : t = Head(q).succ /\ Head(q).kind = "UPDATE_FROM_LEADER"
      /\ q # << >> /\ Head(q) \in ToSet(q) /\ Head(q) \in Message
      /\ Tail(q) \in Seq(Message) /\ \A m \in ToSet(Tail(q)) : m \in ToSet(q)
  <2>1. q # << >> /\ Head(q).kind = "UPDATE_FROM_LEADER"
    BY <1>2 DEF RecvUpdate
  <2>2. /\ Head(q) \in ToSet(q) /\ Tail(q) \in Seq(Message)
        /\ \A m \in ToSet(Tail(q)) : m \in ToSet(q)
        /\ \A m \in ToSet(q) : m \in Message
    BY <1>2, <2>1, Elements, Kinds
  <2> QED
    BY <2>1, <2>2, Kinds
<1>4. t # f /\ Started(t) /\ id[t] # id[l]
  <2>1. Written(f, i, Head(q))
    BY <1>1, <1>2, <1>3, BoxType DEF Consistent, MessagesOk
  <2> QED
    BY <1>2, <1>3, <2>1, ServerAssumption DEF Written
<1>5. PICK b1 : b1 = Rewrite(box, f, i, Tail(q))
  OBVIOUS
<1>6. PICK b2 : b2 = Connected(b1, f, t)
  OBVIOUS
<1>7. PICK at : at = PlaceAt(b2, t)
  OBVIOUS
<1> DEFINE ends == Len(lst[f]) > 2 /\ old.is # "closed" /\ Waits(old.who)
           e == Entry(id[t], t, at)
           k == IF Len(lst[f]) > 2 THEN delete_server(lst[f], lst[f][3].id) ELSE lst[f]
<1>8. /\ lst' = [lst EXCEPT ![f] = append_server(k, e)]
      /\ succ' = [succ EXCEPT ![f] = [who |-> t, at |-> at, is |-> "open"]]
      /\ box' = IF ends THEN Sent(b2, old.who, old.at, EndOfFile) ELSE b2
      /\ UNCHANGED <<phase, id, attempt, taken, ltcp, mc, spent>>
  <2>1. b1 = [box EXCEPT ![f][ltcp[f]].msgs = Tail(@)]
    BY <1>2, <1>5 DEF Rewrite
  <2>2. t = Head(box[f][ltcp[f]].msgs).succ
    BY <1>2, <1>3
  <2>3. e = Entry(id[t], t, PlaceAt(b2, t)) /\ e.at = at
    BY <1>7 DEF Entry
  <2> QED
    BY <1>1, <1>6, <1>7, <2>1, <2>2, <2>3 DEF RecvUpdate, TypeOK
<1>9. /\ b1 \in Boxes /\ More(box, b1) /\ \A x \in Server \ {f} : b1[x] = box[x]
      /\ \A x, j, m : Has(b1, x, j, m) /\ x \in Server => Has(box, x, j, m)
  <2>1. FewerMessages(box, f, b1)
    BY <1>1, <1>2, <1>3, <1>5, Removed
  <2> QED
    BY <2>1 DEF FewerMessages
<1>10. /\ b2 \in Boxes /\ More(b1, b2) /\ at \in Nat
       /\ \A x \in Server : ~Waits(x) => b2[x] = b1[x]
       /\ \A x, j, m : Has(b1, x, j, m) /\ x \in Server => Has(b2, x, j, m)
       /\ \A x, j, m : Has(b2, x, j, m) /\ x \in Server => Has(b1, x, j, m)
       /\ ~Waits(t) => at = 0
       /\ Waits(t) => at \in 1 .. Len(b2[t]) /\ b2[t][at].from = f
  <2>1. /\ b2 \in Boxes /\ More(b1, b2)
        /\ \A x \in Server : ~(Waits(t) /\ x = t) => b2[x] = b1[x]
        /\ \A x, j, m : Has(b1, x, j, m) /\ x \in Server => Has(b2, x, j, m)
        /\ \A x, j, m : Has(b2, x, j, m) /\ x \in Server => Has(b1, x, j, m)
        /\ at \in Nat
        /\ ~Waits(t) => at = 0
        /\ Waits(t) => /\ at = Len(b2[t]) /\ Len(b2[t]) \in Nat \ {0}
                       /\ b2[t][Len(b2[t])].from = f
    <3>1. MoreConnections(b1, f, t, b2)
      BY <1>6, <1>9, ConnectedAdds
    <3> QED
      BY <1>7, <3>1 DEF MoreConnections
  <2> QED
    BY <2>1
<1>11. More(box, b2)
  BY <1>9, <1>10, MoreAndMore
<1>12. /\ box' \in Boxes /\ More(b2, box')
       /\ \A x \in Server : ~Started(x) => box'[x] = b2[x]
       /\ \A x, j, m : Has(b2, x, j, m) /\ x \in Server => Has(box', x, j, m)
       /\ \A x, j, m : Has(box', x, j, m) /\ x \in Server =>
             Has(b2, x, j, m) \/ (m = EndOfFile /\ box'[x][j].from = f)
  <2>1. CASE ~ends
    <3>1. box' = b2
      BY <1>8, <2>1
    <3> QED
      BY <1>10, <3>1 DEF More
  <2>2. CASE ends
    <3>1. PICK s \in Server, p \in Nat : s = old.who /\ p = old.at /\ s # Nobody
      BY <1>1, <2>2, SuccessorType, ServerAssumption
    <3>2. Joins(f, s, p)
      BY <1>1, <3>1 DEF Consistent, ConnectionOk
    <3>3. Len(box[s]) \in Nat /\ Len(b2[s]) \in Nat
      BY <1>1, <1>10, BoxType
    <3>4. Reading(s, p) => p \in 1 .. Len(box[s]) /\ box[s][p].from = f
      BY <3>2, <3>3 DEF Joins, Reading
    <3>5. Reading(s, p) => p <= Len(b2[s]) /\ p \in 1 .. Len(b2[s]) /\ b2[s][p].from = f
      BY <1>11, <3>3, <3>4 DEF More
    <3>6. box' = Sent(b2, s, p, EndOfFile) /\ EndOfFile \in Message
      BY <1>8, <2>2, <3>1, Kinds
    <3>7. /\ box' \in Boxes /\ More(b2, box')
          /\ \A x \in Server : ~(Reading(s, p) /\ x = s) => box'[x] = b2[x]
          /\ \A x, j, m : Has(b2, x, j, m) /\ x \in Server => Has(box', x, j, m)
          /\ \A x, j, m : Has(box', x, j, m) /\ x \in Server =>
                Has(b2, x, j, m) \/ (x = s /\ j = p /\ m = EndOfFile /\ Reading(s, p))
      BY <1>10, <3>5, <3>6, SentAdds DEF SentOn
    <3>8. Reading(s, p) => box'[s][p].from = f
      BY <3>5, <3>7 DEF More
    <3>9. \A x \in Server : ~Started(x) => box'[x] = b2[x]
      BY <3>7 DEF Reading, Started, Waits, Follows
    <3> QED
      BY <3>7, <3>8, <3>9
  <2> QED
    BY <2>1, <2>2
<1>13. /\ More(box, box')
       /\ \A x \in Server : ~Started(x) => box'[x] = box[x]
       /\ \A x \in Server \ {f} : \A j, m : Has(box, x, j, m) => Has(box', x, j, m)
       /\ \A x \in Server : \A j, m : Has(box', x, j, m) =>
             Has(box, x, j, m) \/ (m = EndOfFile /\ box'[x][j].from = f)
       /\ Waits(t) => at \in 1 .. Len(box'[t]) /\ box'[t][at].from = f
  <2>1. More(box, box')
    BY <1>11, <1>12, MoreAndMore
  <2>2. \A x \in Server : ~Started(x) => box'[x] = box[x]
    BY <1>1, <1>9, <1>10, <1>12 DEF Started, Waits, Follows
  <2>3. \A x \in Server \ {f} : \A j, m : Has(box, x, j, m) => Has(b1, x, j, m)
    BY <1>9 DEF Has
  <2>4. Waits(t) => at \in 1 .. Len(box'[t]) /\ box'[t][at].from = f
    BY <1>10, <1>12 DEF More
  <2> QED
    BY <1>9, <1>10, <1>12, <2>1, <2>2, <2>3, <2>4
<1> HIDE DEF q, old, ends
<1>14. /\ lst'[f] \in Seq(Record) /\ Distinct(lst'[f]) /\ Len(lst'[f]) \in 2 .. 3
       /\ lst'[f][1] = lst[f][1] /\ lst'[f][2] = lst[f][2]
       /\ id[t] # lst[f][1].id /\ id[t] # lst[f][2].id => Len(lst'[f]) = 3
       /\ \A n \in 1 .. Len(lst'[f]) : lst'[f][n] \in {lst[f][1], lst[f][2], e}
  <2>1. lst[f] \in Seq(Record) /\ Distinct(lst[f]) /\ Len(lst[f]) \in 2 .. 3
    BY <1>1, ListType DEF Consistent, ListOk, RoleOk
  <2>2. k \in Seq(Record) /\ Distinct(k) /\ Len(k) = 2 /\ k[1] = lst[f][1] /\ k[2] = lst[f][2]
    BY <2>1, ThirdDropped
  <2>3. id[t] \in Id /\ e \in Record /\ e.id = id[t]
    BY <1>1, <1>4, <1>10 DEF Consistent, ListOk, Entry, Record
  <2>4. lst'[f] = append_server(k, e)
    BY <1>1, <1>8 DEF TypeOK
  <2> HIDE DEF k, e
  <2>5. /\ lst'[f] \in Seq(Record) /\ Distinct(lst'[f]) /\ Len(lst'[f]) \in 2 .. 3
        /\ lst'[f][1] = k[1] /\ lst'[f][2] = k[2]
        /\ e.id # k[1].id /\ e.id # k[2].id => Len(lst'[f]) = 3
        /\ \A n \in 1 .. Len(lst'[f]) : lst'[f][n] \in {k[1], k[2], e}
    BY <2>2, <2>3, <2>4, NewSuccessor
  <2> QED
    BY <2>2, <2>3, <2>5
<1> HIDE DEF k
<1>15. \A s \in Server \ {f} : lst'[s] = lst[s] /\ succ'[s] = succ[s]
  BY <1>1, <1>8 DEF TypeOK
<1>16. succ'[f] = [who |-> t, at |-> at, is |-> "open"]
  BY <1>1, <1>8 DEF TypeOK
<1>17. TypeOK' /\ Alive'
  <2>1. lst' \in [Server -> Seq(Record)] /\ succ' \in [Server -> [who : Server, at : Nat,
             is : {"open", "unread", "closed"}] \cup {NoSucc}]
    <3>1. [who |-> t, at |-> at, is |-> "open"] \in
             [who : Server, at : Nat, is : {"open", "unread", "closed"}]
      BY <1>10
    <3>2. lst' \in [Server -> Seq(Record)]
      <4>1. DOMAIN lst' = Server /\ lst' = [s \in Server |-> lst'[s]]
        BY <1>1, <1>8 DEF TypeOK
      <4>2. \A s \in Server : lst'[s] \in Seq(Record)
        BY <1>1, <1>14, <1>15 DEF TypeOK, Record
      <4> QED
        BY <4>1, <4>2
    <3> QED
      BY <1>1, <1>8, <3>1, <3>2 DEF TypeOK
  <2>2. ASSUME NEW s \in Server, phase'[s] = "follows" PROVE Len(lst'[s]) > 1
    <3>1. Follows(s)
      BY <1>8, <2>2 DEF Follows
    <3>2. CASE s = f
      BY <1>14, <3>2
    <3>3. CASE s # f
      BY <1>1, <1>15, <3>1, <3>3 DEF TypeOK
    <3> QED
      BY <3>2, <3>3
  <2>3. ASSUME NEW s \in Server PROVE taken'[s] <= Len(box'[s])
    <3>1. Len(box'[s]) \in Nat /\ Len(box[s]) \in Nat /\ Len(box[s]) <= Len(box'[s])
      BY <1>1, <1>12, <1>13, MoreGrows
    <3>2. taken'[s] = taken[s] /\ taken[s] \in Nat /\ taken[s] <= Len(box[s])
      BY <1>1, <1>8 DEF TypeOK
    <3> QED
      BY <3>1, <3>2
  <2> QED
    BY <1>1, <1>8, <1>12, <2>1, <2>2, <2>3 DEF IInv, TypeOK, Alive, Record, Boxes, Connection, Follows
<1>18. GoesOn
  BY <1>1, <1>8, <1>12, <1>13, <1>15, <1>17, Quiet, ListsUntouched DEF GoesOn, Leads, Follows
<1>19. ASSUME NEW s \in Server PROVE ListOk(s)'
  <2>1. CASE s # f
    BY <1>8, <1>13, <1>15, <1>18, <2>1, ListKept DEF Started
  <2>2. CASE s = f
    <3>1. ListOk(f) /\ Len(lst[f]) \in 2 .. 3
      BY <1>1 DEF Consistent, RoleOk
    <3>2. Started(f) /\ Started(f)'
      BY <1>1, <1>8 DEF Started, Follows
    <3>3. \A r \in {lst[f][1], lst[f][2], e} : phase'[r.who] # "off" /\ r.id = id'[r.who]
      <4>1. 1 \in DOMAIN lst[f] /\ 2 \in DOMAIN lst[f]
        BY <1>1, <3>1, ListType
      <4>2. Started(e.who) /\ e.id = id[e.who]
        BY <1>4 DEF Entry
      <4> QED
        BY <1>8, <3>1, <4>1, <4>2 DEF ListOk, Started
    <3>4. DOMAIN lst'[f] = 1 .. Len(lst'[f])
      BY <1>14
    <3>5. Len(lst'[f]) > 0 /\ lst'[f][1] = Entry(id'[f], f, 0) /\ id'[f] \in Id
      BY <1>8, <1>14, <3>1, <3>2 DEF ListOk
    <3> QED
      BY <1>14, <2>2, <3>2, <3>3, <3>4, <3>5 DEF ListOk, Started, Entry
  <2> QED
    BY <2>1, <2>2
<1>20. ASSUME NEW s \in Server PROVE RoleOk(s)'
  <2>1. CASE s # f
    BY <1>8, <1>15, <1>18, <2>1, RoleKept
  <2>2. CASE s = f
    <3>1. RoleOk(f) /\ ListOk(f) /\ ListOk(t)
      BY <1>1 DEF Consistent
    <3>2. LeaderOf(f)' = l
      BY <1>1, <1>2, <1>18, LeaderStays
    <3>3. ASSUME ~Namesake(f)'
          PROVE  lst'[f][2].id = id'[l] /\ Len(lst'[f]) = 3
      <4>1. ~Namesake(f)
        BY <1>8, <3>3 DEF Namesake
      <4>2. lst[f][2].id = id[l]
        BY <1>1, <1>2, <3>1, <4>1 DEF RoleOk
      <4>3. lst[f][1].id = id[f] /\ id[f] # 0
        BY <1>1, <3>1, IdAssumption DEF ListOk, Entry, Started, Follows
      <4>4. id[t] # id[f]
        BY <1>4, <4>1, <4>3 DEF Namesake
      <4> QED
        BY <1>4, <1>8, <1>14, <4>2, <4>3, <4>4
    <3> QED
      BY <1>1, <1>2, <1>8, <1>14, <2>2, <3>1, <3>2, <3>3 DEF RoleOk, Follows, Leads
  <2> QED
    BY <2>1, <2>2
<1>21. \A s \in Server : Leads(s)' => Thins(s)
  <2>1. \A s \in Server : Leads(s) => s # f
    BY <1>1 DEF Leads, Follows
  <2> QED
    BY <1>8, <1>15, <2>1 DEF Thins, Leads
<1>22. ASSUME NEW s \in Server PROVE ConnectionOk(s)'
  <2>1. CASE s # f
    BY <1>15, <1>18, <1>21, <2>1, ConnectionKept
  <2>2. CASE s = f
    <3>1. succ'[f].who = t /\ succ'[f].at = at
      BY <1>16
    <3>2. phase'[t] # "off" /\ StillJoins(f, t, at)
      <4>1. CASE Waits(t)
        <5>1. at \in 1 .. Len(box'[t]) /\ box'[t][at].from = f /\ Len(box'[t]) \in Nat
          BY <1>12, <1>13, <4>1, BoxType
        <5> QED
          BY <1>4, <1>8, <5>1 DEF StillJoins, Started
      <4>2. CASE ~Waits(t)
        BY <1>4, <1>8, <1>10, <4>2 DEF StillJoins, Started
      <4> QED
        BY <4>1, <4>2
    <3>3. ~Leads(f)'
      BY <1>1, <1>8 DEF Leads, Follows
    <3> QED
      BY <2>2, <3>1, <3>2, <3>3 DEF ConnectionOk, Joins, StillJoins, Started, Waits, Follows
  <2> QED
    BY <2>1, <2>2
<1>23. ASSUME NEW s \in Server PROVE MessagesOk(s)'
  <2>1. ASSUME NEW j, box'[s][j].from = f PROVE Written(s, j, EndOfFile)'
    <3>1. phase'[f] = "follows"
      BY <1>1, <1>8 DEF Follows
    <3> QED
      BY <2>1, <3>1, Kinds DEF Written, Follows, EndOfFile
  <2>2. \A j, m : Has(box', s, j, m) => Has(box, s, j, m) \/ Written(s, j, m)'
    BY <1>13, <2>1
  <2> QED
    BY <1>18, <2>2, MessagesKept
<1>24. \A s \in Server : QuestionsOk(s)' /\ ListedOk(s)'
  BY <1>8, <1>18, <1>21, QuestionsKept, ListedKept
<1>25. Accounted'
  <2>1. SameMishaps
    BY <1>8 DEF SameMishaps
  <2>2. ASSUME NEW x \in Server, x \in Unanswered', Started(x)
        PROVE  x \in Unanswered
    <3>1. x # f
      BY <1>1, <1>8, <2>2 DEF Unanswered, Waits, Follows
    <3> QED
      BY <1>8, <1>13, <1>18, <2>2, <3>1, StillUnanswered
  <2> QED
    BY <1>8, <1>18, <2>1, <2>2, QuietAccount
<1> QED
  BY <1>17, <1>19, <1>20, <1>22, <1>23, <1>24, <1>25, Assembled DEF Consistent

(* When one of three peers or more is given up, its predecessor, which is  *)
(* told, and the one that it is told of are two others.                    *)
Bridged(l, n, k) ==
    \E a, c \in 2 .. Len(l) :
        /\ a # c /\ a = PredecessorInRing(l[n].id, l)
        /\ k[IF n > Len(k) THEN 2 ELSE n] = l[c]

LEMMA SkippedOver ==
    ASSUME NEW l \in Seq(Record), Distinct(l), NEW n \in 2 .. Len(l), Len(l) > 3,
           NEW k, k = delete_server(l, l[n].id)
    PROVE  Bridged(l, n, k)
<1>1. /\ Min(At(l, l[n].id)) = n
      /\ k \in Seq(Record) /\ Len(k) = Len(l) - 1 /\ Len(l) \in Nat
      /\ \A i \in 1 .. n-1 : k[i] = l[i]
      /\ \A i \in n .. Len(l) - 1 : k[i] = l[i+1]
  BY Deleted, SMTT(30) DEF Shortened
<1> DEFINE a == IF n = 2 THEN Len(l) ELSE n - 1
           c == IF n = Len(l) THEN 2 ELSE n + 1
<1>2. a = PredecessorInRing(l[n].id, l)
  <2>1. get_predecessor(l[n].id, l) = n - 1 /\ get_last_server(l) = Len(l)
    BY <1>1 DEF get_predecessor, get_last_server
  <2>2. n - 1 = 1 <=> n = 2
    OBVIOUS
  <2> QED
    BY <2>1, <2>2 DEF PredecessorInRing
<1>3. a \in 2 .. Len(l) /\ c \in 2 .. Len(l) /\ a # c
  BY <1>1
<1>4. k[IF n > Len(k) THEN 2 ELSE n] = l[c]
  <2>1. CASE n = Len(l)
    <3>1. n > Len(k) /\ 2 \in 1 .. n-1 /\ c = 2
      BY <1>1, <2>1
    <3> QED
      BY <1>1, <3>1
  <2>2. CASE n # Len(l)
    <3>1. ~(n > Len(k)) /\ n \in n .. Len(l) - 1 /\ c = n + 1
      BY <1>1, <2>2
    <3> QED
      BY <1>1, <3>1
  <2> QED
    BY <2>1, <2>2
<1> HIDE DEF a, c
<1> QED
  BY <1>2, <1>3, <1>4 DEF Bridged

(* A leader gives up a peer that does not send heartbeats.                 *)
LEMMA EvictSilentKeeps ==
    ASSUME IInv, Alive, NEW l \in Server, NEW n, EvictSilent(l, n)
    PROVE  IInv'
<1>1. TypeOK /\ Consistent /\ Leads(l) /\ box \in Boxes /\ n \in 2 .. Len(lst[l])
      /\ Silent(l, lst[l][n].id)
  BY NothingMore DEF IInv, EvictSilent
<1>2. ListOk(l) /\ ConnectionOk(l) /\ Started(l)
  BY <1>1 DEF Consistent, Started, Leads
<1>3. /\ lst[l] \in Seq(Record) /\ Distinct(lst[l]) /\ lst[l][1].id = id[l] /\ lst[l] # << >>
      /\ Len(lst[l]) \in Nat /\ DOMAIN lst[l] = 1 .. Len(lst[l])
      /\ \A i \in 1 .. Len(lst[l]) :
            /\ lst[l][i].who \in Server /\ lst[l][i].at \in Nat
            /\ Started(lst[l][i].who) /\ lst[l][i].id = id[lst[l][i].who]
  BY <1>1, <1>2, ListType DEF ListOk, Entry
<1>4. PICK k : k = delete_server(lst[l], lst[l][n].id)
  OBVIOUS
<1>5. /\ k \in Seq(Record) /\ Distinct(k) /\ Len(k) = Len(lst[l]) - 1
      /\ \A i \in 1 .. n-1 : k[i] = lst[l][i]
      /\ \A i \in n .. Len(lst[l]) - 1 : k[i] = lst[l][i+1]
  <2>1. k \in Seq(Record) /\ Distinct(k) /\ Shortened(lst[l], n, k)
    BY <1>1, <1>3, <1>4, Deleted
  <2> QED
    BY <2>1 DEF Shortened
<1>6. /\ lst' = [lst EXCEPT ![l] = k]
      /\ box' = IF Len(k) > 2
                THEN Sent(box, lst[l][PredecessorInRing(lst[l][n].id, lst[l])].who,
                               lst[l][PredecessorInRing(lst[l][n].id, lst[l])].at,
                               Update(k[IF n > Len(k) THEN 2 ELSE n].who))
                ELSE box
      /\ UNCHANGED <<phase, id, attempt, taken, ltcp, succ, mc, spent>>
  BY <1>4 DEF EvictSilent
<1>7. /\ k[1] = lst[l][1] /\ Len(k) \in Nat /\ DOMAIN k = 1 .. Len(k)
      /\ \A j \in 2 .. Len(k) : \E i \in 2 .. Len(lst[l]) : k[j] = lst[l][i]
      /\ \A i \in 2 .. Len(lst[l]) : i # n => \E j \in 2 .. Len(k) : k[j] = lst[l][i]
  <2> DEFINE m == Len(lst[l])
  <2>1. m \in Nat /\ Len(k) = m - 1 /\ n \in 2 .. m
        /\ (\A i \in 1 .. n-1 : k[i] = lst[l][i])
        /\ (\A i \in n .. m - 1 : k[i] = lst[l][i+1])
    BY <1>1, <1>3, <1>5
  <2> HIDE DEF m
  <2>2. 1 \in 1 .. n-1 /\ Len(k) \in Nat
    BY <2>1
  <2>3. ASSUME NEW j \in 2 .. m - 1 PROVE \E i \in 2 .. m : k[j] = lst[l][i]
    <3>1. j \in 1 .. n-1 \/ j \in n .. m - 1
      BY <2>1
    <3>2. j \in 2 .. m /\ j + 1 \in 2 .. m
      BY <2>1
    <3> QED
      BY <2>1, <3>1, <3>2
  <2>4. ASSUME NEW i \in 2 .. m, i # n PROVE \E j \in 2 .. m - 1 : k[j] = lst[l][i]
    <3>1. CASE i < n
      <4>1. i \in 1 .. n-1 /\ i \in 2 .. m - 1
        BY <2>1, <3>1
      <4> QED
        BY <2>1, <4>1
    <3>2. CASE i > n
      <4>1. i - 1 \in n .. m - 1 /\ i - 1 \in 2 .. m - 1 /\ (i - 1) + 1 = i
        BY <2>1, <3>2
      <4>2. k[i-1] = lst[l][(i-1)+1]
        BY <2>1, <4>1
      <4> QED
        BY <4>1, <4>2
    <3> QED
      BY <2>1, <2>4, <3>1, <3>2
  <2>5. DOMAIN k = 1 .. Len(k)
    BY <1>5
  <2> QED
    BY <2>1, <2>2, <2>3, <2>4, <2>5 DEF m
<1>8. /\ box' \in Boxes /\ More(box, box')
      /\ \A x \in Server : ~Started(x) => box'[x] = box[x]
      /\ \A x \in Server : \A j, m : Has(box, x, j, m) => Has(box', x, j, m)
      /\ \A x \in Server : \A j, m : Has(box', x, j, m) =>
            Has(box, x, j, m) \/ \E t \in Server : /\ m = Update(t) /\ t # x /\ Started(t)
                                                   /\ id[t] # id[l] /\ box'[x][j].from = l
  <2>1. CASE ~(Len(k) > 2)
    <3>1. box' = box
      BY <1>6, <2>1
    <3> QED
      BY <1>1, <3>1 DEF More
  <2>2. CASE Len(k) > 2
    <3>1. Len(lst[l]) > 3
      BY <1>3, <1>5, <2>2
    <3>2. PICK a, c \in 2 .. Len(lst[l]) :
             /\ a # c /\ a = PredecessorInRing(lst[l][n].id, lst[l])
             /\ k[IF n > Len(k) THEN 2 ELSE n] = lst[l][c]
      <4>1. Bridged(lst[l], n, k)
        BY <1>1, <1>3, <1>4, <3>1, SkippedOver
      <4> QED
        BY <4>1 DEF Bridged
    <3>3. PICK s \in Server, p \in Nat, t \in Server :
             s = lst[l][a].who /\ p = lst[l][a].at /\ t = lst[l][c].who
      BY <1>3
    <3>4. box' = Sent(box, s, p, Update(t)) /\ Update(t) \in Message
      BY <1>6, <2>2, <3>2, <3>3, Kinds
    <3>5. t # s /\ Started(t) /\ id[t] # id[l]
      <4>1. a \in DOMAIN lst[l] /\ c \in DOMAIN lst[l] /\ 1 \in DOMAIN lst[l] /\ c # 1
        BY <1>3, <3>1
      <4>2. lst[l][a].id # lst[l][c].id /\ lst[l][1].id # lst[l][c].id
        BY <1>3, <3>2, <4>1 DEF Distinct
      <4> QED
        BY <1>3, <3>3, <4>1, <4>2
    <3>6. Joins(l, s, p)
      BY <1>1, <1>2, <3>3 DEF ConnectionOk
    <3>7. Reading(s, p) => p <= Len(box[s]) /\ p \in 1 .. Len(box[s]) /\ box[s][p].from = l
      BY <1>1, <3>6, BoxType DEF Joins, Reading
    <3>8. /\ box' \in Boxes /\ More(box, box')
          /\ \A x \in Server : ~(Reading(s, p) /\ x = s) => box'[x] = box[x]
          /\ \A x, j, m : Has(box, x, j, m) /\ x \in Server => Has(box', x, j, m)
          /\ \A x, j, m : Has(box', x, j, m) /\ x \in Server =>
                Has(box, x, j, m) \/ (x = s /\ j = p /\ m = Update(t) /\ Reading(s, p))
      BY <1>1, <3>4, <3>7, SentAdds DEF SentOn
    <3>9. Reading(s, p) => box'[s][p].from = l
      BY <3>7, <3>8 DEF More
    <3>10. \A x \in Server : ~Started(x) => box'[x] = box[x]
      BY <3>8 DEF Reading, Started, Waits, Follows
    <3> QED
      BY <3>5, <3>8, <3>9, <3>10
  <2> QED
    BY <2>1, <2>2
<1>9. /\ lst'[l] = k /\ \A s \in Server \ {l} : lst'[s] = lst[s]
      /\ lst' \in [Server -> Seq(Record)]
  BY <1>1, <1>5, <1>6 DEF TypeOK, Record
<1>10. TypeOK' /\ Alive'
  <2>1. \A s \in Server : phase'[s] = "follows" => Len(lst'[s]) > 1
    BY <1>1, <1>6, <1>9 DEF TypeOK, Follows, Leads
  <2>2. ASSUME NEW s \in Server PROVE taken'[s] <= Len(box'[s])
    <3>1. Len(box'[s]) \in Nat /\ Len(box[s]) \in Nat /\ Len(box[s]) <= Len(box'[s])
      BY <1>1, <1>8, MoreGrows
    <3>2. taken'[s] = taken[s] /\ taken[s] \in Nat /\ taken[s] <= Len(box[s])
      BY <1>1, <1>6 DEF TypeOK
    <3> QED
      BY <3>1, <3>2
  <2> QED
    BY <1>1, <1>6, <1>8, <1>9, <2>1, <2>2 DEF TypeOK, Alive, Record, Boxes, Connection, Follows
<1>11. ListsOn
  <2> SUFFICES ASSUME NEW x \in Server, NEW s \in Server, NEW at,
                      Leads(x), Waits(s) \/ (Follows(s) /\ LeaderOf(s) = x), Listed(x, s, at)
               PROVE  StillListed(x, s, at)
    BY DEF ListsOn
  <2>1. CASE x # l
    BY <1>6, <1>9, <2>1 DEF StillListed, Listed
  <2>2. CASE x = l
    <3>1. PICK i \in 2 .. Len(lst[l]) : lst[l][i] = Entry(id[s], s, at)
      BY <2>2 DEF Listed
    <3>2. lst[l][n].id # id[s]
      BY <1>1, <2>2 DEF Silent
    <3>3. i # n
      BY <3>1, <3>2 DEF Entry
    <3>4. PICK j \in 2 .. Len(k) : k[j] = lst[l][i]
      BY <1>7, <3>3
    <3> QED
      BY <1>6, <1>9, <2>2, <3>1, <3>4 DEF StillListed
  <2> QED
    BY <2>1, <2>2
<1>12. GoesOn
  BY <1>1, <1>6, <1>8, <1>10, <1>11, Quiet DEF GoesOn, IInv
<1>13. ASSUME NEW s \in Server PROVE ListOk(s)'
  <2>1. CASE s # l
    BY <1>6, <1>8, <1>9, <1>12, <2>1, ListKept DEF Started
  <2>2. CASE s = l
    <3>1. \A j \in 1 .. Len(k) : j = 1 \/ j \in 2 .. Len(k)
      BY <1>7
    <3>2. 1 \in DOMAIN lst[l] /\ Len(k) > 0
      BY <1>1, <1>3, <1>5
    <3>3. \A j \in DOMAIN k : \E i \in DOMAIN lst[l] : k[j] = lst[l][i]
      BY <1>3, <1>7, <3>1, <3>2
    <3>4. \A j \in DOMAIN k : Started(k[j].who) /\ k[j].id = id[k[j].who]
      BY <1>3, <3>3
    <3> QED
      BY <1>2, <1>5, <1>6, <1>7, <1>9, <2>2, <3>2, <3>4 DEF ListOk, Started, Entry
  <2> QED
    BY <2>1, <2>2
<1>14. ASSUME NEW s \in Server PROVE RoleOk(s)'
  <2>1. CASE s # l
    BY <1>6, <1>9, <1>12, <2>1, RoleKept
  <2>2. CASE s = l
    <3>1. RoleOk(l)
      BY <1>1 DEF Consistent
    <3> QED
      BY <1>1, <1>6, <2>2, <3>1 DEF RoleOk, Follows, Leads
  <2> QED
    BY <2>1, <2>2
<1>15. \A s \in Server : Leads(s)' => Thins(s)
  BY <1>1, <1>6, <1>7, <1>9 DEF Thins, Leads
<1>16. \A s \in Server : ConnectionOk(s)' /\ QuestionsOk(s)' /\ ListedOk(s)'
  BY <1>6, <1>12, <1>15, ConnectionKept, QuestionsKept, ListedKept
<1>17. ASSUME NEW s \in Server PROVE MessagesOk(s)'
  <2>1. ASSUME NEW j, NEW t \in Server, t # s, Started(t), id[t] # id[l], box'[s][j].from = l
        PROVE  Written(s, j, Update(t))'
    <3>1. phase'[l] = "leads" /\ id' = id /\ phase' = phase
      BY <1>1, <1>6 DEF Leads
    <3> QED
      BY <2>1, <3>1, Kinds, ServerAssumption DEF Written, Leads, Update, Started
  <2>2. \A j, m : Has(box', s, j, m) => Has(box, s, j, m) \/ Written(s, j, m)'
    BY <1>8, <2>1
  <2> QED
    BY <1>12, <2>2, MessagesKept
<1>18. Accounted'
  <2>1. SameMishaps
    BY <1>6 DEF SameMishaps
  <2> QED
    BY <1>6, <1>8, <1>12, <2>1, StillUnanswered, QuietAccount
<1> QED
  BY <1>10, <1>13, <1>14, <1>16, <1>17, <1>18, Assembled DEF Consistent

-----------------------------------------------------------------------------
LEMMA MulticastType ==
    ASSUME TypeOK, NEW s \in Server, Multicast(s)
    PROVE  /\ mc' \in [Server -> SUBSET Server]
           /\ \A t \in Server : mc'[t] = IF t # s /\ phase[t] # "off" THEN mc[t] \cup {s}
                                         ELSE mc[t]
<1>1. mc' = [t \in Server |-> IF t # s /\ phase[t] # "off" THEN mc[t] \cup {s} ELSE mc[t]]
  BY DEF Multicast
<1>2. \A t \in Server : mc[t] \in SUBSET Server
  BY DEF TypeOK
<1> QED
  BY <1>1, <1>2

(* A server starts.                                                        *)
LEMMA StartKeeps ==
    ASSUME IInv, Alive, NEW s \in Server, Start(s)
    PROVE  IInv'
<1> DEFINE rushed == (\A t \in Server : ~Leads(t)) /\ \E t \in Server : Waits(t)
<1>1. TypeOK /\ Consistent /\ phase[s] = "off" /\ box \in Boxes /\ Multicast(s)
      /\ phase' = [phase EXCEPT ![s] = "waits"]
      /\ UNCHANGED <<attempt, box, taken, ltcp, succ>>
      /\ (rushed => spent.rush < MaxRush)
  BY NothingMore DEF IInv, Start
<1>2. PICK i \in Id, n \in {0, 1} :
         /\ id' = [id EXCEPT ![s] = i]
         /\ lst' = [lst EXCEPT ![s] = <<Entry(i, s, 0)>>]
         /\ n = 1 => spent.same < MaxSame
         /\ spent' = [spent EXCEPT !.rush = @ + (IF rushed THEN 1 ELSE 0), !.same = @ + n]
  <2>1. PICK i \in Id :
           /\ (\E t \in Server : id[t] = i) => spent.same < MaxSame
           /\ id' = [id EXCEPT ![s] = i]
           /\ lst' = [lst EXCEPT ![s] = <<Entry(i, s, 0)>>]
           /\ spent' = [spent EXCEPT !.rush = @ + (IF rushed THEN 1 ELSE 0),
                          !.same = @ + (IF \E t \in Server : id[t] = i THEN 1 ELSE 0)]
    BY DEF Start
  <2> DEFINE n == IF \E t \in Server : id[t] = i THEN 1 ELSE 0
  <2>2. n \in {0, 1} /\ (n = 1 => spent.same < MaxSame)
    BY <2>1
  <2> QED
    BY <2>1, <2>2
<1>3. /\ id'[s] = i /\ lst'[s] = <<Entry(i, s, 0)>> /\ phase'[s] = "waits"
      /\ \A t \in Server \ {s} : /\ id'[t] = id[t] /\ lst'[t] = lst[t]
                                 /\ phase'[t] = phase[t]
  BY <1>1, <1>2 DEF TypeOK
<1>4. /\ mc' \in [Server -> SUBSET Server]
      /\ \A t \in Server : mc'[t] = IF t # s /\ phase[t] # "off" THEN mc[t] \cup {s}
                                    ELSE mc[t]
  BY <1>1, MulticastType
<1>5. /\ spent' \in [rush : 0 .. MaxRush, late : 0 .. MaxLate, passed : 0 .. MaxPassed,
                     loss : 0 .. MaxLoss, same : 0 .. MaxSame, beats : 0 .. MaxBeats]
      /\ spent'.rush = spent.rush + (IF rushed THEN 1 ELSE 0)
      /\ spent'.late = spent.late /\ spent'.loss = spent.loss /\ spent'.passed = spent.passed
  <2> DEFINE r == IF rushed THEN 1 ELSE 0
  <2>1. MaxRush \in Nat /\ MaxSame \in Nat
    BY BoundAssumption
  <2>2. spent.rush \in 0 .. MaxRush /\ spent.same \in 0 .. MaxSame
    BY <1>1 DEF TypeOK
  <2>3. r \in {0, 1} /\ (r = 1 => spent.rush < MaxRush)
    BY <1>1
  <2>4. spent' = [spent EXCEPT !.rush = @ + r, !.same = @ + n]
    BY <1>2
  <2> HIDE DEF r
  <2>5. spent.rush + r \in 0 .. MaxRush /\ spent.same + n \in 0 .. MaxSame
    BY <1>2, <2>1, <2>2, <2>3
  <2>6. spent' = [spent EXCEPT !.rush = spent.rush + r, !.same = spent.same + n]
    BY <2>4
  <2>7. /\ spent' \in [rush : 0 .. MaxRush, late : 0 .. MaxLate, passed : 0 .. MaxPassed,
                       loss : 0 .. MaxLoss, same : 0 .. MaxSame, beats : 0 .. MaxBeats]
        /\ spent'.rush = spent.rush + r
        /\ spent'.late = spent.late /\ spent'.loss = spent.loss /\ spent'.passed = spent.passed
    BY <1>1, <2>5, <2>6 DEF TypeOK
  <2> QED
    BY <2>7 DEF r
<1>6. TypeOK' /\ Alive'
  <2>1. id' \in [Server -> Id \cup {0}] /\ lst' \in [Server -> Seq(Record)]
    <3>1. Entry(i, s, 0) \in Record
      BY <1>2 DEF Entry, Record
    <3>2. <<Entry(i, s, 0)>> \in Seq(Record)
      BY <3>1
    <3> QED
      BY <1>1, <1>2, <3>2 DEF TypeOK, Record
  <2>2. phase' \in [Server -> {"off", "waits", "leads", "follows", "down"}]
    BY <1>1 DEF TypeOK
  <2>3. \A t \in Server : phase'[t] = "follows" => Len(lst'[t]) > 1
    <3>1. \A t \in Server : phase'[t] = "follows" => t # s
      BY <1>3
    <3> QED
      BY <1>1, <1>3, <3>1 DEF TypeOK, Follows
  <2>4. Alive'
    BY <1>3 DEF Alive
  <2> QED
    BY <1>1, <1>4, <1>5, <2>1, <2>2, <2>3, <2>4 DEF TypeOK, Record, Follows
<1>7. GoesOn
  <2>1. Ages
    BY <1>1, <1>3 DEF Ages, Started, Leads, Follows
  <2>2. Widens
    <3>1. \A t \in Server : Len(box[t]) <= Len(box[t])
      BY <1>1, BoxType
    <3> QED
      BY <1>1, <3>1 DEF Widens
  <2>3. ListsOn
    BY <1>1, <1>3, <2>1, ListsUntouched DEF Leads
  <2> QED
    BY <1>1, <1>6, <2>1, <2>2, <2>3 DEF GoesOn
<1>8. ListOk(s) /\ RoleOk(s) /\ ConnectionOk(s)
  BY <1>1 DEF Consistent
<1>9. ASSUME NEW t \in Server PROVE ListOk(t)'
  <2>1. CASE t # s
    BY <1>1, <1>3, <1>7, <2>1, ListKept DEF Started
  <2>2. CASE t = s
    <3> DEFINE q == <<Entry(i, s, 0)>>
    <3>1. Len(q) = 1 /\ q[1] = Entry(i, s, 0) /\ \A m \in DOMAIN q : m = 1
      OBVIOUS
    <3>2. Entry(i, s, 0).id = i /\ Entry(i, s, 0).who = s
      BY DEF Entry
    <3> HIDE DEF q
    <3>3. lst'[s] = q
      BY <1>3 DEF q
    <3> QED
      BY <1>2, <1>3, <2>2, <3>1, <3>2, <3>3 DEF ListOk, Started, Distinct
  <2> QED
    BY <2>1, <2>2
<1>10. ASSUME NEW t \in Server PROVE RoleOk(t)'
  <2>1. CASE t # s
    BY <1>1, <1>3, <1>7, <2>1, RoleKept
  <2>2. CASE t = s
    <3>1. Len(lst'[s]) = 1
      BY <1>3
    <3>2. ltcp'[s] = 0 /\ succ'[s].who = Nobody /\ attempt'[s] <= 2
      BY <1>1, <1>8 DEF RoleOk, Follows
    <3>3. phase'[s] # "follows" /\ Len(lst'[s]) <= 1
      BY <1>3, <3>1
    <3>4. RoleOk(s)'
      BY <3>2, <3>3 DEF RoleOk, Follows
    <3> QED
      BY <2>2, <3>4
  <2> QED
    BY <2>1, <2>2
<1>11. \A t \in Server : Leads(t)' => Thins(t)
  BY <1>3 DEF Thins, Leads
<1>12. \A t \in Server : ConnectionOk(t)'
  BY <1>1, <1>7, <1>11, ConnectionKept
<1>13. \A t \in Server : MessagesOk(t)'
  BY <1>1, <1>7, MessagesKept
<1>14. ASSUME NEW l \in Server PROVE QuestionsOk(l)'
  <2>1. QuestionsOk(l) /\ ListOk(l)
    BY <1>1 DEF Consistent
  <2> SUFFICES ASSUME NEW x \in mc'[l]
               PROVE  /\ x # l /\ phase'[x] # "off"
                      /\ phase'[l] = "leads" /\ phase'[x] = "waits" =>
                            \A j \in 2 .. Len(lst'[l]) : lst'[l][j].who # x
    BY DEF QuestionsOk, Started, Leads, Waits
  <2>2. CASE x \in mc[l]
    <3>1. x # l /\ Started(x) /\ x # s /\ x \in Server
      BY <1>1, <2>1, <2>2 DEF QuestionsOk, Started, TypeOK
    <3>2. phase'[l] = "leads" => Leads(l) /\ lst'[l] = lst[l]
      BY <1>3 DEF Leads
    <3> QED
      BY <1>3, <2>1, <2>2, <3>1, <3>2 DEF QuestionsOk, Started, Waits
  <2>3. CASE x \notin mc[l]
    <3>1. x = s /\ l # s
      BY <1>4, <2>3
    <3>2. ASSUME NEW j \in 2 .. Len(lst'[l]) PROVE lst'[l][j].who # s
      <4>1. j \in DOMAIN lst[l] /\ lst'[l] = lst[l]
        BY <1>1, <1>3, <3>1, ListType
      <4> QED
        BY <1>1, <2>1, <4>1 DEF ListOk, Started
    <3> QED
      BY <1>3, <3>1, <3>2
  <2> QED
    BY <2>2, <2>3
<1>15. ASSUME NEW t \in Server PROVE ListedOk(t)'
  <2>1. CASE t # s
    BY <1>3, <1>7, <2>1, ListedKept
  <2>2. CASE t = s
    BY <1>3, <2>2 DEF ListedOk, Follows
  <2> QED
    BY <2>1, <2>2
<1>16. Accounted'
  <2>1. spent.rush \in Nat /\ spent.loss \in Nat /\ spent.late \in Nat /\ spent.passed \in Nat
    BY <1>1, BoundAssumption DEF TypeOK
  <2>2. ASSUME NEW x \in Server, x \in (Leading \cup Unanswered)', x # s
        PROVE  x \in Leading \cup Unanswered
    <3>1. CASE phase'[x] = "leads"
      BY <1>3, <2>2, <3>1 DEF Leading, Leads
    <3>2. CASE phase'[x] # "leads"
      <4>1. x \in Unanswered' /\ Started(x)
        BY <1>3, <2>2, <3>2 DEF Leading, Unanswered, Leads, Waits, Started
      <4>2. \A l \in Server : mc[l] \subseteq mc'[l]
        BY <1>4
      <4> QED
        BY <1>1, <1>7, <4>1, <4>2, StillUnanswered
    <3> QED
      BY <3>1, <3>2
  <2>3. CASE rushed
    <3>1. Mishaps' >= Mishaps + 1
      BY <1>5, <2>1, <2>3 DEF Mishaps
    <3> QED
      BY <1>1, <1>6, <2>2, <3>1, AccountGrows DEF Consistent
  <2>4. CASE \E l \in Server : Leads(l)
    <3>1. PICK l \in Server : Leads(l)
      BY <2>4
    <3>2. Late(s)'
      BY <1>1, <1>3, <1>4, <3>1 DEF Late, Leads
    <3>3. s \notin (Leading \cup Unanswered)'
      BY <1>3, <3>2 DEF Leading, Unanswered, Leads
    <3>4. Mishaps' >= Mishaps
      BY <1>5, <2>1 DEF Mishaps
    <3> QED
      BY <1>1, <1>6, <2>2, <3>3, <3>4, AccountKept DEF Consistent
  <2>5. CASE ~rushed /\ \A l \in Server : ~Leads(l)
    <3>1. Leading \cup Unanswered = {}
      BY <2>5 DEF Leading, Unanswered
    <3>2. (Leading \cup Unanswered)' \subseteq {s}
      <4>1. (Leading \cup Unanswered)' \subseteq Server
        BY DEF Leading, Unanswered
      <4> QED
        BY <2>2, <3>1, <4>1
    <3>3. IsFiniteSet({s}) /\ Cardinality({s}) = 1
      BY FS_Singleton
    <3>4. Cardinality((Leading \cup Unanswered)') <= 1
      BY <3>2, <3>3, FS_Subset
    <3>5. Mishaps' \in Nat
      BY <1>5, <2>1 DEF Mishaps
    <3>6. Cardinality((Leading \cup Unanswered)') \in Nat
      BY <3>2, <3>3, FS_Subset, FS_CardinalityType
    <3> QED
      BY <3>4, <3>5, <3>6 DEF Accounted
  <2> QED
    BY <2>3, <2>4, <2>5
<1> QED
  BY <1>6, <1>9, <1>10, <1>12, <1>13, <1>14, <1>15, <1>16, Assembled DEF Consistent

-----------------------------------------------------------------------------
(* The successors that servers have, and others that differ in whether the *)
(* connections to them are read.                                           *)
Successors ==
    [Server -> [who : Server, at : Nat, is : {"open", "unread", "closed"}] \cup {NoSucc}]

SameEnds(c, d) == \A t \in Server : d[t].who = c[t].who /\ d[t].at = c[t].at

LEMMA ChangedIs ==
    ASSUME NEW c \in Successors, NEW d, NEW S \in SUBSET Server,
           NEW is \in {"open", "unread", "closed"},
           \A t \in S : c[t].who # Nobody,
           d = [t \in Server |-> IF t \in S THEN [c[t] EXCEPT !.is = is] ELSE c[t]]
    PROVE  d \in Successors /\ SameEnds(c, d)
<1>1. ASSUME NEW t \in Server
      PROVE  /\ d[t] \in [who : Server, at : Nat, is : {"open", "unread", "closed"}] \cup {NoSucc}
             /\ d[t].who = c[t].who /\ d[t].at = c[t].at
  <2>1. CASE t \in S
    <3>1. c[t] \in [who : Server, at : Nat, is : {"open", "unread", "closed"}]
      BY <2>1 DEF Successors, NoSucc
    <3>2. d[t] = [c[t] EXCEPT !.is = is]
      BY <2>1
    <3> QED
      BY <3>1, <3>2
  <2>2. CASE t \notin S
    BY <2>2 DEF Successors
  <2> QED
    BY <2>1, <2>2
<1> QED
  BY <1>1 DEF Successors, SameEnds

LEMMA UnwatchedType ==
    ASSUME NEW c \in Successors, NEW s \in Server, NEW A, NEW d, d = Unwatched(s, A, c)
    PROVE  d \in Successors /\ SameEnds(c, d)
<1> DEFINE S == {t \in Server : c[t].who = s /\ c[t].is = "open" /\ c[t].at \in A}
<1>1. d = [t \in Server |-> IF t \in S THEN [c[t] EXCEPT !.is = "unread"] ELSE c[t]]
  BY DEF Unwatched
<1>2. S \in SUBSET Server /\ \A t \in S : c[t].who # Nobody
  BY ServerAssumption
<1> HIDE DEF S
<1> QED
  BY <1>1, <1>2, ChangedIs

(* A server that has waited leads.                                         *)
LEMMA LeadKeeps ==
    ASSUME IInv, Alive, NEW s \in Server, Waits(s),
           NEW n, NEW sc \in Successors, SameEnds(succ, sc), Lead(s, n, sc),
           attempt' = [attempt EXCEPT ![s] = @ + 1], UNCHANGED <<id, lst, ltcp>>,
           mc' = mc \/ Multicast(s)
    PROVE  IInv'
<1>1. /\ TypeOK /\ Consistent /\ box \in Boxes
      /\ (Late(s) => spent.late < MaxLate) /\ (Passed(s) => spent.passed < MaxPassed)
      /\ spent' = [spent EXCEPT !.late = @ + (IF Late(s) THEN 1 ELSE 0),
                                !.passed = @ + (IF Passed(s) THEN 1 ELSE 0)]
      /\ phase' = [phase EXCEPT ![s] = "leads"]
      /\ box' = [box EXCEPT ![s] = << >>]
      /\ taken' = [taken EXCEPT ![s] = 0]
      /\ succ' = Unwatched(s, 1 .. n, sc)
  BY NothingMore DEF IInv, Lead
<1>2. /\ ListOk(s) /\ RoleOk(s) /\ ConnectionOk(s)
      /\ Started(s) /\ ltcp[s] = 0 /\ Len(lst[s]) <= 1 /\ attempt[s] <= 2
  BY <1>1 DEF Consistent, RoleOk, Started, Waits, Follows
<1>3. /\ succ' \in Successors
      /\ \A t \in Server : succ'[t].who = succ[t].who /\ succ'[t].at = succ[t].at
  <2>1. succ' \in Successors /\ SameEnds(sc, succ')
    BY <1>1, UnwatchedType
  <2> QED
    BY <2>1 DEF SameEnds
<1>4. /\ mc' \in [Server -> SUBSET Server]
      /\ \A t \in Server : mc[t] \subseteq mc'[t]
      /\ \A t \in Server : \A x \in mc'[t] : x \in mc[t] \/ (x = s /\ t # s)
  <2>1. CASE mc' = mc
    BY <1>1, <2>1 DEF TypeOK
  <2>2. CASE Multicast(s)
    BY <1>1, <2>2, MulticastType
  <2> QED
    BY <2>1, <2>2
<1>5. /\ phase'[s] = "leads" /\ box'[s] = << >> /\ taken'[s] = 0
      /\ \A t \in Server \ {s} : /\ phase'[t] = phase[t] /\ box'[t] = box[t]
                                 /\ taken'[t] = taken[t] /\ attempt'[t] = attempt[t]
  BY <1>1 DEF TypeOK
<1>6. /\ spent' \in [rush : 0 .. MaxRush, late : 0 .. MaxLate, passed : 0 .. MaxPassed,
                     loss : 0 .. MaxLoss, same : 0 .. MaxSame, beats : 0 .. MaxBeats]
      /\ spent'.late = spent.late + (IF Late(s) THEN 1 ELSE 0)
      /\ spent'.passed = spent.passed + (IF Passed(s) THEN 1 ELSE 0)
      /\ spent'.rush = spent.rush /\ spent'.loss = spent.loss
  <2> DEFINE u == IF Late(s) THEN 1 ELSE 0
             v == IF Passed(s) THEN 1 ELSE 0
  <2>1. MaxLate \in Nat /\ MaxPassed \in Nat
    BY BoundAssumption
  <2>2. spent.late \in 0 .. MaxLate /\ spent.passed \in 0 .. MaxPassed
    BY <1>1 DEF TypeOK
  <2>3. /\ u \in {0, 1} /\ (u = 1 => spent.late < MaxLate)
        /\ v \in {0, 1} /\ (v = 1 => spent.passed < MaxPassed)
    BY <1>1
  <2>4. spent' = [spent EXCEPT !.late = spent.late + u, !.passed = spent.passed + v]
    BY <1>1
  <2> HIDE DEF u, v
  <2>5. spent.late + u \in 0 .. MaxLate /\ spent.passed + v \in 0 .. MaxPassed
    BY <2>1, <2>2, <2>3
  <2>6. /\ spent' \in [rush : 0 .. MaxRush, late : 0 .. MaxLate, passed : 0 .. MaxPassed,
                       loss : 0 .. MaxLoss, same : 0 .. MaxSame, beats : 0 .. MaxBeats]
        /\ spent'.late = spent.late + u /\ spent'.passed = spent.passed + v
        /\ spent'.rush = spent.rush /\ spent'.loss = spent.loss
    BY <1>1, <2>4, <2>5 DEF TypeOK
  <2> QED
    BY <2>6 DEF u, v
<1>7. TypeOK' /\ Alive'
  <2>1. box' \in Boxes
    <3>1. << >> \in Seq(Connection)
      OBVIOUS
    <3> QED
      BY <1>1, <3>1 DEF Boxes
  <2>2. phase' \in [Server -> {"off", "waits", "leads", "follows", "down"}]
    BY <1>1 DEF TypeOK
  <2>3. attempt' \in [Server -> 0 .. 3]
    <3>1. attempt[s] \in 0 .. 3 /\ attempt[s] + 1 \in 0 .. 3
      BY <1>1, <1>2 DEF TypeOK
    <3> QED
      BY <1>1, <3>1 DEF TypeOK
  <2>4. taken' \in [Server -> Nat]
    BY <1>1 DEF TypeOK
  <2>5. ASSUME NEW t \in Server
        PROVE  /\ taken'[t] <= Len(box'[t]) /\ ltcp'[t] <= taken'[t]
               /\ phase'[t] = "follows" => Len(lst'[t]) > 1
    <3>1. CASE t = s
      BY <1>2, <1>5, <3>1
    <3>2. CASE t # s
      BY <1>1, <1>5, <3>2 DEF TypeOK, Follows
    <3> QED
      BY <3>1, <3>2
  <2>6. Alive'
    BY <1>5 DEF Alive
  <2> QED
    BY <1>1, <1>3, <1>4, <1>6, <2>1, <2>2, <2>3, <2>4, <2>5, <2>6
    DEF TypeOK, Follows, Boxes, Connection, Successors
<1>8. GoesOn
  <2>1. Ages
    BY <1>5 DEF Ages, Started, Leads, Follows, Waits
  <2>2. Widens
    <3>1. \A t \in Server : Len(box[t]) <= Len(box[t])
      BY <1>1, BoxType
    <3>2. \A i \in 1 .. Len(box'[s]) : FALSE
      BY <1>5
    <3> QED
      BY <1>5, <3>1, <3>2 DEF Widens
  <2>3. ListsOn
    BY <2>1, ListsUntouched
  <2> QED
    BY <1>1, <1>7, <2>1, <2>2, <2>3 DEF GoesOn
<1>9. \A t \in Server : ListOk(t)'
  <2>1. \A t \in Server : Started(t) \/ (phase'[t] = "off" /\ box'[t] = box[t] /\ id'[t] = id[t])
    BY <1>2, <1>5 DEF Started
  <2> QED
    BY <1>8, <2>1, ListKept
<1>10. ASSUME NEW t \in Server PROVE RoleOk(t)'
  <2>1. CASE t # s
    BY <1>3, <1>5, <1>8, <2>1, RoleKept
  <2>2. CASE t = s
    <3>1. ltcp'[s] = 0 /\ succ'[s].who = Nobody
      BY <1>2, <1>3 DEF RoleOk, Follows, Waits
    <3>2. RoleOk(s)'
      BY <1>5, <3>1 DEF RoleOk, Follows
    <3> QED
      BY <2>2, <3>2
  <2> QED
    BY <2>1, <2>2
<1>11. \A t \in Server : Leads(t)' => Thins(t)
  <2>1. \A j \in 2 .. Len(lst[s]) : FALSE
    BY <1>1, <1>2, ListType
  <2> QED
    BY <1>5, <2>1 DEF Thins, Leads
<1>12. \A t \in Server : ConnectionOk(t)'
  BY <1>3, <1>8, <1>11, ConnectionKept
<1>13. ASSUME NEW t \in Server PROVE MessagesOk(t)'
  <2>1. \A i, m : Has(box', t, i, m) => Has(box, t, i, m)
    BY <1>5 DEF Has
  <2> QED
    BY <1>8, <2>1, MessagesKept
<1>14. ASSUME NEW l \in Server PROVE QuestionsOk(l)'
  <2>1. QuestionsOk(l)
    BY <1>1 DEF Consistent
  <2> SUFFICES ASSUME NEW x \in mc'[l]
               PROVE  /\ x # l /\ phase'[x] # "off"
                      /\ phase'[l] = "leads" /\ phase'[x] = "waits" =>
                            \A j \in 2 .. Len(lst'[l]) : lst'[l][j].who # x
    BY DEF QuestionsOk, Started, Leads, Waits
  <2>2. CASE x = s
    <3>1. x # l
      BY <1>4, <2>1, <2>2 DEF QuestionsOk
    <3> QED
      BY <1>5, <2>2, <3>1
  <2>3. CASE x # s
    <3>1. x \in mc[l] /\ x # l /\ Started(x) /\ x \in Server
      BY <1>1, <1>4, <2>1, <2>3 DEF QuestionsOk, TypeOK
    <3>2. ASSUME phase'[l] = "leads", phase'[x] = "waits", NEW j \in 2 .. Len(lst'[l])
          PROVE  lst'[l][j].who # x
      <4>1. Waits(x)
        BY <1>5, <2>3, <3>1, <3>2 DEF Waits
      <4>2. Leads(l)
        BY <1>11, <3>2 DEF Leads, Thins
      <4> QED
        BY <2>1, <3>1, <3>2, <4>1, <4>2 DEF QuestionsOk
    <3> QED
      BY <1>5, <2>3, <3>1, <3>2 DEF Started
  <2> QED
    BY <2>2, <2>3
<1>15. ASSUME NEW t \in Server PROVE ListedOk(t)'
  <2>1. CASE t # s
    BY <1>5, <1>8, <2>1, ListedKept
  <2>2. CASE t = s
    BY <1>5, <2>2 DEF ListedOk, Follows
  <2> QED
    BY <2>1, <2>2
<1>16. Accounted'
  <2>1. spent.rush \in Nat /\ spent.loss \in Nat /\ spent.late \in Nat /\ spent.passed \in Nat
    BY <1>1, BoundAssumption DEF TypeOK
  <2>2. ASSUME NEW x \in Server, x \in (Leading \cup Unanswered)', x # s
        PROVE  x \in Leading \cup Unanswered
    <3>1. CASE phase'[x] = "leads"
      BY <1>5, <2>2, <3>1 DEF Leading, Leads
    <3>2. CASE phase'[x] # "leads"
      <4>1. x \in Unanswered' /\ Started(x)
        BY <1>5, <2>2, <3>2 DEF Leading, Unanswered, Leads, Waits, Started
      <4>2. \A i, m : Has(box, x, i, m) => Has(box', x, i, m)
        BY <1>5, <2>2 DEF Has
      <4> QED
        BY <1>4, <1>8, <4>1, <4>2, StillUnanswered
    <3> QED
      BY <3>1, <3>2
  <2>3. CASE Late(s) \/ Passed(s)
    <3>1. Mishaps' >= Mishaps + 1
      BY <1>6, <2>1, <2>3 DEF Mishaps
    <3> QED
      BY <1>1, <1>7, <2>2, <3>1, AccountGrows DEF Consistent
  <2>4. CASE ~Late(s) /\ ~Passed(s)
    <3>1. Mishaps' >= Mishaps
      BY <1>6, <2>1, <2>4 DEF Mishaps
    <3>2. s \in Unanswered
      BY <2>4 DEF Unanswered
    <3> QED
      BY <1>1, <1>7, <2>2, <3>1, <3>2, AccountKept DEF Consistent
  <2> QED
    BY <2>3, <2>4
<1> QED
  BY <1>7, <1>9, <1>10, <1>12, <1>13, <1>14, <1>15, <1>16, Assembled DEF Consistent

-----------------------------------------------------------------------------
(* A round of select() is over, and the server waits on or leads.          *)
LEMMA NextRoundKeeps ==
    ASSUME IInv, Alive, NEW s \in Server, Waits(s),
           NEW b \in Boxes, More(box, b), \A t \in Server \ {s} : b[t] = box[t],
           \A i, m : Has(b, s, i, m) => Has(box, s, i, m),
           \A i, m : Has(box, s, i, m) /\ m.kind = "answer" => Has(b, s, i, m),
           NEW n \in Nat, n <= Len(b[s]),
           NEW sc \in Successors, SameEnds(succ, sc), NextRound(s, b, n, sc)
    PROVE  IInv'
<1>1. CASE attempt[s] = 2 /\ Lead(s, n, sc)
  BY <1>1, LeadKeeps DEF NextRound
<1>2. CASE /\ attempt[s] < 2 /\ box' = b /\ succ' = sc
           /\ taken' = [taken EXCEPT ![s] = n]
           /\ UNCHANGED <<phase, spent>>
  <2>1. /\ TypeOK /\ Consistent /\ box \in Boxes /\ Alive'
        /\ attempt' = [attempt EXCEPT ![s] = @ + 1] /\ UNCHANGED <<id, lst, ltcp, mc>>
    BY <1>2, NothingMore DEF IInv, Alive, NextRound
  <2>2. /\ ltcp[s] = 0 /\ attempt[s] \in 0 .. 3
        /\ Started(s)
    BY <2>1 DEF Consistent, RoleOk, Follows, Waits, Started, TypeOK
  <2>3. /\ attempt' \in [Server -> 0 .. 3] /\ attempt'[s] <= 2
        /\ \A t \in Server \ {s} : attempt'[t] = attempt[t] /\ taken'[t] = taken[t]
        /\ taken' \in [Server -> Nat] /\ taken'[s] = n
    <3>1. attempt[s] + 1 \in 0 .. 3 /\ attempt[s] + 1 <= 2
      BY <1>2, <2>2
    <3> QED
      BY <1>2, <2>1, <3>1 DEF TypeOK
  <2>4. TypeOK'
    <3>1. ASSUME NEW t \in Server PROVE taken'[t] <= Len(box'[t]) /\ ltcp'[t] <= taken'[t]
      <4>1. CASE t = s
        BY <1>2, <2>1, <2>2, <2>3, <4>1
      <4>2. CASE t # s
        BY <1>2, <2>1, <2>3, <4>2 DEF TypeOK
      <4> QED
        BY <4>1, <4>2
    <3> QED
      BY <1>2, <2>1, <2>3, <3>1 DEF TypeOK, Follows, Boxes, Connection, Successors
  <2>5. GoesOn
    BY <1>2, <2>1, <2>4, Quiet, ListsUntouched DEF GoesOn
  <2>6. \A t \in Server : ListOk(t)'
    <3>1. \A t \in Server : ~Started(t) => box'[t] = box[t]
      BY <1>2, <2>2
    <3> QED
      BY <1>2, <2>1, <2>5, <3>1, ListKept DEF Started
  <2>7. ASSUME NEW t \in Server PROVE RoleOk(t)'
    <3>1. RoleOk(t) /\ succ'[t].who = succ[t].who
      BY <1>2, <2>1 DEF Consistent, SameEnds
    <3>2. CASE t # s
      BY <1>2, <2>1, <2>3, <2>5, <3>1, <3>2, RoleKept
    <3>3. CASE t = s
      BY <1>2, <2>1, <2>3, <3>1, <3>3 DEF RoleOk, Follows, Waits
    <3> QED
      BY <3>2, <3>3
  <2>8. \A t \in Server : Leads(t)' => Thins(t)
    BY <1>2, <2>1 DEF Thins, Leads
  <2>9. \A t \in Server : ConnectionOk(t)' /\ QuestionsOk(t)' /\ ListedOk(t)'
    BY <1>2, <2>1, <2>5, <2>8, ConnectionKept, QuestionsKept, ListedKept DEF SameEnds
  <2>10. ASSUME NEW t \in Server PROVE MessagesOk(t)'
    <3>1. \A i, m : Has(box', t, i, m) => Has(box, t, i, m)
      <4>1. CASE t = s
        BY <1>2, <4>1
      <4>2. CASE t # s
        BY <1>2, <4>2 DEF Has
      <4> QED
        BY <4>1, <4>2
    <3> QED
      BY <2>5, <3>1, MessagesKept
  <2>11. Accounted'
    <3>1. SameMishaps
      BY <1>2 DEF SameMishaps
    <3>2. \A t \in Server : \A i, m : Has(box, t, i, m) /\ m.kind = "answer" => Has(box', t, i, m)
      BY <1>2 DEF Has
    <3> QED
      BY <1>2, <2>1, <2>5, <3>1, <3>2, StillUnanswered, QuietAccount
  <2> QED
    BY <2>1, <2>4, <2>6, <2>7, <2>9, <2>10, <2>11, Assembled DEF Consistent
<1> QED
  BY <1>1, <1>2 DEF NextRound

(* The rounds without an answer, or with an answer that is not read.       *)
LEMMA SilentRoundKeeps ==
    ASSUME IInv, Alive, NEW s \in Server, Timeout(s) \/ Accept(s) \/ Idle(s) \/ ReadEnd(s)
    PROVE  IInv'
<1>1. TypeOK /\ Consistent /\ Waits(s) /\ succ \in Successors /\ SameEnds(succ, succ)
  BY DEF IInv, Timeout, Accept, Idle, ReadEnd, Reads, TypeOK, Successors, SameEnds
<1>2. box \in Boxes /\ More(box, box) /\ Len(box[s]) \in Nat
  BY <1>1, NothingMore, BoxType
<1>3. taken[s] \in Nat /\ taken[s] <= Len(box[s])
  BY <1>1 DEF TypeOK
<1>4. CASE Timeout(s)
  BY <1>1, <1>4, LeadKeeps DEF Timeout
<1>5. CASE ReadEnd(s)
  BY <1>1, <1>5, LeadKeeps DEF ReadEnd
<1>6. CASE Accept(s)
  <2>1. taken[s] + 1 \in Nat /\ taken[s] + 1 <= Len(box[s]) /\ NextRound(s, box, taken[s] + 1, succ)
    BY <1>2, <1>3, <1>6 DEF Accept, Backlog
  <2> QED
    BY <1>1, <1>2, <2>1, NextRoundKeeps
<1>7. CASE Idle(s)
  <2>1. NextRound(s, box, taken[s], succ)
    BY <1>7 DEF Idle
  <2> QED
    BY <1>1, <1>2, <1>3, <2>1, NextRoundKeeps
<1> QED
  BY <1>4, <1>5, <1>6, <1>7

(* The messages of a predecessor, which follows, hide no answer.           *)
LEMMA MisreadKeeps ==
    ASSUME IInv, Alive, NEW s \in Server, Misread(s)
    PROVE  IInv'
<1>1. /\ TypeOK /\ Consistent /\ Waits(s) /\ succ \in Successors /\ box \in Boxes
      /\ taken[s] \in Unread(s) /\ Head(box[s][taken[s]].msgs).kind = "HEARTBEAT"
  BY NothingMore DEF IInv, Misread, Reads, TypeOK, Successors
<1>2. PICK i \in 1 .. Len(box[s]) : i = taken[s] /\ i \in Nat /\ box[s][i].msgs # << >>
  <2>1. taken[s] \in Nat /\ taken[s] <= Len(box[s]) /\ Len(box[s]) \in Nat
    BY <1>1, BoxType DEF TypeOK
  <2>2. taken[s] \in 1 .. taken[s] /\ box[s][taken[s]].msgs # << >>
    BY <1>1 DEF Unread
  <2> QED
    BY <2>1, <2>2
<1>3. PICK b : b = Rewrite(box, s, i, << >>)
  OBVIOUS
<1>4. PICK d : d = [t \in Server |-> IF succ[t].who = s /\ succ[t].at = i
                                     THEN [succ[t] EXCEPT !.is = "closed"] ELSE succ[t]]
  OBVIOUS
<1>5. NextRound(s, b, i, d)
  <2>1. b = [box EXCEPT ![s][i].msgs = << >>]
    BY <1>3 DEF Rewrite
  <2> QED
    BY <1>2, <1>4, <2>1 DEF Misread
<1>6. d \in Successors /\ SameEnds(succ, d)
  <2> DEFINE S == {t \in Server : succ[t].who = s /\ succ[t].at = i}
  <2>1. S \in SUBSET Server /\ \A t \in S : succ[t].who # Nobody
    BY ServerAssumption
  <2>2. d = [t \in Server |-> IF t \in S THEN [succ[t] EXCEPT !.is = "closed"] ELSE succ[t]]
    BY <1>4
  <2> HIDE DEF S
  <2> QED
    BY <1>1, <2>1, <2>2, ChangedIs
<1>7. /\ b \in Boxes /\ More(box, b) /\ Len(b[s]) = Len(box[s])
      /\ \A t \in Server \ {s} : b[t] = box[t]
      /\ \A j, m : Has(b, s, j, m) => Has(box, s, j, m)
  <2>1. FewerMessages(box, s, b)
    BY <1>1, <1>3, NoElements, Removed
  <2> QED
    BY <2>1 DEF FewerMessages
<1>8. \A m \in ToSet(box[s][i].msgs) : m.kind # "answer"
  <2>1. /\ Head(box[s][i].msgs) \in ToSet(box[s][i].msgs)
        /\ DOMAIN box[s] = 1 .. Len(box[s])
    BY <1>1, <1>2, BoxType, Elements
  <2>2. \A m \in ToSet(box[s][i].msgs) : Written(s, i, m)
    BY <1>1, <2>1 DEF Consistent, MessagesOk
  <2>3. Follows(box[s][i].from)
    BY <1>1, <1>2, <2>1, <2>2 DEF Written
  <2> QED
    BY <2>2, <2>3 DEF Written, Follows, Leads
<1>9. ASSUME NEW j, NEW m, Has(box, s, j, m), m.kind = "answer"
      PROVE  Has(b, s, j, m)
  <2>1. j # i
    BY <1>8, <1>9 DEF Has
  <2>2. b[s][j] = box[s][j]
    <3>1. b = [box EXCEPT ![s] = [box[s] EXCEPT ![i].msgs = << >>]]
      BY <1>3 DEF Rewrite
    <3>2. b[s] = [box[s] EXCEPT ![i].msgs = << >>]
      BY <1>1, <3>1 DEF Boxes
    <3>3. j \in DOMAIN box[s]
      BY <1>1, <1>9, BoxType DEF Has
    <3> QED
      BY <2>1, <3>2, <3>3
  <2> QED
    BY <1>7, <1>9, <2>2 DEF Has
<1>10. i <= Len(b[s])
  BY <1>1, <1>7, BoxType
<1> QED
  BY <1>1, <1>2, <1>5, <1>6, <1>7, <1>9, <1>10, NextRoundKeeps

-----------------------------------------------------------------------------
(* The answer is read; what is on other connections goes unread.           *)
LEMMA Cleared ==
    ASSUME NEW b \in Boxes, NEW s \in Server, NEW i \in 1 .. Len(b[s]),
           NEW q \in Seq(Message), \A m \in ToSet(q) : m \in ToSet(b[s][i].msgs),
           NEW c,
           c = [b EXCEPT ![s] = [j \in DOMAIN b[s] |->
                   [from |-> b[s][j].from, msgs |-> IF j = i THEN q ELSE << >>]]]
    PROVE  FewerMessages(b, s, c)
<1> DEFINE y == [j \in DOMAIN b[s] |->
                    [from |-> b[s][j].from, msgs |-> IF j = i THEN q ELSE << >>]]
<1>1. /\ b[s] \in Seq(Connection) /\ Len(b[s]) \in Nat /\ DOMAIN b[s] = 1 .. Len(b[s])
      /\ \A j \in 1 .. Len(b[s]) : b[s][j] \in Connection
  BY BoxType
<1>2. ASSUME NEW j \in 1 .. Len(b[s])
      PROVE  /\ y[j] \in Connection /\ y[j].from = b[s][j].from
             /\ y[j].msgs = IF j = i THEN q ELSE << >>
  <2>1. b[s][j] \in [from : Server, msgs : Seq(Message)]
    BY <1>1 DEF Connection
  <2>2. y[j] = [from |-> b[s][j].from, msgs |-> IF j = i THEN q ELSE << >>]
    BY <1>1
  <2> HIDE DEF y
  <2>3. << >> \in Seq(Message)
    BY NoElements
  <2> QED
    BY <2>1, <2>2, <2>3 DEF Connection
<1>3. DOMAIN y = 1 .. Len(b[s]) /\ y = [j \in 1 .. Len(b[s]) |-> y[j]]
  BY <1>1
<1>4. c = [b EXCEPT ![s] = y]
  OBVIOUS
<1> HIDE DEF y
<1>5. y \in Seq(Connection) /\ Len(y) = Len(b[s])
  <2> DEFINE n == Len(b[s])
  <2>1. n \in Nat /\ y \in [1 .. n -> Connection]
    BY <1>1, <1>2, <1>3
  <2> HIDE DEF n
  <2>2. y \in Seq(Connection) /\ Len(y) = n
    BY <2>1
  <2> QED
    BY <2>2 DEF n
<1>6. c \in Boxes /\ c[s] = y /\ \A t \in Server \ {s} : c[t] = b[t]
  BY <1>4, <1>5 DEF Boxes
<1>7. \A t \in Server : Len(c[t]) = Len(b[t])
  BY <1>5, <1>6
<1>8. More(b, c)
  <2> SUFFICES ASSUME NEW t \in Server, NEW j \in 1 .. Len(b[t])
               PROVE  j \in 1 .. Len(c[t]) /\ c[t][j].from = b[t][j].from
    BY DEF More
  <2> QED
    BY <1>2, <1>6, <1>7
<1>9. ASSUME NEW t \in Server, NEW j, NEW m, Has(c, t, j, m)
      PROVE  Has(b, t, j, m)
  <2>1. CASE t = s
    <3>1. j \in 1 .. Len(b[s]) /\ m \in ToSet(y[j].msgs)
      BY <1>5, <1>6, <1>9, <2>1 DEF Has
    <3>2. j = i /\ m \in ToSet(q)
      BY <1>2, <3>1, NoElements
    <3> QED
      BY <2>1, <3>1, <3>2 DEF Has
  <2>2. CASE t # s
    BY <1>6, <1>9, <2>2 DEF Has
  <2> QED
    BY <2>1, <2>2
<1> QED
  BY <1>6, <1>7, <1>8, <1>9 DEF FewerMessages

(* The list of a server that gets to know its leader, and its successor.   *)
LedBy(k, e, m) ==
    /\ m \in Seq(Record) /\ Distinct(m) /\ m[1] = k[1]
    /\ e.id # k[1].id => Len(m) = 2 /\ m[2] = e
    /\ e.id = k[1].id => m = k

LEMMA LeaderAppended ==
    ASSUME NEW k \in Seq(Record), Distinct(k), Len(k) = 1, NEW e \in Record,
           NEW m, m = append_server(k, e)
    PROVE  LedBy(k, e, m)
<1>1. /\ m \in Seq(Record) /\ Distinct(m)
      /\ server_info_exist(e.id, k) => m = k
      /\ ~server_info_exist(e.id, k) => AddedLast(k, e, m)
  BY Appended
<1>2. server_info_exist(e.id, k) <=> e.id = k[1].id
  BY DEF server_info_exist
<1>3. 1 \in 1 .. Len(k)
  OBVIOUS
<1> QED
  BY <1>1, <1>2, <1>3 DEF LedBy, AddedLast

LEMMA BothAppended ==
    ASSUME NEW k \in Seq(Record), Distinct(k), Len(k) = 1,
           NEW e \in Record, NEW f \in Record, e.id # f.id,
           NEW m, m = append_server(append_server(k, e), f)
    PROVE  /\ m \in Seq(Record) /\ Distinct(m) /\ Len(m) \in 2 .. 3
           /\ m[1] = k[1]
           /\ e.id # k[1].id => m[2] = e
           /\ e.id # k[1].id /\ f.id # k[1].id => Len(m) = 3
           /\ \A n \in 1 .. Len(m) : m[n] \in {k[1], e, f}
<1>1. PICK y : y = append_server(k, e)
  OBVIOUS
<1>2. LedBy(k, e, y) /\ m = append_server(y, f)
  BY <1>1, LeaderAppended
<1>3. CASE e.id # k[1].id
  <2>1. y \in Seq(Record) /\ Distinct(y) /\ Len(y) = 2 /\ y[1] = k[1] /\ y[2] = e
    BY <1>2, <1>3 DEF LedBy
  <2>2. /\ m \in Seq(Record) /\ Distinct(m) /\ Len(m) \in 2 .. 3
        /\ m[1] = y[1] /\ m[2] = y[2]
        /\ f.id # y[1].id /\ f.id # y[2].id => Len(m) = 3
        /\ \A n \in 1 .. Len(m) : m[n] \in {y[1], y[2], f}
    BY <1>2, <2>1, NewSuccessor
  <2> QED
    BY <1>3, <2>1, <2>2
<1>4. CASE e.id = k[1].id
  <2>1. y = k
    BY <1>2, <1>4 DEF LedBy
  <2>2. LedBy(k, f, m)
    BY <1>2, <2>1, LeaderAppended
  <2>3. m \in Seq(Record) /\ Distinct(m) /\ Len(m) = 2 /\ m[1] = k[1] /\ m[2] = f
    BY <1>4, <2>2 DEF LedBy
  <2>4. \A n \in 1 .. 2 : n = 1 \/ n = 2
    OBVIOUS
  <2> QED
    BY <1>4, <2>3, <2>4
<1> QED
  BY <1>3, <1>4

(* What FollowKeeps starts from: the step, with its parts named.           *)
Answered(s, l, i, t, b, at) ==
    /\ TypeOK /\ Consistent /\ Alive /\ Waits(s) /\ box \in Boxes
    /\ l \in Server /\ l # s /\ Leads(l) /\ box[s][i].from = l
    /\ i \in 1 .. Len(box[s]) /\ i = taken[s]
    /\ t \in Server \cup {Nobody}
    /\ t # Nobody => t \in Server /\ t # s /\ Started(t) /\ id[t] # id[l]
    /\ t = Nobody => id[l] # id[s]
    /\ ~Namesake(s) => Listed(l, s, i)
    /\ b \in Boxes /\ More(box, b)
    /\ \A x \in Server : ~Waits(x) => b[x] = box[x]
    /\ \A x \in Server : \A j, m : Has(b, x, j, m) => Has(box, x, j, m)
    /\ \A x \in Server \ {s} : \A j, m : Has(box, x, j, m) => Has(b, x, j, m)
    /\ at \in Nat
    /\ t # Nobody => /\ ~Waits(t) => at = 0
                     /\ Waits(t) => at \in 1 .. Len(b[t]) /\ b[t][at].from = s
    /\ i = Len(box[s]) /\ box[s][i].msgs # << >> /\ t = Head(box[s][i].msgs).succ
    /\ b[s][i].msgs = Tail(box[s][i].msgs)
    /\ \A x \in Server \ {s} : \A j \in 1 .. Len(box[x]) : b[x][j] = box[x][j]
    /\ \A x \in Server : \A j \in 1 .. Len(b[x]) :
          j \in 1 .. Len(box[x]) \/ (x = t /\ Waits(t) /\ j = Len(b[t]) /\ b[x][j].from = s)

FollowedBy(s, l, i, t, b, at) ==
    /\ phase' = [phase EXCEPT ![s] = "follows"]
    /\ ltcp' = [ltcp EXCEPT ![s] = i]
    /\ box' = b
    /\ lst' = [lst EXCEPT ![s] =
          IF t = Nobody THEN append_server(lst[s], Entry(id[l], l, i))
          ELSE append_server(append_server(lst[s], Entry(id[l], l, i)), Entry(id[t], t, at))]
    /\ succ' = IF t = Nobody THEN Unwatched(s, (1 .. i) \ {i, 2}, succ)
               ELSE [Unwatched(s, (1 .. i) \ {i, 2}, succ)
                        EXCEPT ![s] = [who |-> t, at |-> at, is |-> "open"]]
    /\ UNCHANGED <<id, attempt, taken, mc, spent>>

LEMMA FollowTaken ==
    ASSUME IInv, Alive, NEW s \in Server, Follow(s)
    PROVE  \E l, i, t, b, at : Answered(s, l, i, t, b, at) /\ FollowedBy(s, l, i, t, b, at)
<1>1. /\ TypeOK /\ Consistent /\ Waits(s) /\ box \in Boxes
      /\ taken[s] \in Unread(s) /\ Head(box[s][taken[s]].msgs).kind = "answer"
  BY NothingMore DEF IInv, Follow, Reads
<1>2. PICK i \in 1 .. Len(box[s]) :
         /\ i = taken[s] /\ box[s][i].msgs # << >>
         /\ box[s][i].from \in Server /\ box[s][i].msgs \in Seq(Message)
  <2>1. taken[s] \in Nat /\ taken[s] <= Len(box[s]) /\ Len(box[s]) \in Nat
    BY <1>1, BoxType DEF TypeOK
  <2>2. taken[s] \in 1 .. taken[s] /\ box[s][taken[s]].msgs # << >>
    BY <1>1 DEF Unread
  <2>3. taken[s] \in 1 .. Len(box[s])
    BY <2>1, <2>2
  <2> QED
    BY <1>1, <2>2, <2>3, BoxType
<1>3. PICK l \in Server : l = box[s][i].from
  BY <1>2
<1> DEFINE q == box[s][i].msgs
<1>4. PICK t \in Server \cup {Nobody} : t = Head(q).succ /\ Head(q).kind = "answer"
      /\ Head(q) \in ToSet(q) /\ Head(q) \in Message
      /\ Tail(q) \in Seq(Message) /\ \A m \in ToSet(Tail(q)) : m \in ToSet(q)
  <2>1. /\ Head(q) \in ToSet(q) /\ Tail(q) \in Seq(Message)
        /\ \A m \in ToSet(Tail(q)) : m \in ToSet(q)
        /\ \A m \in ToSet(q) : m \in Message
    BY <1>2, Elements, Kinds
  <2>2. Head(q).kind = "answer"
    BY <1>1, <1>2
  <2> QED
    BY <2>1, <2>2, Kinds
<1>5. /\ Leads(l) /\ l # s
      /\ t # Nobody => t \in Server /\ t # s /\ Started(t) /\ id[t] # id[l]
      /\ t = Nobody => id[l] # id[s]
      /\ ~Namesake(s) => Listed(l, s, i)
  <2>1. Written(s, i, Head(q))
    BY <1>1, <1>2, <1>4, BoxType DEF Consistent, MessagesOk
  <2> QED
    BY <1>1, <1>3, <1>4, <2>1 DEF Written, Leads, Waits
<1>6. PICK c : c = [box EXCEPT ![s] = [j \in DOMAIN box[s] |->
                       [from |-> box[s][j].from,
                        msgs |-> IF j = i THEN Tail(q) ELSE << >>]]]
  OBVIOUS
<1>7. c = [box EXCEPT ![s] = [j \in DOMAIN @ |->
              [from |-> @[j].from, msgs |-> IF j = i THEN Tail(@[j].msgs) ELSE << >>]]]
  <2>1. \A j \in DOMAIN box[s] :
           [from |-> box[s][j].from, msgs |-> IF j = i THEN Tail(q) ELSE << >>] =
           [from |-> box[s][j].from, msgs |-> IF j = i THEN Tail(box[s][j].msgs) ELSE << >>]
    OBVIOUS
  <2>2. [j \in DOMAIN box[s] |->
            [from |-> box[s][j].from, msgs |-> IF j = i THEN Tail(q) ELSE << >>]] =
        [j \in DOMAIN box[s] |->
            [from |-> box[s][j].from, msgs |-> IF j = i THEN Tail(box[s][j].msgs) ELSE << >>]]
    BY <2>1
  <2> QED
    BY <1>6, <2>2, Zenon
<1>8. FewerMessages(box, s, c)
  BY <1>1, <1>2, <1>4, <1>6, Cleared
<1>9. PICK b : b = IF t = Nobody THEN c ELSE Connected(c, s, t)
  OBVIOUS
<1>10. PICK at : at = IF t = Nobody THEN 0 ELSE PlaceAt(b, t)
  OBVIOUS
<1>11. /\ c \in Boxes /\ More(box, c) /\ \A x \in Server \ {s} : c[x] = box[x]
       /\ \A x \in Server : \A j, m : Has(c, x, j, m) => Has(box, x, j, m)
       /\ \A x \in Server \ {s} : \A j, m : Has(box, x, j, m) => Has(c, x, j, m)
  <2>1. /\ c \in Boxes /\ More(box, c) /\ \A x \in Server \ {s} : c[x] = box[x]
        /\ \A x \in Server : \A j, m : Has(c, x, j, m) => Has(box, x, j, m)
    BY <1>8 DEF FewerMessages
  <2> QED
    BY <2>1 DEF Has
<1>12. /\ b \in Boxes /\ More(c, b)
       /\ \A x \in Server : ~Waits(x) => b[x] = c[x]
       /\ \A x \in Server : \A j, m : Has(b, x, j, m) <=> Has(c, x, j, m)
       /\ at \in Nat
       /\ t # Nobody => /\ ~Waits(t) => at = 0
                        /\ Waits(t) => at \in 1 .. Len(b[t]) /\ b[t][at].from = s
  <2>1. CASE t = Nobody
    <3>1. b = c /\ at = 0
      BY <1>9, <1>10, <2>1
    <3> QED
      BY <1>11, <2>1, <3>1 DEF More
  <2>2. CASE t # Nobody
    <3>1. t \in Server /\ b = Connected(c, s, t) /\ at = PlaceAt(b, t)
      BY <1>9, <1>10, <2>2
    <3>2. MoreConnections(c, s, t, b)
      BY <1>11, <3>1, ConnectedAdds
    <3>3. /\ b \in Boxes /\ More(c, b) /\ at \in Nat
          /\ \A x \in Server : ~(Waits(t) /\ x = t) => b[x] = c[x]
          /\ \A x \in Server : \A j, m : Has(b, x, j, m) <=> Has(c, x, j, m)
          /\ ~Waits(t) => at = 0
          /\ Waits(t) => /\ at = Len(b[t]) /\ Len(b[t]) \in Nat \ {0}
                         /\ b[t][Len(b[t])].from = s
      BY <3>1, <3>2 DEF MoreConnections
    <3> QED
      BY <3>3
  <2> QED
    BY <2>1, <2>2
<1>13. More(box, b)
  BY <1>11, <1>12, MoreAndMore
<1>14. \A x \in Server : ~Waits(x) => b[x] = box[x]
  BY <1>1, <1>11, <1>12
<1>15. FollowedBy(s, l, i, t, b, at)
  <2>1. Follow(s)
    OBVIOUS
  <2> USE <1>1, <1>2, <1>3, <1>4, <1>7, <1>9, <1>10
  <2>2. CASE t = Nobody
    BY <2>1, <2>2 DEF Follow, FollowedBy, Led
  <2>3. CASE t # Nobody
    <3>1. Entry(id[t], t, at).at = at
      BY DEF Entry
    <3>2. b = Connected(c, s, t) /\ at = PlaceAt(b, t)
      BY <2>3
    <3>3. t = Head(box[s][taken[s]].msgs).succ
      OBVIOUS
    <3>4. /\ phase' = [phase EXCEPT ![s] = "follows"] /\ ltcp' = [ltcp EXCEPT ![s] = i]
          /\ lst' = [lst EXCEPT ![s] = append_server(Led(s, l, i), Entry(id[t], t, at))]
          /\ box' = b
          /\ succ' = [Unwatched(s, (1 .. i) \ {i, 2}, succ)
                         EXCEPT ![s] = [who |-> t, at |-> Entry(id[t], t, at).at, is |-> "open"]]
          /\ UNCHANGED <<id, attempt, taken, mc, spent>>
      BY ONLY <1>2, <1>3, <1>7, <2>1, <2>3, <3>2, <3>3 DEF Follow
    <3> QED
      BY ONLY <2>3, <3>1, <3>4 DEF FollowedBy, Led
  <2> QED
    BY <2>2, <2>3
<1>16. /\ c[s][i].msgs = Tail(q)
       /\ \A x \in Server : Len(c[x]) = Len(box[x])
       /\ \A x \in Server \ {s} : \A j \in 1 .. Len(box[x]) : c[x][j] = box[x][j]
  <2>1. i \in DOMAIN box[s]
    BY <1>1, <1>2, BoxType
  <2>2. c[s] = [j \in DOMAIN box[s] |->
            [from |-> box[s][j].from, msgs |-> IF j = i THEN Tail(q) ELSE << >>]]
    BY <1>1, <1>6 DEF Boxes
  <2>3. c[s][i].msgs = Tail(q)
    BY <2>1, <2>2
  <2> QED
    BY <1>8, <1>11, <2>3 DEF FewerMessages
<1>17. /\ b[s][i].msgs = Tail(q)
       /\ \A x \in Server \ {s} : \A j \in 1 .. Len(box[x]) : b[x][j] = box[x][j]
       /\ \A x \in Server : \A j \in 1 .. Len(b[x]) :
             j \in 1 .. Len(box[x]) \/ (x = t /\ Waits(t) /\ j = Len(b[t]) /\ b[x][j].from = s)
  <2>1. CASE t = Nobody
    BY <1>9, <1>16, <2>1
  <2>2. CASE t # Nobody
    <3>1. t \in Server /\ b = Connected(c, s, t)
      BY <1>9, <2>2
    <3>2. /\ \A x \in Server : \A j \in 1 .. Len(c[x]) : b[x][j] = c[x][j]
          /\ \A x \in Server : \A j \in 1 .. Len(b[x]) :
                j \in 1 .. Len(c[x]) \/ (x = t /\ Waits(t) /\ j = Len(b[t]) /\ b[x][j].from = s)
      <4>1. /\ \A x \in Server : \A j \in 1 .. Len(c[x]) :
                   j \in 1 .. Len(b[x]) /\ b[x][j] = c[x][j]
            /\ \A x \in Server : \A j \in 1 .. Len(b[x]) :
                   \/ j \in 1 .. Len(c[x])
                   \/ x = t /\ Waits(t) /\ j = Len(b[x])
                      /\ b[x][j].from = s /\ b[x][j].msgs = << >>
        BY <1>11, <3>1, ConnectedAt
      <4> QED
        BY <4>1
    <3> QED
      BY <1>2, <1>16, <3>2
  <2> QED
    BY <2>1, <2>2
<1>18. i = Len(box[s])
  <2>1. taken[s] <= Len(box[s]) /\ ~(Len(box[s]) > taken[s]) /\ Len(box[s]) \in Nat
    BY <1>1, BoxType DEF TypeOK, Follow, Reads, Backlog
  <2> QED
    BY <1>2, <2>1
<1>19. Answered(s, l, i, t, b, at)
  BY <1>1, <1>2, <1>3, <1>4, <1>5, <1>11, <1>12, <1>13, <1>14, <1>17, <1>18 DEF Answered
<1> QED
  BY <1>15, <1>19

(* A server that is answered follows.                                      *)
LEMMA FollowKeeps ==
    ASSUME IInv, Alive, NEW s \in Server, Follow(s)
    PROVE  IInv'
<1>0. PICK l, i, t, b, at : Answered(s, l, i, t, b, at) /\ FollowedBy(s, l, i, t, b, at)
  BY FollowTaken
<1>1. /\ TypeOK /\ Consistent /\ Waits(s) /\ box \in Boxes
      /\ l \in Server /\ l # s /\ Leads(l) /\ box[s][i].from = l
      /\ i \in 1 .. Len(box[s]) /\ i = taken[s]
      /\ t \in Server \cup {Nobody}
      /\ (t # Nobody => t \in Server /\ t # s /\ Started(t) /\ id[t] # id[l])
      /\ (t = Nobody => id[l] # id[s])
      /\ (~Namesake(s) => Listed(l, s, i))
  BY <1>0 DEF Answered
<1>2. /\ b \in Boxes /\ More(box, b)
      /\ (\A x \in Server : ~Waits(x) => b[x] = box[x])
      /\ (\A x \in Server : \A j, m : Has(b, x, j, m) => Has(box, x, j, m))
      /\ (\A x \in Server \ {s} : \A j, m : Has(box, x, j, m) => Has(b, x, j, m))
      /\ at \in Nat
      /\ (t # Nobody => /\ (~Waits(t) => at = 0)
                        /\ (Waits(t) => at \in 1 .. Len(b[t]) /\ b[t][at].from = s))
  BY <1>0 DEF Answered
<1> DEFINE e == Entry(id[l], l, i)
           g == Entry(id[t], t, at)
           others == Unwatched(s, (1 .. i) \ {i, 2}, succ)
<1>3. /\ phase' = [phase EXCEPT ![s] = "follows"] /\ ltcp' = [ltcp EXCEPT ![s] = i]
      /\ box' = b
      /\ lst' = [lst EXCEPT ![s] = IF t = Nobody THEN append_server(lst[s], e)
                                   ELSE append_server(append_server(lst[s], e), g)]
      /\ succ' = IF t = Nobody THEN others
                 ELSE [others EXCEPT ![s] = [who |-> t, at |-> at, is |-> "open"]]
      /\ UNCHANGED <<id, attempt, taken, mc, spent>>
  BY <1>0 DEF FollowedBy
<1>4. /\ Started(s) /\ Started(l) /\ id[l] \in Id /\ id[s] \in Id
      /\ succ[s].who = Nobody /\ attempt[s] <= 2
      /\ lst[s] \in Seq(Record) /\ Distinct(lst[s]) /\ Len(lst[s]) = 1
      /\ lst[s][1] = Entry(id[s], s, 0) /\ i \in Nat
  <2>1. ListOk(s) /\ RoleOk(s) /\ ListOk(l) /\ Len(lst[s]) \in Nat /\ lst[s] \in Seq(Record)
    BY <1>1, ListType DEF Consistent
  <2>2. Started(s) /\ Started(l) /\ ~Follows(s)
    BY <1>1 DEF Started, Waits, Leads, Follows
  <2>3. Len(lst[s]) > 0 /\ Len(lst[s]) <= 1 /\ attempt[s] <= 2 /\ succ[s].who = Nobody
    BY <1>1, <2>1, <2>2 DEF ListOk, RoleOk, Waits
  <2>4. Len(lst[s]) = 1
    <3>1. \A n \in Nat : n > 0 /\ n <= 1 => n = 1
      OBVIOUS
    <3>2. Len(lst[s]) \in Nat
      BY <2>1
    <3> QED
      BY <2>3, <3>1, <3>2
  <2>5. /\ id[l] \in Id /\ id[s] \in Id /\ Distinct(lst[s])
        /\ lst[s][1] = Entry(id[s], s, 0)
    BY <1>1, <2>1, <2>2 DEF ListOk
  <2>6. i \in Nat
    BY <1>1 DEF TypeOK
  <2> QED
    BY <2>1, <2>2, <2>3, <2>4, <2>5, <2>6
<1>5. /\ e \in Record /\ e.id = id[l] /\ e.who = l
      /\ t # Nobody => g \in Record /\ g.id = id[t] /\ g.who = t
  <2>1. t # Nobody => id[t] \in Id
    BY <1>1 DEF Consistent, ListOk
  <2> QED
    BY <1>1, <1>2, <1>4, <2>1 DEF Entry, Record
<1>6. /\ lst'[s] = IF t = Nobody THEN append_server(lst[s], e)
                  ELSE append_server(append_server(lst[s], e), g)
      /\ \A x \in Server \ {s} : /\ lst'[x] = lst[x] /\ phase'[x] = phase[x]
                                 /\ ltcp'[x] = ltcp[x]
      /\ phase'[s] = "follows" /\ ltcp'[s] = i
  BY <1>1, <1>3 DEF TypeOK
<1> HIDE DEF e, g
<1>7. /\ lst'[s] \in Seq(Record) /\ Distinct(lst'[s]) /\ Len(lst'[s]) \in 2 .. 3
      /\ lst'[s][1] = lst[s][1]
      /\ (id[l] # id[s] => lst'[s][2] = e)
      /\ (id[l] # id[s] /\ t # Nobody /\ id[t] # id[s] => Len(lst'[s]) = 3)
      /\ (\A n \in 1 .. Len(lst'[s]) :
             lst'[s][n] \in {lst[s][1], e} \cup (IF t = Nobody THEN {} ELSE {g}))
  <2>0. lst[s][1].id = id[s]
    BY <1>4 DEF Entry
  <2>1. CASE t = Nobody
    <3>1. LedBy(lst[s], e, lst'[s])
      <4>1. lst'[s] = append_server(lst[s], e)
        BY <1>6, <2>1
      <4> QED
        BY <1>4, <1>5, <4>1, LeaderAppended
    <3>2. /\ lst'[s] \in Seq(Record) /\ Distinct(lst'[s]) /\ Len(lst'[s]) = 2
          /\ lst'[s][1] = lst[s][1] /\ lst'[s][2] = e
      BY <1>1, <1>5, <2>0, <2>1, <3>1 DEF LedBy
    <3>3. \A n \in 1 .. 2 : n = 1 \/ n = 2
      OBVIOUS
    <3> QED
      BY <2>1, <3>2, <3>3
  <2>2. CASE t # Nobody
    <3>1. lst'[s] = append_server(append_server(lst[s], e), g)
          /\ e.id # g.id /\ g \in Record
      BY <1>1, <1>5, <1>6, <2>2
    <3>2. /\ lst'[s] \in Seq(Record) /\ Distinct(lst'[s]) /\ Len(lst'[s]) \in 2 .. 3
          /\ lst'[s][1] = lst[s][1]
          /\ (e.id # lst[s][1].id => lst'[s][2] = e)
          /\ (e.id # lst[s][1].id /\ g.id # lst[s][1].id => Len(lst'[s]) = 3)
          /\ (\A n \in 1 .. Len(lst'[s]) : lst'[s][n] \in {lst[s][1], e, g})
      BY <1>4, <1>5, <3>1, BothAppended
    <3> QED
      BY <1>5, <2>0, <2>2, <3>2
  <2> QED
    BY <2>1, <2>2
<1>8. /\ succ' \in Successors
      /\ \A x \in Server \ {s} : succ'[x].who = succ[x].who /\ succ'[x].at = succ[x].at
      /\ succ'[s].who = t
      /\ t # Nobody => succ'[s].at = at
  <2>0. succ \in Successors /\ others = Unwatched(s, (1 .. i) \ {i, 2}, succ)
    BY <1>1 DEF TypeOK, Successors
  <2> HIDE DEF others
  <2>1. others \in Successors /\ SameEnds(succ, others)
    BY <2>0, UnwatchedType
  <2>2. CASE t = Nobody
    BY <1>3, <1>4, <2>1, <2>2 DEF SameEnds
  <2>3. CASE t # Nobody
    <3>1. [who |-> t, at |-> at, is |-> "open"] \in
             [who : Server, at : Nat, is : {"open", "unread", "closed"}]
      BY <1>1, <1>2, <2>3
    <3>2. succ' = [others EXCEPT ![s] = [who |-> t, at |-> at, is |-> "open"]]
      BY <1>3, <2>3
    <3>3. succ' \in Successors /\ succ'[s] = [who |-> t, at |-> at, is |-> "open"]
          /\ \A x \in Server \ {s} : succ'[x] = others[x]
      BY <2>1, <3>1, <3>2 DEF Successors
    <3> QED
      BY <2>1, <3>3 DEF SameEnds
  <2> QED
    BY <2>2, <2>3
<1> HIDE DEF others
<1>9. TypeOK' /\ Alive'
  <2>1. lst' \in [Server -> Seq(Record)]
    <3>1. DOMAIN lst' = Server /\ lst' = [x \in Server |-> lst'[x]]
      BY <1>1, <1>3 DEF TypeOK
    <3>2. \A x \in Server : lst'[x] \in Seq(Record)
      BY <1>1, <1>6, <1>7 DEF TypeOK, Record
    <3> QED
      BY <3>1, <3>2
  <2>2. /\ phase' \in [Server -> {"off", "waits", "leads", "follows", "down"}]
        /\ ltcp' \in [Server -> Nat]
    BY <1>1, <1>3, <1>4 DEF TypeOK
  <2>3. ASSUME NEW x \in Server
        PROVE  /\ taken'[x] <= Len(box'[x]) /\ ltcp'[x] <= taken'[x]
               /\ phase'[x] = "follows" => Len(lst'[x]) > 1
               /\ phase'[x] # "down"
    <3>1. Len(box'[x]) \in Nat /\ Len(box[x]) \in Nat /\ Len(box[x]) <= Len(box'[x])
      BY <1>1, <1>2, <1>3, MoreGrows
    <3>2. taken'[x] = taken[x] /\ taken[x] \in Nat /\ taken[x] <= Len(box[x])
      BY <1>1, <1>3 DEF TypeOK
    <3>3. CASE x = s
      <4>1. ltcp'[s] <= taken'[s]
        BY <1>1, <1>4, <1>6, <3>2, <3>3
      <4>2. Len(lst'[s]) > 1 /\ phase'[s] # "down"
        BY <1>6, <1>7
      <4> QED
        BY <3>1, <3>2, <3>3, <4>1, <4>2
    <3>4. CASE x # s
      <4>1. phase'[x] = phase[x] /\ ltcp'[x] = ltcp[x] /\ lst'[x] = lst[x]
        BY <1>6, <3>4
      <4>2. phase[x] = "follows" => Len(lst[x]) > 1
        BY <1>1 DEF TypeOK, Follows
      <4>3. phase[x] # "down" /\ ltcp[x] <= taken[x]
        BY <1>1 DEF TypeOK, Alive
      <4>4. taken'[x] <= Len(box'[x])
        BY <3>1, <3>2
      <4> QED
        BY <3>2, <4>1, <4>2, <4>3, <4>4
    <3> QED
      BY <3>3, <3>4
  <2> QED
    BY <1>1, <1>2, <1>3, <1>8, <2>1, <2>2, <2>3
    DEF TypeOK, Alive, Record, Boxes, Connection, Follows, Successors
<1>10. GoesOn
  <2>1. Ages
    BY <1>1, <1>3, <1>6 DEF Ages, Started, Leads, Follows, Waits
  <2>2. Widens
    <3>1. \A x \in Server : Len(box[x]) <= Len(box'[x])
      BY <1>1, <1>2, <1>3, MoreGrows
    <3> QED
      BY <1>2, <1>3, <3>1 DEF Widens, More
  <2>3. ListsOn
    <3>1. \A x \in Server : Leads(x) => lst'[x] = lst[x]
      BY <1>1, <1>6 DEF Leads, Waits
    <3> QED
      BY <2>1, <3>1, ListsUntouched
  <2> QED
    BY <1>1, <1>9, <2>1, <2>2, <2>3 DEF GoesOn
<1>11. ASSUME NEW x \in Server PROVE ListOk(x)'
  <2>1. CASE x # s
    <3>1. Started(x) \/ (phase'[x] = "off" /\ box'[x] = box[x] /\ id'[x] = id[x])
      BY <1>2, <1>3, <1>6, <2>1 DEF Started, Waits
    <3> QED
      BY <1>6, <1>10, <2>1, <3>1, ListKept
  <2>2. CASE x = s
    <3>1. \A r \in {lst[s][1], e} \cup (IF t = Nobody THEN {} ELSE {g}) :
             phase'[r.who] # "off" /\ r.id = id'[r.who]
      <4>1. lst[s][1].who = s /\ lst[s][1].id = id[s]
        BY <1>4 DEF Entry
      <4>2. phase'[s] # "off" /\ phase'[l] # "off" /\ (t # Nobody => phase'[t] # "off")
        BY <1>1, <1>4, <1>6 DEF Started
      <4> QED
        BY <1>3, <1>5, <4>1, <4>2
    <3>2. DOMAIN lst'[s] = 1 .. Len(lst'[s]) /\ Len(lst'[s]) > 0
      BY <1>7
    <3>3. lst'[s][1] = Entry(id'[s], s, 0) /\ id'[s] \in Id
      BY <1>3, <1>4, <1>7
    <3>4. \A n \in DOMAIN lst'[s] :
             phase'[lst'[s][n].who] # "off" /\ lst'[s][n].id = id'[lst'[s][n].who]
      BY <1>7, <3>1, <3>2
    <3>5. ListOk(s)'
      BY <1>6, <1>7, <3>2, <3>3, <3>4 DEF ListOk, Started, Entry
    <3> QED
      BY <2>2, <3>5
  <2> QED
    BY <2>1, <2>2
<1>12. LeaderOf(s)' = l /\ phase'[l] = "leads" /\ id' = id
  <2>1. box'[s][i].from = l
    BY <1>1, <1>2, <1>3 DEF More
  <2> QED
    BY <1>1, <1>3, <1>6, <2>1 DEF LeaderOf, Leads
<1>13. ASSUME ~Namesake(s)'
       PROVE  ~Namesake(s) /\ id[l] # id[s] /\ (t # Nobody => id[t] # id[s])
  <2>1. ~Namesake(s)
    BY <1>12, <1>13 DEF Namesake
  <2>2. id[s] # 0
    BY <1>4, IdAssumption
  <2> QED
    BY <1>1, <2>1, <2>2 DEF Namesake
<1>14. ASSUME NEW x \in Server PROVE RoleOk(x)'
  <2>1. CASE x # s
    <3>1. succ'[x].who = succ[x].who /\ attempt'[x] = attempt[x]
      BY <1>3, <1>8, <2>1
    <3> QED
      BY <1>6, <1>10, <2>1, <3>1, RoleKept
  <2>2. CASE x = s
    <3>1. ltcp'[s] > 0 /\ Leads(LeaderOf(s))'
      <4>1. phase'[LeaderOf(s)'] = "leads"
        BY <1>12
      <4> QED
        BY <1>4, <1>1, <1>6, <4>1 DEF Leads
    <3>2. ~Namesake(s)' => /\ lst'[s][2].id = id'[LeaderOf(s)']
                           /\ succ'[s].who # Nobody => Len(lst'[s]) = 3
      BY <1>5, <1>7, <1>8, <1>12, <1>13
    <3>3. RoleOk(s)'
      BY <1>6, <1>7, <3>1, <3>2 DEF RoleOk, Follows
    <3> QED
      BY <2>2, <3>3
  <2> QED
    BY <2>1, <2>2
<1>15. \A x \in Server : Leads(x)' => Thins(x)
  BY <1>6 DEF Thins, Leads
<1>16. ASSUME NEW x \in Server PROVE ConnectionOk(x)'
  <2>1. CASE x # s
    BY <1>8, <1>10, <1>15, <2>1, ConnectionKept
  <2>2. CASE x = s
    <3>1. ~Leads(s)'
      BY <1>6 DEF Leads
    <3>2. ASSUME t # Nobody
          PROVE  phase'[t] # "off" /\ StillJoins(s, t, at)
      <4>1. t \in Server /\ phase'[t] = phase[t] /\ Started(t) /\ Len(b[t]) \in Nat
        BY <1>1, <1>2, <1>6, <3>2, BoxType
      <4>2. CASE Waits(t)
        <5>1. at \in 1 .. Len(box'[t]) /\ box'[t][at].from = s /\ at <= Len(box'[t])
          BY <1>2, <1>3, <3>2, <4>1, <4>2
        <5> QED
          BY <4>1, <5>1 DEF StillJoins, Started
      <4>3. CASE ~Waits(t)
        BY <1>2, <3>2, <4>1, <4>3 DEF StillJoins, Started
      <4> QED
        BY <4>2, <4>3
    <3>3. ConnectionOk(s)'
      BY <1>8, <3>1, <3>2 DEF ConnectionOk, Joins, StillJoins, Started, Waits, Follows
    <3> QED
      BY <2>2, <3>3
  <2> QED
    BY <2>1, <2>2
<1>17. ASSUME NEW x \in Server PROVE MessagesOk(x)' /\ QuestionsOk(x)'
  <2>1. \A j, m : Has(box', x, j, m) => Has(box, x, j, m)
    BY <1>2, <1>3
  <2>2. MessagesOk(x)'
    BY <1>10, <2>1, MessagesKept
  <2>3. QuestionsOk(x)'
    BY <1>3, <1>10, <1>15, QuestionsKept
  <2> QED
    BY <2>2, <2>3
<1>18. ASSUME NEW x \in Server PROVE ListedOk(x)'
  <2>1. CASE x # s
    BY <1>6, <1>10, <2>1, ListedKept
  <2>2. CASE x = s
    <3>1. ASSUME ~Namesake(s)' PROVE Listed(LeaderOf(s), s, ltcp[s])'
      <4>1. Listed(l, s, i)
        BY <1>1, <1>13, <3>1
      <4>2. \E n \in 2 .. Len(lst'[l]) : lst'[l][n] = Entry(id'[s], s, i)
        BY <1>1, <1>6, <1>12, <4>1 DEF Listed
      <4>3. \E n \in 2 .. Len(lst'[LeaderOf(s)']) :
               lst'[LeaderOf(s)'][n] = Entry(id'[s], s, ltcp'[s])
        BY <1>6, <1>12, <4>2
      <4> QED
        BY <4>3 DEF Listed, Entry
    <3>2. ListedOk(s)'
      BY <3>1 DEF ListedOk
    <3> QED
      BY <2>2, <3>2
  <2> QED
    BY <2>1, <2>2
<1>19. Accounted'
  <2>1. spent.rush \in Nat /\ spent.loss \in Nat /\ spent.late \in Nat /\ spent.passed \in Nat
    BY <1>1, BoundAssumption DEF TypeOK
  <2>2. Mishaps' >= Mishaps
    BY <1>3, <2>1 DEF Mishaps
  <2>3. ASSUME NEW x \in Server, x \in (Leading \cup Unanswered)'
        PROVE  x \in Leading \cup Unanswered
    <3>1. x # s
      BY <1>6, <2>3 DEF Leading, Unanswered, Leads, Waits
    <3>2. CASE phase'[x] = "leads"
      BY <1>6, <3>1, <3>2 DEF Leading, Leads
    <3>3. CASE phase'[x] # "leads"
      <4>1. x \in Unanswered' /\ Started(x)
        BY <1>6, <2>3, <3>1, <3>3 DEF Leading, Unanswered, Leads, Waits, Started
      <4>2. \A j, m : Has(box, x, j, m) => Has(box', x, j, m)
        BY <1>2, <1>3, <3>1
      <4> QED
        BY <1>3, <1>10, <4>1, <4>2, StillUnanswered
    <3> QED
      BY <3>2, <3>3
  <2> QED
    BY <1>1, <1>9, <2>2, <2>3, AccountKept DEF Consistent
<1> QED
  BY <1>9, <1>11, <1>14, <1>16, <1>17, <1>18, <1>19, Assembled DEF Consistent

-----------------------------------------------------------------------------
(* The list of a leader that takes in a newcomer with the record e.        *)
Grown(l, e, k) ==
    /\ k \in Seq(Record) /\ Distinct(k) /\ k[1] = l[1]
    /\ Len(l) \in Nat /\ Len(k) \in Nat /\ Len(k) >= Len(l)
    /\ \A n \in 2 .. Len(k) : k[n] = e \/ \E j \in 2 .. Len(l) : k[n] = l[j]
    /\ \A j \in 2 .. Len(l) : \E n \in 2 .. Len(k) : k[n] = l[j]
    /\ server_info_exist(e.id, l) => k = l
    /\ ~server_info_exist(e.id, l) =>
          Len(k) = Len(l) + 1 /\ \E n \in 2 .. Len(k) : k[n] = e
    /\ Above(k, e.id) = {} /\ Len(l) > 1 => k[2] = l[2]

LEMMA NewcomerSorted ==
    ASSUME NEW l \in Seq(Record), Distinct(l), Len(l) > 0, NEW e \in Record,
           NEW k, k = append_server_sorted(l, e)
    PROVE  Grown(l, e, k)
<1>1. /\ k \in Seq(Record)
      /\ server_info_exist(e.id, l) => k = l
      /\ ~server_info_exist(e.id, l) => \E n \in 2 .. Len(k) : Inserted(l, e, n, k)
  BY SortedIn
<1>2. Len(l) \in Nat /\ Len(k) \in Nat
  BY <1>1
<1>3. CASE server_info_exist(e.id, l)
  BY <1>1, <1>2, <1>3 DEF Grown
<1>4. CASE ~server_info_exist(e.id, l)
  <2>1. PICK n \in 2 .. Len(k) : Inserted(l, e, n, k)
    BY <1>1, <1>4
  <2>2. /\ Len(k) = Len(l) + 1 /\ k[1] = l[1] /\ k[n] = e
        /\ (\A j \in 2 .. Len(k) : j = n \/ \E i \in 2 .. Len(l) : k[j] = l[i])
        /\ (\A i \in 2 .. Len(l) : \E j \in 2 .. Len(k) : j # n /\ k[j] = l[i])
        /\ Distinct(k)
    <3>1. Among(l, e, n, k)
      BY <1>1, <2>1, InsertedAmong
    <3> QED
      BY <1>4, <3>1 DEF Among
  <2>3. ASSUME Above(k, e.id) = {}, Len(l) > 1
        PROVE  k[2] = l[2]
    <3>1. ASSUME NEW i \in Above(l, e.id) PROVE FALSE
      <4>1. i \in 2 .. Len(l) /\ l[i].id > e.id
        BY DEF Above
      <4>2. PICK j \in 2 .. Len(k) : k[j] = l[i]
        BY <2>2, <4>1
      <4>3. j \in Above(k, e.id)
        BY <4>1, <4>2 DEF Above
      <4> QED
        BY <2>3, <4>3
    <3>2. k = Append(l, e)
      <4>1. Above(l, e.id) = {}
        BY <3>1
      <4> QED
        BY <1>4, <4>1 DEF append_server_sorted
    <3>3. 2 \in 1 .. Len(l)
      BY <1>2, <2>3
    <3> QED
      BY <3>2, <3>3, AppendProperties
  <2>4. Len(k) >= Len(l)
    BY <1>2, <2>2
  <2> QED
    BY <1>1, <1>2, <1>4, <2>2, <2>3, <2>4 DEF Grown
<1> QED
  BY <1>3, <1>4

(* The successor is a peer, with a greater ID or else the first one.       *)
LEMMA SuccessorIs ==
    ASSUME NEW k \in Seq(Record), Len(k) > 1, NEW i \in Nat
    PROVE  /\ get_successor(i, k) \in 2 .. Len(k)
           /\ Above(k, i) = {} => get_successor(i, k) = 2
           /\ Above(k, i) # {} => k[get_successor(i, k)].id > i
<1>1. CASE Above(k, i) = {}
  BY <1>1 DEF get_successor
<1>2. CASE Above(k, i) # {}
  <2>1. Above(k, i) \in SUBSET Nat /\ Above(k, i) \subseteq 2 .. Len(k)
    BY DEF Above
  <2>2. Min(Above(k, i)) \in Above(k, i)
    BY <1>2, <2>1, LeastExists
  <2>3. get_successor(i, k) \in Above(k, i)
    BY <1>2, <2>2 DEF get_successor
  <2> QED
    BY <1>2, <2>3 DEF Above
<1> QED
  BY <1>1, <1>2

(* The predecessor of a peer is another peer if there are two.             *)
LEMMA PredecessorIs ==
    ASSUME NEW k \in Seq(Record), Len(k) > 2, NEW i \in Nat, At(k, i) # {}
    PROVE  /\ PredecessorInRing(i, k) \in 2 .. Len(k)
           /\ \E n \in 2 .. Len(k) : n # PredecessorInRing(i, k) /\ k[n].id = i
<1> DEFINE n == Min(At(k, i))
<1>1. n \in 2 .. Len(k) /\ k[n].id = i
  <2>1. At(k, i) \in SUBSET Nat
    BY DEF At
  <2>2. n \in At(k, i)
    BY <2>1, LeastExists
  <2> QED
    BY <2>2 DEF At
<1>2. PredecessorInRing(i, k) = IF n - 1 = 1 THEN Len(k) ELSE n - 1
  BY DEF PredecessorInRing, get_predecessor, get_last_server
<1> HIDE DEF n
<1>3. Len(k) \in Nat
  OBVIOUS
<1>4. PredecessorInRing(i, k) \in 2 .. Len(k) /\ PredecessorInRing(i, k) # n
  BY <1>1, <1>2, <1>3
<1> QED
  BY <1>1, <1>4

(* A leader l takes in s: k is its list then, t the successor it names,    *)
(* and c the connections once s has been answered, at the place at.        *)
Welcomed(l, s, at, k, t, c) ==
    /\ Leads(l) /\ s \in mc[l] /\ s # l /\ Started(s) /\ Started(l)
    /\ id[s] \in Id /\ id[l] \in Id
    /\ lst[l] \in Seq(Record) /\ Distinct(lst[l]) /\ lst[l][1] = Entry(id[l], l, 0)
    /\ at \in Nat /\ Entry(id[s], s, at) \in Record
    /\ Grown(lst[l], Entry(id[s], s, at), k)
    /\ \A n \in 1 .. Len(k) :
          /\ k[n] \in Record /\ k[n].who \in Server /\ k[n].at \in Nat
          /\ Started(k[n].who) /\ k[n].id = id[k[n].who]
    /\ t \in Server \cup {Nobody}
    /\ Len(lst[l]) # 1 => t \in Server
    /\ t = IF Len(lst[l]) = 1 THEN Nobody ELSE k[get_successor(id[s], k)].who
    /\ c \in Boxes /\ More(box, c)
    /\ \A x \in Server : x # s \/ ~Waits(s) => c[x] = box[x]
    /\ \A x \in Server : \A i, m : Has(box, x, i, m) => Has(c, x, i, m)
    /\ \A x \in Server : \A i, m : Has(c, x, i, m) =>
          Has(box, x, i, m) \/ (x = s /\ i = at /\ m = Answer(t) /\ Waits(s))
    /\ ~Waits(s) => at = 0
    /\ Waits(s) => at \in 1 .. Len(c[s]) /\ c[s][at].from = l /\ Has(c, s, at, Answer(t))
    /\ k = append_server_sorted(lst[l], Entry(id[s], s, at))
    /\ \E b : /\ b = Connected(box, l, s) /\ at = PlaceAt(b, s)
              /\ c = Sent(b, s, at, Answer(t))

Takes(l, s, k, c) ==
    /\ mc' = [mc EXCEPT ![l] = @ \ {s}]
    /\ lst' = [lst EXCEPT ![l] = k]
    /\ LET dies == At(k, id[s]) = {} /\ Len(k) # 2
           p == Predecessor(id[s], k)
       IN /\ phase' = IF dies THEN [phase EXCEPT ![l] = "down"] ELSE phase
          /\ box' = IF ~dies /\ Len(k) > 2 THEN Sent(c, p.who, p.at, Update(s)) ELSE c
    /\ UNCHANGED <<id, attempt, taken, ltcp, succ, spent>>

LEMMA NewcomerTaken ==
    ASSUME IInv, Alive, NEW l \in Server, NEW s \in mc[l], Leads(l), RecvDiscovery(l, s)
    PROVE  \E at, k, t, c : Welcomed(l, s, at, k, t, c) /\ Takes(l, s, k, c)
<1>1. TypeOK /\ Consistent /\ box \in Boxes /\ s \in Server
  BY NothingMore DEF IInv, TypeOK
<1>2. /\ s # l /\ Started(s) /\ Started(l) /\ id[s] \in Id /\ id[l] \in Id
      /\ lst[l] \in Seq(Record) /\ Distinct(lst[l]) /\ lst[l][1] = Entry(id[l], l, 0)
      /\ Len(lst[l]) \in Nat /\ Len(lst[l]) > 0
      /\ \A n \in 1 .. Len(lst[l]) :
            /\ lst[l][n] \in Record /\ lst[l][n].who \in Server /\ lst[l][n].at \in Nat
            /\ Started(lst[l][n].who) /\ lst[l][n].id = id[lst[l][n].who]
  <2>1. ListOk(l) /\ ListOk(s) /\ QuestionsOk(l) /\ Started(l)
    BY <1>1 DEF Consistent, Started, Leads
  <2>2. s # l /\ Started(s)
    BY <2>1 DEF QuestionsOk
  <2>3. /\ lst[l] \in Seq(Record) /\ Len(lst[l]) \in Nat /\ DOMAIN lst[l] = 1 .. Len(lst[l])
        /\ \A n \in 1 .. Len(lst[l]) : /\ lst[l][n] \in Record
                                       /\ lst[l][n].who \in Server /\ lst[l][n].at \in Nat
    BY <1>1, ListType
  <2> QED
    BY <2>1, <2>2, <2>3 DEF ListOk
<1>3. PICK b : b = Connected(box, l, s)
  OBVIOUS
<1>4. PICK at : at = PlaceAt(b, s)
  OBVIOUS
<1>5. /\ b \in Boxes /\ More(box, b) /\ at \in Nat
      /\ \A x \in Server : ~(Waits(s) /\ x = s) => b[x] = box[x]
      /\ \A x \in Server : \A i, m : Has(b, x, i, m) <=> Has(box, x, i, m)
      /\ ~Waits(s) => at = 0
      /\ Waits(s) => at \in 1 .. Len(b[s]) /\ at > 0 /\ b[s][at].from = l
  <2>1. MoreConnections(box, l, s, b)
    BY <1>1, <1>3, ConnectedAdds
  <2>2. /\ b \in Boxes /\ More(box, b) /\ at \in Nat
        /\ \A x \in Server : ~(Waits(s) /\ x = s) => b[x] = box[x]
        /\ \A x \in Server : \A i, m : Has(b, x, i, m) <=> Has(box, x, i, m)
        /\ ~Waits(s) => at = 0
        /\ Waits(s) => /\ at = Len(b[s]) /\ Len(b[s]) \in Nat \ {0}
                       /\ b[s][Len(b[s])].from = l
    BY <1>1, <1>4, <2>1 DEF MoreConnections
  <2> QED
    BY <2>2
<1> DEFINE e == Entry(id[s], s, at)
<1>6. e \in Record /\ e.id = id[s] /\ e.who = s /\ e.at = at
  BY <1>1, <1>2, <1>5 DEF Entry, Record
<1> HIDE DEF e
<1>7. PICK k : k = append_server_sorted(lst[l], e)
  OBVIOUS
<1>8. Grown(lst[l], e, k)
  BY <1>2, <1>6, <1>7, NewcomerSorted
<1>9. ASSUME NEW n \in 1 .. Len(k)
      PROVE  /\ k[n] \in Record /\ k[n].who \in Server /\ k[n].at \in Nat
             /\ Started(k[n].who) /\ k[n].id = id[k[n].who]
  <2>1. Len(k) \in Nat /\ Len(lst[l]) \in Nat /\ k[1] = lst[l][1]
    BY <1>8 DEF Grown
  <2>2. CASE n = 1
    <3>1. 1 \in 1 .. Len(lst[l])
      BY <1>2
    <3> QED
      BY <1>2, <2>1, <2>2, <3>1
  <2>3. CASE n # 1
    <3>1. n \in 2 .. Len(k)
      BY <2>1, <2>3
    <3>2. k[n] = e \/ \E j \in 2 .. Len(lst[l]) : k[n] = lst[l][j]
      BY <1>8, <3>1 DEF Grown
    <3>3. CASE k[n] = e
      BY <1>1, <1>2, <1>5, <1>6, <3>3
    <3>4. ASSUME NEW j \in 2 .. Len(lst[l]), k[n] = lst[l][j]
          PROVE  /\ k[n] \in Record /\ k[n].who \in Server /\ k[n].at \in Nat
                 /\ Started(k[n].who) /\ k[n].id = id[k[n].who]
      <4>1. j \in 1 .. Len(lst[l])
        BY <2>1
      <4> QED
        BY <1>2, <3>4, <4>1
    <3> QED
      BY <3>2, <3>3, <3>4
  <2> QED
    BY <2>2, <2>3
<1>10. PICK t : t = IF Len(lst[l]) = 1 THEN Nobody ELSE k[get_successor(id[s], k)].who
  OBVIOUS
<1>11. t \in Server \cup {Nobody} /\ (Len(lst[l]) # 1 => t \in Server)
  <2>1. CASE Len(lst[l]) = 1
    BY <1>10, <2>1
  <2>2. CASE Len(lst[l]) # 1
    <3>1. k \in Seq(Record) /\ Len(k) \in Nat /\ Len(k) > 1 /\ id[s] \in Nat
      <4>1. k \in Seq(Record) /\ Len(k) \in Nat /\ Len(k) >= Len(lst[l])
        BY <1>8 DEF Grown
      <4>2. \A i, j \in Nat : i > 0 /\ i # 1 /\ j >= i => j > 1
        OBVIOUS
      <4>3. Len(k) > 1
        BY <1>2, <2>2, <4>1, <4>2
      <4> QED
        BY <1>2, <4>1, <4>3, IdAssumption
    <3>2. get_successor(id[s], k) \in 2 .. Len(k)
      BY <3>1, SuccessorIs
    <3>3. get_successor(id[s], k) \in 1 .. Len(k)
      BY <3>1, <3>2
    <3> QED
      BY <1>9, <1>10, <2>2, <3>3
  <2> QED
    BY <2>1, <2>2
<1>12. PICK c : c = Sent(b, s, at, Answer(t))
  OBVIOUS
<1>13. /\ c \in Boxes /\ More(b, c)
       /\ \A x \in Server : Len(c[x]) = Len(b[x])
       /\ \A x \in Server : ~(Reading(s, at) /\ x = s) => c[x] = b[x]
       /\ \A x, i, m : Has(b, x, i, m) /\ x \in Server => Has(c, x, i, m)
       /\ \A x, i, m : Has(c, x, i, m) /\ x \in Server =>
             Has(b, x, i, m) \/ (x = s /\ i = at /\ m = Answer(t) /\ Reading(s, at))
       /\ Reading(s, at) => Has(c, s, at, Answer(t))
  <2>1. Answer(t) \in Message
    BY <1>11, Kinds
  <2>2. Reading(s, at) => at <= Len(b[s])
    BY <1>5 DEF Reading
  <2>3. SentOn(b, s, at, Answer(t), c)
    BY <1>1, <1>5, <1>12, <2>1, <2>2, SentAdds
  <2> QED
    BY <2>3 DEF SentOn
<1>14. Reading(s, at) <=> Waits(s)
  BY <1>5 DEF Reading
<1>15. /\ c \in Boxes /\ More(box, c)
       /\ \A x \in Server : x # s \/ ~Waits(s) => c[x] = box[x]
       /\ \A x \in Server : \A i, m : Has(box, x, i, m) => Has(c, x, i, m)
       /\ \A x \in Server : \A i, m : Has(c, x, i, m) =>
             Has(box, x, i, m) \/ (x = s /\ i = at /\ m = Answer(t) /\ Waits(s))
       /\ Waits(s) => at \in 1 .. Len(c[s]) /\ c[s][at].from = l /\ Has(c, s, at, Answer(t))
  <2>1. More(box, c)
    BY <1>5, <1>13, MoreAndMore
  <2>2. Waits(s) => at \in 1 .. Len(c[s]) /\ c[s][at].from = l
    BY <1>1, <1>5, <1>13 DEF More
  <2> QED
    BY <1>5, <1>13, <1>14, <2>1, <2>2
<1>16. Takes(l, s, k, c)
  <2>1. Leads(l) /\ new_server(l, s) /\ mc' = [mc EXCEPT ![l] = @ \ {s}]
        /\ UNCHANGED <<id, attempt, taken, ltcp, succ, spent>>
    BY DEF RecvDiscovery, Leads, Follows
  <2>2. k = append_server_sorted(lst[l], Entry(id[s], s, at))
    BY <1>7 DEF e
  <2> QED
    BY ONLY <1>3, <1>4, <1>10, <1>12, <2>1, <2>2 DEF new_server, Takes
<1>17. Welcomed(l, s, at, k, t, c)
  <2>1. Grown(lst[l], Entry(id[s], s, at), k) /\ Entry(id[s], s, at) \in Record
    BY <1>6, <1>8 DEF e
  <2>2. /\ k = append_server_sorted(lst[l], Entry(id[s], s, at))
        /\ \E x : /\ x = Connected(box, l, s) /\ at = PlaceAt(x, s)
                  /\ c = Sent(x, s, at, Answer(t))
    BY <1>3, <1>4, <1>7, <1>12 DEF e
  <2> QED
    BY <1>2, <1>5, <1>9, <1>10, <1>11, <1>15, <2>1, <2>2 DEF Welcomed
<1> QED
  BY <1>16, <1>17

(* What a leader can tell of the IDs that it lists, and of the newcomer's. *)
LEMMA NewcomerDistinct ==
    ASSUME TypeOK, Consistent, NEW l \in Server, NEW s \in Server, NEW at, NEW k, NEW t, NEW c,
           Welcomed(l, s, at, k, t, c)
    PROVE  /\ \A n \in 2 .. Len(k) : k[n].id # id[l]
           /\ \A n \in 2 .. Len(k) : k[n].id # id[s] => k[n].who # s
           /\ At(k, id[s]) = {} /\ Len(k) # 2 => Namesake(l)
           /\ At(k, id[s]) # {} => id[s] # id[l]
           /\ Len(lst[l]) = 1 /\ Len(k) = 2 => id[s] # id[l]
<1>1. /\ s # l /\ id[s] \in Id /\ id[l] \in Id
      /\ lst[l] \in Seq(Record) /\ lst[l][1] = Entry(id[l], l, 0)
      /\ Grown(lst[l], Entry(id[s], s, at), k)
      /\ \A n \in 1 .. Len(k) : k[n].id = id[k[n].who]
  BY DEF Welcomed
<1>2. Entry(id[s], s, at).id = id[s] /\ Entry(id[l], l, 0).id = id[l]
  BY DEF Entry
<1>3. /\ k \in Seq(Record) /\ Distinct(k) /\ k[1].id = id[l]
      /\ Len(lst[l]) \in Nat /\ Len(k) \in Nat /\ Len(k) >= Len(lst[l])
      /\ server_info_exist(id[s], lst[l]) => k = lst[l]
      /\ ~server_info_exist(id[s], lst[l]) =>
            \E n \in 2 .. Len(k) : k[n] = Entry(id[s], s, at)
  BY <1>1, <1>2 DEF Grown
<1>4. \A n \in 2 .. Len(k) : k[n].id # id[l]
  <2> TAKE n \in 2 .. Len(k)
  <2>1. 1 \in DOMAIN k /\ n \in DOMAIN k /\ n # 1
    BY <1>3
  <2> QED
    BY <1>3, <2>1 DEF Distinct
<1>5. \A n \in 2 .. Len(k) : k[n].id # id[s] => k[n].who # s
  <2>1. \A n \in 2 .. Len(k) : n \in 1 .. Len(k)
    BY <1>3
  <2> QED
    BY <1>1, <2>1
<1>6. server_info_exist(id[s], lst[l]) =>
         \E n \in 1 .. Len(k) : k[n].id = id[s]
  BY <1>3 DEF server_info_exist
<1>7. ASSUME At(k, id[s]) = {}
      PROVE  id[s] = id[l] /\ k = lst[l]
  <2>1. server_info_exist(id[s], lst[l])
    BY <1>2, <1>3, <1>7 DEF At
  <2>2. PICK n \in 1 .. Len(k) : k[n].id = id[s]
    BY <1>6, <2>1
  <2>3. n = 1
    BY <1>3, <1>7, <2>2 DEF At
  <2> QED
    BY <1>3, <2>1, <2>2, <2>3
<1>8. At(k, id[s]) = {} => Namesake(l)
  BY <1>1, <1>7, IdAssumption DEF Namesake
<1>9. ASSUME At(k, id[s]) # {} PROVE id[s] # id[l]
  BY <1>4, <1>9 DEF At
<1>10. ASSUME Len(lst[l]) = 1, Len(k) = 2, id[s] = id[l] PROVE FALSE
  <2>1. 1 \in 1 .. Len(lst[l])
    BY <1>10
  <2>2. lst[l][1].id = id[s]
    BY <1>1, <1>2, <1>10
  <2>3. server_info_exist(id[s], lst[l])
    BY <2>1, <2>2 DEF server_info_exist
  <2>4. k = lst[l]
    BY <1>3, <2>3
  <2> QED
    BY <1>10, <2>4
<1> QED
  BY <1>4, <1>5, <1>8, <1>9, <1>10

(* The answer names a successor that the newcomer can list.                *)
LEMMA AnswerRight ==
    ASSUME TypeOK, Consistent, NEW l \in Server, NEW s \in Server, NEW at, NEW k, NEW t, NEW c,
           Welcomed(l, s, at, k, t, c), Waits(s), At(k, id[s]) # {} \/ Len(k) = 2
    PROVE  /\ t # Nobody => t # s /\ Started(t) /\ id[t] # id[l]
           /\ t = Nobody => id[l] # id[s]
           /\ ~Namesake(s) => \E n \in 2 .. Len(k) : k[n] = Entry(id[s], s, at)
<1>1. /\ s # l /\ id[s] \in Id /\ s \in mc[l] /\ Leads(l)
      /\ lst[l][1] = Entry(id[l], l, 0)
      /\ Grown(lst[l], Entry(id[s], s, at), k)
      /\ \A n \in 1 .. Len(k) : /\ k[n].who \in Server /\ Started(k[n].who)
                                /\ k[n] \in Record /\ k[n].id = id[k[n].who]
      /\ t = IF Len(lst[l]) = 1 THEN Nobody ELSE k[get_successor(id[s], k)].who
  BY DEF Welcomed
<1>2. /\ \A n \in 2 .. Len(k) : k[n].id # id[l]
      /\ \A n \in 2 .. Len(k) : k[n].id # id[s] => k[n].who # s
      /\ t = Nobody => id[s] # id[l]
  <2>1. Len(lst[l]) = 1 \/ t # Nobody
    BY ServerAssumption DEF Welcomed
  <2> QED
    BY <2>1, NewcomerDistinct
<1>3. Entry(id[s], s, at).id = id[s]
  BY DEF Entry
<1>4. /\ k \in Seq(Record) /\ Len(lst[l]) \in Nat /\ Len(k) \in Nat
      /\ Len(k) >= Len(lst[l])
      /\ server_info_exist(id[s], lst[l]) => k = lst[l]
      /\ ~server_info_exist(id[s], lst[l]) =>
            \E n \in 2 .. Len(k) : k[n] = Entry(id[s], s, at)
      /\ Above(k, id[s]) = {} /\ Len(lst[l]) > 1 => k[2] = lst[l][2]
  BY <1>1, <1>3 DEF Grown
<1>5. \A n \in 2 .. Len(lst[l]) : lst[l][n].who # s
  BY <1>1 DEF Consistent, QuestionsOk
<1>6. Len(lst[l]) > 0
  BY <1>1 DEF Consistent, ListOk, Started, Leads
<1>7. ASSUME t # Nobody PROVE t # s /\ Started(t) /\ id[t] # id[l]
  <2> DEFINE n == get_successor(id[s], k)
  <2>1. Len(lst[l]) # 1 /\ t = k[n].who
    BY <1>1, <1>7
  <2>2. Len(lst[l]) > 1 /\ Len(k) > 1
    <3>1. \A i, j \in Nat : i > 0 /\ i # 1 /\ j >= i => i > 1 /\ j > 1
      OBVIOUS
    <3> QED
      BY <1>4, <1>6, <2>1, <3>1
  <2>3. /\ n \in 2 .. Len(k)
        /\ Above(k, id[s]) = {} => n = 2
        /\ Above(k, id[s]) # {} => k[n].id > id[s]
    BY <1>1, <1>4, <2>2, IdAssumption, SuccessorIs
  <2> HIDE DEF n
  <2>4. n \in 1 .. Len(k) /\ k[n].id = id[t] /\ Started(t)
    BY <1>1, <1>4, <2>1, <2>3
  <2>5. id[t] # id[l]
    BY <1>2, <2>3, <2>4
  <2>6. CASE Above(k, id[s]) = {}
    <3>1. k[2] = lst[l][2] /\ 2 \in 2 .. Len(lst[l])
      BY <1>4, <2>2, <2>6
    <3> QED
      BY <1>5, <2>1, <2>3, <2>4, <2>5, <2>6, <3>1
  <2>7. CASE Above(k, id[s]) # {}
    <3>1. k[n].id # id[s]
      <4>1. id[s] \in Nat
        BY <1>1, IdAssumption
      <4> QED
        BY <2>3, <2>7, <4>1
    <3> QED
      BY <1>2, <2>1, <2>3, <2>4, <2>5, <3>1
  <2> QED
    BY <2>6, <2>7
<1>8. ASSUME ~Namesake(s) PROVE \E n \in 2 .. Len(k) : k[n] = Entry(id[s], s, at)
  <2>1. ASSUME server_info_exist(id[s], lst[l]) PROVE FALSE
    <3>1. PICK n \in 1 .. Len(lst[l]) : lst[l][n].id = id[s]
      BY <2>1 DEF server_info_exist
    <3>2. lst[l][n].who \in Server /\ id[lst[l][n].who] = id[s]
      BY <1>1, <1>4, <2>1, <3>1
    <3>3. lst[l][n].who = s
      BY <1>1, <1>8, <3>2, IdAssumption DEF Namesake
    <3>4. n = 1
      BY <1>4, <1>5, <3>3
    <3> QED
      BY <1>1, <3>3, <3>4 DEF Entry
  <2> QED
    BY <1>4, <2>1
<1> QED
  BY <1>2, <1>7, <1>8

(* The predecessor that is told is somebody else whom the leader listed.   *)
Told(l, s, p) == p.who # s /\ \E j \in 2 .. Len(lst[l]) : p = lst[l][j]

LEMMA OrderRight ==
    ASSUME TypeOK, Consistent, NEW l \in Server, NEW s \in Server, NEW at, NEW k, NEW t, NEW c,
           Welcomed(l, s, at, k, t, c), At(k, id[s]) # {}, Len(k) > 2
    PROVE  Told(l, s, Predecessor(id[s], k))
<1>1. /\ id[s] \in Id /\ Grown(lst[l], Entry(id[s], s, at), k)
      /\ \A n \in 1 .. Len(k) : k[n].id = id[k[n].who]
  BY DEF Welcomed
<1>2. /\ k \in Seq(Record) /\ Distinct(k)
      /\ \A n \in 2 .. Len(k) : \/ k[n] = Entry(id[s], s, at)
                                \/ \E j \in 2 .. Len(lst[l]) : k[n] = lst[l][j]
  BY <1>1 DEF Grown
<1>3. id[s] \in Nat
  BY <1>1, IdAssumption
<1> DEFINE a == PredecessorInRing(id[s], k)
<1>4. a \in 2 .. Len(k) /\ \E n \in 2 .. Len(k) : n # a /\ k[n].id = id[s]
  BY <1>2, <1>3, PredecessorIs
<1>5. Predecessor(id[s], k) = k[a]
  BY DEF Predecessor
<1> HIDE DEF a
<1>6. PICK n \in 2 .. Len(k) : n # a /\ k[n].id = id[s]
  BY <1>4
<1>7. a \in DOMAIN k /\ n \in DOMAIN k /\ a \in 1 .. Len(k)
  BY <1>2, <1>4
<1>8. k[a].id # id[s]
  BY <1>2, <1>6, <1>7 DEF Distinct
<1>9. k[a].who # s
  BY <1>1, <1>7, <1>8
<1>10. k[a] # Entry(id[s], s, at)
  BY <1>8 DEF Entry
<1> QED
  BY <1>2, <1>4, <1>5, <1>9, <1>10 DEF Told

(* The types of what a leader changes that takes in a newcomer.            *)
LEMMA TakenType ==
    ASSUME TypeOK, NEW l \in Server, NEW s \in Server, NEW k \in Seq(Record), Leads(l),
           lst' = [lst EXCEPT ![l] = k], mc' = [mc EXCEPT ![l] = @ \ {s}],
           box' \in Boxes, More(box, box'),
           phase' = phase \/ phase' = [phase EXCEPT ![l] = "down"],
           UNCHANGED <<id, attempt, taken, ltcp, succ, spent>>
    PROVE  TypeOK'
<1>1. lst' \in [Server -> Seq(Record)] /\ mc' \in [Server -> SUBSET Server]
      /\ phase' \in [Server -> {"off", "waits", "leads", "follows", "down"}]
  BY DEF TypeOK, Record
<1>2. ASSUME NEW x \in Server PROVE taken'[x] <= Len(box'[x])
  <2>1. Len(box'[x]) \in Nat /\ Len(box[x]) \in Nat /\ Len(box[x]) <= Len(box'[x])
    BY NothingMore, MoreGrows
  <2>2. taken'[x] = taken[x] /\ taken[x] \in Nat /\ taken[x] <= Len(box[x])
    BY DEF TypeOK
  <2> QED
    BY <2>1, <2>2
<1>3. ASSUME NEW x \in Server, phase'[x] = "follows" PROVE Len(lst'[x]) > 1
  <2>1. Follows(x) /\ x # l
    BY <1>3 DEF TypeOK, Follows, Leads
  <2> QED
    BY <2>1 DEF TypeOK
<1> QED
  BY <1>1, <1>2, <1>3 DEF TypeOK, Follows, Record, Boxes, Connection

(* A leader that takes in a namesake dies.                                 *)
LEMMA NewcomerKills ==
    ASSUME IInv, Alive, NEW l \in Server, NEW s \in Server, NEW at, NEW k, NEW t, NEW c,
           Welcomed(l, s, at, k, t, c), Takes(l, s, k, c),
           At(k, id[s]) = {} /\ Len(k) # 2
    PROVE  IInv'
<1>1. TypeOK /\ Consistent
  BY DEF IInv
<1>2. Namesake(l)
  BY <1>1, NewcomerDistinct
<1>3. /\ phase' = [phase EXCEPT ![l] = "down"] /\ box' = c
      /\ lst' = [lst EXCEPT ![l] = k] /\ mc' = [mc EXCEPT ![l] = @ \ {s}]
      /\ UNCHANGED <<id, attempt, taken, ltcp, succ, spent>>
  BY DEF Takes
<1>4. k \in Seq(Record) /\ c \in Boxes /\ More(box, c) /\ Leads(l)
  BY DEF Welcomed, Grown
<1>5. TypeOK'
  BY <1>1, <1>3, <1>4, TakenType
<1> QED
  BY <1>2, <1>3, <1>5, Dies

(* Otherwise the newcomer has its answer, and its predecessor the order.   *)
LEMMA NewcomerKept ==
    ASSUME IInv, Alive, NEW l \in Server, NEW s \in Server, NEW at, NEW k, NEW t, NEW c,
           Welcomed(l, s, at, k, t, c), Takes(l, s, k, c),
           ~(At(k, id[s]) = {} /\ Len(k) # 2)
    PROVE  IInv'
<1>1. TypeOK /\ Consistent /\ box \in Boxes
  BY NothingMore DEF IInv
<1>2. /\ Leads(l) /\ s \in mc[l] /\ s # l /\ Started(s) /\ Started(l) /\ id[s] \in Id
      /\ lst[l] \in Seq(Record) /\ lst[l][1] = Entry(id[l], l, 0)
      /\ at \in Nat /\ Grown(lst[l], Entry(id[s], s, at), k)
      /\ (\A n \in 1 .. Len(k) :
             /\ k[n] \in Record /\ k[n].who \in Server /\ k[n].at \in Nat
             /\ Started(k[n].who) /\ k[n].id = id[k[n].who])
      /\ t \in Server \cup {Nobody}
  BY DEF Welcomed
<1>3. /\ c \in Boxes /\ More(box, c)
      /\ (\A x \in Server : x # s \/ ~Waits(s) => c[x] = box[x])
      /\ (\A x \in Server : \A i, m : Has(box, x, i, m) => Has(c, x, i, m))
      /\ (\A x \in Server : \A i, m : Has(c, x, i, m) =>
             Has(box, x, i, m) \/ (x = s /\ i = at /\ m = Answer(t) /\ Waits(s)))
      /\ (~Waits(s) => at = 0)
      /\ (Waits(s) => at \in 1 .. Len(c[s]) /\ c[s][at].from = l /\ Has(c, s, at, Answer(t)))
  BY DEF Welcomed
<1>4. /\ k \in Seq(Record) /\ Distinct(k) /\ k[1] = lst[l][1]
      /\ Len(lst[l]) \in Nat /\ Len(k) \in Nat /\ Len(k) >= Len(lst[l])
      /\ (\A n \in 2 .. Len(k) : \/ k[n] = Entry(id[s], s, at)
                                 \/ \E j \in 2 .. Len(lst[l]) : k[n] = lst[l][j])
      /\ (\A j \in 2 .. Len(lst[l]) : \E n \in 2 .. Len(k) : k[n] = lst[l][j])
  BY <1>2 DEF Grown
<1>5. /\ mc' = [mc EXCEPT ![l] = @ \ {s}] /\ lst' = [lst EXCEPT ![l] = k]
      /\ UNCHANGED <<phase, id, attempt, taken, ltcp, succ, spent>>
      /\ box' = IF Len(k) > 2
                THEN Sent(c, Predecessor(id[s], k).who, Predecessor(id[s], k).at, Update(s))
                ELSE c
  BY DEF Takes
<1>6. /\ box' \in Boxes /\ More(c, box')
      /\ \A x \in Server : ~Started(x) => box'[x] = c[x]
      /\ \A x \in Server : \A i, m : Has(c, x, i, m) => Has(box', x, i, m)
      /\ \A x \in Server : \A i, m : Has(box', x, i, m) =>
            \/ Has(c, x, i, m)
            \/ m = Update(s) /\ x # s /\ id[s] # id[l] /\ box'[x][i].from = l
  <2>1. CASE ~(Len(k) > 2)
    <3>1. box' = c
      BY <1>5, <2>1
    <3> QED
      BY <1>3, <3>1 DEF More
  <2>2. CASE Len(k) > 2
    <3>1. At(k, id[s]) # {}
      <4>1. \A i \in Nat : i > 2 => i # 2
        OBVIOUS
      <4>2. Len(k) # 2
        BY <1>4, <2>2, <4>1
      <4> QED
        BY <4>2
    <3>2. id[s] # id[l]
      BY <1>1, <3>1, NewcomerDistinct
    <3>3. PICK j \in 2 .. Len(lst[l]) : /\ Predecessor(id[s], k) = lst[l][j]
                                         /\ lst[l][j].who # s
      <4>1. Told(l, s, Predecessor(id[s], k))
        BY <1>1, <2>2, <3>1, OrderRight
      <4>2. PICK j \in 2 .. Len(lst[l]) : Predecessor(id[s], k) = lst[l][j]
        BY <4>1 DEF Told
      <4>3. lst[l][j].who # s
        BY <4>1, <4>2 DEF Told
      <4> QED
        BY <4>2, <4>3
    <3>4. PICK p \in Server, a \in Nat : p = lst[l][j].who /\ a = lst[l][j].at
      <4>1. j \in 1 .. Len(lst[l])
        BY <1>4
      <4> QED
        BY <1>1, <4>1, ListType
    <3>5. p # s /\ Joins(l, p, a)
      BY <1>1, <1>2, <3>3, <3>4 DEF Consistent, ConnectionOk
    <3>6. Reading(p, a) => a \in 1 .. Len(box[p]) /\ box[p][a].from = l
      BY <1>1, <3>5, BoxType DEF Joins, Reading
    <3>7. Reading(p, a) => a \in 1 .. Len(c[p]) /\ c[p][a].from = l /\ a <= Len(c[p])
      BY <1>3, <3>6 DEF More
    <3>8. box' = Sent(c, p, a, Update(s)) /\ Update(s) \in Message
      BY <1>5, <2>2, <3>3, <3>4, Kinds
    <3>9. SentOn(c, p, a, Update(s), box')
      BY <1>3, <3>7, <3>8, SentAdds
    <3>10. /\ box' \in Boxes /\ More(c, box')
           /\ \A x \in Server : ~(Reading(p, a) /\ x = p) => box'[x] = c[x]
           /\ \A x \in Server : \A i, m : Has(c, x, i, m) => Has(box', x, i, m)
           /\ \A x \in Server : \A i, m : Has(box', x, i, m) =>
                 Has(c, x, i, m) \/ (x = p /\ i = a /\ m = Update(s) /\ Reading(p, a))
      BY <3>9 DEF SentOn
    <3>11. Reading(p, a) => box'[p][a].from = l
      BY <3>7, <3>10 DEF More
    <3>12. \A x \in Server : ~Started(x) => box'[x] = c[x]
      BY <3>10 DEF Reading, Started, Waits, Follows
    <3> QED
      BY <3>2, <3>5, <3>10, <3>11, <3>12
  <2> QED
    BY <2>1, <2>2
<1>7. /\ More(box, box')
      /\ \A x \in Server : ~Started(x) => box'[x] = box[x]
      /\ \A x \in Server : \A i, m : Has(box, x, i, m) => Has(box', x, i, m)
      /\ Waits(s) => at \in 1 .. Len(box'[s]) /\ box'[s][at].from = l
                     /\ Has(box', s, at, Answer(t))
  <2>1. More(box, box')
    BY <1>3, <1>6, MoreAndMore
  <2>2. Waits(s) => at \in 1 .. Len(box'[s]) /\ box'[s][at].from = l
                    /\ Has(box', s, at, Answer(t))
    BY <1>3, <1>6 DEF More
  <2>3. \A x \in Server : ~Started(x) => x # s
    BY <1>2
  <2> QED
    BY <1>3, <1>6, <2>1, <2>2, <2>3
<1>8. /\ lst'[l] = k /\ mc'[l] = mc[l] \ {s}
      /\ \A x \in Server \ {l} : lst'[x] = lst[x] /\ mc'[x] = mc[x]
  BY <1>1, <1>5 DEF TypeOK
<1>9. TypeOK' /\ Alive'
  <2>1. Alive'
    BY <1>5 DEF Alive
  <2> QED
    BY <1>1, <1>2, <1>4, <1>5, <1>6, <1>7, <2>1, TakenType
<1>10. ListsOn
  <2> SUFFICES ASSUME NEW x \in Server, NEW y \in Server, NEW p,
                      Leads(x), Waits(y) \/ (Follows(y) /\ LeaderOf(y) = x), Listed(x, y, p)
               PROVE  StillListed(x, y, p)
    BY DEF ListsOn
  <2>1. CASE x # l
    BY <1>5, <1>8, <2>1 DEF StillListed, Listed
  <2>2. CASE x = l
    <3>1. PICK j \in 2 .. Len(lst[l]) : lst[l][j] = Entry(id[y], y, p)
      BY <2>2 DEF Listed
    <3>2. PICK n \in 2 .. Len(k) : k[n] = lst[l][j]
      BY <1>4
    <3> QED
      BY <1>5, <1>8, <2>2, <3>1, <3>2 DEF StillListed
  <2> QED
    BY <2>1, <2>2
<1>11. GoesOn
  BY <1>1, <1>5, <1>6, <1>7, <1>9, <1>10, Quiet DEF GoesOn
<1>12. ASSUME NEW x \in Server PROVE ListOk(x)'
  <2>1. CASE x # l
    BY <1>5, <1>7, <1>8, <1>11, <2>1, ListKept DEF Started
  <2>2. CASE x = l
    <3>1. ListOk(l) /\ Len(lst[l]) > 0
      BY <1>1, <1>2 DEF Consistent, ListOk
    <3>2. DOMAIN k = 1 .. Len(k) /\ Len(k) > 0
      <4>1. Len(k) > 0
        BY <1>4, <3>1
      <4> QED
        BY <1>4, <4>1
    <3>3. \A n \in DOMAIN k : Started(k[n].who) /\ k[n].id = id[k[n].who]
      BY <1>2, <3>2
    <3>4. id[l] \in Id /\ k[1] = Entry(id[l], l, 0)
      BY <1>2, <1>4, <3>1 DEF ListOk
    <3>5. ListOk(l)'
      BY <1>2, <1>4, <1>5, <1>8, <3>2, <3>3, <3>4 DEF ListOk, Started, Entry
    <3> QED
      BY <2>2, <3>5
  <2> QED
    BY <2>1, <2>2
<1>13. ASSUME NEW x \in Server PROVE RoleOk(x)'
  <2>1. CASE x # l
    BY <1>5, <1>8, <1>11, <2>1, RoleKept
  <2>2. CASE x = l
    BY <1>1, <1>2, <1>5, <2>2 DEF Consistent, RoleOk, Follows, Leads
  <2> QED
    BY <2>1, <2>2
<1>14. \A x \in Server \ {l} : Leads(x)' => Thins(x)
  BY <1>5, <1>8 DEF Thins, Leads
<1>15. ASSUME NEW x \in Server PROVE ConnectionOk(x)'
  <2>1. CASE x # l
    BY <1>5, <1>11, <1>14, <2>1, ConnectionKept
  <2>2. CASE x = l
    <3>1. succ'[l].who = Nobody
      BY <1>1, <1>2, <1>5 DEF Consistent, RoleOk, Follows, Leads
    <3>2. ASSUME NEW n \in 2 .. Len(k) PROVE StillJoins(l, k[n].who, k[n].at)
      <4>1. CASE k[n] = Entry(id[s], s, at)
        <5>1. k[n].who = s /\ k[n].at = at
          BY <4>1 DEF Entry
        <5>2. at > 0 => Waits(s) /\ at <= Len(box'[s]) /\ box'[s][at].from = l
          <6>1. Len(box'[s]) \in Nat
            BY <1>6, BoxType
          <6> QED
            BY <1>3, <1>7, <6>1
        <5> QED
          BY <5>1, <5>2 DEF StillJoins
      <4>2. ASSUME NEW j \in 2 .. Len(lst[l]), k[n] = lst[l][j]
            PROVE  StillJoins(l, k[n].who, k[n].at)
        <5>1. Joins(l, lst[l][j].who, lst[l][j].at)
          BY <1>1, <1>2 DEF Consistent, ConnectionOk
        <5>2. n \in 1 .. Len(k)
          BY <1>4
        <5>3. /\ lst[l][j].who \in Server /\ lst[l][j].at \in Nat
              /\ Started(lst[l][j].who)
          BY <1>2, <4>2, <5>2
        <5> QED
          BY <1>11, <4>2, <5>1, <5>3, JoinsStay
      <4> QED
        BY <1>4, <4>1, <4>2
    <3>3. ConnectionOk(l)'
      BY <1>8, <3>1, <3>2 DEF ConnectionOk, Joins, StillJoins, Waits, Follows
    <3> QED
      BY <2>2, <3>3
  <2> QED
    BY <2>1, <2>2
<1>16. ASSUME NEW x \in Server PROVE MessagesOk(x)'
  <2>1. ASSUME NEW i, x # s, id[s] # id[l], box'[x][i].from = l
        PROVE  Written(x, i, Update(s))'
    <3>1. phase'[l] = "leads" /\ id' = id /\ phase' = phase
      BY <1>2, <1>5 DEF Leads
    <3> QED
      BY <1>2, <2>1, <3>1, Kinds, ServerAssumption DEF Written, Leads, Update, Started
  <2>2. ASSUME x = s, Waits(s)
        PROVE  Written(s, at, Answer(t))'
    <3>1. /\ t # Nobody => t # s /\ Started(t) /\ id[t] # id[l]
          /\ t = Nobody => id[l] # id[s]
          /\ ~Namesake(s) => \E n \in 2 .. Len(k) : k[n] = Entry(id[s], s, at)
      BY <1>1, <2>2, AnswerRight
    <3>2. phase'[l] = "leads" /\ id' = id /\ phase' = phase /\ box'[s][at].from = l
      BY <1>2, <1>5, <1>7, <2>2 DEF Leads
    <3>3. Answer(t).kind = "answer" /\ Answer(t).succ = t
      BY <1>2, Kinds
    <3>4. ~Namesake(s)' => Listed(l, s, at)'
      <4>1. Namesake(s)' <=> Namesake(s)
        BY <3>2 DEF Namesake
      <4> QED
        BY <1>8, <3>1, <3>2, <4>1 DEF Listed, Entry
    <3>5. Leads(l)' /\ (t # Nobody => t # s /\ Started(t)' /\ id'[t] # id'[l])
          /\ (t = Nobody => id'[l] # id'[s])
      BY <3>1, <3>2 DEF Leads, Started
    <3> QED
      BY <3>2, <3>3, <3>4, <3>5 DEF Written, Answer, Leads, Started, Listed, Entry, Waits
  <2>3. \A i, m : Has(box', x, i, m) => Has(box, x, i, m) \/ Written(x, i, m)'
    BY <1>3, <1>6, <2>1, <2>2
  <2> QED
    BY <1>11, <2>3, MessagesKept
<1>17. ASSUME NEW x \in Server PROVE QuestionsOk(x)'
  <2>1. CASE x # l
    BY <1>8, <1>11, <1>14, <2>1, QuestionsKept
  <2>2. CASE x = l
    <3>1. QuestionsOk(l)
      BY <1>1 DEF Consistent
    <3>2. ASSUME NEW y \in mc[l] \ {s}, Waits(y), NEW n \in 2 .. Len(k)
          PROVE  k[n].who # y
      <4>1. CASE k[n] = Entry(id[s], s, at)
        BY <3>2, <4>1 DEF Entry
      <4>2. ASSUME NEW j \in 2 .. Len(lst[l]), k[n] = lst[l][j] PROVE k[n].who # y
        BY <1>2, <3>1, <3>2, <4>2 DEF QuestionsOk
      <4> QED
        BY <1>4, <4>1, <4>2
    <3>3. QuestionsOk(l)'
      BY <1>5, <1>8, <3>1, <3>2 DEF QuestionsOk, Started, Leads, Waits
    <3> QED
      BY <2>2, <3>3
  <2> QED
    BY <2>1, <2>2
<1>18. \A x \in Server : ListedOk(x)'
  BY <1>5, <1>11, ListedKept
<1>19. Accounted'
  <2>1. SameMishaps
    BY <1>5 DEF SameMishaps
  <2>2. ASSUME NEW x \in Server, x \in Unanswered', Started(x)
        PROVE  x \in Unanswered
    <3>1. Waits(x) /\ ~Late(x)' /\ ~Passed(x)'
      BY <1>5, <2>2 DEF Unanswered, Waits
    <3>2. x # s
      <4>1. ASSUME x = s PROVE Passed(s)'
        <5>1. Has(box', s, at, Answer(t)) /\ Answer(t).kind = "answer"
              /\ DOMAIN box'[s] = 1 .. Len(box'[s])
          BY <1>2, <1>6, <1>7, <3>1, <4>1, Kinds, BoxType
        <5> QED
          BY <5>1 DEF Has, Passed
      <4> QED
        BY <3>1, <4>1
    <3>3. ~Late(x)
      BY <1>5, <1>8, <3>1, <3>2 DEF Late, Leads
    <3>4. ~Passed(x)
      BY <1>1, <1>7, <1>9, <3>1, StillPassed
    <3> QED
      BY <3>1, <3>3, <3>4 DEF Unanswered
  <2> QED
    BY <1>5, <1>11, <2>1, <2>2, QuietAccount
<1> QED
  BY <1>9, <1>12, <1>13, <1>15, <1>16, <1>17, <1>18, <1>19, Assembled DEF Consistent

(* handle_mcast_receive().                                                 *)
LEMMA RecvDiscoveryKeeps ==
    ASSUME IInv, Alive, NEW l \in Server, NEW s \in mc[l], RecvDiscovery(l, s)
    PROVE  IInv'
<1>1. s \in Server
  BY DEF IInv, TypeOK
<1>2. CASE Follows(l)
  BY <1>1, <1>2, HeardKeeps DEF RecvDiscovery, Follows, Leads
<1>3. CASE Leads(l)
  <2>1. PICK at, k, t, c : Welcomed(l, s, at, k, t, c) /\ Takes(l, s, k, c)
    BY <1>3, NewcomerTaken
  <2> QED
    BY <1>1, <2>1, NewcomerKills, NewcomerKept
<1> QED
  BY <1>2, <1>3 DEF RecvDiscovery

-----------------------------------------------------------------------------
LEMMA NextKeeps ==
    ASSUME IInv, Next
    PROVE  IInv'
<1>1. Alive /\ TypeOK
  BY DEF Next, IInv
<1>2. PICK s \in Server :
         \/ Start(s) \/ Round(s)
         \/ RecvUpdate(s) \/ SuccessorGone(s) \/ SendHeartbeat(s)
         \/ \E t \in mc[s] : RecvDiscovery(s, t) \/ Lose(s, t)
         \/ \E n \in DOMAIN lst[s] : EvictSilent(s, n)
  BY DEF Next
<1>3. CASE Start(s)
  BY <1>1, <1>3, StartKeeps
<1>4. CASE Round(s)
  <2>1. CASE Timeout(s) \/ Accept(s) \/ Idle(s) \/ ReadEnd(s)
    BY <1>1, <2>1, SilentRoundKeeps
  <2>2. CASE Misread(s)
    BY <1>1, <2>2, MisreadKeeps
  <2>3. CASE Follow(s)
    BY <1>1, <2>3, FollowKeeps
  <2> QED
    BY <1>4, <2>1, <2>2, <2>3 DEF Round
<1>5. CASE RecvUpdate(s)
  BY <1>1, <1>5, RecvUpdateKeeps
<1>6. CASE SuccessorGone(s)
  BY <1>1, <1>6, SuccessorGoneKeeps
<1>7. CASE SendHeartbeat(s)
  BY <1>1, <1>7, SendHeartbeatKeeps
<1>8. ASSUME NEW t \in mc[s], RecvDiscovery(s, t) \/ Lose(s, t)
      PROVE  IInv'
  <2>1. CASE RecvDiscovery(s, t)
    BY <1>1, <2>1, RecvDiscoveryKeeps
  <2>2. CASE Lose(s, t)
    <3>1. t \in Server
      BY <1>1 DEF TypeOK
    <3> QED
      BY <1>1, <2>2, <3>1, LoseKeeps
  <2> QED
    BY <1>8, <2>1, <2>2
<1>9. ASSUME NEW n \in DOMAIN lst[s], EvictSilent(s, n)
      PROVE  IInv'
  BY <1>1, <1>9, EvictSilentKeeps
<1> QED
  BY <1>2, <1>3, <1>4, <1>5, <1>6, <1>7, <1>8, <1>9

(* Nobody has started.                                                     *)
LEMMA InitHolds ==
    ASSUME Init
    PROVE  IInv
<1>1. /\ phase = [s \in Server |-> "off"] /\ id = [s \in Server |-> 0]
      /\ lst = [s \in Server |-> << >>] /\ attempt = [s \in Server |-> 0]
      /\ box = [s \in Server |-> << >>] /\ taken = [s \in Server |-> 0]
      /\ ltcp = [s \in Server |-> 0] /\ succ = [s \in Server |-> NoSucc]
      /\ mc = [s \in Server |-> {}]
      /\ spent = [rush |-> 0, late |-> 0, passed |-> 0, loss |-> 0, same |-> 0, beats |-> 0]
  BY DEF Init
<1>2. TypeOK
  <2>1. spent \in [rush : 0 .. MaxRush, late : 0 .. MaxLate, passed : 0 .. MaxPassed,
                   loss : 0 .. MaxLoss, same : 0 .. MaxSame, beats : 0 .. MaxBeats]
    BY <1>1, BoundAssumption
  <2>2. \A s \in Server : taken[s] <= Len(box[s]) /\ ltcp[s] <= taken[s] /\ ~Follows(s)
    BY <1>1 DEF Follows
  <2>3. /\ lst \in [Server -> Seq([id : Id, who : Server, at : Nat])]
        /\ box \in [Server -> Seq([from : Server, msgs : Seq(Message)])]
    BY <1>1
  <2> QED
    BY <1>1, <2>1, <2>2, <2>3 DEF TypeOK
<1>3. Mishaps = 0 /\ Cardinality({}) = 0
  BY <1>1, FS_EmptySet DEF Mishaps
<1>4. LeadersAccounted
  <2>1. {s \in Server : Leads(s)} = {}
    BY <1>1 DEF Leads
  <2>2. Cardinality({s \in Server : Leads(s)}) = 0
    BY <1>3, <2>1
  <2>3. spent.rush = 0 /\ spent.loss = 0 /\ spent.late = 0 /\ spent.passed = 0
    BY <1>1
  <2> QED
    BY <2>2, <2>3 DEF LeadersAccounted
<1>5. DeathNeedsNamesake
  BY <1>1 DEF DeathNeedsNamesake
<1>6. ASSUME NEW s \in Server
      PROVE  /\ ListOk(s) /\ RoleOk(s) /\ ConnectionOk(s) /\ MessagesOk(s)
             /\ QuestionsOk(s) /\ ListedOk(s)
  <2>1. /\ phase[s] = "off" /\ id[s] = 0 /\ lst[s] = << >> /\ box[s] = << >>
        /\ attempt[s] = 0 /\ ltcp[s] = 0 /\ succ[s] = NoSucc /\ mc[s] = {}
    BY <1>1
  <2>2. ListOk(s)
    BY <2>1 DEF ListOk, Started, Distinct
  <2>3. RoleOk(s)
    BY <2>1 DEF RoleOk, Follows, NoSucc
  <2>4. ConnectionOk(s)
    BY <2>1 DEF ConnectionOk, Leads, NoSucc
  <2>5. MessagesOk(s) /\ QuestionsOk(s) /\ ListedOk(s)
    BY <2>1 DEF MessagesOk, QuestionsOk, ListedOk, Follows
  <2> QED
    BY <2>2, <2>3, <2>4, <2>5
<1>7. Accounted
  <2>1. Leading \cup Unanswered = {}
    BY <1>1 DEF Leading, Unanswered, Leads, Waits
  <2> QED
    BY <1>3, <2>1 DEF Accounted
<1> QED
  BY <1>2, <1>4, <1>5, <1>6, <1>7 DEF IInv, Consistent

LEMMA IInvStep ==
    ASSUME IInv, [Next]_vars
    PROVE  IInv'
<1>1. CASE Next
  BY <1>1, NextKeeps
<1>2. CASE UNCHANGED vars
  <2>1. /\ TypeOK' <=> TypeOK
        /\ LeadersAccounted' <=> LeadersAccounted
        /\ DeathNeedsNamesake' <=> DeathNeedsNamesake
        /\ Alive' <=> Alive
    BY <1>2 DEF vars, TypeOK, LeadersAccounted, DeathNeedsNamesake, Alive, Namesake,
                Leads, Follows
  <2>2. Consistent' <=> Consistent
    BY <1>2 DEF vars, Consistent, ListOk, RoleOk, ConnectionOk, MessagesOk, QuestionsOk,
                ListedOk, Accounted, Leading, Unanswered, Mishaps, Started, Joins, Listed,
                Written, Waits, Leads, Follows, LeaderOf, Namesake, Late, Passed
  <2> QED
    BY <2>1, <2>2 DEF IInv
<1> QED
  BY <1>1, <1>2

LEMMA Invariance == Spec => []IInv
<1>1. Init => IInv
  BY InitHolds
<1>2. IInv /\ [Next]_vars => IInv'
  BY IInvStep
<1> QED
  BY <1>1, <1>2, PTL DEF Spec

-----------------------------------------------------------------------------
(* Every variable keeps its type, and a follower lists somebody: the       *)
(* handlers of UPDATE_FROM_LEADER and of the heartbeats read through       *)
(* connected_peers->next without a check.                                  *)
THEOREM TypeCorrect == Spec => []TypeOK
<1>1. IInv => TypeOK
  BY DEF IInv
<1> QED
  BY Invariance, <1>1, PTL

(* However many servers start, in whatever order their questions and       *)
(* answers come: for each leader but one there was a start while nobody    *)
(* led yet, a question lost, or an answer too late or left unread.         *)
THEOREM LeadersCounted == Spec => []LeadersAccounted
<1>1. IInv => LeadersAccounted
  BY DEF IInv
<1> QED
  BY Invariance, <1>1, PTL

(* No handler of a server that starts, or takes in another, reads through  *)
(* a NULL pointer of the list unless two servers have drawn the same ID.   *)
THEOREM DeathExplained == Spec => []DeathNeedsNamesake
<1>1. IInv => DeathNeedsNamesake
  BY DEF IInv
<1> QED
  BY Invariance, <1>1, PTL

(* A leader never loses a follower that lives from its list: it lists it   *)
(* with the connection on which the follower reads.                        *)
THEOREM FollowersStayListed == Spec => []FollowersListed
<1>1. IInv => FollowersListed
  <2> SUFFICES ASSUME IInv, Alive, NEW s \in Server, Follows(s), ~Namesake(s)
               PROVE  \E i \in 2 .. Len(lst[LeaderOf(s)]) :
                         lst[LeaderOf(s)][i] = Entry(id[s], s, ltcp[s])
    BY DEF FollowersListed
  <2> QED
    BY DEF IInv, Consistent, ListedOk, Listed
<1> QED
  BY Invariance, <1>1, PTL
-----------------------------------------------------------------------------
(* As long as no two servers share an ID.                                  *)
NoNamesakes == \A s \in Server : ~Namesake(s)

(* s does not follow l, and will not: since l has connected to it, another *)
(* server has, and service_discovery() reads only the last connection.     *)
Missed(s, l) ==
    \/ Leads(s)
    \/ Follows(s) /\ LeaderOf(s) # l
    \/ Waits(s) /\ \E i \in 1 .. Len(box[s]) - 1 : box[s][i].from = l

(* Leaders and followers connect.  A leader connects once to a server that *)
(* waits, after its question, and answers on that connection.              *)
OnlyOne(s, i, l) ==
    /\ Leads(l) \/ Follows(l)
    /\ Leads(l) /\ Waits(s) =>
          /\ s \notin mc[l]
          /\ box[s][i].msgs # << >> /\ Head(box[s][i].msgs).kind = "answer"
          /\ \A j \in 1 .. Len(box[s]) : box[s][j].from = l => j = i
ConnectionsOk(s) ==
    \A i \in 1 .. Len(box[s]) : \A l \in Server : box[s][i].from = l => OnlyOne(s, i, l)

(* A leader names nobody that waits unless it has connected to it.         *)
Reached(l, t) == \E j \in 1 .. Len(box[t]) : box[t][j].from = l
Named(s, i, m) ==
    \A l, t \in Server :
        box[s][i].from = l /\ m.succ = t /\ Leads(l) /\ Waits(t) => Reached(l, t)
NamedOk(s) == \A i, m : Has(box, s, i, m) => Named(s, i, m)

(* A leader's list is sorted, and has its connection to those who wait.    *)
OrderOk(l) ==
    Leads(l) =>
        /\ TailSorted(lst[l])
        /\ \A n \in 2 .. Len(lst[l]) : \A p \in Server :
              lst[l][n].who = p /\ Waits(p) => lst[l][n].at > 0

(* The connection to a successor stays open and is read, unless that       *)
(* successor goes another way than its predecessor.                        *)
SuccessorOk(p) ==
    \A s, l \in Server :
        Follows(p) /\ succ[p].who = s /\ LeaderOf(p) = l =>
            (succ[p].at = 0 /\ succ[p].is = "open") \/ Missed(s, l)

(* In the ring of a list of two peers or more the last is followed by the  *)
(* first: t is after p, which is listed with the connection at this place. *)
Onward(i, n) == IF i = n THEN 2 ELSE i + 1
Back(i, n) == IF i = 2 THEN n ELSE i - 1
Precedes(k, p, at, t) ==
    /\ Len(k) > 2
    /\ \E n \in 2 .. Len(k) :
          k[n].who = p /\ k[n].at = at /\ k[Onward(n, Len(k))].who = t

(* A peer p that reads what its leader l writes will have t as its         *)
(* successor when it has read all of it, or has lost one that l will lose. *)
Obeys(p, at, t, l) ==
    \/ box[p][at].msgs # << >> /\ Last(box[p][at].msgs).succ = t
    \/ box[p][at].msgs = << >> /\ succ[p].who = t
    \/ box[p][at].msgs = << >> /\ succ[p].who = Nobody /\ Missed(t, l)
RingOk(l) ==
    Leads(l) =>
        \A p, t \in Server : \A at \in Nat :
            Precedes(lst[l], p, at, t) /\ Reading(p, at) => Obeys(p, at, t, l)

Rings ==
    /\ \A s \in Server : ConnectionsOk(s)
    /\ \A s \in Server : NamedOk(s)
    /\ \A l \in Server : OrderOk(l)
    /\ \A p \in Server : SuccessorOk(p)
    /\ \A l \in Server : RingOk(l)

RingInv == Alive /\ NoNamesakes => Rings

(* A step after which nobody is dead or shares an ID.  Who is answered     *)
(* follows the last of those that have connected to it.                    *)
Turns ==
    /\ TypeOK /\ TypeOK' /\ Alive /\ Alive' /\ Consistent /\ Consistent'
    /\ NoNamesakes /\ Rings /\ Ages /\ Widens
    /\ \A s \in Server : Waits(s) /\ phase'[s] = "follows" => ltcp'[s] = Len(box[s])

LEMMA Places ==
    ASSUME Turns, NEW s \in Server
    PROVE  /\ box \in Boxes /\ box' \in Boxes
           /\ Len(box[s]) \in Nat /\ Len(box'[s]) \in Nat
           /\ \A i \in 1 .. Len(box[s]) : box[s][i].from \in Server
           /\ \A i \in 1 .. Len(box'[s]) : box'[s][i].from \in Server
<1>1. box \in Boxes /\ box' \in Boxes
  BY DEF Turns, TypeOK, Boxes, Connection
<1> QED
  BY <1>1, BoxType

(* The roles before the step, from those after it.                         *)
LEMMA RoleBefore ==
    ASSUME Turns, NEW s \in Server, Started(s)
    PROVE  /\ Waits(s) \/ Leads(s) \/ Follows(s)
           /\ phase'[s] \in {"waits", "leads", "follows"}
           /\ phase'[s] = "waits" => Waits(s)
           /\ phase'[s] = "leads" => Leads(s) \/ Waits(s)
           /\ phase'[s] = "follows" => Follows(s) \/ Waits(s)
<1>1. phase[s] \in {"waits", "leads", "follows"} /\ phase'[s] \in {"waits", "leads", "follows"}
  BY DEF Turns, TypeOK, Alive, Started, Ages
<1>2. (Leads(s) => phase'[s] = "leads") /\ (Follows(s) => phase'[s] = "follows")
  BY DEF Turns, Ages
<1> QED
  BY <1>1, <1>2 DEF Waits, Leads, Follows

LEMMA SameLeader ==
    ASSUME Turns, NEW s \in Server, Follows(s)
    PROVE  LeaderOf(s)' = LeaderOf(s) /\ ltcp'[s] = ltcp[s]
<1>1. ltcp[s] \in 1 .. Len(box[s]) /\ phase'[s] = "follows" /\ ltcp'[s] = ltcp[s]
  BY LeaderThere DEF Turns, Ages
<1>2. Len(box[s]) \in Nat /\ Len(box'[s]) \in Nat
  BY Places
<1>3. Len(box[s]) <= Len(box'[s])
  BY <1>1 DEF Turns, Widens
<1>4. ltcp[s] \in 1 .. Len(box'[s])
  BY <1>1, <1>2, <1>3
<1> QED
  BY <1>1, <1>4 DEF Turns, Widens, LeaderOf

(* Who has missed a leader does not come back to it.                       *)
LEMMA MissedStays ==
    ASSUME Turns, NEW s \in Server, NEW l \in Server, Leads(l), Missed(s, l)
    PROVE  Missed(s, l)'
<1>1. CASE Leads(s)
  BY <1>1 DEF Turns, Ages, Missed, Leads
<1>2. CASE Follows(s) /\ LeaderOf(s) # l
  <2>1. LeaderOf(s)' = LeaderOf(s) /\ phase'[s] = "follows"
    BY <1>2, SameLeader DEF Turns, Ages
  <2> QED
    BY <1>2, <2>1 DEF Missed, Follows
<1>3. CASE Waits(s) /\ \E i \in 1 .. Len(box[s]) - 1 : box[s][i].from = l
  <2>1. PICK i \in 1 .. Len(box[s]) - 1 : box[s][i].from = l
    BY <1>3
  <2>2. PICK n \in Nat : n = Len(box[s])
    BY Places
  <2>3. i \in 1 .. n /\ i # n /\ n \in 1 .. n
    BY <2>1, <2>2
  <2>4. Started(s)
    BY <1>3 DEF Started, Waits
  <2>5. CASE phase'[s] = "leads"
    BY <2>5 DEF Missed, Leads
  <2>6. phase'[s] \in {"waits", "follows"} =>
           \A j \in 1 .. n : j \in 1 .. Len(box'[s]) /\ box'[s][j].from = box[s][j].from
                             /\ Len(box'[s]) \in Nat /\ n <= Len(box'[s])
    <3> SUFFICES ASSUME phase'[s] \in {"waits", "follows"}, NEW j \in 1 .. n
                 PROVE  j \in 1 .. Len(box'[s]) /\ box'[s][j].from = box[s][j].from
                        /\ Len(box'[s]) \in Nat /\ n <= Len(box'[s])
      OBVIOUS
    <3>1. n <= Len(box'[s]) /\ Len(box'[s]) \in Nat
      BY <2>2, Places DEF Turns, Widens
    <3>2. j \in 1 .. Len(box'[s])
      BY <3>1
    <3> QED
      BY <2>2, <3>1, <3>2 DEF Turns, Widens
  <2>7. CASE phase'[s] = "waits"
    <3>1. i \in 1 .. Len(box'[s]) - 1 /\ box'[s][i].from = l
      BY <2>1, <2>3, <2>6, <2>7
    <3> QED
      BY <2>7, <3>1 DEF Missed, Waits
  <2>8. CASE phase'[s] = "follows"
    <3>1. ltcp'[s] = n
      BY <1>3, <2>2, <2>8 DEF Turns
    <3>2. box[s][n].from # l
      <4>1. OnlyOne(s, i, l)
        BY <2>1, <2>2, <2>3 DEF Turns, Rings, ConnectionsOk
      <4> QED
        BY <1>3, <2>2, <2>3, <4>1 DEF OnlyOne
    <3>3. box'[s][n].from # l
      BY <2>3, <2>6, <2>8, <3>2
    <3> QED
      BY <2>8, <3>1, <3>3 DEF Missed, Follows, LeaderOf
  <2> QED
    BY <2>4, <2>5, <2>7, <2>8, RoleBefore
<1> QED
  BY <1>1, <1>2, <1>3 DEF Missed

(* Connections that the step adds are to be looked at, and the messages on *)
(* those that leaders have to servers that wait.                           *)
LEMMA ConnectionsKept ==
    ASSUME Turns, NEW s \in Server, Started(s),
           \A i \in 1 .. Len(box'[s]) : \A l \in Server :
               i \notin 1 .. Len(box[s]) /\ box'[s][i].from = l =>
                   phase'[l] = "follows" \/ OnlyOne(s, i, l)',
           \A i \in 1 .. Len(box[s]) : \A l \in Server :
               /\ box[s][i].from = l /\ Leads(l) /\ Waits(s) /\ phase'[s] = "waits"
               /\ box[s][i].msgs # << >> /\ Head(box[s][i].msgs).kind = "answer"
               => box'[s][i].msgs # << >> /\ Head(box'[s][i].msgs).kind = "answer",
           \A l \in Server : Leads(l) /\ phase'[s] = "waits" /\ s \in mc'[l] => s \in mc[l]
    PROVE  ConnectionsOk(s)'
<1> SUFFICES ASSUME NEW i \in 1 .. Len(box'[s]), NEW l \in Server, box'[s][i].from = l
             PROVE  OnlyOne(s, i, l)'
  BY DEF ConnectionsOk
<1>1. CASE i \notin 1 .. Len(box[s])
  BY <1>1 DEF OnlyOne, Leads, Follows
<1>2. CASE i \in 1 .. Len(box[s])
  <2>1. box[s][i].from = l /\ OnlyOne(s, i, l)
    <3>1. box[s][i].from = l
      BY <1>2 DEF Turns, Widens
    <3> QED
      BY <1>2, <3>1 DEF Turns, Rings, ConnectionsOk
  <2>2. CASE Follows(l)
    BY <2>2 DEF OnlyOne, Turns, Ages, Follows, Leads
  <2>3. CASE Leads(l) /\ phase'[s] # "waits"
    BY <2>3 DEF OnlyOne, Turns, Ages, Leads, Waits
  <2>4. CASE Leads(l) /\ phase'[s] = "waits"
    <3>1. Waits(s)
      BY <2>4, RoleBefore
    <3>2. /\ s \notin mc[l] /\ box[s][i].msgs # << >> /\ Head(box[s][i].msgs).kind = "answer"
          /\ \A j \in 1 .. Len(box[s]) : box[s][j].from = l => j = i
      BY <2>1, <2>4, <3>1 DEF OnlyOne
    <3>3. box'[s][i].msgs # << >> /\ Head(box'[s][i].msgs).kind = "answer" /\ s \notin mc'[l]
      BY <1>2, <2>1, <2>4, <3>1, <3>2
    <3>4. phase'[l] = "leads"
      BY <2>4 DEF Turns, Ages
    <3>5. ASSUME NEW j \in 1 .. Len(box'[s]), box'[s][j].from = l
          PROVE  j = i
      <4>1. CASE j \in 1 .. Len(box[s])
        <5>1. box[s][j].from = l
          BY <3>5, <4>1 DEF Turns, Widens
        <5> QED
          BY <3>2, <4>1, <5>1
      <4>2. CASE j \notin 1 .. Len(box[s])
        <5>1. OnlyOne(s, j, l)'
          BY <3>4, <3>5, <4>2
        <5> QED
          BY <2>4, <3>4, <5>1 DEF OnlyOne, Leads, Waits
      <4> QED
        BY <4>1, <4>2
    <3> QED
      BY <3>3, <3>4, <3>5 DEF OnlyOne, Leads
  <2> QED
    BY <2>1, <2>2, <2>3, <2>4 DEF OnlyOne
<1> QED
  BY <1>1, <1>2

LEMMA NamedKept ==
    ASSUME Turns, NEW s \in Server,
           \A i, m : Has(box', s, i, m) => Has(box, s, i, m) \/ Named(s, i, m)'
    PROVE  NamedOk(s)'
<1> SUFFICES ASSUME NEW i, NEW m, Has(box', s, i, m) PROVE Named(s, i, m)'
  BY DEF NamedOk
<1>1. CASE Has(box, s, i, m)
  <2> SUFFICES ASSUME NEW l \in Server, NEW t \in Server, box'[s][i].from = l, m.succ = t,
                      phase'[l] = "leads", phase'[t] = "waits"
               PROVE  Reached(l, t)'
    BY DEF Named, Leads, Waits
  <2>1. i \in 1 .. Len(box[s]) /\ i \in 1 .. Len(box'[s]) /\ m \in ToSet(box[s][i].msgs)
    BY <1>1 DEF Has
  <2>2. box[s][i].from = l
    BY <2>1 DEF Turns, Widens
  <2>3. Leads(l)
    <3>1. OnlyOne(s, i, l)
      BY <2>1, <2>2 DEF Turns, Rings, ConnectionsOk
    <3> QED
      BY <3>1 DEF OnlyOne, Turns, Ages, Follows, Leads
  <2>4. Started(t)
    <3>1. Written(s, i, m)
      <4>1. box \in Boxes
        BY Places
      <4>2. i \in DOMAIN box[s]
        BY <2>1, <4>1, BoxType
      <4> QED
        BY <2>1, <4>2 DEF Turns, Consistent, MessagesOk
    <3> QED
      BY <2>2, <2>3, <3>1, ServerAssumption DEF Written, Leads, Follows
  <2>5. Waits(t)
    BY <2>4, RoleBefore
  <2>6. PICK j \in 1 .. Len(box[t]) : box[t][j].from = l
    <3>1. Named(s, i, m)
      BY <1>1 DEF Turns, Rings, NamedOk
    <3> QED
      BY <2>2, <2>3, <2>5, <3>1 DEF Named, Reached
  <2>7. j \in 1 .. Len(box'[t])
    <3>1. Len(box[t]) <= Len(box'[t]) /\ Len(box[t]) \in Nat /\ Len(box'[t]) \in Nat
      BY Places DEF Turns, Widens
    <3> QED
      BY <3>1
  <2>8. box'[t][j].from = l
    BY <2>6, <2>7 DEF Turns, Widens
  <2> QED
    BY <2>7, <2>8 DEF Reached
<1> QED
  BY <1>1

LEMMA OrderKept ==
    ASSUME Turns, NEW l \in Server, Started(l), lst'[l] = lst[l]
    PROVE  OrderOk(l)'
<1> SUFFICES ASSUME phase'[l] = "leads" PROVE OrderOk(l)'
  BY DEF OrderOk, Leads
<1>1. lst[l] \in Seq(Record) /\ Len(lst[l]) \in Nat /\ DOMAIN lst[l] = 1 .. Len(lst[l])
  BY ListType DEF Turns
<1>2. CASE Leads(l)
  <2>1. TailSorted(lst[l])
    BY <1>2 DEF Turns, Rings, OrderOk
  <2>2. ASSUME NEW n \in 2 .. Len(lst[l]), NEW p \in Server, lst[l][n].who = p,
               phase'[p] = "waits"
        PROVE  lst[l][n].at > 0
    <3>1. Started(p)
      <4>1. n \in DOMAIN lst[l]
        BY <1>1
      <4> QED
        BY <2>2, <4>1 DEF Turns, Consistent, ListOk
    <3>2. Waits(p)
      BY <2>2, <3>1, RoleBefore
    <3> QED
      BY <1>2, <2>2, <3>2 DEF Turns, Rings, OrderOk
  <2> QED
    BY <2>1, <2>2 DEF OrderOk, Waits, TailSorted
<1>3. CASE Waits(l)
  <2>1. Len(lst[l]) <= 1
    BY <1>3 DEF Turns, Consistent, RoleOk, Waits
  <2>2. \A n \in 2 .. Len(lst[l]) : FALSE
    BY <1>1, <2>1
  <2> QED
    BY <2>2 DEF OrderOk, TailSorted
<1> QED
  BY <1>2, <1>3, RoleBefore

(* A successor that is kept: its connection may be closed, or read no      *)
(* more, if service_discovery() has accepted it.                           *)
LEMMA SuccessorKept ==
    ASSUME Turns, NEW p \in Server, phase'[p] = "follows" => Follows(p),
           succ'[p].who = succ[p].who, succ'[p].at = succ[p].at,
           Follows(p) => succ'[p].is = succ[p].is \/ succ[p].at # 0
    PROVE  SuccessorOk(p)'
<1> SUFFICES ASSUME NEW s \in Server, NEW l \in Server, phase'[p] = "follows",
                    succ'[p].who = s, LeaderOf(p)' = l
             PROVE  (succ'[p].at = 0 /\ succ'[p].is = "open") \/ Missed(s, l)'
  BY DEF SuccessorOk, Follows
<1>1. Follows(p) /\ LeaderOf(p) = l /\ succ[p].who = s
  BY SameLeader
<1>2. Leads(l)
  BY <1>1, LeaderThere DEF Turns
<1>3. (succ[p].at = 0 /\ succ[p].is = "open") \/ Missed(s, l)
  BY <1>1 DEF Turns, Rings, SuccessorOk
<1> QED
  BY <1>1, <1>2, <1>3, MissedStays

(* The last word to a peer is the same, and so is its successor, or its    *)
(* successor closes the connection.                                        *)
LEMMA ObeysStays ==
    ASSUME Turns, NEW p \in Server, NEW t \in Server, NEW at \in Nat, NEW l \in Server,
           Leads(l), box[p][at].from = l, Reading(p, at), Obeys(p, at, t, l),
           box[p][at].msgs = << >> => Follows(p),
           box'[p][at].msgs = box[p][at].msgs,
           \/ succ'[p].who = succ[p].who
           \/ succ'[p].who = Nobody /\ succ[p].is = "closed"
    PROVE  Obeys(p, at, t, l)'
<1>1. CASE box[p][at].msgs # << >>
  BY <1>1 DEF Obeys
<1>2. CASE box[p][at].msgs = << >> /\ succ[p].who = t
  <2>1. CASE succ'[p].who = succ[p].who
    BY <1>2, <2>1 DEF Obeys
  <2>2. CASE succ'[p].who = Nobody /\ succ[p].is = "closed"
    <3>1. Follows(p) /\ LeaderOf(p) = l
      BY <1>2 DEF Reading, LeaderOf, Follows, Waits
    <3>2. Missed(t, l)
      BY <1>2, <2>2, <3>1 DEF Turns, Rings, SuccessorOk
    <3>3. Missed(t, l)'
      BY <3>2, MissedStays
    <3> QED
      BY <1>2, <2>2, <3>3 DEF Obeys
  <2> QED
    BY <2>1, <2>2
<1>3. CASE box[p][at].msgs = << >> /\ succ[p].who = Nobody /\ Missed(t, l)
  <2>1. Missed(t, l)'
    BY <1>3, MissedStays
  <2>2. succ'[p].who = Nobody
    BY <1>3
  <2> QED
    BY <1>3, <2>1, <2>2 DEF Obeys
<1> QED
  BY <1>1, <1>2, <1>3 DEF Obeys

(* What is known of a peer, and of the one after it, that a leader lists   *)
(* and that reads after the step what the leader writes.                   *)
LEMMA PeerReads ==
    ASSUME Turns, NEW l \in Server, Leads(l), NEW p \in Server, NEW at \in Nat, NEW t,
           Precedes(lst[l], p, at, t), Reading(p, at)'
    PROVE  /\ Started(p) /\ Reading(p, at)
           /\ at \in 1 .. Len(box[p]) /\ at \in 1 .. Len(box'[p])
           /\ box[p][at].from = l /\ box'[p][at].from = l
           /\ Follows(p) => ltcp[p] = at /\ LeaderOf(p) = l
           /\ box[p][at].msgs = << >> => Follows(p)
<1>1. PICK n \in 2 .. Len(lst[l]) : lst[l][n].who = p /\ lst[l][n].at = at
  BY DEF Precedes
<1>2. n \in DOMAIN lst[l] /\ lst[l] \in Seq(Record)
  BY ListType DEF Turns
<1>3. Started(p)
  BY <1>1, <1>2 DEF Turns, Consistent, ListOk
<1>4. Joins(l, p, at)
  BY <1>1 DEF Turns, Consistent, ConnectionOk
<1>5. Reading(p, at)
  <2>1. CASE phase'[p] = "waits"
    BY <1>3, <2>1, RoleBefore DEF Reading
  <2>2. CASE phase'[p] = "follows" /\ ltcp'[p] = at
    <3>1. Waits(p) \/ Follows(p)
      BY <1>3, <2>2, RoleBefore
    <3>2. Follows(p) => ltcp[p] = at
      BY <2>2, SameLeader
    <3> QED
      BY <3>1, <3>2 DEF Reading
  <2> QED
    BY <2>1, <2>2 DEF Reading, Waits, Follows
<1>6. at <= Len(box[p]) /\ box[p][at].from = l /\ at > 0
  BY <1>4, <1>5 DEF Joins, Reading
<1>7. Len(box[p]) \in Nat /\ Len(box'[p]) \in Nat /\ Len(box[p]) <= Len(box'[p])
  BY Places DEF Turns, Widens, Reading, Waits, Follows
<1>8. at \in 1 .. Len(box[p]) /\ at \in 1 .. Len(box'[p])
  BY <1>6, <1>7
<1>9. box'[p][at].from = l
  BY <1>6, <1>8 DEF Turns, Widens
<1>10. Follows(p) => ltcp[p] = at /\ LeaderOf(p) = l
  BY <1>5, <1>6 DEF Reading, Follows, Waits, LeaderOf
<1>11. ASSUME box[p][at].msgs = << >> PROVE Follows(p)
  <2>1. OnlyOne(p, at, l)
    BY <1>6, <1>8 DEF Turns, Rings, ConnectionsOk
  <2>2. ~Waits(p)
    BY <1>11, <2>1 DEF OnlyOne
  <2> QED
    BY <1>5, <2>2 DEF Reading
<1> QED
  BY <1>3, <1>5, <1>6, <1>8, <1>9, <1>10, <1>11

(* A leader that keeps its list, and whose peers keep its last word.       *)
LEMMA RingKept ==
    ASSUME Turns, NEW l \in Server, Started(l), lst'[l] = lst[l],
           \A p, t \in Server : \A at \in Nat :
               /\ Leads(l) /\ Precedes(lst[l], p, at, t) /\ Reading(p, at)'
               /\ Obeys(p, at, t, l)
               => Obeys(p, at, t, l)'
    PROVE  RingOk(l)'
<1> SUFFICES ASSUME NEW p \in Server, NEW t \in Server, NEW at \in Nat, phase'[l] = "leads",
                    Precedes(lst[l], p, at, t), Reading(p, at)'
             PROVE  Obeys(p, at, t, l)'
  BY DEF RingOk, Leads
<1>1. CASE Leads(l)
  <2>1. Reading(p, at)
    BY <1>1, PeerReads
  <2>2. Obeys(p, at, t, l)
    BY <1>1, <2>1 DEF Turns, Rings, RingOk
  <2> QED
    BY <1>1, <2>2
<1>2. CASE Waits(l)
  <2>1. Len(lst[l]) <= 1 /\ Len(lst[l]) \in Nat
    BY <1>2, ListType DEF Turns, Consistent, RoleOk, Waits
  <2>2. ~(Len(lst[l]) > 2)
    BY <2>1
  <2> QED
    BY <2>2 DEF Precedes
<1> QED
  BY <1>1, <1>2, RoleBefore

(* What is common to the steps at which no leader writes, and nobody but r *)
(* reads what a leader has written; all who connect to others follow.      *)
Muted(r) ==
    /\ \A s \in Server : Started(s) => lst'[s] = lst[s] \/ phase'[s] = "follows"
    /\ \A s \in Server : \A i \in 1 .. Len(box'[s]) :
          i \in 1 .. Len(box[s]) \/ phase'[box'[s][i].from] = "follows"
    /\ \A s \in Server \ {r} : \A i \in 1 .. Len(box[s]) :
          phase'[s] \in {"waits", "follows"} /\ Leads(box[s][i].from)
          => box'[s][i].msgs = box[s][i].msgs
    /\ \A s \in Server : \A i, m :
          Has(box', s, i, m) => Has(box, s, i, m) \/ phase'[box'[s][i].from] = "follows"
    /\ \A p \in Server \ {r} :
          /\ phase'[p] = "follows" => Follows(p)
          /\ \/ /\ succ'[p].who = succ[p].who /\ succ'[p].at = succ[p].at
                /\ Follows(p) => succ'[p].is = succ[p].is \/ succ[p].at # 0
             \/ succ'[p].who = Nobody /\ succ[p].is = "closed"
    /\ \A s, l \in Server :
          Started(s) /\ Leads(l) /\ phase'[s] = "waits" /\ s \in mc'[l] => s \in mc[l]

(* What r makes of what it has read.                                       *)
ReadsOn(r) ==
    /\ phase'[r] = "follows" /\ SuccessorOk(r)'
    /\ \A t, l \in Server : \A at \in Nat :
          Leads(l) /\ Precedes(lst[l], r, at, t) /\ Reading(r, at)' /\ Obeys(r, at, t, l)
          => Obeys(r, at, t, l)'

LEMMA MutedKeeps ==
    ASSUME Turns, NEW r \in Server \cup {Nobody}, Muted(r), r # Nobody => ReadsOn(r)
    PROVE  Rings'
<1>1. ASSUME NEW s \in Server, ~Started(s)
      PROVE  /\ phase'[s] \in {"off", "waits"}
             /\ \A i : i \notin 1 .. Len(box[s])
             /\ OrderOk(s)' /\ RingOk(s)'
  <2>1. phase[s] = "off" /\ phase'[s] \in {"off", "waits"}
    BY <1>1 DEF Turns, Ages, Started
  <2>2. Len(box[s]) = 0
    <3>1. box[s] = << >>
      BY <2>1 DEF Turns, Consistent, ListOk
    <3> QED
      BY <3>1
  <2> QED
    BY <2>1, <2>2 DEF OrderOk, RingOk, Leads
<1>2. ASSUME NEW s \in Server PROVE ConnectionsOk(s)'
  <2>1. ASSUME NEW i \in 1 .. Len(box[s]), NEW l \in Server, box[s][i].from = l, Leads(l),
               phase'[s] = "waits", box[s][i].msgs # << >>, Head(box[s][i].msgs).kind = "answer"
        PROVE  box'[s][i].msgs # << >> /\ Head(box'[s][i].msgs).kind = "answer"
    <3>1. s # r
      BY <2>1, ServerAssumption DEF ReadsOn
    <3>2. box'[s][i].msgs = box[s][i].msgs
      BY <2>1, <3>1 DEF Muted
    <3> QED
      BY <2>1, <3>2
  <2>2. Started(s) => \A l \in Server : Leads(l) /\ phase'[s] = "waits" /\ s \in mc'[l] => s \in mc[l]
    BY DEF Muted
  <2>3. \A i \in 1 .. Len(box'[s]) : \A l \in Server :
            i \notin 1 .. Len(box[s]) /\ box'[s][i].from = l => phase'[l] = "follows"
    BY DEF Muted
  <2>4. CASE Started(s)
    BY <2>1, <2>2, <2>3, <2>4, ConnectionsKept
  <2>5. CASE ~Started(s)
    BY <1>1, <2>3, <2>5 DEF ConnectionsOk, OnlyOne, Leads, Follows
  <2> QED
    BY <2>4, <2>5
<1>3. ASSUME NEW s \in Server PROVE NamedOk(s)'
  <2>1. ASSUME NEW i, NEW m, Has(box', s, i, m), ~Has(box, s, i, m)
        PROVE  Named(s, i, m)'
    <3>1. phase'[box'[s][i].from] = "follows"
      BY <2>1 DEF Muted
    <3> QED
      BY <3>1 DEF Named, Leads
  <2> QED
    BY <2>1, NamedKept
<1>4. ASSUME NEW l \in Server, Started(l) PROVE OrderOk(l)' /\ RingOk(l)'
  <2>1. CASE phase'[l] = "follows"
    BY <2>1 DEF Leads, OrderOk, RingOk
  <2>2. CASE lst'[l] = lst[l]
    <3>1. ASSUME NEW p \in Server, NEW t \in Server, NEW at \in Nat, Leads(l),
                 Precedes(lst[l], p, at, t), Reading(p, at)', Obeys(p, at, t, l)
          PROVE  Obeys(p, at, t, l)'
      <4>0. CASE p = r
        BY <3>1, <4>0, ServerAssumption DEF ReadsOn
      <4>1. /\ Reading(p, at) /\ at \in 1 .. Len(box[p]) /\ box[p][at].from = l
            /\ box[p][at].msgs = << >> => Follows(p)
        BY <3>1, PeerReads
      <4>2. p # r => box'[p][at].msgs = box[p][at].msgs
        BY <3>1, <4>1 DEF Muted, Reading, Waits, Follows
      <4>3. p # r => \/ succ'[p].who = succ[p].who
                     \/ succ'[p].who = Nobody /\ succ[p].is = "closed"
        BY DEF Muted
      <4> QED
        BY <3>1, <4>0, <4>1, <4>2, <4>3, ObeysStays
    <3> QED
      BY <1>4, <2>2, <3>1, OrderKept, RingKept
  <2> QED
    BY <1>4, <2>1, <2>2 DEF Muted
<1>5. ASSUME NEW p \in Server PROVE SuccessorOk(p)'
  <2>1. p # r => (phase'[p] = "follows" => Follows(p))
    BY DEF Muted
  <2>2. CASE succ'[p].who = Nobody
    BY <2>2, ServerAssumption DEF SuccessorOk
  <2>3. CASE p # r /\ succ'[p].who = succ[p].who /\ succ'[p].at = succ[p].at
             /\ (Follows(p) => succ'[p].is = succ[p].is \/ succ[p].at # 0)
    BY <2>1, <2>3, SuccessorKept
  <2>4. CASE p = r
    BY <2>4, ServerAssumption DEF ReadsOn
  <2> QED
    BY <2>2, <2>3, <2>4 DEF Muted
<1> QED
  BY <1>1, <1>2, <1>3, <1>4, <1>5 DEF Rings

-----------------------------------------------------------------------------
(* A step that leaves everybody in its role.                               *)
LEMMA CalmTurns ==
    ASSUME IInv, IInv', Alive, NoNamesakes, Rings,
           phase' = phase, id' = id, ltcp' = ltcp, More(box, box')
    PROVE  Turns /\ Alive'
<1>1. TypeOK /\ TypeOK' /\ Consistent
  BY DEF IInv
<1>2. Alive'
  BY DEF Alive
<1>3. Consistent'
  BY <1>2 DEF IInv
<1>4. box' \in Boxes
  BY <1>1 DEF TypeOK, Boxes, Connection
<1>5. Ages /\ Widens
  BY <1>1, <1>4, Quiet
<1> QED
  BY <1>1, <1>2, <1>3, <1>5 DEF Turns, Waits

(* What stays and goes unanswered.                                         *)
LEMMA AskingRings ==
    ASSUME IInv, IInv', Alive, NoNamesakes, Rings,
           UNCHANGED <<phase, id, lst, box, ltcp, succ>>,
           \A l \in Server : mc'[l] \subseteq mc[l]
    PROVE  Rings'
<1>1. Turns
  <2>1. More(box, box')
    BY NothingMore DEF IInv
  <2> QED
    BY <2>1, CalmTurns
<1>2. Muted(Nobody)
  BY <1>1 DEF Muted, Follows, Has
<1> QED
  BY <1>1, <1>2, MutedKeeps

LEMMA SendHeartbeatRings ==
    ASSUME IInv, IInv', Alive, NoNamesakes, Rings, NEW f \in Server, SendHeartbeat(f)
    PROVE  Rings'
<1>1. /\ Follows(f) /\ Waits(succ[f].who)
      /\ box' = Sent(box, succ[f].who, succ[f].at, Heartbeat)
      /\ UNCHANGED <<phase, id, lst, attempt, taken, ltcp, succ, mc>>
  BY DEF SendHeartbeat
<1>2. TypeOK /\ Consistent /\ box \in Boxes
  BY NothingMore DEF IInv
<1>3. PICK s \in Server, at \in Nat : s = succ[f].who /\ at = succ[f].at /\ s # Nobody
  <2>1. succ[f].who # Nobody /\ succ[f].who \in Server
    BY <1>1, <1>2, SuccessorType, ServerAssumption DEF SendHeartbeat
  <2> QED
    BY <1>2, <2>1, SuccessorType, ServerAssumption
<1>4. Reading(s, at) => at <= Len(box[s]) /\ box[s][at].from = f
  BY <1>2, <1>3 DEF Consistent, ConnectionOk, Joins, Reading
<1>5. box' = Sent(box, s, at, Heartbeat) /\ Heartbeat \in Message
  BY <1>1, <1>3, Kinds
<1>6. /\ More(box, box')
      /\ \A t, i, m : Has(box', t, i, m) /\ t \in Server =>
            Has(box, t, i, m) \/ (t = s /\ i = at /\ m = Heartbeat /\ Reading(s, at))
  BY <1>2, <1>4, <1>5, SentAdds DEF SentOn
<1>7. /\ \A x \in Server : Len(box'[x]) = Len(box[x])
      /\ \A x \in Server : \A i \in 1 .. Len(box[x]) :
            ~(x = s /\ i = at /\ Reading(s, at)) => box'[x][i].msgs = box[x][i].msgs
  <2>1. JustThere(box, s, at, Heartbeat, box')
    BY <1>2, <1>4, <1>5, SentAt
  <2> QED
    BY <2>1 DEF JustThere
<1>8. Turns
  BY <1>1, <1>6, CalmTurns
<1>9. ASSUME NEW x \in Server, NEW i \in 1 .. Len(box[x]), Leads(box[x][i].from)
      PROVE  box'[x][i].msgs = box[x][i].msgs
  <2>1. ~(x = s /\ i = at /\ Reading(s, at))
    BY <1>1, <1>4, <1>9 DEF Leads, Follows
  <2> QED
    BY <1>7, <2>1
<1>10. ASSUME NEW x \in Server, NEW i, NEW m, Has(box', x, i, m), ~Has(box, x, i, m)
       PROVE  phase'[box'[x][i].from] = "follows"
  <2>1. x = s /\ i = at /\ Reading(s, at)
    BY <1>6, <1>10
  <2>2. i \in 1 .. Len(box[x])
    BY <1>7, <1>10 DEF Has
  <2>3. box'[x][i].from = f
    BY <1>4, <1>6, <2>1, <2>2 DEF More
  <2> QED
    BY <1>1, <2>3 DEF Follows
<1>11. Muted(Nobody)
  BY <1>1, <1>7, <1>9, <1>10 DEF Muted, Follows
<1> QED
  BY <1>8, <1>11, MutedKeeps

-----------------------------------------------------------------------------
(* A follower whose successor goes another way.                            *)
LEMMA SuccessorGoneRings ==
    ASSUME IInv, IInv', Alive, Alive', NoNamesakes, Rings, NEW f \in Server, SuccessorGone(f)
    PROVE  Rings'
<1>1. /\ Follows(f) /\ succ[f].is = "closed"
      /\ lst' = [lst EXCEPT ![f] = delete_server(@, @[3].id)]
      /\ succ' = [succ EXCEPT ![f] = NoSucc]
      /\ UNCHANGED <<phase, id, attempt, box, taken, ltcp, mc, spent>>
  <2>1. ~NullDeref(f)
    BY DEF NullDeref, Alive, IInv, TypeOK
  <2> QED
    BY <2>1 DEF SuccessorGone
<1>2. Turns
  <2>1. More(box, box')
    BY <1>1, NothingMore DEF IInv
  <2> QED
    BY <1>1, <2>1, CalmTurns
<1>3. /\ \A s \in Server : s # f => lst'[s] = lst[s] /\ succ'[s] = succ[s]
      /\ succ'[f].who = Nobody
  BY <1>1, <1>2 DEF Turns, TypeOK, NoSucc
<1>4. Muted(Nobody)
  BY <1>1, <1>2, <1>3 DEF Muted, Follows, Has
<1> QED
  BY <1>2, <1>4, MutedKeeps

(* A server that starts.                                                   *)
LEMMA StartRings ==
    ASSUME IInv, IInv', Alive, Alive', NoNamesakes, Rings, NEW s \in Server, Start(s)
    PROVE  Rings'
<1>1. /\ phase[s] = "off" /\ phase' = [phase EXCEPT ![s] = "waits"]
      /\ \E i \in Id : /\ id' = [id EXCEPT ![s] = i]
                       /\ lst' = [lst EXCEPT ![s] = <<Entry(i, s, 0)>>]
      /\ Multicast(s)
      /\ UNCHANGED <<attempt, box, taken, ltcp, succ>>
  BY DEF Start
<1>2. TypeOK /\ TypeOK' /\ Consistent /\ Consistent'
  BY DEF IInv
<1>3. /\ phase'[s] = "waits"
      /\ \A x \in Server : x # s => phase'[x] = phase[x] /\ id'[x] = id[x] /\ lst'[x] = lst[x]
      /\ \A x, l \in Server : x # s /\ x \in mc'[l] => x \in mc[l]
  <2>1. phase'[s] = "waits" /\ \A x \in Server : x # s => phase'[x] = phase[x]
    BY <1>1, <1>2 DEF TypeOK
  <2>2. \A x \in Server : x # s => id'[x] = id[x] /\ lst'[x] = lst[x]
    BY <1>1, <1>2 DEF TypeOK
  <2>3. \A x, l \in Server : x # s /\ x \in mc'[l] => x \in mc[l]
    <3>1. Multicast(s)
      BY <1>1
    <3> QED
      BY <1>2, <3>1, MulticastType
  <2> QED
    BY <2>1, <2>2, <2>3
<1>4. Ages /\ Widens
  <2>1. Ages
    BY <1>1, <1>2, <1>3 DEF Ages, Started, Leads, Follows, TypeOK, Alive
  <2>2. \A x \in Server : Len(box[x]) \in Nat
    BY <1>2, NothingMore, BoxType
  <2> QED
    BY <1>1, <2>1, <2>2 DEF Widens
<1>5. Turns
  BY <1>1, <1>2, <1>3, <1>4 DEF Turns, Waits
<1>6. Muted(Nobody)
  BY <1>1, <1>3 DEF Muted, Follows, Has, Started
<1> QED
  BY <1>5, <1>6, MutedKeeps

-----------------------------------------------------------------------------
(* Connections that service_discovery() has accepted may go unread.        *)
EndsKept(c, d) ==
    \A p \in Server : /\ d[p].who = c[p].who /\ d[p].at = c[p].at
                      /\ d[p].is = c[p].is \/ c[p].at # 0

LEMMA UnwatchedEnds ==
    ASSUME NEW c \in Successors, NEW s \in Server, NEW A, 0 \notin A,
           NEW d, d = Unwatched(s, A, c)
    PROVE  EndsKept(c, d)
<1>1. SameEnds(c, d)
  BY UnwatchedType
<1>2. \A p \in Server : d[p] = IF c[p].who = s /\ c[p].is = "open" /\ c[p].at \in A
                               THEN [c[p] EXCEPT !.is = "unread"] ELSE c[p]
  BY DEF Unwatched
<1> QED
  BY <1>1, <1>2 DEF EndsKept, SameEnds

LEMMA LeadRings ==
    ASSUME IInv, IInv', Alive, NoNamesakes, Rings, NEW s \in Server, Waits(s),
           NEW n \in Nat, NEW sc \in Successors, EndsKept(succ, sc), Lead(s, n, sc),
           UNCHANGED <<id, lst, ltcp>>, mc' = mc \/ Multicast(s)
    PROVE  Rings'
<1>1. /\ phase' = [phase EXCEPT ![s] = "leads"] /\ box' = [box EXCEPT ![s] = << >>]
      /\ succ' = Unwatched(s, 1 .. n, sc)
  BY DEF Lead
<1>2. TypeOK /\ TypeOK' /\ Consistent
  BY DEF IInv
<1>3. /\ phase'[s] = "leads" /\ box'[s] = << >>
      /\ \A x \in Server : x # s => phase'[x] = phase[x] /\ box'[x] = box[x]
      /\ \A x, l \in Server : x # s /\ x \in mc'[l] => x \in mc[l]
  <2>1. /\ phase'[s] = "leads" /\ box'[s] = << >>
        /\ \A x \in Server : x # s => phase'[x] = phase[x] /\ box'[x] = box[x]
    BY <1>1, <1>2 DEF TypeOK
  <2>2. \A x, l \in Server : x # s /\ x \in mc'[l] => x \in mc[l]
    BY <1>2, MulticastType
  <2> QED
    BY <2>1, <2>2
<1>4. Alive'
  BY <1>3 DEF Alive
<1>5. Consistent'
  BY <1>4 DEF IInv
<1>6. \A x \in Server : Len(box[x]) \in Nat
  BY <1>2, NothingMore, BoxType
<1>7. \A i : i \notin 1 .. Len(box'[s])
  BY <1>3
<1>8. Ages
  BY <1>3 DEF Ages, Started, Leads, Follows, Waits
<1>9. Widens
  BY <1>3, <1>6, <1>7 DEF Widens
<1>10. Turns
  BY <1>2, <1>3, <1>4, <1>5, <1>8, <1>9 DEF Turns, Waits
<1>11. EndsKept(succ, succ')
  <2>1. EndsKept(sc, succ')
    BY <1>1, UnwatchedEnds
  <2> QED
    BY <2>1 DEF EndsKept
<1>12. Muted(Nobody)
  BY <1>3, <1>7, <1>11 DEF Muted, Follows, Has, EndsKept
<1> QED
  BY <1>10, <1>12, MutedKeeps

(* A round of select() is over.                                            *)
LEMMA NextRoundRings ==
    ASSUME IInv, IInv', Alive, NoNamesakes, Rings, NEW s \in Server, Waits(s),
           NEW b, More(box, b), \A t \in Server : Len(b[t]) = Len(box[t]),
           \A t \in Server : \A i \in 1 .. Len(box[t]) :
               Leads(box[t][i].from) => b[t][i].msgs = box[t][i].msgs,
           \A t \in Server : \A i, m : Has(b, t, i, m) => Has(box, t, i, m),
           NEW n \in Nat, NEW sc \in Successors, EndsKept(succ, sc), NextRound(s, b, n, sc)
    PROVE  Rings'
<1>1. CASE Lead(s, n, sc)
  BY <1>1, LeadRings DEF NextRound
<1>2. CASE box' = b /\ succ' = sc /\ UNCHANGED <<phase, id, lst, ltcp, mc>>
  <2>1. Turns
    BY <1>2, CalmTurns
  <2>2. Muted(Nobody)
    BY <1>2 DEF Muted, Follows, Has, EndsKept
  <2> QED
    BY <2>1, <2>2, MutedKeeps
<1> QED
  BY <1>1, <1>2 DEF NextRound

LEMMA SilentRoundRings ==
    ASSUME IInv, IInv', Alive, NoNamesakes, Rings, NEW s \in Server,
           Timeout(s) \/ Accept(s) \/ Idle(s) \/ ReadEnd(s)
    PROVE  Rings'
<1>1. succ \in Successors /\ EndsKept(succ, succ) /\ More(box, box) /\ taken[s] \in Nat
  BY NothingMore DEF IInv, TypeOK, Successors, EndsKept
<1>2. CASE Timeout(s)
  BY <1>1, <1>2, LeadRings DEF Timeout
<1>3. CASE ReadEnd(s)
  BY <1>1, <1>3, LeadRings DEF ReadEnd, Reads
<1>4. CASE Accept(s)
  BY <1>1, <1>4, NextRoundRings DEF Accept
<1>5. CASE Idle(s)
  BY <1>1, <1>5, NextRoundRings DEF Idle
<1> QED
  BY <1>2, <1>3, <1>4, <1>5

LEMMA MisreadRings ==
    ASSUME IInv, IInv', Alive, NoNamesakes, Rings, NEW s \in Server, Misread(s)
    PROVE  Rings'
<1>1. /\ TypeOK /\ Consistent /\ Waits(s) /\ succ \in Successors /\ box \in Boxes
      /\ taken[s] \in Unread(s) /\ Head(box[s][taken[s]].msgs).kind = "HEARTBEAT"
  BY NothingMore DEF IInv, Misread, Reads, TypeOK, Successors
<1>2. PICK i \in 1 .. Len(box[s]) : i = taken[s] /\ i \in Nat /\ box[s][i].msgs # << >>
  <2>1. taken[s] \in Nat /\ taken[s] <= Len(box[s]) /\ Len(box[s]) \in Nat
    BY <1>1, BoxType DEF TypeOK
  <2>2. taken[s] \in 1 .. taken[s] /\ box[s][taken[s]].msgs # << >>
    BY <1>1 DEF Unread
  <2> QED
    BY <2>1, <2>2
<1>3. PICK b : b = Rewrite(box, s, i, << >>)
  OBVIOUS
<1>4. PICK d : d = [t \in Server |-> IF succ[t].who = s /\ succ[t].at = i
                                     THEN [succ[t] EXCEPT !.is = "closed"] ELSE succ[t]]
  OBVIOUS
<1>5. NextRound(s, b, i, d)
  <2>1. b = [box EXCEPT ![s][i].msgs = << >>]
    BY <1>3 DEF Rewrite
  <2> QED
    BY <1>2, <1>4, <2>1 DEF Misread
<1>6. d \in Successors /\ EndsKept(succ, d)
  <2> DEFINE S == {t \in Server : succ[t].who = s /\ succ[t].at = i}
  <2>1. S \in SUBSET Server /\ \A t \in S : succ[t].who # Nobody
    BY ServerAssumption
  <2>2. d = [t \in Server |-> IF t \in S THEN [succ[t] EXCEPT !.is = "closed"] ELSE succ[t]]
    BY <1>4
  <2>3. \A t \in S : succ[t].at # 0
    BY <1>2
  <2> HIDE DEF S
  <2>4. d \in Successors /\ SameEnds(succ, d)
    BY <1>1, <2>1, <2>2, ChangedIs
  <2> QED
    BY <2>2, <2>3, <2>4 DEF EndsKept, SameEnds
<1>7. FewerMessages(box, s, b)
  BY <1>1, <1>3, NoElements, Removed
<1>8. \A t \in Server : \A j \in 1 .. Len(box[t]) : t # s \/ j # i => b[t][j] = box[t][j]
  <2>1. PICK q \in Seq(Message) : q = << >>
    BY NoElements
  <2>2. \A t \in Server : \A j \in 1 .. Len(box[t]) :
            b[t][j] = IF t = s /\ j = i THEN [from |-> box[s][i].from, msgs |-> q]
                      ELSE box[t][j]
    <3>1. b = Rewrite(box, s, i, q)
      BY <1>3, <2>1
    <3> QED
      BY <1>1, <3>1, Rewritten
  <2> QED
    BY <2>2
<1>9. ~Leads(box[s][i].from)
  <2>1. PICK m : m = Head(box[s][i].msgs)
    OBVIOUS
  <2>2. m \in ToSet(box[s][i].msgs) /\ i \in DOMAIN box[s]
    BY <1>1, <1>2, <2>1, BoxType, Elements
  <2>3. Written(s, i, m)
    BY <1>1, <2>2 DEF Consistent, MessagesOk
  <2> QED
    BY <1>1, <1>2, <2>1, <2>3 DEF Written, Follows, Leads
<1>10. \A t \in Server : \A j \in 1 .. Len(box[t]) :
           Leads(box[t][j].from) => b[t][j].msgs = box[t][j].msgs
  BY <1>8, <1>9
<1> QED
  BY <1>1, <1>2, <1>5, <1>6, <1>7, <1>10, NextRoundRings DEF FewerMessages

-----------------------------------------------------------------------------
(* What r has not read to the end says the same as before; once r has read *)
(* all of it, the last word was the successor that r has now.              *)
LEMMA WordTaken ==
    ASSUME NEW q \in Seq(Message), q # << >>
    PROVE  /\ Tail(q) # << >> => Last(Tail(q)) = Last(q)
           /\ Tail(q) = << >> => Last(q) = Head(q)
<1>1. /\ Tail(q) \in Seq(Message) /\ Len(Tail(q)) = Len(q) - 1 /\ Len(q) \in Nat \ {0}
      /\ \A j \in 1 .. Len(q) - 1 : Tail(q)[j] = q[j + 1]
      /\ Head(q) = q[1]
  BY EmptySeq, HeadTailProperties
<1>2. ASSUME Tail(q) # << >> PROVE Last(Tail(q)) = Last(q)
  <2>1. Len(Tail(q)) # 0
    BY <1>1, <1>2, EmptySeq
  <2>2. Len(q) - 1 \in 1 .. Len(q) - 1 /\ (Len(q) - 1) + 1 = Len(q)
    BY <1>1, <2>1
  <2>3. Tail(q)[Len(q) - 1] = q[Len(q)]
    BY <1>1, <2>2
  <2> QED
    BY <1>1, <2>3 DEF Last
<1>3. ASSUME Tail(q) = << >> PROVE Last(q) = Head(q)
  <2>1. Len(Tail(q)) = 0
    BY <1>1, <1>3, EmptySeq
  <2>2. Len(q) = 1
    <3>1. \A n \in Nat \ {0} : n - 1 = 0 => n = 1
      OBVIOUS
    <3>2. Len(q) \in Nat \ {0} /\ Len(q) - 1 = 0
      BY <1>1, <2>1
    <3> QED
      BY <3>1, <3>2
  <2> QED
    BY <1>1, <2>2 DEF Last
<1> QED
  BY <1>2, <1>3

LEMMA WordObeyed ==
    ASSUME Turns, NEW r \in Server, NEW i \in 1 .. Len(box[r]), NEW x \in Server,
           NEW l \in Server, box[r][i].msgs # << >>, Obeys(r, i, x, l),
           box'[r][i].msgs = Tail(box[r][i].msgs),
           Head(box[r][i].msgs).succ = x => succ'[r].who = x
    PROVE  Obeys(r, i, x, l)'
<1>1. box[r][i].msgs \in Seq(Message)
  BY BoxType DEF Turns, TypeOK, Boxes, Connection
<1>2. Last(box[r][i].msgs).succ = x
  BY DEF Obeys
<1>3. CASE box'[r][i].msgs # << >>
  <2>1. Last(box'[r][i].msgs) = Last(box[r][i].msgs)
    BY <1>1, <1>3, WordTaken
  <2> QED
    BY <1>2, <1>3, <2>1 DEF Obeys
<1>4. CASE box'[r][i].msgs = << >>
  <2>1. Last(box[r][i].msgs) = Head(box[r][i].msgs)
    BY <1>1, <1>4, WordTaken
  <2> QED
    BY <1>2, <1>4, <2>1 DEF Obeys
<1> QED
  BY <1>3, <1>4

(* A server t that r gets for its successor from its leader l: as long as  *)
(* it waits l has connected to it, and if it can still follow l, what r    *)
(* connects to is accepted by main(), or l was not the last to connect.    *)
LEMMA SuccessorNew ==
    ASSUME Turns, NEW r \in Server, NEW t \in Server, NEW l \in Server, NEW i, NEW m,
           Has(box, r, i, m), box[r][i].from = l, m.succ = t, Leads(l), Started(t), t # r,
           phase'[t] = phase[t],
           Waits(t) => \E j \in 1 .. Len(box'[t]) :
                          j \notin 1 .. Len(box[t]) /\ Len(box'[t]) = j
    PROVE  Waits(t) => Missed(t, l)'
<1> SUFFICES ASSUME Waits(t) PROVE Missed(t, l)'
  OBVIOUS
<1>1. Reached(l, t)
  BY DEF Turns, Rings, NamedOk, Named
<1>2. PICK j \in 1 .. Len(box[t]) : box[t][j].from = l
  BY <1>1 DEF Reached
<1>3. PICK n \in 1 .. Len(box'[t]) : n \notin 1 .. Len(box[t]) /\ Len(box'[t]) = n
  OBVIOUS
<1>4. Len(box[t]) \in Nat /\ Len(box'[t]) \in Nat
  BY Places
<1>5. j \in 1 .. Len(box'[t]) /\ j \in 1 .. Len(box'[t]) - 1
  BY <1>2, <1>3, <1>4
<1>6. box'[t][j].from = l
  BY <1>2, <1>5 DEF Turns, Widens
<1> QED
  BY <1>5, <1>6 DEF Missed, Waits

LEMMA RecvUpdateRings ==
    ASSUME IInv, IInv', Alive, NoNamesakes, Rings, NEW f \in Server, RecvUpdate(f)
    PROVE  Rings'
<1>1. TypeOK /\ Consistent /\ Follows(f) /\ box \in Boxes
  BY NothingMore DEF IInv, RecvUpdate
<1>2. PICK l \in Server, i \in 1 .. Len(box[f]) :
         /\ l = LeaderOf(f) /\ i = ltcp[f] /\ Leads(l) /\ l # f
         /\ box[f][i].from = l /\ box[f][i].msgs \in Seq(Message)
  BY <1>1, LeaderThere, BoxType DEF LeaderOf
<1>3. PICK q \in Seq(Message) : q = box[f][i].msgs
  BY <1>2
<1>4. PICK m \in Message : m = Head(q) /\ q # << >> /\ m \in ToSet(q) /\ m.kind = "UPDATE_FROM_LEADER"
  <2>1. q # << >> /\ Head(q).kind = "UPDATE_FROM_LEADER"
    BY <1>2, <1>3 DEF RecvUpdate
  <2> QED
    BY <1>1, <1>2, <1>3, <2>1, Elements, BoxType
<1>5. PICK t \in Server : t = m.succ
  BY <1>4, Kinds
<1>6. /\ t # f /\ Started(t) /\ Has(box, f, i, m)
      /\ Tail(q) \in Seq(Message) /\ \A x \in ToSet(Tail(q)) : x \in ToSet(q)
  <2>1. Written(f, i, m)
    BY <1>1, <1>2, <1>3, <1>4, BoxType DEF Consistent, MessagesOk
  <2>2. Tail(q) \in Seq(Message) /\ \A x \in ToSet(Tail(q)) : x \in ToSet(q)
    BY <1>4, Elements
  <2> QED
    BY <1>2, <1>3, <1>4, <1>5, <2>1, <2>2, ServerAssumption DEF Written, Has
<1>7. PICK b : b = Rewrite(box, f, i, Tail(q))
  OBVIOUS
<1>8. PICK c : c = Connected(b, f, t)
  OBVIOUS
<1>9. PICK at : at = PlaceAt(c, t)
  OBVIOUS
<1>10. PICK old : old = succ[f]
  OBVIOUS
<1> DEFINE ends == Len(lst[f]) > 2 /\ old.is # "closed" /\ Waits(old.who)
<1>11. /\ \A s \in Server : s # f => lst'[s] = lst[s] /\ succ'[s] = succ[s]
       /\ succ'[f] = [who |-> t, at |-> at, is |-> "open"]
       /\ box' = IF ends THEN Sent(c, old.who, old.at, EndOfFile) ELSE c
       /\ UNCHANGED <<phase, id, attempt, taken, ltcp, mc, spent>>
  <2>1. b = [box EXCEPT ![f][ltcp[f]].msgs = Tail(@)]
    BY <1>2, <1>3, <1>7 DEF Rewrite
  <2>2. t = Head(box[f][ltcp[f]].msgs).succ
    BY <1>2, <1>3, <1>4, <1>5
  <2>3. PICK k : lst' = [lst EXCEPT ![f] = k]
    BY DEF RecvUpdate
  <2>4. Entry(id[t], t, PlaceAt(c, t)).at = at
    BY <1>9 DEF Entry
  <2>5. /\ succ' = [succ EXCEPT ![f] = [who |-> t, at |-> at, is |-> "open"]]
        /\ box' = IF ends THEN Sent(c, old.who, old.at, EndOfFile) ELSE c
        /\ UNCHANGED <<phase, id, attempt, taken, ltcp, mc, spent>>
    BY <1>8, <1>10, <2>1, <2>2, <2>4 DEF RecvUpdate
  <2> QED
    BY <1>1, <2>3, <2>5 DEF TypeOK
<1>12. /\ b \in Boxes /\ More(box, b) /\ b[f][i].msgs = Tail(q)
       /\ \A x \in Server : Len(b[x]) = Len(box[x])
       /\ \A x \in Server : \A j \in 1 .. Len(box[x]) : x # f \/ j # i => b[x][j] = box[x][j]
       /\ \A x \in Server : \A j, n : Has(b, x, j, n) => Has(box, x, j, n)
  <2>1. FewerMessages(box, f, b)
    BY <1>1, <1>2, <1>3, <1>6, <1>7, Removed
  <2>2. PICK r \in Seq(Message) : r = Tail(q)
    BY <1>6
  <2>3. \A x \in Server : \A j \in 1 .. Len(box[x]) :
            b[x][j] = IF x = f /\ j = i THEN [from |-> box[f][i].from, msgs |-> r]
                      ELSE box[x][j]
    <3>1. b = Rewrite(box, f, i, r)
      BY <1>7, <2>2
    <3> QED
      BY <1>1, <1>2, <3>1, Rewritten
  <2>4. b[f][i].msgs = Tail(q)
    BY <1>2, <2>2, <2>3
  <2> QED
    BY <2>1, <2>3, <2>4 DEF FewerMessages
<1>13. /\ c \in Boxes /\ More(b, c) /\ at \in Nat
       /\ \A x \in Server : \A j \in 1 .. Len(box[x]) : j \in 1 .. Len(c[x]) /\ c[x][j] = b[x][j]
       /\ \A x \in Server : \A j \in 1 .. Len(c[x]) : j \in 1 .. Len(box[x]) \/ c[x][j].from = f
       /\ \A x \in Server : \A j, n : Has(c, x, j, n) => Has(box, x, j, n)
       /\ ~Waits(t) => at = 0
       /\ Waits(t) => Len(c[t]) = Len(box[t]) + 1
  <2>1. MoreConnections(b, f, t, c)
    BY <1>8, <1>12, ConnectedAdds
  <2>2. /\ \A x \in Server : \A j \in 1 .. Len(b[x]) :
               j \in 1 .. Len(c[x]) /\ c[x][j] = b[x][j]
        /\ \A x \in Server : \A j \in 1 .. Len(c[x]) :
               j \in 1 .. Len(b[x]) \/ c[x][j].from = f
    <3>1. /\ \A x \in Server : \A j \in 1 .. Len(b[x]) :
                 j \in 1 .. Len(c[x]) /\ c[x][j] = b[x][j]
          /\ \A x \in Server : \A j \in 1 .. Len(c[x]) :
                 \/ j \in 1 .. Len(b[x])
                 \/ x = t /\ Waits(t) /\ j = Len(c[x]) /\ c[x][j].from = f /\ c[x][j].msgs = << >>
      BY <1>8, <1>12, ConnectedAt
    <3> QED
      BY <3>1
  <2> QED
    BY <1>9, <1>12, <2>1, <2>2 DEF MoreConnections
<1>14. /\ More(c, box')
       /\ \A x \in Server : Len(box'[x]) = Len(c[x])
       /\ \A x \in Server : \A j \in 1 .. Len(c[x]) :
             c[x][j].from # f => box'[x][j].msgs = c[x][j].msgs
       /\ \A x \in Server : \A j, n : Has(box', x, j, n) =>
             Has(c, x, j, n) \/ box'[x][j].from = f
  <2>1. CASE ~ends
    <3>1. box' = c
      BY <1>11, <2>1
    <3> QED
      BY <1>13, <3>1 DEF More
  <2>2. CASE ends
    <3>1. PICK s \in Server, p \in Nat : s = old.who /\ p = old.at /\ s # Nobody
      BY <1>1, <1>10, <2>2, SuccessorType, ServerAssumption
    <3>2. Reading(s, p) => p <= Len(box[s]) /\ box[s][p].from = f /\ p > 0
      BY <1>1, <1>10, <3>1 DEF Consistent, ConnectionOk, Joins, Reading
    <3>3. Len(box[s]) \in Nat /\ Len(c[s]) \in Nat /\ More(box, c)
      BY <1>1, <1>12, <1>13, BoxType, MoreAndMore
    <3>4. Reading(s, p) => p <= Len(c[s]) /\ p \in 1 .. Len(c[s]) /\ c[s][p].from = f
      BY <3>2, <3>3 DEF More
    <3>5. box' = Sent(c, s, p, EndOfFile) /\ EndOfFile \in Message
      BY <1>11, <2>2, <3>1, Kinds
    <3>6. /\ More(c, box')
          /\ \A x, j, n : Has(box', x, j, n) /\ x \in Server =>
                Has(c, x, j, n) \/ (x = s /\ j = p /\ n = EndOfFile /\ Reading(s, p))
      BY <1>13, <3>4, <3>5, SentAdds DEF SentOn
    <3>7. /\ \A x \in Server : Len(box'[x]) = Len(c[x])
          /\ \A x \in Server : \A j \in 1 .. Len(c[x]) :
                /\ box'[x][j].from = c[x][j].from
                /\ ~(x = s /\ j = p /\ Reading(s, p)) => box'[x][j].msgs = c[x][j].msgs
      <4>1. JustThere(c, s, p, EndOfFile, box')
        BY <1>13, <3>4, <3>5, SentAt
      <4> QED
        BY <4>1 DEF JustThere
    <3>8. Reading(s, p) => box'[s][p].from = f
      BY <3>4, <3>7
    <3> QED
      BY <3>4, <3>6, <3>7, <3>8
  <2> QED
    BY <2>1, <2>2
<1> HIDE DEF ends
<1>15. Turns
  <2>1. More(box, c)
    BY <1>12, <1>13, MoreAndMore
  <2>2. More(box, box')
    BY <1>14, <2>1, MoreAndMore
  <2> QED
    BY <1>11, <2>2, CalmTurns
<1>16. \A x \in Server : \A j \in 1 .. Len(box[x]) :
          (x # f \/ j # i) /\ box[x][j].from # f => box'[x][j].msgs = box[x][j].msgs
  <2> SUFFICES ASSUME NEW x \in Server, NEW j \in 1 .. Len(box[x]),
                      x # f \/ j # i, box[x][j].from # f
               PROVE  box'[x][j].msgs = box[x][j].msgs
    OBVIOUS
  <2>1. b[x][j] = box[x][j]
    BY <1>12
  <2>2. j \in 1 .. Len(c[x]) /\ c[x][j] = b[x][j]
    BY <1>13
  <2>3. box'[x][j].msgs = c[x][j].msgs
    BY <1>14, <2>1, <2>2
  <2> QED
    BY <2>1, <2>2, <2>3
<1>17. Muted(f)
  <2>1. \A s \in Server : Started(s) => lst'[s] = lst[s] \/ phase'[s] = "follows"
    BY <1>1, <1>11 DEF Follows
  <2>2. \A s \in Server : \A j \in 1 .. Len(box'[s]) :
           j \in 1 .. Len(box[s]) \/ phase'[box'[s][j].from] = "follows"
    <3> SUFFICES ASSUME NEW s \in Server, NEW j \in 1 .. Len(box'[s]), j \notin 1 .. Len(box[s])
                 PROVE  phase'[box'[s][j].from] = "follows"
      OBVIOUS
    <3>1. j \in 1 .. Len(c[s]) /\ c[s][j].from = f
      BY <1>13, <1>14
    <3>2. box'[s][j].from = f
      BY <1>14, <3>1 DEF More
    <3> QED
      BY <1>1, <1>11, <3>2 DEF Follows
  <2>3. \A s \in Server \ {f} : \A j \in 1 .. Len(box[s]) :
           Leads(box[s][j].from) => box'[s][j].msgs = box[s][j].msgs
    BY <1>1, <1>16 DEF Follows, Leads
  <2>4. \A s \in Server : \A j, n :
           Has(box', s, j, n) => Has(box, s, j, n) \/ phase'[box'[s][j].from] = "follows"
    BY <1>1, <1>11, <1>13, <1>14 DEF Follows
  <2> QED
    BY <1>11, <2>1, <2>2, <2>3, <2>4 DEF Muted, Follows
<1>18. LeaderOf(f)' = l /\ phase'[f] = "follows"
  BY <1>1, <1>2, <1>11, <1>15, SameLeader DEF Follows
<1>19. SuccessorOk(f)'
  <2>1. ASSUME Waits(t) PROVE \E j \in 1 .. Len(box'[t]) :
                                 j \notin 1 .. Len(box[t]) /\ Len(box'[t]) = j
    <3>1. Len(box'[t]) = Len(box[t]) + 1 /\ Len(box[t]) \in Nat
      BY <1>1, <1>13, <1>14, <2>1, BoxType
    <3> QED
      BY <3>1
  <2>2. Waits(t) => Missed(t, l)'
    <3>1. phase'[t] = phase[t]
      BY <1>11
    <3> QED
      BY <1>2, <1>5, <1>6, <1>15, <2>1, <3>1, SuccessorNew
  <2>3. succ'[f].who = t /\ succ'[f].at = at /\ succ'[f].is = "open"
    BY <1>11
  <2> QED
    BY <1>13, <1>18, <2>2, <2>3 DEF SuccessorOk
<1>20. ASSUME NEW x \in Server, NEW g \in Server, NEW p \in Nat,
              Leads(g), Precedes(lst[g], f, p, x), Reading(f, p)', Obeys(f, p, x, g)
       PROVE  Obeys(f, p, x, g)'
  <2>1. p = i
    BY <1>1, <1>2, <1>15, <1>20, PeerReads
  <2>2. box'[f][i].msgs = Tail(box[f][i].msgs) /\ box[f][i].msgs # << >>
    <3>1. i \in 1 .. Len(c[f]) /\ c[f][i] = b[f][i] /\ c[f][i].from # f
      BY <1>2, <1>12, <1>13 DEF More
    <3> QED
      BY <1>3, <1>4, <1>12, <1>14, <3>1
  <2>3. Head(box[f][i].msgs).succ = x => succ'[f].who = x
    BY <1>3, <1>4, <1>5, <1>11
  <2>4. Obeys(f, i, x, g)
    BY <1>20, <2>1
  <2>5. Obeys(f, i, x, g)'
    BY <1>15, <2>2, <2>3, <2>4, WordObeyed
  <2> QED
    BY <2>1, <2>5
<1>21. ReadsOn(f)
  BY <1>18, <1>19, <1>20 DEF ReadsOn
<1> QED
  BY <1>15, <1>17, <1>21, MutedKeeps

LEMMA FollowRings ==
    ASSUME IInv, IInv', Alive, Alive', NoNamesakes, Rings, NEW s \in Server, Follow(s)
    PROVE  Rings'
<1>0. PICK l, i, t, b, at : Answered(s, l, i, t, b, at) /\ FollowedBy(s, l, i, t, b, at)
  BY FollowTaken
<1>1. /\ TypeOK /\ TypeOK' /\ Consistent /\ Consistent' /\ Waits(s) /\ box \in Boxes
      /\ l \in Server /\ Leads(l) /\ box[s][i].from = l
      /\ i \in 1 .. Len(box[s]) /\ i = Len(box[s])
      /\ t \in Server \cup {Nobody}
      /\ t # Nobody => t \in Server /\ t # s /\ Started(t)
      /\ box[s][i].msgs # << >> /\ t = Head(box[s][i].msgs).succ
  BY <1>0 DEF Answered, IInv
<1>2. /\ b \in Boxes /\ More(box, b) /\ at \in Nat
      /\ \A x \in Server : \A j, m : Has(b, x, j, m) => Has(box, x, j, m)
      /\ t # Nobody => /\ ~Waits(t) => at = 0
                       /\ Waits(t) => at \in 1 .. Len(b[t]) /\ b[t][at].from = s
      /\ b[s][i].msgs = Tail(box[s][i].msgs)
      /\ \A x \in Server \ {s} : \A j \in 1 .. Len(box[x]) : b[x][j] = box[x][j]
      /\ \A x \in Server : \A j \in 1 .. Len(b[x]) :
            j \in 1 .. Len(box[x]) \/ (x = t /\ Waits(t) /\ j = Len(b[t]) /\ b[x][j].from = s)
  BY <1>0 DEF Answered
<1>3. PICK others : others = Unwatched(s, (1 .. i) \ {i, 2}, succ)
  OBVIOUS
<1>4. /\ phase' = [phase EXCEPT ![s] = "follows"] /\ ltcp' = [ltcp EXCEPT ![s] = i]
      /\ box' = b /\ \E k : lst' = [lst EXCEPT ![s] = k]
      /\ succ' = IF t = Nobody THEN others
                 ELSE [others EXCEPT ![s] = [who |-> t, at |-> at, is |-> "open"]]
      /\ UNCHANGED <<id, attempt, taken, mc, spent>>
  BY <1>0, <1>3 DEF FollowedBy
<1>5. others \in Successors /\ EndsKept(succ, others)
  <2>1. i \in Nat /\ 0 \notin (1 .. i) \ {i, 2}
    BY <1>1
  <2>2. succ \in Successors
    BY <1>1 DEF TypeOK, Successors
  <2>3. PICK A : A = (1 .. i) \ {i, 2}
    OBVIOUS
  <2> QED
    BY <1>3, <2>1, <2>2, <2>3, UnwatchedType, UnwatchedEnds
<1>6. /\ phase'[s] = "follows" /\ ltcp'[s] = i
      /\ \A x \in Server : x # s => phase'[x] = phase[x] /\ ltcp'[x] = ltcp[x] /\ lst'[x] = lst[x]
      /\ \A x \in Server : x # s => succ'[x] = others[x]
      /\ t # Nobody => succ'[s] = [who |-> t, at |-> at, is |-> "open"]
      /\ t = Nobody => succ'[s] = others[s]
  <2>1. /\ phase'[s] = "follows" /\ ltcp'[s] = i
        /\ \A x \in Server : x # s => phase'[x] = phase[x] /\ ltcp'[x] = ltcp[x] /\ lst'[x] = lst[x]
    BY <1>1, <1>4 DEF TypeOK
  <2>2. /\ \A x \in Server : x # s => succ'[x] = others[x]
        /\ t # Nobody => succ'[s] = [who |-> t, at |-> at, is |-> "open"]
        /\ t = Nobody => succ'[s] = others[s]
    BY <1>4, <1>5 DEF Successors
  <2> QED
    BY <2>1, <2>2
<1>7. Turns
  <2>1. Ages
    BY <1>1, <1>4, <1>6 DEF Ages, Started, Leads, Follows, Waits
  <2>2. Widens
    <3>1. \A x \in Server : Len(box[x]) <= Len(b[x])
      BY <1>1, <1>2, MoreGrows
    <3> QED
      BY <1>2, <1>4, <3>1 DEF Widens, More
  <2>3. \A x \in Server : Waits(x) /\ phase'[x] = "follows" => ltcp'[x] = Len(box[x])
    BY <1>1, <1>6 DEF Waits
  <2> QED
    BY <1>1, <2>1, <2>2, <2>3 DEF Turns
<1>8. Muted(s)
  <2>1. \A x \in Server : Started(x) => lst'[x] = lst[x] \/ phase'[x] = "follows"
    BY <1>6
  <2>2. \A x \in Server : \A j \in 1 .. Len(box'[x]) :
           j \in 1 .. Len(box[x]) \/ phase'[box'[x][j].from] = "follows"
    BY <1>2, <1>4, <1>6
  <2>3. \A x \in Server \ {s} : \A j \in 1 .. Len(box[x]) : box'[x][j].msgs = box[x][j].msgs
    BY <1>2, <1>4
  <2>4. \A x \in Server : \A j, m : Has(box', x, j, m) => Has(box, x, j, m)
    BY <1>2, <1>4 DEF Has
  <2>5. \A p \in Server \ {s} :
           /\ phase'[p] = "follows" => Follows(p)
           /\ succ'[p].who = succ[p].who /\ succ'[p].at = succ[p].at
           /\ succ'[p].is = succ[p].is \/ succ[p].at # 0
    BY <1>5, <1>6 DEF EndsKept, Follows
  <2> QED
    BY <1>4, <2>1, <2>2, <2>3, <2>4, <2>5 DEF Muted
<1>9. LeaderOf(s)' = l
  BY <1>1, <1>2, <1>4, <1>6 DEF LeaderOf, More
<1>10. SuccessorOk(s)'
  <2>1. CASE t = Nobody
    <3>1. succ[s].who = Nobody
      BY <1>1 DEF Consistent, RoleOk, Waits, Follows
    <3>2. succ'[s].who = Nobody
      BY <1>5, <1>6, <2>1, <3>1 DEF EndsKept
    <3> QED
      BY <3>2, ServerAssumption DEF SuccessorOk
  <2>2. CASE t # Nobody
    <3>1. PICK m : m = Head(box[s][i].msgs)
      OBVIOUS
    <3>2. Has(box, s, i, m) /\ m.succ = t
      <4>1. m \in ToSet(box[s][i].msgs)
        BY <1>1, <3>1, BoxType, Elements
      <4> QED
        BY <1>1, <3>1, <4>1 DEF Has
    <3>3. ASSUME Waits(t)
          PROVE  \E j \in 1 .. Len(box'[t]) : j \notin 1 .. Len(box[t]) /\ Len(box'[t]) = j
      <4>1. Len(b[t]) \in Nat /\ at \in 1 .. Len(b[t]) /\ b[t][at].from = s
        BY <1>1, <1>2, <2>2, <3>3, BoxType
      <4>2. Len(b[t]) \in 1 .. Len(b[t])
        BY <4>1
      <4>3. Len(b[t]) \notin 1 .. Len(box[t])
        <5>1. at \notin 1 .. Len(box[t])
          <6>1. ASSUME at \in 1 .. Len(box[t]) PROVE FALSE
            <7>1. box[t][at].from = s
              BY <1>1, <1>2, <2>2, <4>1, <6>1
            <7>2. OnlyOne(t, at, s)
              BY <1>1, <2>2, <6>1, <7>1 DEF Rings, ConnectionsOk
            <7> QED
              BY <1>1, <7>2 DEF OnlyOne, Waits, Leads, Follows
          <6> QED
            BY <6>1
        <5> QED
          BY <1>1, <1>2, <2>2, <4>1, <5>1
      <4> QED
        BY <1>4, <4>2, <4>3
    <3>4. Waits(t) => Missed(t, l)'
      <4>1. phase'[t] = phase[t]
        BY <1>1, <1>6, <2>2
      <4> QED
        BY <1>1, <1>7, <2>2, <3>2, <3>3, <4>1, SuccessorNew
    <3>5. succ'[s].who = t /\ succ'[s].at = at /\ succ'[s].is = "open"
      BY <1>6, <2>2
    <3> QED
      BY <1>2, <1>9, <2>2, <3>4, <3>5 DEF SuccessorOk
  <2> QED
    BY <2>1, <2>2
<1>11. ASSUME NEW x \in Server, NEW g \in Server, NEW p \in Nat,
              Leads(g), Precedes(lst[g], s, p, x), Reading(s, p)', Obeys(s, p, x, g)
       PROVE  Obeys(s, p, x, g)'
  <2>1. p = i
    BY <1>6, <1>11 DEF Reading, Waits, Follows
  <2>2. box'[s][i].msgs = Tail(box[s][i].msgs)
    BY <1>2, <1>4
  <2>3. Head(box[s][i].msgs).succ = x => succ'[s].who = x
    BY <1>1, <1>6, ServerAssumption
  <2>4. Obeys(s, i, x, g)
    BY <1>11, <2>1
  <2>5. Obeys(s, i, x, g)'
    BY <1>1, <1>7, <2>2, <2>3, <2>4, WordObeyed
  <2> QED
    BY <2>1, <2>5
<1>12. ReadsOn(s)
  BY <1>6, <1>10, <1>11 DEF ReadsOn
<1> QED
  BY <1>7, <1>8, <1>12, MutedKeeps

-----------------------------------------------------------------------------
(* The neighbours in the ring of a sorted list of two peers or more.       *)
LEMMA Neighboured ==
    ASSUME NEW n \in Nat, n > 2, NEW i \in 2 .. n, NEW j \in 2 .. n
    PROVE  /\ Onward(i, n) \in 2 .. n /\ Back(i, n) \in 2 .. n
           /\ Back(i, n) # i /\ Onward(Back(i, n), n) = i
           /\ Onward(j, n) = i => j = Back(i, n)
  BY DEF Onward, Back

LEMMA InRing ==
    ASSUME NEW k \in Seq(Record), TailSorted(k), Len(k) > 2, NEW n \in 2 .. Len(k)
    PROVE  /\ get_successor(k[n].id, k) = Onward(n, Len(k))
           /\ PredecessorInRing(k[n].id, k) = Back(n, Len(k))
<1>1. \A e \in Record : e.id \in Nat
  BY IdAssumption DEF Record
<1>2. /\ get_successor(k[n].id, k) = IF n = Len(k) THEN 2 ELSE n + 1
      /\ get_predecessor(k[n].id, k) = n - 1
  BY <1>1, Neighbours
<1>3. Len(k) \in Nat
  OBVIOUS
<1>4. n - 1 = 1 <=> n = 2
  BY <1>3
<1> QED
  BY <1>2, <1>4 DEF Onward, Back, PredecessorInRing, get_last_server

(* k is the ring l without its member n.                                   *)
LeftOut(l, n, k) ==
    /\ k \in Seq(Record) /\ TailSorted(k)
    /\ \A m \in 2 .. Len(k) : \E j \in 2 .. Len(l) : k[m] = l[j]
    /\ Len(k) > 2 =>
          /\ Len(l) > 3
          /\ \A m \in 2 .. Len(k) :
                \/ /\ k[m] = l[Back(n, Len(l))]
                   /\ Onward(m, Len(k)) = IF n > Len(k) THEN 2 ELSE n
                \/ \E j \in 2 .. Len(l) :
                      /\ j # Back(n, Len(l)) /\ k[m] = l[j]
                      /\ k[Onward(m, Len(k))] = l[Onward(j, Len(l))]

LEMMA RingShortened ==
    ASSUME NEW l \in Seq(Record), TailSorted(l), NEW n \in 2 .. Len(l),
           NEW k, k = delete_server(l, l[n].id)
    PROVE  LeftOut(l, n, k)
<1>1. \A e \in Record : e.id \in Nat
  BY IdAssumption DEF Record
<1>2. /\ k \in Seq(Record) /\ TailSorted(k) /\ Len(k) = Len(l) - 1
      /\ \A i \in 1 .. n-1 : k[i] = l[i]
      /\ \A i \in n .. Len(l) - 1 : k[i] = l[i+1]
  BY <1>1, DeletedSorted
<1>3. PICK c \in Nat : c = Len(l)
  OBVIOUS
<1>4. Len(k) = c - 1 /\ n \in 2 .. c
  BY <1>2, <1>3
<1> DEFINE Old(m) == IF m < n THEN m ELSE m + 1
<1>5. ASSUME NEW m \in 2 .. c - 1
      PROVE  Old(m) \in 2 .. c /\ Old(m) # n /\ k[m] = l[Old(m)]
  <2>1. CASE m < n
    <3>1. m \in 1 .. n - 1 /\ m \in 2 .. c /\ m # n
      BY <1>4, <2>1
    <3> QED
      BY <1>2, <2>1, <3>1
  <2>2. CASE ~(m < n)
    <3>1. m \in n .. c - 1 /\ m + 1 \in 2 .. c /\ m + 1 # n
      BY <1>4, <2>2
    <3> QED
      BY <1>2, <1>3, <2>2, <3>1
  <2> QED
    BY <2>1, <2>2
<1>6. ASSUME c - 1 > 2, NEW m \in 2 .. c - 1
      PROVE  \/ Old(m) = Back(n, c) /\ Onward(m, c - 1) = IF n > c - 1 THEN 2 ELSE n
             \/ Old(m) # Back(n, c) /\ Old(Onward(m, c - 1)) = Onward(Old(m), c)
                /\ Onward(m, c - 1) \in 2 .. c - 1
  BY <1>4, <1>6 DEF Onward, Back
<1>7. ASSUME NEW m \in 2 .. Len(k) PROVE \E j \in 2 .. Len(l) : k[m] = l[j]
  <2>1. Old(m) \in 2 .. c /\ k[m] = l[Old(m)]
    BY <1>4, <1>5
  <2> QED
    BY <1>3, <2>1
<1>8. ASSUME Len(k) > 2, NEW m \in 2 .. Len(k)
      PROVE  \/ /\ k[m] = l[Back(n, Len(l))]
                /\ Onward(m, Len(k)) = IF n > Len(k) THEN 2 ELSE n
             \/ \E j \in 2 .. Len(l) :
                   /\ j # Back(n, Len(l)) /\ k[m] = l[j]
                   /\ k[Onward(m, Len(k))] = l[Onward(j, Len(l))]
  <2>1. c - 1 > 2 /\ m \in 2 .. c - 1
    BY <1>4, <1>8
  <2>2. Old(m) \in 2 .. c /\ k[m] = l[Old(m)]
    BY <1>5, <2>1
  <2>3. CASE Old(m) = Back(n, c) /\ Onward(m, c - 1) = IF n > c - 1 THEN 2 ELSE n
    BY <1>3, <1>4, <2>2, <2>3
  <2>4. CASE Old(m) # Back(n, c) /\ Old(Onward(m, c - 1)) = Onward(Old(m), c)
                /\ Onward(m, c - 1) \in 2 .. c - 1
    <3>1. k[Onward(m, c - 1)] = l[Onward(Old(m), c)]
      BY <1>5, <2>4
    <3> HIDE DEF Old
    <3> QED
      BY <1>3, <1>4, <2>2, <2>4, <3>1
  <2> QED
    BY <1>6, <2>1, <2>3, <2>4
<1>9. Len(k) > 2 => Len(l) > 3
  BY <1>3, <1>4
<1> QED
  BY <1>2, <1>7, <1>8, <1>9 DEF LeftOut

(* k is the ring l with another member, e, at the place q.                 *)
Enlarged(l, e, q, k) ==
    /\ k[q] = e
    /\ \A m \in 2 .. Len(k) : m = q \/ \E j \in 2 .. Len(l) : k[m] = l[j]
    /\ Len(k) > 2 =>
          /\ Len(l) # 1
          /\ \A m \in 2 .. Len(k) :
                \/ m = q
                \/ m = Back(q, Len(k))
                \/ /\ Len(l) > 2
                   /\ \E j \in 2 .. Len(l) :
                         /\ k[m] = l[j]
                         /\ k[Onward(m, Len(k))] = l[Onward(j, Len(l))]

LEMMA RingGrown ==
    ASSUME NEW l \in Seq(Record), Len(l) > 0, TailSorted(l),
           NEW e \in Record, ~server_info_exist(e.id, l),
           NEW k, k = append_server_sorted(l, e)
    PROVE  /\ k \in Seq(Record) /\ TailSorted(k)
           /\ \E q \in 2 .. Len(k) : Enlarged(l, e, q, k)
<1>1. \A x \in Record : x.id \in Nat
  BY IdAssumption DEF Record
<1>2. /\ k \in Seq(Record) /\ TailSorted(k)
      /\ \E q \in 2 .. Len(k) : Inserted(l, e, q, k)
  <2>1. l # << >>
    OBVIOUS
  <2> QED
    BY <1>1, <2>1, AppendedSorted
<1>3. PICK q \in 2 .. Len(k) : Inserted(l, e, q, k)
  BY <1>2
<1>4. PICK c \in Nat : c = Len(l) /\ c > 0
  OBVIOUS
<1>5. /\ Len(k) = c + 1 /\ q \in 2 .. c + 1 /\ k[q] = e
      /\ \A i \in 1 .. q - 1 : k[i] = l[i]
      /\ \A i \in q + 1 .. c + 1 : k[i] = l[i - 1]
  BY <1>3, <1>4 DEF Inserted
<1> DEFINE Old(m) == IF m < q THEN m ELSE m - 1
<1>6. ASSUME NEW m \in 2 .. c + 1, m # q
      PROVE  Old(m) \in 2 .. c /\ k[m] = l[Old(m)]
  <2>1. CASE m < q
    <3>1. m \in 1 .. q - 1 /\ m \in 2 .. c
      BY <1>5, <2>1
    <3> QED
      BY <1>5, <2>1, <3>1
  <2>2. CASE ~(m < q)
    <3>1. m \in q + 1 .. c + 1 /\ m - 1 \in 2 .. c
      BY <1>5, <1>6, <2>2
    <3> QED
      BY <1>5, <2>2, <3>1
  <2> QED
    BY <2>1, <2>2
<1>7. ASSUME c > 1, NEW m \in 2 .. c + 1, m # q, m # Back(q, c + 1)
      PROVE  /\ Onward(m, c + 1) \in 2 .. c + 1 /\ Onward(m, c + 1) # q
             /\ Old(Onward(m, c + 1)) = Onward(Old(m), c) /\ c > 2
  BY <1>5, <1>7 DEF Onward, Back
<1>8. ASSUME NEW m \in 2 .. Len(k), m # q, Len(k) > 2, m # Back(q, Len(k))
      PROVE  /\ Len(l) > 2
             /\ \E j \in 2 .. Len(l) :
                   k[m] = l[j] /\ k[Onward(m, Len(k))] = l[Onward(j, Len(l))]
  <2>1. c > 1 /\ m \in 2 .. c + 1 /\ m # Back(q, c + 1)
    BY <1>5, <1>8
  <2>2. Old(m) \in 2 .. c /\ k[m] = l[Old(m)]
    BY <1>6, <1>8, <2>1
  <2>3. /\ Onward(m, c + 1) \in 2 .. c + 1 /\ Onward(m, c + 1) # q
        /\ Old(Onward(m, c + 1)) = Onward(Old(m), c) /\ c > 2
    BY <1>7, <1>8, <2>1
  <2>4. k[Onward(m, c + 1)] = l[Onward(Old(m), c)]
    BY <1>6, <2>3
  <2> HIDE DEF Old
  <2> QED
    BY <1>4, <1>5, <2>2, <2>3, <2>4
<1>9. ASSUME NEW m \in 2 .. Len(k), m # q PROVE \E j \in 2 .. Len(l) : k[m] = l[j]
  <2>1. Old(m) \in 2 .. c /\ k[m] = l[Old(m)]
    BY <1>5, <1>6, <1>9
  <2> QED
    BY <1>4, <2>1
<1>10. Len(k) > 2 => Len(l) # 1
  BY <1>4, <1>5
<1> QED
  BY <1>2, <1>5, <1>8, <1>9, <1>10 DEF Enlarged

-----------------------------------------------------------------------------
(* What is common to the steps at which the leader l changes its list and  *)
(* writes to its peers.                                                    *)
Tells(l) ==
    /\ phase' = phase /\ succ' = succ
    /\ \A s \in Server : s # l => lst'[s] = lst[s]
    /\ \A s \in Server : mc'[s] \subseteq mc[s]
    /\ \A s \in Server : \A i \in 1 .. Len(box[s]) :
          /\ box[s][i].from # l => box'[s][i].msgs = box[s][i].msgs
          /\ box[s][i].msgs # << >> => /\ box'[s][i].msgs # << >>
                                       /\ Head(box'[s][i].msgs) = Head(box[s][i].msgs)

LEMMA ToldKeeps ==
    ASSUME Turns, NEW l \in Server, Leads(l), Tells(l),
           \A s \in Server : \A i \in 1 .. Len(box'[s]) :
               i \notin 1 .. Len(box[s]) => box'[s][i].from = l /\ OnlyOne(s, i, l)',
           \A s \in Server : \A i, m :
               Has(box', s, i, m) => Has(box, s, i, m) \/ Named(s, i, m)',
           OrderOk(l)', RingOk(l)'
    PROVE  Rings'
<1>1. ASSUME NEW s \in Server, ~Started(s)
      PROVE  /\ \A i : i \notin 1 .. Len(box[s])
             /\ OrderOk(s)' /\ RingOk(s)'
  <2>1. phase[s] = "off" /\ phase'[s] = "off"
    BY <1>1 DEF Tells, Started
  <2>2. Len(box[s]) = 0
    <3>1. box[s] = << >>
      BY <2>1 DEF Turns, Consistent, ListOk
    <3> QED
      BY <3>1
  <2> QED
    BY <2>1, <2>2 DEF OrderOk, RingOk, Leads
<1>2. ASSUME NEW s \in Server PROVE ConnectionsOk(s)'
  <2>1. \A i \in 1 .. Len(box'[s]) : \A g \in Server :
           i \notin 1 .. Len(box[s]) /\ box'[s][i].from = g => OnlyOne(s, i, g)'
    OBVIOUS
  <2>2. CASE Started(s)
    <3>1. \A i \in 1 .. Len(box[s]) :
             box[s][i].msgs # << >> /\ Head(box[s][i].msgs).kind = "answer"
             => box'[s][i].msgs # << >> /\ Head(box'[s][i].msgs).kind = "answer"
      BY DEF Tells
    <3>2. \A g \in Server : s \in mc'[g] => s \in mc[g]
      BY DEF Tells
    <3> QED
      BY <2>1, <2>2, <3>1, <3>2, ConnectionsKept
  <2>3. CASE ~Started(s)
    BY <1>1, <2>1, <2>3 DEF ConnectionsOk
  <2> QED
    BY <2>2, <2>3
<1>3. \A s \in Server : NamedOk(s)'
  BY NamedKept
<1>4. ASSUME NEW g \in Server, Started(g), g # l PROVE OrderOk(g)' /\ RingOk(g)'
  <2>1. lst'[g] = lst[g]
    BY <1>4 DEF Tells
  <2>2. ASSUME NEW p \in Server, NEW t \in Server, NEW at \in Nat, Leads(g),
               Precedes(lst[g], p, at, t), Reading(p, at)', Obeys(p, at, t, g)
        PROVE  Obeys(p, at, t, g)'
    <3>1. /\ Reading(p, at) /\ at \in 1 .. Len(box[p]) /\ box[p][at].from = g
          /\ box[p][at].msgs = << >> => Follows(p)
      BY <2>2, PeerReads
    <3>2. box'[p][at].msgs = box[p][at].msgs /\ succ'[p].who = succ[p].who
      BY <1>4, <3>1 DEF Tells
    <3> QED
      BY <2>2, <3>1, <3>2, ObeysStays
  <2> QED
    BY <1>4, <2>1, <2>2, OrderKept, RingKept
<1>5. \A p \in Server : SuccessorOk(p)'
  BY SuccessorKept DEF Tells, Follows
<1> QED
  BY <1>1, <1>2, <1>3, <1>4, <1>5 DEF Rings

(* The leader's own ring, when each peer keeps the last word that it had   *)
(* for the same successor, or has got a new one.                           *)
LEMMA RingChanged ==
    ASSUME Turns, NEW l \in Server, Leads(l), Tells(l),
           \A m \in 2 .. Len(lst'[l]) : \A p, t \in Server : \A at \in Nat :
               /\ Len(lst'[l]) > 2 /\ lst'[l][m].who = p /\ lst'[l][m].at = at
               /\ lst'[l][Onward(m, Len(lst'[l]))].who = t /\ Reading(p, at)'
               => \/ Obeys(p, at, t, l)'
                  \/ Precedes(lst[l], p, at, t) /\ box'[p][at].msgs = box[p][at].msgs
    PROVE  RingOk(l)'
<1> SUFFICES ASSUME NEW p \in Server, NEW t \in Server, NEW at \in Nat,
                    Precedes(lst[l], p, at, t)', Reading(p, at)'
             PROVE  Obeys(p, at, t, l)'
  BY DEF RingOk
<1>1. Obeys(p, at, t, l)' \/ (Precedes(lst[l], p, at, t) /\ box'[p][at].msgs = box[p][at].msgs)
  BY DEF Precedes
<1>2. ASSUME Precedes(lst[l], p, at, t), box'[p][at].msgs = box[p][at].msgs
      PROVE  Obeys(p, at, t, l)'
  <2>1. /\ Reading(p, at) /\ at \in 1 .. Len(box[p]) /\ box[p][at].from = l
        /\ box[p][at].msgs = << >> => Follows(p)
    BY <1>2, PeerReads
  <2>2. Obeys(p, at, t, l)
    BY <1>2, <2>1 DEF Turns, Rings, RingOk
  <2> QED
    BY <1>2, <2>1, <2>2, ObeysStays DEF Tells
<1> QED
  BY <1>1, <1>2

(* The last word to a peer that gets an instruction.                       *)
LEMMA WordSent ==
    ASSUME NEW q \in Seq(Message), NEW m \in Message, NEW r, r = Append(q, m)
    PROVE  r # << >> /\ Last(r) = m /\ (q # << >> => Head(r) = Head(q))
<1>1. Len(r) = Len(q) + 1 /\ Len(q) \in Nat /\ r[Len(q) + 1] = m
      /\ \A j \in 1 .. Len(q) : r[j] = q[j]
  BY AppendProperties
<1>2. r # << >> /\ Last(r) = m
  BY <1>1 DEF Last
<1>3. ASSUME q # << >> PROVE Head(r) = Head(q)
  <2>1. 1 \in 1 .. Len(q)
    BY <1>1, <1>3, EmptySeq
  <2> QED
    BY <1>1, <2>1
<1> QED
  BY <1>2, <1>3

(* A server that the leader lists, that waits, has been connected to.      *)
LEMMA ListedReached ==
    ASSUME Turns, NEW l \in Server, Leads(l), NEW n \in 2 .. Len(lst[l]),
           NEW t \in Server, lst[l][n].who = t, Waits(t)
    PROVE  Reached(l, t)
<1>1. PICK at \in Nat : at = lst[l][n].at
  <2>1. n \in 1 .. Len(lst[l])
    BY ListType DEF Turns
  <2> QED
    BY <2>1, ListType DEF Turns
<1>2. at > 0 /\ Joins(l, t, at)
  BY <1>1 DEF Turns, Rings, OrderOk, Consistent, ConnectionOk
<1>3. at \in 1 .. Len(box[t]) /\ box[t][at].from = l
  BY <1>1, <1>2, Places DEF Joins
<1> QED
  BY <1>3 DEF Reached

LEMMA EvictSilentRings ==
    ASSUME IInv, IInv', Alive, NoNamesakes, Rings, NEW l \in Server, NEW n, EvictSilent(l, n)
    PROVE  Rings'
<1>1. TypeOK /\ Consistent /\ Leads(l) /\ box \in Boxes /\ n \in 2 .. Len(lst[l])
  BY NothingMore DEF IInv, EvictSilent
<1>2. PICK d \in Seq(Record) : d = lst[l] /\ TailSorted(d) /\ Distinct(d)
  BY <1>1, ListType DEF Rings, OrderOk, Consistent, ListOk
<1>3. PICK k : k = delete_server(d, d[n].id)
  OBVIOUS
<1>4. PICK c \in Nat : c = Len(d)
  OBVIOUS
<1>5. /\ k \in Seq(Record) /\ TailSorted(k)
      /\ \A m \in 2 .. Len(k) : \E j \in 2 .. Len(d) : k[m] = d[j]
      /\ Len(k) > 2 =>
            /\ c > 3
            /\ \A m \in 2 .. Len(k) :
                  \/ /\ k[m] = d[Back(n, c)]
                     /\ Onward(m, Len(k)) = IF n > Len(k) THEN 2 ELSE n
                  \/ \E j \in 2 .. c :
                        /\ j # Back(n, c) /\ k[m] = d[j]
                        /\ k[Onward(m, Len(k))] = d[Onward(j, c)]
  <2>1. n \in 2 .. Len(d)
    BY <1>1, <1>2
  <2>2. LeftOut(d, n, k)
    BY <1>2, <1>3, <2>1, RingShortened
  <2> QED
    BY <1>4, <2>2 DEF LeftOut
<1>6. /\ lst' = [lst EXCEPT ![l] = k]
      /\ box' = IF Len(k) > 2
                THEN Sent(box, d[PredecessorInRing(d[n].id, d)].who,
                               d[PredecessorInRing(d[n].id, d)].at,
                               Update(k[IF n > Len(k) THEN 2 ELSE n].who))
                ELSE box
      /\ UNCHANGED <<phase, id, attempt, taken, ltcp, succ, mc, spent>>
  BY <1>2, <1>3 DEF EvictSilent
<1>7. lst'[l] = k /\ \A s \in Server : s # l => lst'[s] = lst[s]
  BY <1>1, <1>6 DEF TypeOK
<1>8. \A i \in 2 .. c : d[i].who \in Server /\ d[i].at \in Nat /\ d[i].id = id[d[i].who]
  <2>1. \A i \in 1 .. Len(lst[l]) : /\ lst[l][i].who \in Server /\ lst[l][i].at \in Nat
                                    /\ lst[l][i].id = id[lst[l][i].who]
    BY <1>1, ListType DEF Consistent, ListOk
  <2> QED
    BY <1>2, <1>4, <2>1
<1>9. ASSUME Turns
      PROVE  OrderOk(l)'
  <2>1. ASSUME NEW m \in 2 .. Len(k), NEW p \in Server, k[m].who = p, phase'[p] = "waits"
        PROVE  k[m].at > 0
    <3>1. PICK j \in 2 .. Len(d) : k[m] = d[j]
      BY <1>5
    <3>2. Waits(p)
      BY <1>6, <2>1 DEF Waits
    <3> QED
      BY <1>1, <1>2, <2>1, <3>1, <3>2 DEF Rings, OrderOk
  <2> QED
    BY <1>5, <1>7, <2>1 DEF OrderOk, Waits, TailSorted
<1>10. CASE ~(Len(k) > 2)
  <2>1. box' = box
    BY <1>6, <1>10
  <2>2. Turns
    BY <1>6, <2>1, NothingMore, CalmTurns DEF IInv
  <2>3. Tells(l)
    BY <1>6, <1>7, <2>1 DEF Tells
  <2>4. RingOk(l)'
    BY <1>7, <1>10 DEF RingOk, Precedes
  <2> QED
    BY <1>1, <1>9, <2>1, <2>2, <2>3, <2>4, ToldKeeps DEF Has
<1>11. CASE Len(k) > 2
  <2>1. PICK a \in 2 .. c : a = Back(n, c) /\ a = PredecessorInRing(d[n].id, d)
    <3>1. n \in 2 .. c /\ c > 2
      BY <1>1, <1>2, <1>4, <1>5, <1>11
    <3>2. Back(n, c) \in 2 .. c
      BY <3>1, Neighboured
    <3>3. PredecessorInRing(d[n].id, d) = Back(n, Len(d))
      BY <1>2, <1>4, <3>1, InRing
    <3> QED
      BY <1>4, <3>2, <3>3
  <2>2. PICK p \in Server, w \in Nat : p = d[a].who /\ w = d[a].at
    BY <1>8
  <2>3. PICK g \in 2 .. Len(k) : g = IF n > Len(k) THEN 2 ELSE n
    <3>1. Len(k) \in Nat /\ n \in 2 .. c
      BY <1>1, <1>2, <1>4, <1>5
    <3> QED
      BY <1>11, <3>1
  <2>4. PICK f \in 2 .. c : k[g] = d[f]
    BY <1>4, <1>5
  <2>5. PICK t \in Server : t = d[f].who
    BY <1>8
  <2>6. box' = Sent(box, p, w, Update(t)) /\ Update(t) \in Message /\ Update(t).succ = t
    BY <1>6, <1>11, <2>1, <2>2, <2>3, <2>4, <2>5, Kinds
  <2>7. Reading(p, w) => w \in 1 .. Len(box[p]) /\ box[p][w].from = l /\ w <= Len(box[p])
    <3>1. Joins(l, p, w)
      BY <1>1, <1>2, <1>4, <2>2 DEF Consistent, ConnectionOk
    <3> QED
      BY <1>1, <3>1, BoxType DEF Joins, Reading
  <2>8. /\ More(box, box')
        /\ \A x, j, m : Has(box', x, j, m) /\ x \in Server =>
              Has(box, x, j, m) \/ (x = p /\ j = w /\ m = Update(t) /\ Reading(p, w))
    BY <1>1, <2>6, <2>7, SentAdds DEF SentOn
  <2>9. /\ \A x \in Server : Len(box'[x]) = Len(box[x])
        /\ \A x \in Server : \A i \in 1 .. Len(box[x]) :
              /\ box'[x][i].from = box[x][i].from
              /\ ~(x = p /\ i = w /\ Reading(p, w)) => box'[x][i].msgs = box[x][i].msgs
        /\ Reading(p, w) => box'[p][w].msgs = Append(box[p][w].msgs, Update(t))
    <3>1. PICK u \in Message : u = Update(t) /\ box' = Sent(box, p, w, u)
      BY <2>6
    <3>2. JustThere(box, p, w, u, box')
      BY <1>1, <2>2, <2>7, <3>1, SentAt
    <3> QED
      BY <3>1, <3>2 DEF JustThere
  <2>10. Turns
    BY <1>6, <2>8, CalmTurns
  <2>11. Reading(p, w) => /\ box'[p][w].msgs # << >> /\ Last(box'[p][w].msgs).succ = t
                          /\ box[p][w].msgs # << >> => Head(box'[p][w].msgs) = Head(box[p][w].msgs)
    <3> SUFFICES ASSUME Reading(p, w)
                 PROVE  /\ box'[p][w].msgs # << >> /\ Last(box'[p][w].msgs) = Update(t)
                        /\ box[p][w].msgs # << >> => Head(box'[p][w].msgs) = Head(box[p][w].msgs)
      BY <2>6
    <3>1. box[p][w].msgs \in Seq(Message) /\ box'[p][w].msgs = Append(box[p][w].msgs, Update(t))
      BY <1>1, <2>7, <2>9, BoxType
    <3> QED
      BY <2>6, <3>1, WordSent
  <2>12. Tells(l)
    <3>1. ASSUME NEW s \in Server, NEW i \in 1 .. Len(box[s])
          PROVE  /\ box[s][i].from # l => box'[s][i].msgs = box[s][i].msgs
                 /\ box[s][i].msgs # << >> => /\ box'[s][i].msgs # << >>
                                              /\ Head(box'[s][i].msgs) = Head(box[s][i].msgs)
      <4>1. CASE s = p /\ i = w /\ Reading(p, w)
        BY <2>7, <2>11, <4>1
      <4>2. CASE ~(s = p /\ i = w /\ Reading(p, w))
        <5>1. box'[s][i].msgs = box[s][i].msgs
          BY <2>9, <4>2
        <5> QED
          BY <5>1
      <4> QED
        BY <4>1, <4>2
    <3> QED
      BY <1>6, <1>7, <3>1 DEF Tells
  <2>13. ASSUME NEW s \in Server, NEW j, NEW m, Has(box', s, j, m), ~Has(box, s, j, m)
         PROVE  Named(s, j, m)'
    <3>1. m.succ = t /\ box'[s][j].from = l
      BY <2>6, <2>7, <2>8, <2>9, <2>13
    <3>2. ASSUME Waits(t) PROVE Reached(l, t)'
      <4>1. Reached(l, t)
        BY <1>1, <1>2, <1>4, <2>5, <2>10, <3>2, ListedReached
      <4> QED
        BY <2>9, <4>1 DEF Reached
    <3>3. Waits(t)' => Waits(t)
      BY <1>6 DEF Waits
    <3> QED
      BY <3>1, <3>2, <3>3 DEF Named
  <2>14. RingOk(l)'
    <3>1. ASSUME NEW m \in 2 .. Len(k), NEW y \in Server, NEW x \in Server, NEW at \in Nat,
                 k[m].who = y, k[m].at = at, k[Onward(m, Len(k))].who = x, Reading(y, at)'
          PROVE  \/ Obeys(y, at, x, l)'
                 \/ Precedes(d, y, at, x) /\ box'[y][at].msgs = box[y][at].msgs
      <4>1. Reading(y, at)
        BY <1>6, <3>1 DEF Reading, Waits, Follows
      <4>2. CASE k[m] = d[a] /\ Onward(m, Len(k)) = g
        <5>1. y = p /\ at = w /\ x = t
          BY <2>2, <2>4, <2>5, <3>1, <4>2
        <5> QED
          BY <2>11, <4>1, <5>1 DEF Obeys
      <4>3. ASSUME NEW j \in 2 .. c, j # a, k[m] = d[j],
                   k[Onward(m, Len(k))] = d[Onward(j, c)]
            PROVE  Precedes(d, y, at, x) /\ box'[y][at].msgs = box[y][at].msgs
        <5>1. Precedes(d, y, at, x)
          BY <1>4, <1>5, <1>11, <3>1, <4>3 DEF Precedes
        <5>2. y # p
          <6>1. d[j].id # d[a].id
            BY <1>2, <1>4, <4>3 DEF Distinct
          <6> QED
            BY <1>8, <2>2, <3>1, <4>3, <6>1
        <5>3. at \in 1 .. Len(box[y])
          BY <1>1, <1>2, <2>10, <3>1, <5>1, PeerReads
        <5>4. box'[y][at].msgs = box[y][at].msgs
          BY <2>9, <5>2, <5>3
        <5> QED
          BY <5>1, <5>4
      <4> QED
        BY <1>5, <1>11, <2>1, <2>3, <4>2, <4>3
    <3>2. \A m \in 2 .. Len(lst'[l]) : \A y, x \in Server : \A at \in Nat :
             /\ Len(lst'[l]) > 2 /\ lst'[l][m].who = y /\ lst'[l][m].at = at
             /\ lst'[l][Onward(m, Len(lst'[l]))].who = x /\ Reading(y, at)'
             => \/ Obeys(y, at, x, l)'
                \/ Precedes(lst[l], y, at, x) /\ box'[y][at].msgs = box[y][at].msgs
      BY <1>2, <1>7, <3>1
    <3> QED
      BY <1>1, <2>10, <2>12, <3>2, RingChanged
  <2> QED
    BY <1>1, <1>9, <2>9, <2>10, <2>12, <2>13, <2>14, ToldKeeps
<1> QED
  BY <1>10, <1>11

-----------------------------------------------------------------------------
(* The connections, and the answer, when the newcomer has been answered.   *)
AnswerSent(l, s, at, t, c) ==
    /\ \A x \in Server : \A j \in 1 .. Len(box[x]) :
          c[x][j].from = box[x][j].from /\ c[x][j].msgs = box[x][j].msgs
    /\ \A x \in Server : \A j \in 1 .. Len(c[x]) :
          j \in 1 .. Len(box[x]) \/ (x = s /\ Waits(s) /\ j = at)
    /\ Waits(s) => /\ at \notin 1 .. Len(box[s])
                   /\ c[s][at].msgs # << >> /\ Head(c[s][at].msgs).kind = "answer"
                   /\ Last(c[s][at].msgs).succ = t

LEMMA NewcomerAnswered ==
    ASSUME TypeOK, NEW l \in Server, NEW s \in Server, NEW at, NEW k, NEW t, NEW c,
           Welcomed(l, s, at, k, t, c)
    PROVE  AnswerSent(l, s, at, t, c)
<1>1. box \in Boxes /\ at \in Nat /\ t \in Server \cup {Nobody}
  BY NothingMore DEF Welcomed
<1>2. PICK b : b = Connected(box, l, s) /\ at = PlaceAt(b, s) /\ c = Sent(b, s, at, Answer(t))
  BY DEF Welcomed
<1>3. /\ \A x \in Server : \A i \in 1 .. Len(box[x]) :
            i \in 1 .. Len(b[x]) /\ b[x][i] = box[x][i]
      /\ \A x \in Server : \A i \in 1 .. Len(b[x]) :
            \/ i \in 1 .. Len(box[x])
            \/ x = s /\ Waits(s) /\ i = Len(b[x]) /\ b[x][i].from = l /\ b[x][i].msgs = << >>
  BY <1>1, <1>2, ConnectedAt
<1>4. /\ b \in Boxes
      /\ Waits(s) => /\ Len(b[s]) = Len(box[s]) + 1 /\ at = Len(b[s]) /\ Len(b[s]) \in Nat \ {0}
                     /\ b[s][Len(b[s])].from = l
      /\ ~Waits(s) => at = 0
  <2>1. MoreConnections(box, l, s, b)
    BY <1>1, <1>2, ConnectedAdds
  <2> QED
    BY <1>2, <2>1 DEF MoreConnections
<1>5. Waits(s) => at \in 1 .. Len(b[s]) /\ at \notin 1 .. Len(box[s])
  BY <1>1, <1>4, BoxType
<1>6. Reading(s, at) <=> Waits(s)
  BY <1>4 DEF Reading
<1>7. PICK u \in Message : u = Answer(t) /\ u.kind = "answer" /\ u.succ = t
  BY <1>1, Kinds
<1>8. c = Sent(b, s, at, u) /\ (Reading(s, at) => at <= Len(b[s]))
  BY <1>2, <1>4, <1>6, <1>7
<1>9. /\ \A x \in Server : Len(c[x]) = Len(b[x])
      /\ \A x \in Server : \A i \in 1 .. Len(b[x]) :
            /\ c[x][i].from = b[x][i].from
            /\ ~(x = s /\ i = at /\ Reading(s, at)) => c[x][i].msgs = b[x][i].msgs
      /\ Reading(s, at) => c[s][at].msgs = Append(b[s][at].msgs, u)
  <2>1. JustThere(b, s, at, u, c)
    BY <1>1, <1>4, <1>7, <1>8, SentAt
  <2> QED
    BY <2>1 DEF JustThere
<1>10. ASSUME NEW x \in Server, NEW j \in 1 .. Len(box[x])
       PROVE  c[x][j].from = box[x][j].from /\ c[x][j].msgs = box[x][j].msgs
  <2>1. j \in 1 .. Len(b[x]) /\ b[x][j] = box[x][j]
    BY <1>3
  <2>2. ~(x = s /\ j = at /\ Reading(s, at))
    BY <1>5, <1>6, <1>10
  <2> QED
    BY <1>9, <2>1, <2>2
<1>11. ASSUME NEW x \in Server, NEW j \in 1 .. Len(c[x])
       PROVE  j \in 1 .. Len(box[x]) \/ (x = s /\ Waits(s) /\ j = at)
  <2>1. j \in 1 .. Len(b[x])
    BY <1>9
  <2> QED
    BY <1>3, <1>4, <2>1
<1>12. ASSUME Waits(s)
       PROVE  /\ c[s][at].msgs # << >> /\ Head(c[s][at].msgs).kind = "answer"
              /\ Last(c[s][at].msgs).succ = t
  <2>1. b[s][at].msgs = << >>
    BY <1>3, <1>5, <1>12
  <2>2. c[s][at].msgs = Append(<< >>, u)
    BY <1>6, <1>9, <1>12, <2>1
  <2>3. Append(<< >>, u) = <<u>>
    OBVIOUS
  <2>4. c[s][at].msgs = <<u>>
    BY <2>2, <2>3
  <2>5. <<u>> # << >> /\ Head(<<u>>) = u /\ Len(<<u>>) = 1 /\ <<u>>[1] = u
    OBVIOUS
  <2> QED
    BY <1>7, <2>4, <2>5 DEF Last
<1> QED
  BY <1>5, <1>10, <1>11, <1>12 DEF AnswerSent

(* The step, for l that takes in s and, in a list of two peers or more,    *)
(* names it to its predecessor p.                                          *)
Announced(l, s, at, k, t, p, w) ==
    /\ More(box, box')
    /\ \A x \in Server : \A i \in 1 .. Len(box'[x]) :
          i \in 1 .. Len(box[x]) \/ (x = s /\ i = at /\ Waits(s))
    /\ \A x \in Server : \A i \in 1 .. Len(box[x]) :
          ~(x = p /\ i = w /\ Len(k) > 2 /\ Reading(p, w)) => box'[x][i].msgs = box[x][i].msgs
    /\ Len(k) > 2 => /\ p # s /\ p = Predecessor(id[s], k).who
                     /\ w = Predecessor(id[s], k).at
    /\ Len(k) > 2 /\ Reading(p, w) =>
          /\ w \in 1 .. Len(box[p]) /\ box[p][w].from = l
          /\ box'[p][w].msgs # << >> /\ Last(box'[p][w].msgs).succ = s
          /\ box[p][w].msgs # << >> => Head(box'[p][w].msgs) = Head(box[p][w].msgs)
    /\ Waits(s) =>
          /\ at \notin 1 .. Len(box[s]) /\ at \in 1 .. Len(box'[s]) /\ box'[s][at].from = l
          /\ box'[s][at].msgs # << >> /\ Head(box'[s][at].msgs).kind = "answer"
          /\ Last(box'[s][at].msgs).succ = t
    /\ \A x \in Server : \A i, m :
          Has(box', x, i, m) =>
             \/ Has(box, x, i, m)
             \/ x = s /\ i = at /\ m.succ = t /\ Waits(s)
             \/ box'[x][i].from = l /\ m.succ = s

LEMMA NewcomerAnnounced ==
    ASSUME TypeOK, Consistent, NEW l \in Server, NEW s \in Server,
           NEW at, NEW k, NEW t, NEW c,
           Welcomed(l, s, at, k, t, c), Takes(l, s, k, c),
           ~(At(k, id[s]) = {} /\ Len(k) # 2)
    PROVE  \E p \in Server, w \in Nat : Announced(l, s, at, k, t, p, w)
<1>1. /\ Leads(l) /\ at \in Nat /\ t \in Server \cup {Nobody}
      /\ c \in Boxes /\ More(box, c)
      /\ \A x \in Server : \A i, m : Has(c, x, i, m) =>
            Has(box, x, i, m) \/ (x = s /\ i = at /\ m = Answer(t) /\ Waits(s))
      /\ Waits(s) => at \in 1 .. Len(c[s]) /\ c[s][at].from = l
  BY DEF Welcomed
<1>2. AnswerSent(l, s, at, t, c)
  BY NewcomerAnswered
<1>3. box \in Boxes /\ Answer(t).succ = t
  BY <1>1, NothingMore, Kinds
<1>4. CASE ~(Len(k) > 2)
  <2>1. box' = c
    BY <1>4 DEF Takes
  <2>2. PICK w \in Nat : w = 0
    OBVIOUS
  <2>3. Announced(l, s, at, k, t, s, w)
    <3>1. \A x \in Server : \A i \in 1 .. Len(box'[x]) :
             i \in 1 .. Len(box[x]) \/ (x = s /\ i = at /\ Waits(s))
      BY <1>2, <2>1 DEF AnswerSent
    <3>2. \A x \in Server : \A i \in 1 .. Len(box[x]) : box'[x][i].msgs = box[x][i].msgs
      BY <1>2, <2>1 DEF AnswerSent
    <3>3. Waits(s) =>
             /\ at \notin 1 .. Len(box[s]) /\ at \in 1 .. Len(box'[s]) /\ box'[s][at].from = l
             /\ box'[s][at].msgs # << >> /\ Head(box'[s][at].msgs).kind = "answer"
             /\ Last(box'[s][at].msgs).succ = t
      BY <1>1, <1>2, <2>1 DEF AnswerSent
    <3>4. \A x \in Server : \A i, m : Has(box', x, i, m) =>
             Has(box, x, i, m) \/ (x = s /\ i = at /\ m.succ = t /\ Waits(s))
      BY <1>1, <1>3, <2>1
    <3> QED
      BY <1>1, <1>4, <2>1, <3>1, <3>2, <3>3, <3>4 DEF Announced
  <2> QED
    BY <2>3
<1>5. CASE Len(k) > 2
  <2>1. k \in Seq(Record) /\ Len(k) \in Nat /\ Len(lst[l]) \in Nat
    BY DEF Welcomed, Grown
  <2>2. At(k, id[s]) # {}
    <3>1. \A i \in Nat : i > 2 => i # 2
      OBVIOUS
    <3> QED
      BY <1>5, <2>1, <3>1
  <2>3. PICK j \in 2 .. Len(lst[l]) : Predecessor(id[s], k) = lst[l][j] /\ lst[l][j].who # s
    <3>1. Told(l, s, Predecessor(id[s], k))
      BY <1>5, <2>2, OrderRight
    <3>2. PICK j \in 2 .. Len(lst[l]) : Predecessor(id[s], k) = lst[l][j]
      BY <3>1 DEF Told
    <3>3. lst[l][j].who # s
      BY <3>1, <3>2 DEF Told
    <3> QED
      BY <3>2, <3>3
  <2>4. PICK p \in Server, w \in Nat : p = lst[l][j].who /\ w = lst[l][j].at
    <3>1. j \in 1 .. Len(lst[l])
      BY <2>1
    <3> QED
      BY <3>1, ListType
  <2>5. p # s /\ Joins(l, p, w)
    BY <1>1, <2>3, <2>4 DEF Consistent, ConnectionOk
  <2>6. Reading(p, w) => w \in 1 .. Len(box[p]) /\ box[p][w].from = l
    BY <1>3, <2>5, BoxType DEF Joins, Reading
  <2>7. Reading(p, w) => w \in 1 .. Len(c[p]) /\ c[p][w].from = l /\ w <= Len(c[p])
    BY <1>1, <2>6 DEF More
  <2>8. PICK u \in Message : u = Update(s) /\ u.succ = s
    BY Kinds
  <2>9. box' = Sent(c, p, w, u)
    BY <1>5, <2>2, <2>3, <2>4, <2>8 DEF Takes
  <2>10. SentOn(c, p, w, u, box')
    BY <1>1, <2>7, <2>9, SentAdds
  <2>11. /\ More(c, box')
         /\ \A x \in Server : \A i, m : Has(box', x, i, m) =>
               Has(c, x, i, m) \/ (x = p /\ i = w /\ m = u /\ Reading(p, w))
    BY <2>10 DEF SentOn
  <2>12. /\ \A x \in Server : Len(box'[x]) = Len(c[x])
         /\ \A x \in Server : \A i \in 1 .. Len(c[x]) :
               /\ box'[x][i].from = c[x][i].from
               /\ ~(x = p /\ i = w /\ Reading(p, w)) => box'[x][i].msgs = c[x][i].msgs
         /\ Reading(p, w) => box'[p][w].msgs = Append(c[p][w].msgs, u)
    <3>1. PICK d : d = box'
      OBVIOUS
    <3>2. c \in Boxes /\ d = Sent(c, p, w, u) /\ (Reading(p, w) => w <= Len(c[p]))
      BY <1>1, <2>7, <2>9, <3>1
    <3>3. JustThere(c, p, w, u, d)
      BY <2>4, <2>8, <3>2, SentAt
    <3> QED
      BY <3>1, <3>3 DEF JustThere
  <2>13. More(box, box')
    BY <1>1, <2>11, MoreAndMore
  <2>14. \A x \in Server : \A i \in 1 .. Len(box'[x]) :
            i \in 1 .. Len(box[x]) \/ (x = s /\ i = at /\ Waits(s))
    BY <1>2, <2>12 DEF AnswerSent
  <2>15. \A x \in Server : \A i \in 1 .. Len(box[x]) :
            ~(x = p /\ i = w /\ Reading(p, w)) => box'[x][i].msgs = box[x][i].msgs
    BY <1>1, <1>2, <2>12 DEF AnswerSent, More
  <2>16. Reading(p, w) =>
            /\ box'[p][w].msgs # << >> /\ Last(box'[p][w].msgs).succ = s
            /\ box[p][w].msgs # << >> => Head(box'[p][w].msgs) = Head(box[p][w].msgs)
    <3> SUFFICES ASSUME Reading(p, w)
                 PROVE  /\ box'[p][w].msgs # << >> /\ Last(box'[p][w].msgs) = u
                        /\ box[p][w].msgs # << >> => Head(box'[p][w].msgs) = Head(box[p][w].msgs)
      BY <2>8
    <3>1. PICK q \in Seq(Message) : q = box[p][w].msgs
      BY <1>3, <2>6, BoxType
    <3>2. PICK r : r = box'[p][w].msgs
      OBVIOUS
    <3>3. r = Append(q, u)
      BY <1>2, <2>6, <2>12, <3>1, <3>2 DEF AnswerSent
    <3>4. r # << >> /\ Last(r) = u /\ (q # << >> => Head(r) = Head(q))
      BY <3>3, WordSent
    <3> QED
      BY <3>1, <3>2, <3>4
  <2>17. ASSUME Waits(s)
         PROVE  /\ at \notin 1 .. Len(box[s]) /\ at \in 1 .. Len(box'[s]) /\ box'[s][at].from = l
                /\ box'[s][at].msgs # << >> /\ Head(box'[s][at].msgs).kind = "answer"
                /\ Last(box'[s][at].msgs).succ = t
    <3>1. at \in 1 .. Len(c[s]) /\ c[s][at].from = l
      BY <1>1, <2>17
    <3>2. at \in 1 .. Len(box'[s]) /\ box'[s][at].from = l /\ box'[s][at].msgs = c[s][at].msgs
      BY <2>5, <2>12, <3>1
    <3> QED
      BY <1>2, <2>17, <3>2 DEF AnswerSent
  <2>18. ASSUME NEW x \in Server, NEW i, NEW m, Has(box', x, i, m)
         PROVE  \/ Has(box, x, i, m)
                \/ x = s /\ i = at /\ m.succ = t /\ Waits(s)
                \/ box'[x][i].from = l /\ m.succ = s
    <3>1. CASE Has(c, x, i, m)
      BY <1>1, <1>3, <3>1
    <3>2. CASE x = p /\ i = w /\ m = u /\ Reading(p, w)
      BY <2>7, <2>8, <2>12, <3>2
    <3> QED
      BY <2>11, <2>18, <3>1, <3>2
  <2>19. p = Predecessor(id[s], k).who /\ w = Predecessor(id[s], k).at
    BY <2>3, <2>4
  <2>20. Announced(l, s, at, k, t, p, w)
    BY <1>5, <2>5, <2>6, <2>13, <2>14, <2>15, <2>16, <2>17, <2>18, <2>19 DEF Announced
  <2> QED
    BY <2>20
<1> QED
  BY <1>4, <1>5

(* The ring of a leader that lists the newcomer already, or lists it now.  *)
LEMMA NewcomerRing ==
    ASSUME Turns, NEW l \in Server, NEW s \in Server, NEW at, NEW k, NEW t, NEW c,
           Welcomed(l, s, at, k, t, c), NEW p \in Server, NEW w \in Nat,
           Announced(l, s, at, k, t, p, w), Tells(l), lst'[l] = k, ltcp' = ltcp,
           id[s] # id[l]
    PROVE  RingOk(l)'
<1>1. /\ Leads(l) /\ id[s] \in Id /\ lst[l] \in Seq(Record) /\ Distinct(lst[l])
      /\ Started(s) /\ lst[l][1] = Entry(id[l], l, 0)
      /\ Entry(id[s], s, at) \in Record /\ Grown(lst[l], Entry(id[s], s, at), k)
      /\ \A n \in 1 .. Len(k) : /\ k[n] \in Record /\ k[n].who \in Server
                                /\ k[n].id = id[k[n].who]
      /\ k = append_server_sorted(lst[l], Entry(id[s], s, at))
      /\ t = IF Len(lst[l]) = 1 THEN Nobody ELSE k[get_successor(id[s], k)].who
      /\ ~Waits(s) => at = 0
  BY DEF Welcomed
<1>2. PICK e \in Record : e = Entry(id[s], s, at) /\ e.id = id[s] /\ e.who = s /\ e.at = at
  BY <1>1 DEF Entry
<1>3. /\ k \in Seq(Record) /\ Distinct(k) /\ Len(k) \in Nat /\ DOMAIN k = 1 .. Len(k)
      /\ server_info_exist(id[s], lst[l]) => k = lst[l]
  BY <1>1, <1>2 DEF Grown
<1>4. TailSorted(lst[l]) /\ Len(lst[l]) > 0
  <2>1. TailSorted(lst[l])
    BY <1>1 DEF Turns, Rings, OrderOk
  <2>2. Len(lst[l]) > 0
    BY <1>1 DEF Turns, Consistent, ListOk, Started, Leads
  <2> QED
    BY <2>1, <2>2
<1>5. /\ \A x \in Server : \A i \in 1 .. Len(box[x]) :
            ~(x = p /\ i = w /\ Len(k) > 2 /\ Reading(p, w)) => box'[x][i].msgs = box[x][i].msgs
      /\ Len(k) > 2 => /\ p # s /\ p = Predecessor(id[s], k).who
                       /\ w = Predecessor(id[s], k).at
      /\ Len(k) > 2 /\ Reading(p, w) =>
            box'[p][w].msgs # << >> /\ Last(box'[p][w].msgs).succ = s
      /\ Waits(s) => box'[s][at].msgs # << >> /\ Last(box'[s][at].msgs).succ = t
  BY DEF Announced
<1>6. \A y, at0 : Reading(y, at0)' => Reading(y, at0)
  BY DEF Tells, Reading, Waits, Follows
<1>7. \A y \in Server : id[y] = id[s] => y = s
  BY <1>1, IdAssumption DEF Turns, NoNamesakes, Namesake
(* Its predecessor is told.                                                *)
<1>8. ASSUME Len(k) > 2, NEW q \in 2 .. Len(k), k[q].id = id[s],
             NEW m \in 2 .. Len(k), NEW y \in Server, NEW x \in Server, NEW a \in Nat,
             k[m].who = y, k[m].at = a, k[Onward(m, Len(k))].who = x, Reading(y, a)
      PROVE  /\ m = Back(q, Len(k)) => Obeys(y, a, x, l)'
             /\ m # Back(q, Len(k)) => y # p
             /\ m = q => x = k[get_successor(id[s], k)].who
  <2>1. TailSorted(k)
    <3>1. CASE server_info_exist(id[s], lst[l])
      BY <1>3, <1>4, <3>1
    <3>2. CASE ~server_info_exist(id[s], lst[l])
      BY <1>1, <1>2, <1>4, <3>2, RingGrown
    <3> QED
      BY <3>1, <3>2
  <2>2. PICK n \in Nat : n = Len(k) /\ n > 2
    BY <1>3, <1>8
  <2>3. Back(q, n) \in 2 .. n /\ Onward(Back(q, n), n) = q /\ Back(q, n) \in 1 .. n
        /\ m \in 1 .. n /\ q \in 1 .. n
    BY <1>8, <2>2, Neighboured
  <2>4. PredecessorInRing(id[s], k) = Back(q, n) /\ get_successor(id[s], k) = Onward(q, n)
    BY <1>3, <1>8, <2>1, <2>2, InRing
  <2>5. Predecessor(id[s], k) = k[Back(q, n)]
    BY <2>4 DEF Predecessor
  <2>6. p = k[Back(q, n)].who /\ w = k[Back(q, n)].at
    BY <1>5, <1>8, <2>5
  <2>7. ASSUME m = Back(q, n) PROVE Obeys(y, a, x, l)'
    <3>1. y = p /\ a = w
      BY <1>8, <2>6, <2>7
    <3>2. x = s
      <4>1. k[q].who = x
        BY <1>8, <2>2, <2>3, <2>7
      <4>2. id[x] = id[s]
        BY <1>1, <1>8, <2>2, <2>3, <4>1
      <4> QED
        BY <1>7, <4>2
    <3> QED
      BY <1>5, <1>8, <3>1, <3>2 DEF Obeys
  <2>8. ASSUME m # Back(q, n) PROVE y # p
    <3>1. k[m].id # k[Back(q, n)].id
      BY <1>3, <2>2, <2>3, <2>8 DEF Distinct
    <3>2. k[m].id = id[y] /\ k[Back(q, n)].id = id[p]
      BY <1>1, <1>8, <2>2, <2>3, <2>6
    <3> QED
      BY <3>1, <3>2
  <2>9. m = q => x = k[get_successor(id[s], k)].who
    BY <1>8, <2>2, <2>4
  <2> QED
    BY <2>2, <2>7, <2>8, <2>9
<1>9. ASSUME NEW m \in 2 .. Len(k), NEW y \in Server, NEW x \in Server, NEW a \in Nat,
             Len(k) > 2, k[m].who = y, k[m].at = a, k[Onward(m, Len(k))].who = x,
             Reading(y, a)'
      PROVE  \/ Obeys(y, a, x, l)'
             \/ Precedes(lst[l], y, a, x) /\ box'[y][a].msgs = box[y][a].msgs
  <2>1. Reading(y, a)
    BY <1>6, <1>9
  <2>2. ASSUME Precedes(lst[l], y, a, x), y # p
        PROVE  box'[y][a].msgs = box[y][a].msgs
    <3>1. a \in 1 .. Len(box[y])
      BY <1>1, <1>9, <2>2, PeerReads
    <3> QED
      BY <1>5, <2>2, <3>1
  <2>3. CASE server_info_exist(id[s], lst[l])
    <3>1. k = lst[l]
      BY <1>3, <2>3
    <3>2. Precedes(lst[l], y, a, x)
      BY <1>9, <3>1 DEF Precedes
    <3>3. PICK q \in 1 .. Len(k) : k[q].id = id[s]
      BY <2>3, <3>1 DEF server_info_exist
    <3>4. q \in 2 .. Len(k)
      <4>1. q # 1
        BY <1>1, <3>1, <3>3 DEF Entry
      <4> QED
        BY <1>3, <3>3, <4>1
    <3>5. /\ m = Back(q, Len(k)) => Obeys(y, a, x, l)'
          /\ m # Back(q, Len(k)) => y # p
      BY <1>8, <1>9, <2>1, <3>3, <3>4
    <3> QED
      BY <2>2, <3>2, <3>5
  <2>4. CASE ~server_info_exist(id[s], lst[l])
    <3>1. PICK q \in 2 .. Len(k) : Enlarged(lst[l], e, q, k)
      BY <1>1, <1>2, <1>4, <2>4, RingGrown
    <3>2. /\ k[q] = e /\ Len(lst[l]) # 1
          /\ \/ m = q
             \/ m = Back(q, Len(k))
             \/ /\ Len(lst[l]) > 2
                /\ \E j \in 2 .. Len(lst[l]) :
                      /\ k[m] = lst[l][j]
                      /\ k[Onward(m, Len(k))] = lst[l][Onward(j, Len(lst[l]))]
      BY <1>9, <3>1 DEF Enlarged
    <3>3. /\ m = Back(q, Len(k)) => Obeys(y, a, x, l)'
          /\ m # Back(q, Len(k)) => y # p
          /\ m = q => x = k[get_successor(id[s], k)].who
      BY <1>2, <1>8, <1>9, <2>1, <3>2
    <3>4. CASE m = q
      <4>1. y = s /\ a = at /\ x = t
        BY <1>1, <1>2, <1>9, <3>2, <3>3, <3>4
      <4>2. Waits(s)
        BY <1>1, <2>1, <4>1 DEF Reading
      <4> QED
        BY <1>5, <4>1, <4>2 DEF Obeys
    <3>5. CASE m = Back(q, Len(k))
      BY <3>3, <3>5
    <3>6. ASSUME m # Back(q, Len(k)), Len(lst[l]) > 2, NEW j \in 2 .. Len(lst[l]),
                 k[m] = lst[l][j], k[Onward(m, Len(k))] = lst[l][Onward(j, Len(lst[l]))]
          PROVE  Precedes(lst[l], y, a, x) /\ box'[y][a].msgs = box[y][a].msgs
      <4>1. Precedes(lst[l], y, a, x)
        BY <1>9, <3>6 DEF Precedes
      <4> QED
        BY <2>2, <3>3, <3>6, <4>1
    <3> QED
      BY <3>2, <3>4, <3>5, <3>6
  <2> QED
    BY <2>3, <2>4
<1>10. \A m \in 2 .. Len(lst'[l]) : \A y, x \in Server : \A a \in Nat :
          /\ Len(lst'[l]) > 2 /\ lst'[l][m].who = y /\ lst'[l][m].at = a
          /\ lst'[l][Onward(m, Len(lst'[l]))].who = x /\ Reading(y, a)'
          => \/ Obeys(y, a, x, l)'
             \/ Precedes(lst[l], y, a, x) /\ box'[y][a].msgs = box[y][a].msgs
  BY <1>9
<1> QED
  BY <1>1, <1>10, RingChanged

LEMMA NewcomerRings ==
    ASSUME IInv, IInv', Alive, Alive', NoNamesakes, Rings,
           NEW l \in Server, NEW s \in mc[l], Leads(l), RecvDiscovery(l, s)
    PROVE  Rings'
<1>1. TypeOK /\ Consistent /\ s \in Server /\ box \in Boxes
  BY NothingMore DEF IInv, TypeOK
<1>2. PICK at, k, t, c : Welcomed(l, s, at, k, t, c) /\ Takes(l, s, k, c)
  BY NewcomerTaken
<1>3. ~(At(k, id[s]) = {} /\ Len(k) # 2)
  <2>1. ASSUME At(k, id[s]) = {} /\ Len(k) # 2 PROVE FALSE
    <3>1. phase' = [phase EXCEPT ![l] = "down"]
      BY <1>2, <2>1 DEF Takes
    <3>2. phase'[l] = "down"
      BY <1>1, <3>1 DEF TypeOK
    <3> QED
      BY <3>2 DEF Alive
  <2> QED
    BY <2>1
<1>4. PICK p \in Server, w \in Nat : Announced(l, s, at, k, t, p, w)
  BY <1>1, <1>2, <1>3, NewcomerAnnounced
<1>5. /\ mc' = [mc EXCEPT ![l] = @ \ {s}] /\ lst' = [lst EXCEPT ![l] = k]
      /\ UNCHANGED <<phase, id, attempt, taken, ltcp, succ, spent>>
  BY <1>2, <1>3 DEF Takes
<1>6. /\ lst'[l] = k /\ mc'[l] = mc[l] \ {s}
      /\ \A x \in Server : x # l => lst'[x] = lst[x] /\ mc'[x] = mc[x]
  BY <1>1, <1>5 DEF TypeOK
<1>7. /\ More(box, box')
      /\ \A x \in Server : \A i \in 1 .. Len(box'[x]) :
            i \in 1 .. Len(box[x]) \/ (x = s /\ i = at /\ Waits(s))
      /\ \A x \in Server : \A i \in 1 .. Len(box[x]) :
            ~(x = p /\ i = w /\ Len(k) > 2 /\ Reading(p, w)) => box'[x][i].msgs = box[x][i].msgs
      /\ Len(k) > 2 /\ Reading(p, w) =>
            /\ w \in 1 .. Len(box[p]) /\ box[p][w].from = l
            /\ box'[p][w].msgs # << >>
            /\ box[p][w].msgs # << >> => Head(box'[p][w].msgs) = Head(box[p][w].msgs)
      /\ Waits(s) =>
            /\ at \notin 1 .. Len(box[s]) /\ at \in 1 .. Len(box'[s]) /\ box'[s][at].from = l
            /\ box'[s][at].msgs # << >> /\ Head(box'[s][at].msgs).kind = "answer"
      /\ \A x \in Server : \A i, m :
            Has(box', x, i, m) =>
               \/ Has(box, x, i, m)
               \/ x = s /\ i = at /\ m.succ = t /\ Waits(s)
               \/ box'[x][i].from = l /\ m.succ = s
  BY <1>4 DEF Announced
<1>8. Turns
  BY <1>5, <1>7, CalmTurns
<1>9. /\ s # l /\ Started(s) /\ Started(l) /\ id[s] \in Id /\ id[l] \in Id
      /\ lst[l] \in Seq(Record) /\ Distinct(lst[l]) /\ Grown(lst[l], Entry(id[s], s, at), k)
      /\ t = IF Len(lst[l]) = 1 THEN Nobody ELSE k[get_successor(id[s], k)].who
      /\ k = append_server_sorted(lst[l], Entry(id[s], s, at))
      /\ Entry(id[s], s, at) \in Record /\ at \in Nat
  BY <1>2 DEF Welcomed
<1>10. id[s] # id[l]
  BY <1>1, <1>9, IdAssumption DEF NoNamesakes, Namesake
<1>11. Tells(l)
  <2>1. ASSUME NEW x \in Server, NEW i \in 1 .. Len(box[x])
        PROVE  /\ box[x][i].from # l => box'[x][i].msgs = box[x][i].msgs
               /\ box[x][i].msgs # << >> => /\ box'[x][i].msgs # << >>
                                            /\ Head(box'[x][i].msgs) = Head(box[x][i].msgs)
    <3>1. CASE x = p /\ i = w /\ Len(k) > 2 /\ Reading(p, w)
      BY <1>7, <3>1
    <3>2. CASE ~(x = p /\ i = w /\ Len(k) > 2 /\ Reading(p, w))
      <4>1. box'[x][i].msgs = box[x][i].msgs
        BY <1>7, <3>2
      <4> QED
        BY <4>1
    <3> QED
      BY <3>1, <3>2
  <2>2. \A x \in Server : mc'[x] \subseteq mc[x]
    BY <1>6
  <2> QED
    BY <1>5, <1>6, <2>1, <2>2 DEF Tells
<1>12. RingOk(l)'
  BY <1>1, <1>2, <1>4, <1>5, <1>6, <1>8, <1>10, <1>11, NewcomerRing
(* All that the new list names, if they wait, have been connected to.      *)
<1>13. /\ \A n \in 2 .. Len(k) : k[n] = Entry(id[s], s, at)
                                  \/ \E j \in 2 .. Len(lst[l]) : k[n] = lst[l][j]
       /\ k \in Seq(Record) /\ Len(k) \in Nat /\ Len(lst[l]) \in Nat /\ Len(k) >= Len(lst[l])
  BY <1>9 DEF Grown
<1>14. ASSUME NEW n \in 2 .. Len(k), NEW y \in Server, k[n].who = y, Waits(y)
       PROVE  k[n].at > 0 /\ Reached(l, y)'
  <2>1. CASE k[n] = Entry(id[s], s, at)
    <3>1. y = s /\ k[n].at = at
      BY <1>14, <2>1 DEF Entry
    <3>2. at \in 1 .. Len(box'[s]) /\ box'[s][at].from = l
      BY <1>7, <1>14, <3>1
    <3>3. at > 0
      BY <1>9, <3>2
    <3> QED
      BY <3>1, <3>2, <3>3 DEF Reached
  <2>2. ASSUME NEW j \in 2 .. Len(lst[l]), k[n] = lst[l][j]
        PROVE  k[n].at > 0 /\ Reached(l, y)'
    <3>1. lst[l][j].at > 0
      BY <1>1, <1>14, <2>2 DEF Rings, OrderOk
    <3>2. PICK i \in 1 .. Len(box[y]) : box[y][i].from = l
      BY <1>8, <1>14, <2>2, ListedReached DEF Reached
    <3>3. i \in 1 .. Len(box'[y]) /\ box'[y][i].from = l
      BY <1>7, <3>2 DEF More
    <3> QED
      BY <2>2, <3>1, <3>3 DEF Reached
  <2> QED
    BY <1>13, <2>1, <2>2
<1>15. OrderOk(l)'
  <2>1. TailSorted(lst[l]) /\ Len(lst[l]) > 0
    BY <1>1, <1>9 DEF Rings, OrderOk, Consistent, ListOk
  <2>2. TailSorted(k)
    <3>1. CASE server_info_exist(id[s], lst[l])
      BY <1>9, <2>1, <3>1 DEF Grown, Entry
    <3>2. CASE ~server_info_exist(id[s], lst[l])
      <4>1. PICK e \in Record : e = Entry(id[s], s, at) /\ e.id = id[s]
        BY <1>9 DEF Entry
      <4> QED
        BY <1>9, <2>1, <3>2, <4>1, RingGrown
    <3> QED
      BY <3>1, <3>2
  <2>3. \A n \in 2 .. Len(k) : \A y \in Server : k[n].who = y /\ phase'[y] = "waits" => k[n].at > 0
    BY <1>5, <1>14 DEF Waits
  <2> QED
    BY <1>6, <2>2, <2>3 DEF OrderOk, Waits, TailSorted
<1>16. ASSUME NEW x \in Server, NEW i \in 1 .. Len(box'[x]), i \notin 1 .. Len(box[x])
       PROVE  box'[x][i].from = l /\ OnlyOne(x, i, l)'
  <2>1. x = s /\ i = at /\ Waits(s)
    BY <1>7, <1>16
  <2>2. \A j \in 1 .. Len(box[s]) : box[s][j].from # l
    <3>1. ASSUME NEW j \in 1 .. Len(box[s]), box[s][j].from = l PROVE FALSE
      <4>1. OnlyOne(s, j, l)
        BY <1>1, <3>1 DEF Rings, ConnectionsOk
      <4> QED
        BY <2>1, <4>1 DEF OnlyOne
    <3> QED
      BY <3>1
  <2>3. \A j \in 1 .. Len(box'[s]) : box'[s][j].from = l => j = at
    <3>1. \A j \in 1 .. Len(box[s]) : box'[s][j].from = box[s][j].from
      BY <1>1, <1>7 DEF More
    <3> QED
      BY <1>1, <1>7, <2>2, <3>1
  <2>4. s \notin mc'[l] /\ phase'[l] = "leads"
    BY <1>5, <1>6 DEF Leads
  <2> QED
    BY <1>7, <2>1, <2>3, <2>4 DEF OnlyOne, Leads
<1>17. ASSUME NEW x \in Server, NEW i, NEW m, Has(box', x, i, m), ~Has(box, x, i, m)
       PROVE  Named(x, i, m)'
  <2> SUFFICES ASSUME NEW g \in Server, NEW y \in Server, box'[x][i].from = g, m.succ = y, Waits(y)
               PROVE  Reached(g, y)'
    BY <1>5 DEF Named, Waits
  <2>1. CASE x = s /\ i = at /\ m.succ = t /\ Waits(s)
    <3>1. g = l /\ t = y
      BY <1>7, <2>1
    <3>2. Len(lst[l]) # 1 /\ y = k[get_successor(id[s], k)].who
      BY <1>9, <3>1, ServerAssumption
    <3>3. get_successor(id[s], k) \in 2 .. Len(k)
      <4>1. Len(lst[l]) > 0
        BY <1>1, <1>9 DEF Consistent, ListOk
      <4>2. \A a, b \in Nat : a > 0 /\ a # 1 /\ b >= a => b > 1
        OBVIOUS
      <4>3. Len(k) > 1
        BY <1>13, <3>2, <4>1, <4>2
      <4>4. id[s] \in Nat
        BY <1>9, IdAssumption
      <4> QED
        BY <1>13, <4>3, <4>4, SuccessorIs
    <3> QED
      BY <1>14, <3>1, <3>2, <3>3
  <2>2. CASE box'[x][i].from = l /\ m.succ = s
    <3>1. g = l /\ y = s
      BY <2>2
    <3> QED
      BY <1>7, <3>1 DEF Reached
  <2> QED
    BY <1>7, <1>17, <2>1, <2>2
<1> QED
  BY <1>8, <1>11, <1>12, <1>15, <1>16, <1>17, ToldKeeps

LEMMA RecvDiscoveryRings ==
    ASSUME IInv, IInv', Alive, Alive', NoNamesakes, Rings,
           NEW l \in Server, NEW s \in mc[l], RecvDiscovery(l, s)
    PROVE  Rings'
<1>1. CASE Leads(l)
  BY <1>1, NewcomerRings
<1>2. CASE Follows(l)
  <2>1. /\ UNCHANGED <<phase, id, lst, box, ltcp, succ>>
        /\ mc' = [mc EXCEPT ![l] = @ \ {s}]
    BY <1>2 DEF RecvDiscovery, Leads, Follows
  <2>2. \A x \in Server : mc'[x] \subseteq mc[x]
    BY <2>1 DEF IInv, TypeOK
  <2> QED
    BY <2>1, <2>2, AskingRings
<1> QED
  BY <1>1, <1>2 DEF RecvDiscovery

-----------------------------------------------------------------------------
(* An ID is drawn once.                                                    *)
LEMMA IdsStay ==
    ASSUME IInv, Next
    PROVE  \A x \in Server : Started(x) => id'[x] = id[x]
<1>1. TypeOK
  BY DEF IInv
<1>2. PICK s \in Server :
         \/ Start(s) \/ Round(s)
         \/ RecvUpdate(s) \/ SuccessorGone(s) \/ SendHeartbeat(s)
         \/ \E t \in mc[s] : RecvDiscovery(s, t) \/ Lose(s, t)
         \/ \E n \in DOMAIN lst[s] : EvictSilent(s, n)
  BY DEF Next
<1>3. CASE Start(s)
  <2>1. ~Started(s) /\ \E i \in Id : id' = [id EXCEPT ![s] = i]
    BY <1>3 DEF Start, Started
  <2> QED
    BY <1>1, <2>1 DEF TypeOK
<1>4. CASE ~Start(s)
  <2>1. id' = id
    BY <1>2, <1>4 DEF Round, Timeout, Accept, Idle, Misread, ReadEnd, Follow, NextRound,
                      RecvUpdate, SuccessorGone, NullDeref, SendHeartbeat, RecvDiscovery,
                      Lose, EvictSilent
  <2> QED
    BY <2>1
<1> QED
  BY <1>3, <1>4

LEMMA RingStep ==
    ASSUME IInv, IInv', RingInv, Next
    PROVE  RingInv'
<1> SUFFICES ASSUME Alive', NoNamesakes'
             PROVE  Rings'
  BY DEF RingInv
<1>1. Alive /\ TypeOK /\ Consistent
  BY DEF Next, IInv
<1>2. NoNamesakes
  <2>1. ASSUME NEW x \in Server, NEW y \in Server \ {x}, id[y] = id[x], id[x] # 0
        PROVE  FALSE
    <3>1. Started(x) /\ Started(y)
      BY <1>1, <2>1 DEF Consistent, ListOk, Started
    <3>2. id'[x] = id[x] /\ id'[y] = id[y]
      BY <3>1, IdsStay
    <3> QED
      BY <2>1, <3>2 DEF NoNamesakes, Namesake
  <2> QED
    BY <2>1 DEF NoNamesakes, Namesake
<1>3. Rings
  BY <1>1, <1>2 DEF RingInv
<1>4. PICK s \in Server :
         \/ Start(s) \/ Round(s)
         \/ RecvUpdate(s) \/ SuccessorGone(s) \/ SendHeartbeat(s)
         \/ \E t \in mc[s] : RecvDiscovery(s, t) \/ Lose(s, t)
         \/ \E n \in DOMAIN lst[s] : EvictSilent(s, n)
  BY DEF Next
<1>5. CASE Start(s)
  BY <1>1, <1>2, <1>3, <1>5, StartRings
<1>6. CASE Round(s)
  <2>1. CASE Timeout(s) \/ Accept(s) \/ Idle(s) \/ ReadEnd(s)
    BY <1>1, <1>2, <1>3, <2>1, SilentRoundRings
  <2>2. CASE Misread(s)
    BY <1>1, <1>2, <1>3, <2>2, MisreadRings
  <2>3. CASE Follow(s)
    BY <1>1, <1>2, <1>3, <2>3, FollowRings
  <2> QED
    BY <1>6, <2>1, <2>2, <2>3 DEF Round
<1>7. CASE RecvUpdate(s)
  BY <1>1, <1>2, <1>3, <1>7, RecvUpdateRings
<1>8. CASE SuccessorGone(s)
  BY <1>1, <1>2, <1>3, <1>8, SuccessorGoneRings
<1>9. CASE SendHeartbeat(s)
  BY <1>1, <1>2, <1>3, <1>9, SendHeartbeatRings
<1>10. ASSUME NEW t \in mc[s], RecvDiscovery(s, t)
       PROVE  Rings'
  BY <1>1, <1>2, <1>3, <1>10, RecvDiscoveryRings
<1>11. ASSUME NEW t \in mc[s], Lose(s, t)
       PROVE  Rings'
  <2>1. /\ UNCHANGED <<phase, id, lst, attempt, box, taken, ltcp, succ>>
        /\ mc' = [mc EXCEPT ![s] = @ \ {t}]
    BY <1>11 DEF Lose
  <2>2. \A x \in Server : mc'[x] \subseteq mc[x]
    BY <1>1, <2>1 DEF TypeOK
  <2> QED
    BY <1>1, <1>2, <1>3, <2>1, <2>2, AskingRings
<1>12. ASSUME NEW n \in DOMAIN lst[s], EvictSilent(s, n)
       PROVE  Rings'
  BY <1>1, <1>2, <1>3, <1>12, EvictSilentRings
<1> QED
  BY <1>4, <1>5, <1>6, <1>7, <1>8, <1>9, <1>10, <1>11, <1>12

LEMMA RingInit ==
    ASSUME Init
    PROVE  RingInv
<1>1. \A s \in Server : phase[s] = "off" /\ Len(box[s]) = 0
  BY DEF Init
<1>2. \A s \in Server : \A i \in 1 .. Len(box[s]) : FALSE
  BY <1>1
<1>3. \A s \in Server : ~Leads(s) /\ ~Follows(s)
  BY <1>1 DEF Leads, Follows
<1>4. \A s \in Server : ConnectionsOk(s) /\ NamedOk(s)
  BY <1>2 DEF ConnectionsOk, NamedOk, Has
<1> QED
  BY <1>3, <1>4 DEF RingInv, Rings, OrderOk, SuccessorOk, RingOk

LEMMA RingInvariance == Spec => [](IInv /\ RingInv)
<1>1. Init => IInv /\ RingInv
  BY InitHolds, RingInit
<1>2. IInv /\ RingInv /\ [Next]_vars => (IInv /\ RingInv)'
  <2> SUFFICES ASSUME IInv, RingInv, [Next]_vars PROVE RingInv'
    BY IInvStep
  <2>1. CASE Next
    BY <2>1, NextKeeps, RingStep
  <2>2. CASE UNCHANGED vars
    <3>1. /\ Alive' <=> Alive
          /\ NoNamesakes' <=> NoNamesakes
      BY <2>2 DEF vars, Alive, NoNamesakes, Namesake
    <3>2. Rings' <=> Rings
      BY <2>2 DEF vars, Rings, ConnectionsOk, NamedOk, OrderOk, SuccessorOk, RingOk, OnlyOne,
                  Named, Has, Reached, Reading, Obeys, Missed, LeaderOf, Waits, Leads, Follows
    <3> QED
      BY <3>1, <3>2 DEF RingInv
  <2> QED
    BY <2>1, <2>2
<1> QED
  BY <1>1, <1>2, PTL DEF Spec

(* At rest, who is listed by a leader of two peers or more, and does not   *)
(* linger, follows it.                                                     *)
LEMMA WhoIsHeard ==
    ASSUME IInv, NoNamesakes, Settled, NEW l \in Server, Leads(l),
           NEW n \in 2 .. Len(lst[l]), NEW q \in Server, lst[l][n].who = q
    PROVE  Follows(q) /\ (LeaderOf(q) = l \/ (succ[q].who = l /\ succ[q].is = "open"))
<1>1. TypeOK /\ Consistent
  BY DEF IInv, Settled
<1>2. n \in DOMAIN lst[l]
  BY <1>1, ListType
<1>3. lst[l][n].id = id[q] /\ id[q] \in Id
  BY <1>1, <1>2 DEF Consistent, ListOk
<1>4. PICK r \in Server :
         /\ id[r] = id[q]
         /\ \/ Waits(r)
            \/ Follows(r) /\ LeaderOf(r) = l
            \/ Follows(r) /\ succ[r].who = l /\ succ[r].is = "open"
  BY <1>3 DEF Settled, Silent
<1>5. r = q
  BY <1>3, <1>4, IdAssumption DEF NoNamesakes, Namesake
<1> QED
  BY <1>4, <1>5 DEF Settled

(* A follower has the successor that its leader's list gives it.           *)
LEMMA HasItsNext ==
    ASSUME IInv, NoNamesakes, Rings, Settled, NEW l \in Server, Len(lst[l]) > 2,
           NEW n \in 2 .. Len(lst[l]), NEW q \in Server, lst[l][n].who = q,
           Follows(q), LeaderOf(q) = l,
           NEW t \in Server, t = lst[l][Onward(n, Len(lst[l]))].who
    PROVE  \/ succ[q].who = t
           \/ succ[q].who = Nobody /\ Missed(t, l)
<1>1. TypeOK /\ Consistent
  BY DEF IInv, Settled
<1>2. Leads(l) /\ ltcp[q] \in Nat /\ ltcp[q] > 0
  <2>1. Leads(l) /\ ltcp[q] > 0
    BY <1>1 DEF Consistent, RoleOk
  <2> QED
    BY <1>1, <2>1 DEF TypeOK
<1>3. PICK m \in 2 .. Len(lst[l]) : lst[l][m] = Entry(id[q], q, ltcp[q])
  BY <1>1 DEF NoNamesakes, Consistent, ListedOk, Listed
<1>4. n \in DOMAIN lst[l] /\ m \in DOMAIN lst[l]
  BY <1>1, ListType
<1>5. m = n
  <2>1. lst[l][m].id = id[q]
    BY <1>3 DEF Entry
  <2>2. lst[l][n].id = id[q]
    BY <1>1, <1>4 DEF Consistent, ListOk
  <2> QED
    BY <1>1, <1>4, <2>1, <2>2 DEF Consistent, ListOk, Distinct
<1>6. lst[l][n].at = ltcp[q]
  BY <1>3, <1>5 DEF Entry
<1>7. Precedes(lst[l], q, ltcp[q], t) /\ Reading(q, ltcp[q])
  BY <1>2, <1>6 DEF Precedes, Reading
<1>8. Obeys(q, ltcp[q], t, l)
  BY <1>2, <1>7 DEF Rings, RingOk
<1> QED
  BY <1>8 DEF Obeys, Settled

LEMMA NextListed ==
    ASSUME TypeOK, NEW l \in Server, Len(lst[l]) > 2, NEW n \in 2 .. Len(lst[l])
    PROVE  /\ Onward(n, Len(lst[l])) \in 2 .. Len(lst[l])
           /\ lst[l][Onward(n, Len(lst[l]))].who \in Server
<1>1. PICK c \in Nat : c = Len(lst[l]) /\ c > 2
  BY ListType
<1>2. Onward(n, c) \in 2 .. c
  BY <1>1, Neighboured
<1>3. Onward(n, c) \in 1 .. c
  BY <1>1, <1>2
<1> QED
  BY <1>1, <1>2, <1>3, ListType

LEMMA ListedFollow ==
    ASSUME IInv, NoNamesakes, Rings, Settled, \A s \in Server : ~Lingers(s),
           NEW l \in Server, Leads(l),
           NEW n \in 2 .. Len(lst[l]), NEW q \in Server, lst[l][n].who = q
    PROVE  Follows(q) /\ LeaderOf(q) = l
<1>1. TypeOK /\ Consistent
  BY DEF IInv, Settled
<1>2. Follows(q) /\ (LeaderOf(q) = l \/ (succ[q].who = l /\ succ[q].is = "open"))
  BY WhoIsHeard
<1>3. ASSUME LeaderOf(q) # l, succ[q].who = l PROVE FALSE
  <2>1. PICK g \in Server : g = LeaderOf(q) /\ Leads(g)
    BY <1>1, <1>2, LeaderThere
  <2>2. PICK m \in 2 .. Len(lst[g]) : lst[g][m] = Entry(id[q], q, ltcp[q])
    BY <1>1, <1>2, <2>1 DEF NoNamesakes, Consistent, ListedOk, Listed
  <2>3. l # Nobody
    BY ServerAssumption
  <2>4. Len(lst[g]) # 2
    BY <1>2, <1>3, <2>1, <2>3 DEF Lingers
  <2>5. Len(lst[g]) > 2
    <3>1. PICK c \in Nat : c = Len(lst[g])
      BY <1>1, <2>1, ListType
    <3>2. m \in 2 .. c /\ c # 2
      BY <2>2, <2>4, <3>1
    <3>3. c > 2
      BY <3>2
    <3> QED
      BY <3>1, <3>3
  <2>6. PICK t \in Server : t = lst[g][Onward(m, Len(lst[g]))].who
    BY <1>1, <2>5, NextListed
  <2>7. succ[q].who = t \/ succ[q].who = Nobody
    BY <1>2, <2>1, <2>2, <2>5, <2>6, HasItsNext DEF Entry
  <2>8. t = l
    BY <1>3, <2>3, <2>7
  <2>9. Follows(l)
    <3>1. PICK j \in 2 .. Len(lst[g]) : j = Onward(m, Len(lst[g]))
      BY <1>1, <2>1, <2>2, <2>5, NextListed
    <3>2. lst[g][j].who = l
      BY <2>6, <2>8, <3>1
    <3> QED
      BY <2>1, <3>1, <3>2, WhoIsHeard
  <2> QED
    BY <2>9 DEF Leads, Follows
<1> QED
  BY <1>2, <1>3

LEMMA AtRest ==
    ASSUME IInv, RingInv
    PROVE  RingsFollowLists
<1> SUFFICES ASSUME Settled, \A s \in Server : ~Namesake(s) /\ ~Lingers(s),
                    NEW l \in Server, Leads(l), Len(lst[l]) > 2, NEW n \in 2 .. Len(lst[l]),
                    NEW p, p = lst[l][n].who,
                    NEW next, next = lst[l][IF n = Len(lst[l]) THEN 2 ELSE n + 1].who
             PROVE  /\ Follows(p) /\ LeaderOf(p) = l
                    /\ succ[p].who = next /\ succ[p].is = "open"
  BY DEF RingsFollowLists
<1>1. NoNamesakes /\ Rings /\ TypeOK
  BY DEF Settled, NoNamesakes, RingInv, IInv
<1>2. p \in Server
  <2>1. n \in 1 .. Len(lst[l])
    BY <1>1, ListType
  <2> QED
    BY <1>1, <2>1, ListType
<1>3. /\ next = lst[l][Onward(n, Len(lst[l]))].who /\ next \in Server
      /\ Onward(n, Len(lst[l])) \in 2 .. Len(lst[l])
  <2>1. next = lst[l][Onward(n, Len(lst[l]))].who
    BY DEF Onward
  <2> QED
    BY <1>1, <2>1, NextListed
<1>4. Follows(p) /\ LeaderOf(p) = l
  BY <1>1, <1>2, ListedFollow
<1>5. Follows(next) /\ LeaderOf(next) = l
  BY <1>1, <1>3, ListedFollow
<1>6. ~Missed(next, l)
  BY <1>5 DEF Missed, Follows, Leads, Waits
<1>7. succ[p].who = next
  BY <1>1, <1>2, <1>3, <1>4, <1>6, HasItsNext
<1>8. succ[p].is = "open"
  BY <1>1, <1>2, <1>3, <1>4, <1>6, <1>7 DEF Rings, SuccessorOk
<1> QED
  BY <1>4, <1>7, <1>8

(* Whatever the order in which servers start, are answered, leave answers  *)
(* unread and are given up by ring_status(): when nothing is left to read  *)
(* or to give up, a leader's list of two peers or more is the ring of its  *)
(* followers, each connected to the next, which reads, unless IDs are      *)
(* shared or the only peer of another leader has kept its successor.       *)
THEOREM RingsAtRest == Spec => []RingsFollowLists
BY RingInvariance, AtRest, PTL
=============================================================================
