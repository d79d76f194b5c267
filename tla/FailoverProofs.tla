---------------------------- MODULE FailoverProofs ----------------------------
(***************************************************************************)
(* Invariants of Failover for any number of servers, crashes, losses,      *)
(* repeated votes and heartbeats, that Failover implements Election, and   *)
(* that one fault kills no other server.                                   *)
(***************************************************************************)
EXTENDS Failover, Lemmas

Record == [id : Server, leader : BOOLEAN, sock : Sock, heard : BOOLEAN]
Records == Seq(Record)

(* A list starts with the server itself.  One that does not lead lists its *)
(* leader and its successor at most.                                       *)
ListOk(s) ==
    /\ Len(lst[s]) > 0 /\ lst[s][1].id = s
    /\ ~Leads(s) => Len(lst[s]) <= 3
    /\ ~Leads(s) /\ Len(lst[s]) = 3 => lst[s][3].id = succ[s]

(* Nobody receives what it multicasts.                                     *)
DatagramsOk(s) == \A d \in mc[s] : d.id # s

IInv ==
    /\ TypeOK
    /\ \A s \in Server : ListOk(s)
    /\ \A s \in Server : DatagramsOk(s)

-----------------------------------------------------------------------------
(* The lists.                                                              *)

LEMMA RecordType ==
    ASSUME NEW l \in Records, NEW i \in 1 .. Len(l)
    PROVE  /\ l[i] \in Record /\ l[i].id \in Server /\ l[i].id \in Nat
           /\ l[i].leader \in BOOLEAN /\ l[i].sock \in Sock
<1>1. l[i] \in Record
  BY DEF Records
<1> QED
  BY <1>1, ServerAssumption DEF Record

LEMMA EntryType ==
    ASSUME NEW t \in Server, NEW b \in BOOLEAN, NEW k \in Sock
    PROVE  Entry(t, b, k) \in Record /\ Entry(t, b, k).id = t
  BY DEF Entry, Record

(* m is l without one of the entries after the head.                       *)
Without(l, m) ==
    /\ m \in Records /\ Len(m) = Len(l) - 1 /\ Len(m) \in Nat
    /\ m[1] = l[1]

LEMMA DeletedIs ==
    ASSUME NEW l \in Records, NEW i \in 2 .. Len(l)
    PROVE  /\ Without(l, delete_server(l, l[i].id))
           /\ i = 2 => \A j \in 2 .. Len(l) - 1 : delete_server(l, l[i].id)[j] = l[j + 1]
<1> DEFINE S == At(l, l[i].id)
           k == Min(S)
<1>0. l \in Seq(Record) /\ Len(l) \in Nat
  BY DEF Records
<1>1. S \in SUBSET Nat /\ i \in S /\ S \subseteq 2 .. Len(l)
  BY <1>0 DEF At
<1>2. k \in 2 .. Len(l) /\ k <= i
  BY <1>1, LeastExists
<1>3. delete_server(l, l[i].id) = RemoveAt(l, k)
  BY DEF delete_server
<1> HIDE DEF k
<1>4. k \in 1 .. Len(l) /\ 1 \in 1 .. k-1 /\ (i = 2 => k = 2)
  BY <1>0, <1>2
<1> DEFINE m == RemoveAt(l, k)
<1>5. /\ m \in Seq(Record) /\ Len(m) = Len(l) - 1
      /\ \A j \in 1 .. k-1 : m[j] = l[j]
      /\ \A j \in k .. Len(l) - 1 : m[j] = l[j+1]
  BY <1>0, <1>4, RemovedAt
<1> HIDE DEF m
<1>6. Without(l, m)
  BY <1>0, <1>2, <1>4, <1>5 DEF Without, Records
<1>7. i = 2 => \A j \in 2 .. Len(l) - 1 : m[j] = l[j + 1]
  BY <1>4, <1>5
<1> QED
  BY <1>3, <1>6, <1>7 DEF m

(* m is l without the two entries after the head.                          *)
WithoutTwo(l, m) ==
    /\ m \in Records /\ Len(m) = Len(l) - 2 /\ Len(m) \in Nat
    /\ m[1] = l[1]

LEMMA DetachedIs ==
    ASSUME NEW l \in Records, Len(l) > 2
    PROVE  WithoutTwo(l, Detached(l))
<1> DEFINE m == delete_server(l, l[2].id)
           n == delete_server(m, l[3].id)
<1>1. Len(l) \in Nat /\ 2 \in 2 .. Len(l) /\ 2 \in 2 .. Len(l) - 1
  BY DEF Records
<1>2. Without(l, m) /\ \A j \in 2 .. Len(l) - 1 : m[j] = l[j + 1]
  BY <1>1, DeletedIs
<1>3. m[2] = l[3]
  <2>1. m[2] = l[2 + 1]
    BY <1>1, <1>2
  <2> QED
    BY <2>1
<1> HIDE DEF m
<1>4. 2 \in 2 .. Len(m) /\ m \in Records
  BY <1>1, <1>2 DEF Without
<1>5. Without(m, n)
  BY <1>3, <1>4, DeletedIs
<1>6. Detached(l) = n
  BY DEF Detached, m
<1> HIDE DEF n
<1> QED
  BY <1>1, <1>2, <1>5, <1>6 DEF Without, WithoutTwo

LEMMA ClaimedIs ==
    ASSUME NEW l \in Records, Len(l) > 0
    PROVE  /\ Claimed(l) \in Records /\ Len(Claimed(l)) = Len(l)
           /\ Claimed(l)[1].id = l[1].id /\ Claimed(l)[1].leader
           /\ \A i \in 2 .. Len(l) : Claimed(l)[i] = l[i]
<1>1. l \in Seq(Record) /\ Len(l) \in Nat /\ 1 \in 1 .. Len(l)
  BY DEF Records
<1>2. [l[1] EXCEPT !.leader = TRUE] \in Record
  BY <1>1, RecordType DEF Record
<1> QED
  BY <1>1, <1>2 DEF Claimed, Records, Record

(* The list after t was taken for successor.                               *)
TakenFor(l, t, m) ==
    /\ m \in Records /\ Len(m) \in Nat /\ Len(m) > 0 /\ m[1] = l[1]
    /\ Len(l) <= 3 => Len(m) <= 3
    /\ Len(l) <= 3 /\ Len(m) = 3 => m[3].id = t

LEMMA SucceededIs ==
    ASSUME NEW l \in Records, Len(l) > 0, NEW t \in Server
    PROVE  TakenFor(l, t, Succeeded(l, t))
<1> DEFINE k == IF Len(l) > 2 THEN delete_server(l, l[3].id) ELSE l
           e == Entry(t, FALSE, "ring")
           m == append_server(k, e)
<1>1. l \in Seq(Record) /\ Len(l) \in Nat
  BY DEF Records
<1>2. /\ k \in Records /\ Len(k) \in Nat /\ Len(k) > 0 /\ k[1] = l[1]
      /\ Len(l) <= 3 => Len(k) <= 2
  <2>1. CASE Len(l) > 2
    <3>1. 3 \in 2 .. Len(l)
      BY <1>1, <2>1
    <3>2. Without(l, k)
      BY <2>1, <3>1, DeletedIs
    <3> HIDE DEF k
    <3> QED
      BY <1>1, <2>1, <3>2 DEF Without
  <2>2. CASE ~(Len(l) > 2)
    BY <1>1, <2>2
  <2> QED
    BY <2>1, <2>2
<1>3. e \in Record /\ e.id = t
  BY EntryType DEF Sock, Link
<1>4. Succeeded(l, t) = m
  BY DEF Succeeded
<1> HIDE DEF k, e
<1>5. k \in Seq(Record)
  BY <1>2 DEF Records
<1>6. /\ m \in Seq(Record)
      /\ server_info_exist(e.id, k) => m = k
      /\ ~server_info_exist(e.id, k) => AddedLast(k, e, m)
  BY <1>3, <1>5, Appended
<1> HIDE DEF m
<1>7. CASE m = k
  BY <1>2, <1>4, <1>7 DEF TakenFor
<1>8. CASE AddedLast(k, e, m)
  <2>1. Len(m) = Len(k) + 1 /\ m[Len(k) + 1] = e /\ m[1] = l[1]
    BY <1>2, <1>8 DEF AddedLast
  <2>3. m \in Records
    BY <1>6 DEF Records
  <2>4. \A i \in Nat : /\ i + 1 \in Nat /\ i + 1 > 0
                       /\ i <= 2 => i + 1 <= 3
                       /\ i + 1 = 3 => i = 2
    OBVIOUS
  <2>5. Len(m) = 3 => m[3].id = t
    BY <1>2, <1>3, <2>1, <2>4
  <2> QED
    BY <1>2, <1>4, <2>1, <2>3, <2>4, <2>5 DEF TakenFor
<1> QED
  BY <1>6, <1>7, <1>8

LEMMA AgedIs ==
    ASSUME NEW l \in Records, Len(l) > 0, NEW a
    PROVE  /\ Aged(l, a) \in Records /\ Len(Aged(l, a)) = Len(l)
           /\ Aged(l, a)[1] = l[1]
           /\ \A i \in 1 .. Len(l) : Aged(l, a)[i].id = l[i].id
<1> DEFINE e(i) == IF i > 1 /\ l[i].id = a /\ l[i].sock = "lead"
                   THEN [l[i] EXCEPT !.sock = "old"] ELSE l[i]
           m == [i \in 1 .. Len(l) |-> e(i)]
<1>1. Len(l) \in Nat /\ DOMAIN l = 1 .. Len(l) /\ 1 \in 1 .. Len(l)
  BY DEF Records
<1>2. \A i \in 1 .. Len(l) : e(i) \in Record /\ e(i).id = l[i].id
  <2> TAKE i \in 1 .. Len(l)
  <2>1. l[i] \in Record
    BY RecordType
  <2> QED
    BY <2>1 DEF Record, Sock, Link
<1>3. e(1) = l[1]
  OBVIOUS
<1>4. Aged(l, a) = m
  BY <1>1 DEF Aged
<1> HIDE DEF e
<1>5. m \in Seq(Record) /\ Len(m) = Len(l) /\ m[1] = l[1] /\ \A i \in 1 .. Len(l) : m[i].id = l[i].id
  BY <1>1, <1>2, <1>3
<1> QED
  BY <1>4, <1>5 DEF Records

-----------------------------------------------------------------------------
(* Messages.                                                               *)

Channels == [Conn -> Seq(Message)]

LEMMA SentType ==
    ASSUME NEW ch \in Channels, NEW s, NEW e, NEW msg \in Message
    PROVE  Sent(ch, s, e, msg) \in Channels
<1>1. CASE e.sock \in Link /\ <<e.sock, s, e.id>> \in Conn
  <2>1. ch[<<e.sock, s, e.id>>] \in Seq(Message)
    BY <1>1 DEF Channels
  <2>2. Append(ch[<<e.sock, s, e.id>>], msg) \in Seq(Message)
    BY <2>1
  <2> QED
    BY <1>1, <2>2 DEF Sent, Channels
<1>2. CASE ~(e.sock \in Link /\ <<e.sock, s, e.id>> \in Conn)
  BY <1>2 DEF Sent, Channels
<1> QED
  BY <1>1, <1>2

LEMMA ReadType ==
    ASSUME TypeOK, NEW v \in Server, NEW c \in Conn, NEW kind, Reads(v, c, kind)
    PROVE  Head(chan[c]) \in Message /\ Consumed(c) \in Channels
<1>1. chan \in Channels /\ chan[c] \in Seq(Message) /\ chan[c] # << >>
  BY DEF TypeOK, Reads, Channels
<1>2. Head(chan[c]) \in Message /\ Tail(chan[c]) \in Seq(Message)
  BY <1>1
<1> QED
  BY <1>1, <1>2 DEF Consumed, Channels

LEMMA MessageTypes ==
    /\ \A s \in Server : Vote(s) \in Message /\ Leader(s) \in Message
    /\ \A l \in Server, s \in Server \cup {NULL} : Know(l, s) \in Message
    /\ \A s \in Server : Update(s) \in Message
    /\ \A s \in Server : Who(s) \in Datagram /\ Beat(s) \in Datagram
  BY DEF Message, Datagram, Vote, Leader, Know, Update, Who, Beat

(* What a message of each kind carries.                                    *)
LEMMA MessageParts ==
    ASSUME NEW m \in Message
    PROVE  /\ m.kind \in {"VOTE", "LEADER"} => m.id \in Server
           /\ m.kind = "KNOW_NEW_LEADER" => m.leader \in Server /\ m.succ \in Server \cup {NULL}
           /\ m.kind = "UPDATE_FROM_LEADER" => m.succ \in Server
  BY DEF Message

LEMMA DatagramParts ==
    ASSUME TypeOK, NEW v \in Server, NEW d \in mc[v]
    PROVE  d.id \in Server /\ d.kind \in {"WHO_IS_LEADER", "HEARTBEAT"}
<1>1. d \in Datagram
  BY DEF TypeOK
<1> QED
  BY <1>1 DEF Datagram

-----------------------------------------------------------------------------
(* Steps that leave the lists alone.                                       *)

LEMMA ListsKept ==
    ASSUME IInv, TypeOK', UNCHANGED <<lst, succ>>, \A s \in Server : DatagramsOk(s)'
    PROVE  IInv'
<1>1. ASSUME NEW s \in Server PROVE ListOk(s)'
  <2>1. ListOk(s)
    BY DEF IInv
  <2> QED
    BY <2>1 DEF ListOk, Leads
<1> QED
  BY <1>1 DEF IInv

LEMMA DieKeeps ==
    ASSUME IInv, NEW s \in Server, NEW how \in Death, Die(s, how),
           spent' \in [crash : 0 .. MaxCrash, repeat : 0 .. MaxRepeat,
                       loss : 0 .. MaxLoss, beats : 0 .. MaxBeats]
    PROVE  IInv'
<1>1. TypeOK
  BY DEF IInv
<1>2. UNCHANGED <<lst, participant, ltcp, succ>>
  BY DEF Die, locals
<1>3. chan' \in [Conn -> Seq(Message)]
  <2>1. \A c \in Conn : (IF c[3] = s THEN << >> ELSE chan[c]) \in Seq(Message)
    BY <1>1 DEF TypeOK
  <2> QED
    BY <2>1 DEF Die
<1>4. status' \in [Server -> {"up"} \cup Death] /\ mc' \in [Server -> SUBSET Datagram]
  BY <1>1 DEF TypeOK, Die
<1>5. TypeOK'
  BY <1>1, <1>2, <1>3, <1>4 DEF TypeOK
<1>6. ASSUME NEW t \in Server PROVE DatagramsOk(t)'
  <2>1. mc'[t] \subseteq mc[t] /\ DatagramsOk(t)
    BY <1>1 DEF Die, TypeOK, IInv
  <2> QED
    BY <2>1 DEF DatagramsOk
<1> QED
  BY <1>2, <1>5, <1>6, ListsKept

LEMMA NullDerefKeeps ==
    ASSUME IInv, NEW s \in Server, NullDeref(s) \/ Exit(s)
    PROVE  IInv'
<1>1. \E how \in Death : Die(s, how) /\ UNCHANGED spent
  BY DEF NullDeref, Exit, Death
<1>2. spent \in [crash : 0 .. MaxCrash, repeat : 0 .. MaxRepeat,
                 loss : 0 .. MaxLoss, beats : 0 .. MaxBeats]
  BY DEF IInv, TypeOK
<1> QED
  BY <1>1, <1>2, DieKeeps

(* chan and participant change at most.                                    *)
LEMMA MessagesKeep ==
    ASSUME IInv, chan' \in Channels, participant' \in [Server -> BOOLEAN],
           UNCHANGED <<status, lst, ltcp, succ, mc>>,
           spent' \in [crash : 0 .. MaxCrash, repeat : 0 .. MaxRepeat,
                       loss : 0 .. MaxLoss, beats : 0 .. MaxBeats]
    PROVE  IInv'
<1>1. TypeOK'
  BY DEF IInv, TypeOK, Channels
<1>2. \A s \in Server : DatagramsOk(s)'
  BY DEF IInv, DatagramsOk
<1> QED
  BY <1>1, <1>2, ListsKept

(* Whatever else it does, the list of one server and its successor change. *)
Fits(v, m, t) ==
    /\ m \in Records /\ Len(m) > 0 /\ m[1].id = v
    /\ t \in Server \cup {NULL}
    /\ ~m[1].leader => Len(m) <= 3 /\ (Len(m) = 3 => m[3].id = t)

Replaced(v, m, t) ==
    /\ lst' = [lst EXCEPT ![v] = m]
    /\ succ' = [succ EXCEPT ![v] = t]

LEMMA OneListKeeps ==
    ASSUME IInv, NEW v \in Server, NEW m, NEW t, Fits(v, m, t), Replaced(v, m, t),
           UNCHANGED <<status, spent>>,
           chan' \in Channels, participant' \in [Server -> BOOLEAN],
           ltcp' \in [Server -> (Link \X Server) \cup {NoConn}],
           mc' \in [Server -> SUBSET Datagram], \A s \in Server : DatagramsOk(s)'
    PROVE  IInv'
<1>1. lst \in [Server -> Records] /\ succ \in [Server -> Server \cup {NULL}]
  BY DEF IInv, TypeOK, Records, Record
<1>2. lst' \in [Server -> Records] /\ succ' \in [Server -> Server \cup {NULL}]
  BY <1>1 DEF Fits, Replaced
<1>3. TypeOK'
  BY <1>2 DEF IInv, TypeOK, Channels, Records, Record
<1>4. ASSUME NEW s \in Server PROVE ListOk(s)'
  <2>1. CASE s = v
    <3>1. ListOk(v)'
      <4>1. lst'[v] = m /\ succ'[v] = t
        BY <1>1 DEF Replaced
      <4> QED
        BY <4>1 DEF ListOk, Leads, Fits
    <3> QED
      BY <2>1, <3>1
  <2>2. CASE s # v
    <3>1. lst'[s] = lst[s] /\ succ'[s] = succ[s] /\ ListOk(s)
      BY <1>1, <2>2 DEF Replaced, IInv
    <3> QED
      BY <3>1 DEF ListOk, Leads
  <2> QED
    BY <2>1, <2>2
<1> QED
  BY <1>3, <1>4 DEF IInv

(* What is known of a list before the step.                                *)
LEMMA ListBefore ==
    ASSUME IInv, NEW v \in Server
    PROVE  /\ lst[v] \in Records /\ Len(lst[v]) \in Nat \ {0} /\ lst[v][1].id = v
           /\ succ[v] \in Server \cup {NULL}
           /\ ~Leads(v) => Len(lst[v]) <= 3
           /\ ~Leads(v) /\ Len(lst[v]) = 3 => lst[v][3].id = succ[v]
<1>1. lst[v] \in Records /\ succ[v] \in Server \cup {NULL}
  BY DEF IInv, TypeOK, Records, Record
<1>2. Len(lst[v]) \in Nat /\ ListOk(v)
  BY <1>1 DEF Records, IInv
<1> QED
  BY <1>1, <1>2 DEF ListOk

-----------------------------------------------------------------------------
(* The timeout of the leader.                                              *)

LEMMA ClaimAloneKeeps ==
    ASSUME IInv, NEW n \in Server, ClaimAlone(n)
    PROVE  IInv'
<1> DEFINE l == lst[n]
           k == Claimed(l)
           m == delete_server(k, l[2].id)
<1>1. l \in Records /\ Len(l) \in Nat \ {0} /\ l[1].id = n /\ succ[n] \in Server \cup {NULL}
  BY ListBefore
<1>2. Len(l) # 1 /\ 2 \in 2 .. Len(l)
  <2>1. Len(l) # 1
    BY DEF ClaimAlone, TimesOut, Alone
  <2>2. \A i \in Nat \ {0} : i # 1 => 2 \in 2 .. i
    OBVIOUS
  <2> HIDE DEF l
  <2> QED
    BY <1>1, <2>1, <2>2
<1> HIDE DEF l
<1>3. /\ k \in Records /\ Len(k) = Len(l) /\ k[1].id = n /\ k[1].leader
      /\ k[2] = l[2]
  BY <1>1, <1>2, ClaimedIs
<1> HIDE DEF k
<1>4. Without(k, delete_server(k, k[2].id))
  BY <1>2, <1>3, DeletedIs
<1>5. Fits(n, m, succ[n])
  BY <1>1, <1>2, <1>3, <1>4 DEF Without, Fits
<1>6. Replaced(n, m, succ[n])
  BY DEF ClaimAlone, Replaced, l, k, IInv, TypeOK
<1> HIDE DEF m
<1>7. UNCHANGED <<status, participant, ltcp, chan, mc, spent>>
  BY DEF ClaimAlone
<1>8. chan' \in Channels /\ \A s \in Server : DatagramsOk(s)'
  BY <1>7 DEF IInv, TypeOK, Channels, DatagramsOk
<1> QED
  BY <1>5, <1>6, <1>7, <1>8, OneListKeeps DEF IInv, TypeOK

LEMMA StartVoteKeeps ==
    ASSUME IInv, NEW n \in Server, StartVote(n)
    PROVE  IInv'
<1>1. chan \in Channels /\ Vote(n) \in Message
  BY MessageTypes DEF IInv, TypeOK, Channels
<1>2. Sent(chan, n, lst[n][3], Vote(n)) \in Channels
  BY <1>1, SentType
<1>3. chan' \in Channels
  BY <1>1, <1>2, SentType DEF StartVote
<1>4. participant' \in [Server -> BOOLEAN] /\ UNCHANGED <<status, lst, ltcp, succ, mc, spent>>
  BY DEF StartVote, IInv, TypeOK
<1> QED
  BY <1>3, <1>4, MessagesKeep DEF IInv, TypeOK

LEMMA RepeatVoteKeeps ==
    ASSUME IInv, NEW n \in Server, RepeatVote(n)
    PROVE  IInv'
<1>1. chan \in Channels /\ Vote(n) \in Message
  BY MessageTypes DEF IInv, TypeOK, Channels
<1>2. chan' \in Channels
  BY <1>1, SentType DEF RepeatVote
<1>3. spent' \in [crash : 0 .. MaxCrash, repeat : 0 .. MaxRepeat,
                  loss : 0 .. MaxLoss, beats : 0 .. MaxBeats]
  <2>1. spent.repeat + 1 \in 0 .. MaxRepeat
    BY BoundAssumption, SMTT(30) DEF RepeatVote, IInv, TypeOK
  <2> QED
    BY <2>1 DEF RepeatVote, IInv, TypeOK
<1>4. UNCHANGED <<status, lst, participant, ltcp, succ, mc>>
  BY DEF RepeatVote
<1> QED
  BY <1>2, <1>3, <1>4, MessagesKeep DEF IInv, TypeOK

LEMMA CrashKeeps ==
    ASSUME IInv, NEW s \in Server, Crash(s)
    PROVE  IInv'
<1>1. spent' \in [crash : 0 .. MaxCrash, repeat : 0 .. MaxRepeat,
                  loss : 0 .. MaxLoss, beats : 0 .. MaxBeats]
  <2>1. spent.crash + 1 \in 0 .. MaxCrash
    BY BoundAssumption DEF Crash, IInv, TypeOK
  <2> QED
    BY <2>1 DEF Crash, IInv, TypeOK
<1>2. Die(s, "crashed") /\ "crashed" \in Death
  BY DEF Crash, Death
<1> QED
  BY <1>1, <1>2, DieKeeps

-----------------------------------------------------------------------------
(* Messages of the election.                                               *)

LEMMA IgnoreKeeps ==
    ASSUME IInv, NEW v \in Server, NEW c \in Conn, NEW kind, Reads(v, c, kind), Ignore(c)
    PROVE  IInv'
<1>1. Consumed(c) \in Channels
  BY ReadType DEF IInv
<1> QED
  BY <1>1, MessagesKeep DEF Ignore, locals, IInv, TypeOK

LEMMA ForwardType ==
    ASSUME IInv, NEW v \in Server, NEW c \in Conn, NEW kind, Reads(v, c, kind),
           NEW msg \in Message, Forward(v, c, msg)
    PROVE  chan' \in Channels
<1>1. Consumed(c) \in Channels
  BY ReadType DEF IInv
<1> QED
  BY <1>1, SentType DEF Forward

LEMMA RecvVoteGreaterKeeps ==
    ASSUME IInv, NEW v \in Server, NEW c \in Conn, RecvVoteGreater(v, c)
    PROVE  IInv'
<1>1. Reads(v, c, "VOTE")
  BY DEF RecvVoteGreater
<1>2. CASE Ignore(c)
  BY <1>1, <1>2, IgnoreKeeps
<1>3. CASE NullDeref(v)
  BY <1>3, NullDerefKeeps
<1>4. CASE Forward(v, c, Head(chan[c])) /\ UNCHANGED <<status, locals, mc, spent>>
  <2>1. Head(chan[c]) \in Message
    BY <1>1, ReadType DEF IInv
  <2>2. chan' \in Channels
    BY <1>1, <1>4, <2>1, ForwardType
  <2> QED
    BY <1>4, <2>2, MessagesKeep DEF locals, IInv, TypeOK
<1> QED
  BY <1>2, <1>3, <1>4 DEF RecvVoteGreater

LEMMA RecvVoteSmallerKeeps ==
    ASSUME IInv, NEW v \in Server, NEW c \in Conn, RecvVoteSmaller(v, c)
    PROVE  IInv'
<1>1. Reads(v, c, "VOTE")
  BY DEF RecvVoteSmaller
<1>2. CASE Ignore(c)
  BY <1>1, <1>2, IgnoreKeeps
<1>3. CASE NullDeref(v)
  BY <1>3, NullDerefKeeps
<1>4. CASE /\ participant' = [participant EXCEPT ![v] = TRUE]
           /\ Forward(v, c, Vote(v))
           /\ UNCHANGED <<status, lst, ltcp, succ, mc, spent>>
  <2>1. chan' \in Channels
    BY <1>1, <1>4, ForwardType, MessageTypes
  <2>2. participant' \in [Server -> BOOLEAN]
    BY <1>4 DEF IInv, TypeOK
  <2> QED
    BY <1>4, <2>1, <2>2, MessagesKeep DEF IInv, TypeOK
<1> QED
  BY <1>2, <1>3, <1>4 DEF RecvVoteSmaller

LEMMA RecvVoteMineKeeps ==
    ASSUME IInv, NEW v \in Server, NEW c \in Conn, RecvVoteMine(v, c)
    PROVE  IInv'
<1>1. Reads(v, c, "VOTE")
  BY DEF RecvVoteMine
<1>2. CASE Ignore(c)
  BY <1>1, <1>2, IgnoreKeeps
<1>3. CASE NullDeref(v)
  BY <1>3, NullDerefKeeps
<1>4. CASE /\ ~Leads(v) /\ ~NoSecond(v)
           /\ participant' = [participant EXCEPT ![v] = TRUE]
           /\ lst' = [lst EXCEPT ![v] = Detached(Claimed(@))]
           /\ succ' = [succ EXCEPT ![v] = NULL]
           /\ Forward(v, c, Leader(v))
           /\ UNCHANGED <<status, ltcp, mc, spent>>
  <2> DEFINE l == lst[v]
             k == Claimed(l)
             m == Detached(k)
  <2>1. l \in Records /\ Len(l) \in Nat \ {0} /\ l[1].id = v /\ Len(l) > 2
    BY <1>4, ListBefore DEF NoSecond
  <2>2. Replaced(v, m, NULL)
    BY <1>4 DEF Replaced, IInv, TypeOK
  <2> HIDE DEF l
  <2>3. k \in Records /\ Len(k) = Len(l) /\ k[1].id = v /\ k[1].leader
    BY <2>1, ClaimedIs
  <2> HIDE DEF k
  <2>4. WithoutTwo(k, m)
    BY <2>1, <2>3, DetachedIs
  <2> HIDE DEF m
  <2>5. Fits(v, m, NULL)
    BY <2>1, <2>3, <2>4 DEF WithoutTwo, Fits
  <2>6. chan' \in Channels
    BY <1>1, <1>4, ForwardType, MessageTypes
  <2>7. /\ participant' \in [Server -> BOOLEAN]
        /\ ltcp' \in [Server -> (Link \X Server) \cup {NoConn}]
        /\ mc' \in [Server -> SUBSET Datagram] /\ \A s \in Server : DatagramsOk(s)'
    BY <1>4 DEF IInv, TypeOK, DatagramsOk
  <2> QED
    BY <1>4, <2>2, <2>5, <2>6, <2>7, OneListKeeps
<1>5. CASE /\ ~Leads(v) /\ ~NoSecond(v) /\ SendFails(v)
           /\ participant' = [participant EXCEPT ![v] = TRUE]
           /\ lst' = [lst EXCEPT ![v] = Claimed(@)]
           /\ Forward(v, c, Leader(v))
           /\ UNCHANGED <<status, ltcp, succ, mc, spent>>
  <2> DEFINE l == lst[v]
             k == Claimed(l)
  <2>1. /\ l \in Records /\ Len(l) \in Nat \ {0} /\ l[1].id = v
        /\ succ[v] \in Server \cup {NULL}
    BY ListBefore
  <2>2. Replaced(v, k, succ[v])
    BY <1>5 DEF Replaced, IInv, TypeOK
  <2> HIDE DEF l
  <2>3. Len(l) > 0
    BY <2>1
  <2>4. k \in Records /\ Len(k) = Len(l) /\ k[1].id = v /\ k[1].leader
    BY <2>1, <2>3, ClaimedIs
  <2> HIDE DEF k
  <2>5. Fits(v, k, succ[v])
    BY <2>1, <2>3, <2>4 DEF Fits
  <2>6. chan' \in Channels
    BY <1>1, <1>5, ForwardType, MessageTypes
  <2>7. /\ participant' \in [Server -> BOOLEAN]
        /\ ltcp' \in [Server -> (Link \X Server) \cup {NoConn}]
        /\ mc' \in [Server -> SUBSET Datagram] /\ \A s \in Server : DatagramsOk(s)'
    BY <1>5 DEF IInv, TypeOK, DatagramsOk
  <2> QED
    BY <1>5, <2>2, <2>5, <2>6, <2>7, OneListKeeps
<1> QED
  BY <1>2, <1>3, <1>4, <1>5 DEF RecvVoteMine

LEMMA RecvLeaderMineKeeps ==
    ASSUME IInv, NEW v \in Server, NEW c \in Conn, RecvLeaderMine(v, c)
    PROVE  IInv'
<1>1. Consumed(c) \in Channels
  BY ReadType DEF IInv, RecvLeaderMine
<1>2. participant' \in [Server -> BOOLEAN]
  BY DEF RecvLeaderMine, IInv, TypeOK
<1> QED
  BY <1>1, <1>2, MessagesKeep DEF RecvLeaderMine, IInv, TypeOK

(* A multicast of v about itself reaches everybody else.                   *)
LEMMA MulticastKeeps ==
    ASSUME IInv, NEW v \in Server, NEW d \in Datagram, d.id = v, Multicast(v, d)
    PROVE  mc' \in [Server -> SUBSET Datagram] /\ \A s \in Server : DatagramsOk(s)'
<1>1. mc' = [t \in Server |-> IF t # v /\ Up(t) THEN mc[t] \cup {d} ELSE mc[t]]
  BY DEF Multicast
<1>2. mc \in [Server -> SUBSET Datagram]
  BY DEF IInv, TypeOK
<1>3. ASSUME NEW s \in Server PROVE DatagramsOk(s)'
  <2>1. DatagramsOk(s)
    BY DEF IInv
  <2>2. \A x \in mc'[s] : x \in mc[s] \/ (x = d /\ s # v)
    BY <1>1
  <2> QED
    BY <2>1, <2>2 DEF DatagramsOk
<1> QED
  BY <1>1, <1>2, <1>3

LEMMA RenamedIs ==
    ASSUME NEW l \in Records, Len(l) > 2, NEW w \in Server
    PROVE  /\ Renamed(l, w) \in Records /\ Len(Renamed(l, w)) = Len(l)
           /\ Renamed(l, w)[1] = l[1] /\ Renamed(l, w)[3] = l[3]
<1>1. l \in Seq(Record) /\ Len(l) \in Nat /\ {1, 2, 3} \subseteq 1 .. Len(l)
  BY DEF Records
<1>2. [l[2] EXCEPT !.id = w, !.leader = TRUE, !.sock = "closed"] \in Record
  <2>1. l[2] \in Record
    BY <1>1, RecordType
  <2> QED
    BY <2>1 DEF Record, Sock
<1> QED
  BY <1>1, <1>2 DEF Renamed, Records

LEMMA RecvLeaderOtherKeeps ==
    ASSUME IInv, NEW v \in Server, NEW c \in Conn, RecvLeaderOther(v, c)
    PROVE  IInv'
<1>1. Reads(v, c, "LEADER")
  BY DEF RecvLeaderOther
<1>2. CASE Ignore(c)
  BY <1>1, <1>2, IgnoreKeeps
<1>3. CASE NullDeref(v)
  BY <1>3, NullDerefKeeps
<1>4. CASE /\ ~NoSecond(v)
           /\ participant' = [participant EXCEPT ![v] = FALSE]
           /\ lst' = [lst EXCEPT ![v] = Detached(@)]
           /\ succ' = [succ EXCEPT ![v] = NULL]
           /\ Forward(v, c, Head(chan[c]))
           /\ Multicast(v, Who(v))
           /\ UNCHANGED <<status, ltcp, spent>>
  <2> DEFINE l == lst[v]
             m == Detached(l)
  <2>1. /\ l \in Records /\ Len(l) \in Nat \ {0} /\ l[1].id = v /\ Len(l) > 2
        /\ ~l[1].leader => Len(l) <= 3
    BY <1>4, ListBefore DEF NoSecond, Leads
  <2>2. Replaced(v, m, NULL)
    BY <1>4 DEF Replaced, IInv, TypeOK
  <2> HIDE DEF l
  <2>3. WithoutTwo(l, m)
    BY <2>1, DetachedIs
  <2> HIDE DEF m
  <2>4. Fits(v, m, NULL)
    <3>1. /\ m \in Records /\ Len(m) = Len(l) - 2 /\ Len(m) \in Nat
          /\ m[1] = l[1] /\ m[1].id = v
      BY <2>1, <2>3 DEF WithoutTwo
    <3>2. \A i \in Nat \ {0} : i > 2 => i - 2 > 0 /\ (i <= 3 => i - 2 = 1)
      OBVIOUS
    <3>3. Len(m) > 0 /\ (~m[1].leader => Len(m) = 1)
      BY <2>1, <3>1, <3>2
    <3>4. \A i \in Nat : i = 1 => i <= 3 /\ i # 3
      OBVIOUS
    <3>5. ~m[1].leader => Len(m) <= 3 /\ Len(m) # 3
      BY <3>1, <3>3, <3>4
    <3> QED
      BY <3>1, <3>3, <3>5 DEF Fits
  <2>5. chan' \in Channels
    <3>1. Head(chan[c]) \in Message
      BY <1>1, ReadType DEF IInv
    <3> QED
      BY <1>1, <1>4, <3>1, ForwardType
  <2>6. mc' \in [Server -> SUBSET Datagram] /\ \A s \in Server : DatagramsOk(s)'
    <3>1. Who(v) \in Datagram /\ Who(v).id = v
      BY MessageTypes DEF Who
    <3> QED
      BY <1>4, <3>1, MulticastKeeps
  <2>7. /\ participant' \in [Server -> BOOLEAN]
        /\ ltcp' \in [Server -> (Link \X Server) \cup {NoConn}]
    BY <1>4 DEF IInv, TypeOK
  <2> QED
    BY <1>4, <2>2, <2>4, <2>5, <2>6, <2>7, OneListKeeps
<1>5. CASE /\ ~NoSecond(v) /\ SendFails(v)
           /\ participant' = [participant EXCEPT ![v] = FALSE]
           /\ lst' = [lst EXCEPT ![v] = Renamed(@, Head(chan[c]).id)]
           /\ Forward(v, c, Head(chan[c]))
           /\ UNCHANGED <<status, ltcp, succ, mc, spent>>
  <2> DEFINE l == lst[v]
             m == Renamed(l, Head(chan[c]).id)
  <2>1. /\ l \in Records /\ Len(l) \in Nat \ {0} /\ l[1].id = v /\ Len(l) > 2
        /\ succ[v] \in Server \cup {NULL}
        /\ ~l[1].leader => Len(l) <= 3 /\ (Len(l) = 3 => l[3].id = succ[v])
    BY <1>5, ListBefore DEF NoSecond, Leads
  <2>2. Replaced(v, m, succ[v])
    BY <1>5 DEF Replaced, IInv, TypeOK
  <2>3. Head(chan[c]) \in Message /\ Head(chan[c]).kind = "LEADER"
    BY <1>1, ReadType DEF IInv, Reads
  <2>4. Head(chan[c]).id \in Server
    BY <2>3, MessageParts
  <2> HIDE DEF l
  <2>5. m \in Records /\ Len(m) = Len(l) /\ m[1] = l[1] /\ m[3] = l[3]
    BY <2>1, <2>4, RenamedIs
  <2> HIDE DEF m
  <2>6. Fits(v, m, succ[v])
    BY <2>1, <2>5 DEF Fits
  <2>7. chan' \in Channels
    BY <1>1, <1>5, <2>3, ForwardType
  <2>8. /\ participant' \in [Server -> BOOLEAN]
        /\ ltcp' \in [Server -> (Link \X Server) \cup {NoConn}]
        /\ mc' \in [Server -> SUBSET Datagram] /\ \A s \in Server : DatagramsOk(s)'
    BY <1>5 DEF IInv, TypeOK, DatagramsOk
  <2> QED
    BY <1>5, <2>2, <2>6, <2>7, <2>8, OneListKeeps
<1> QED
  BY <1>2, <1>3, <1>4, <1>5 DEF RecvLeaderOther

-----------------------------------------------------------------------------
(* Messages of the leader.                                                 *)

LEMMA RecvUpdateKeeps ==
    ASSUME IInv, NEW v \in Server, NEW c \in Conn, RecvUpdate(v, c)
    PROVE  IInv'
<1> DEFINE t == Head(chan[c]).succ
<1>1. Reads(v, c, "UPDATE_FROM_LEADER")
  BY DEF RecvUpdate
<1>2. t \in Server /\ Consumed(c) \in Channels
  <2>1. Head(chan[c]) \in Message /\ Consumed(c) \in Channels
    BY <1>1, ReadType DEF IInv
  <2>2. Head(chan[c]).kind = "UPDATE_FROM_LEADER"
    BY <1>1 DEF Reads
  <2> QED
    BY <2>1, <2>2, MessageParts
<1>3. CASE Ignore(c)
  BY <1>1, <1>3, IgnoreKeeps
<1>4. CASE NullDeref(v) \/ Exit(v)
  BY <1>4, NullDerefKeeps
<1>5. CASE /\ ~Alone(v)
           /\ lst' = [lst EXCEPT ![v] = Succeeded(@, t)]
           /\ succ' = [succ EXCEPT ![v] = t]
           /\ chan' = Consumed(c)
           /\ UNCHANGED <<status, participant, ltcp, mc, spent>>
  <2> DEFINE l == lst[v]
             m == Succeeded(l, t)
  <2>1. /\ l \in Records /\ Len(l) \in Nat \ {0} /\ l[1].id = v /\ Len(l) # 1
        /\ ~l[1].leader => Len(l) <= 3
    BY <1>5, ListBefore DEF Alone, Leads
  <2>2. Replaced(v, m, t)
    BY <1>5 DEF Replaced, IInv, TypeOK
  <2> HIDE DEF l, t
  <2>3. \A i \in Nat \ {0} : i > 0
    OBVIOUS
  <2>4. TakenFor(l, t, m)
    BY <1>2, <2>1, <2>3, SucceededIs
  <2> HIDE DEF m
  <2>5. Fits(v, m, t)
    BY <1>2, <2>1, <2>4 DEF TakenFor, Fits
  <2>6. /\ chan' \in Channels /\ participant' \in [Server -> BOOLEAN]
        /\ ltcp' \in [Server -> (Link \X Server) \cup {NoConn}]
        /\ mc' \in [Server -> SUBSET Datagram] /\ \A s \in Server : DatagramsOk(s)'
    BY <1>2, <1>5 DEF IInv, TypeOK, DatagramsOk
  <2> QED
    BY <1>5, <2>2, <2>5, <2>6, OneListKeeps
<1> QED
  BY <1>3, <1>4, <1>5 DEF RecvUpdate

LEMMA RecvKnowKeeps ==
    ASSUME IInv, NEW v \in Server, NEW c \in Conn, RecvKnow(v, c)
    PROVE  IInv'
<1> DEFINE msg == Head(chan[c])
           e == Entry(msg.leader, TRUE, "up")
           l == IF Alone(v) THEN append_server(lst[v], e) ELSE lst[v]
           m == IF msg.succ = NULL THEN l ELSE Succeeded(l, msg.succ)
           t == IF msg.succ = NULL THEN succ[v] ELSE msg.succ
<1>1. Reads(v, c, "KNOW_NEW_LEADER")
  BY DEF RecvKnow
<1>2. CASE Exit(v)
  BY <1>2, NullDerefKeeps
<1>3. CASE /\ lst' = [lst EXCEPT ![v] = m]
           /\ succ' = [succ EXCEPT ![v] = IF msg.succ = NULL THEN @ ELSE msg.succ]
           /\ ltcp' = [ltcp EXCEPT ![v] = <<c[1], c[2]>>]
           /\ chan' = Consumed(c)
           /\ UNCHANGED <<status, participant, mc, spent>>
  <2>1. /\ msg.leader \in Server /\ msg.succ \in Server \cup {NULL}
        /\ Consumed(c) \in Channels
    <3>1. Head(chan[c]) \in Message /\ Consumed(c) \in Channels
      BY <1>1, ReadType DEF IInv
    <3>2. Head(chan[c]).kind = "KNOW_NEW_LEADER"
      BY <1>1 DEF Reads
    <3> QED
      BY <3>1, <3>2, MessageParts
  <2>2. Replaced(v, m, t)
    BY <1>3 DEF Replaced, IInv, TypeOK
  <2>3. /\ lst[v] \in Records /\ Len(lst[v]) \in Nat \ {0} /\ lst[v][1].id = v
        /\ succ[v] \in Server \cup {NULL}
        /\ ~lst[v][1].leader => Len(lst[v]) <= 3 /\ (Len(lst[v]) = 3 => lst[v][3].id = succ[v])
    BY ListBefore DEF Leads
  <2>4. e \in Record
    BY <2>1, EntryType DEF Sock, Link
  <2> HIDE DEF msg, e
  <2>5. /\ l \in Records /\ Len(l) \in Nat \ {0} /\ l[1] = lst[v][1]
        /\ ~l[1].leader => Len(l) <= 3 /\ (Len(l) = 3 => l[3].id = succ[v])
    <3>1. CASE Alone(v)
      <4> DEFINE k == lst[v]
      <4>1. k \in Seq(Record) /\ Len(k) = 1
        BY <2>3, <3>1 DEF Alone, Records
      <4> HIDE DEF k
      <4> DEFINE n == append_server(k, e)
      <4>2. /\ n \in Seq(Record)
            /\ server_info_exist(e.id, k) => n = k
            /\ ~server_info_exist(e.id, k) => AddedLast(k, e, n)
        BY <2>4, <4>1, Appended
      <4> HIDE DEF n
      <4>3. n[1] = k[1] /\ (Len(n) = 1 \/ Len(n) = 2)
        <5>1. CASE n = k
          BY <4>1, <5>1
        <5>2. CASE AddedLast(k, e, n)
          BY <4>1, <5>2 DEF AddedLast
        <5> QED
          BY <4>2, <5>1, <5>2
      <4>4. l = n
        BY <3>1 DEF n, k
      <4>5. \A i \in Nat : i = 1 \/ i = 2 => i # 0 /\ i <= 3 /\ i # 3
        OBVIOUS
      <4>6. Len(n) \in Nat /\ n \in Records
        BY <4>2 DEF Records
      <4>7. Len(n) \in Nat \ {0} /\ Len(n) <= 3 /\ Len(n) # 3
        BY <4>3, <4>5, <4>6
      <4>8. k[1] = lst[v][1]
        BY DEF k
      <4> HIDE DEF l
      <4> QED
        BY <4>3, <4>4, <4>6, <4>7, <4>8
    <3>2. CASE ~Alone(v)
      BY <2>3, <3>2
    <3> QED
      BY <3>1, <3>2
  <2>6. Fits(v, m, t)
    <3>1. CASE msg.succ = NULL
      <4>1. m = l /\ t = succ[v]
        BY <3>1
      <4> HIDE DEF l, m, t
      <4> QED
        BY <2>3, <2>5, <4>1 DEF Fits
    <3>2. CASE msg.succ # NULL
      <4>1. m = Succeeded(l, msg.succ) /\ t = msg.succ
        BY <3>2
      <4> HIDE DEF l, m, t
      <4>2. t \in Server /\ Len(l) > 0
        BY <2>1, <2>5, <3>2, <4>1
      <4>3. TakenFor(l, t, Succeeded(l, t))
        BY <2>5, <4>2, SucceededIs
      <4>4. TakenFor(l, t, m)
        BY <4>1, <4>3
      <4> QED
        BY <2>3, <2>5, <4>2, <4>4 DEF Fits, TakenFor
    <3> QED
      BY <3>1, <3>2
  <2>7. /\ chan' \in Channels /\ participant' \in [Server -> BOOLEAN]
        /\ mc' \in [Server -> SUBSET Datagram] /\ \A s \in Server : DatagramsOk(s)'
    BY <1>3, <2>1 DEF IInv, TypeOK, DatagramsOk
  <2>8. ltcp' \in [Server -> (Link \X Server) \cup {NoConn}]
    <3>1. <<c[1], c[2]>> \in Link \X Server
      BY DEF Conn
    <3> QED
      BY <1>3, <3>1 DEF IInv, TypeOK
  <2> HIDE DEF l, m, t
  <2> QED
    BY <1>3, <2>2, <2>6, <2>7, <2>8, OneListKeeps
<1> QED
  BY <1>2, <1>3 DEF RecvKnow

-----------------------------------------------------------------------------
(* Datagrams.                                                              *)

LEMMA TakenDatagram ==
    ASSUME IInv, NEW v \in Server, NEW d, Taken(v, d)
    PROVE  mc' \in [Server -> SUBSET Datagram] /\ \A s \in Server : DatagramsOk(s)'
<1>1. mc \in [Server -> SUBSET Datagram]
  BY DEF IInv, TypeOK
<1>2. mc' \in [Server -> SUBSET Datagram] /\ \A s \in Server : mc'[s] \subseteq mc[s]
  BY <1>1 DEF Taken
<1>3. ASSUME NEW s \in Server PROVE DatagramsOk(s)'
  <2>1. DatagramsOk(s)
    BY DEF IInv
  <2> QED
    BY <1>2, <2>1 DEF DatagramsOk
<1> QED
  BY <1>2, <1>3

LEMMA ReopenedType ==
    ASSUME IInv, NEW v \in Server, NEW a \in Server, a # v
    PROVE  Reopened(v, a) \in Channels
<1> DEFINE o == <<"old", v, a>>
           n == <<"lead", v, a>>
<1>1. chan \in Channels
  BY DEF IInv, TypeOK, Channels
<1>2. o \in Conn /\ n \in Conn /\ o # n
  BY DEF Conn, Link
<1> HIDE DEF o, n
<1>3. chan[o] \in Seq(Message) /\ chan[n] \in Seq(Message) /\ << >> \in Seq(Message)
  BY <1>1, <1>2 DEF Channels
<1>4. chan[o] \o chan[n] \in Seq(Message)
  BY <1>3
<1>5. [chan EXCEPT ![o] = @ \o chan[n], ![n] = << >>] \in Channels
  BY <1>1, <1>2, <1>3, <1>4 DEF Channels
<1> QED
  BY <1>1, <1>5 DEF Reopened, o, n

(* The list that ring_reconstruction() makes of l.                         *)
Joined(l, m) ==
    /\ m \in Records /\ Len(m) \in Nat /\ Len(m) > 0 /\ m[1] = l[1]
    /\ Len(l) # 1 => Len(m) > 1

LEMMA JoinedIs ==
    ASSUME NEW l \in Records, Len(l) > 0, NEW a \in Server
    PROVE  Joined(l, append_server_sorted(Aged(l, a), Entry(a, FALSE, "lead")))
<1> DEFINE k == Aged(l, a)
           e == Entry(a, FALSE, "lead")
           m == append_server_sorted(k, e)
<1>1. k \in Records /\ Len(k) = Len(l) /\ k[1] = l[1]
  BY AgedIs
<1>2. e \in Record
  BY EntryType DEF Sock, Link
<1> HIDE DEF k, e
<1>3. k \in Seq(Record) /\ Len(k) > 0 /\ Len(k) \in Nat
  BY <1>1 DEF Records
<1>4. /\ m \in Seq(Record)
      /\ server_info_exist(e.id, k) => m = k
      /\ ~server_info_exist(e.id, k) => \E i \in 2 .. Len(m) : Inserted(k, e, i, m)
  BY <1>2, <1>3, SortedIn
<1> HIDE DEF m
<1>5. \A i \in Nat : i > 0 => (i # 1 => i > 1) /\ i + 1 > 1
  OBVIOUS
<1>6. CASE m = k
  BY <1>1, <1>3, <1>5, <1>6 DEF Joined, k, m, e
<1>7. CASE \E i \in 2 .. Len(m) : Inserted(k, e, i, m)
  <2>1. PICK i \in 2 .. Len(m) : Inserted(k, e, i, m)
    BY <1>7
  <2>2. Len(m) = Len(k) + 1 /\ 1 \in 1 .. i-1
    BY <2>1 DEF Inserted
  <2>3. m[1] = k[1]
    BY <2>1, <2>2 DEF Inserted
  <2>4. Len(m) > 1 /\ Len(m) > 0 /\ Len(m) \in Nat
    BY <1>3, <2>2
  <2>5. Joined(l, m)
    BY <1>1, <1>4, <2>3, <2>4 DEF Joined, Records
  <2> QED
    BY <2>5 DEF k, m, e
<1> QED
  BY <1>4, <1>6, <1>7

(* A position in the list that get_successor() finds.                      *)
LEMMA SuccessorPosition ==
    ASSUME NEW l \in Records, Len(l) > 1, NEW a
    PROVE  get_successor(a, l) \in 1 .. Len(l)
<1>1. Len(l) \in Nat
  BY DEF Records
<1>2. Above(l, a) \in SUBSET Nat /\ Above(l, a) \subseteq 2 .. Len(l)
  BY <1>1 DEF Above
<1>3. CASE Above(l, a) = {}
  BY <1>1, <1>3 DEF get_successor
<1>4. CASE Above(l, a) # {}
  <2>1. Min(Above(l, a)) \in 2 .. Len(l)
    BY <1>2, <1>4, LeastExists
  <2> QED
    BY <1>1, <1>4, <2>1 DEF get_successor
<1> QED
  BY <1>3, <1>4

LEMMA UnwatchedIs ==
    ASSUME NEW m \in Records, Len(m) > 0, NEW i
    PROVE  LET n == [m EXCEPT ![i].heard = FALSE] IN
           /\ n \in Records /\ Len(n) = Len(m)
           /\ n[1].id = m[1].id /\ n[1].leader = m[1].leader
<1> DEFINE n == [m EXCEPT ![i].heard = FALSE]
<1>1. m \in Seq(Record) /\ Len(m) \in Nat /\ DOMAIN m = 1 .. Len(m) /\ 1 \in 1 .. Len(m)
  BY DEF Records
<1>2. CASE i \in 1 .. Len(m)
  <2>1. m[i] \in Record
    BY <1>1, <1>2
  <2>2. [m[i] EXCEPT !.heard = FALSE] \in Record
    BY <2>1 DEF Record
  <2>3. n \in Seq(Record) /\ Len(n) = Len(m)
    BY <1>1, <1>2, <2>2
  <2>4. n[1].id = m[1].id /\ n[1].leader = m[1].leader
    <3>1. CASE i = 1
      BY <1>1, <2>1, <3>1 DEF Record
    <3>2. CASE i # 1
      BY <1>1, <3>2
    <3> QED
      BY <3>1, <3>2
  <2> QED
    BY <2>3, <2>4 DEF Records
<1>3. CASE i \notin 1 .. Len(m)
  <2>1. n = m
    BY <1>1, <1>3
  <2> QED
    BY <2>1
<1> QED
  BY <1>2, <1>3

LEMMA ring_reconstructionKeeps ==
    ASSUME IInv, NEW v \in Server, NEW a \in Server, a # v, Leads(v),
           ring_reconstruction(v, a), UNCHANGED <<status, participant, succ, spent>>,
           mc' \in [Server -> SUBSET Datagram], \A s \in Server : DatagramsOk(s)'
    PROVE  IInv'
<1> DEFINE k == lst[v]
           e == Entry(a, FALSE, "lead")
           l == append_server_sorted(Aged(k, a), e)
           first == Alone(v)
           p == IF first THEN 1 ELSE PredecessorInRing(a, l)
           unwatched == ~first /\ l[p].sock = "closed"
           known == Know(v, IF first THEN NULL ELSE l[get_successor(a, l)].id)
           ch == Sent(Reopened(v, a), v, e, known)
           n == [l EXCEPT ![Min(At(l, a))].heard = FALSE]
           m == IF unwatched THEN n ELSE l
<1>1. /\ k \in Records /\ Len(k) \in Nat \ {0} /\ k[1].id = v /\ k[1].leader
      /\ succ[v] \in Server \cup {NULL} /\ \A i \in Nat \ {0} : i > 0
  BY ListBefore DEF Leads
<1>2. Joined(k, l)
  <2> HIDE DEF k
  <2> QED
    BY <1>1, JoinedIs
<1>3. /\ lst' = [lst EXCEPT ![v] = m]
      /\ ltcp' = IF server_info_exist(a, lst[v]) /\ ltcp[a] = <<"lead", v>>
                 THEN [ltcp EXCEPT ![a] = <<"old", v>>] ELSE ltcp
      /\ chan' = IF Len(l) > 2 THEN Sent(ch, v, l[p], Know(v, a)) ELSE ch
  BY DEF ring_reconstruction
<1>4. first <=> Len(k) = 1
  BY DEF Alone
<1> HIDE DEF l, k, e, first
<1>5. Know(v, a) \in Message /\ known \in Message
  <2>1. CASE first
    <3>1. known = Know(v, NULL)
      BY <2>1
    <3> QED
      BY <3>1, MessageTypes
  <2>2. CASE ~first
    <3>1. known = Know(v, l[get_successor(a, l)].id)
      BY <2>2
    <3>2. l \in Records /\ Len(l) > 1
      BY <1>2, <1>4, <2>2 DEF Joined
    <3>3. get_successor(a, l) \in 1 .. Len(l)
      BY <3>2, SuccessorPosition
    <3>4. l[get_successor(a, l)].id \in Server
      BY <3>2, <3>3, RecordType
    <3> QED
      BY <3>1, <3>4, MessageTypes
  <2> QED
    BY <2>1, <2>2, MessageTypes
<1> HIDE DEF known, p
<1>6. ch \in Channels
  BY <1>5, ReopenedType, SentType
<1> HIDE DEF ch
<1>7. chan' \in Channels
  BY <1>3, <1>5, <1>6, SentType
<1>8. Fits(v, m, succ[v])
  <2>1. l \in Records /\ Len(l) > 0 /\ l[1] = k[1]
    BY <1>2 DEF Joined
  <2>2. /\ n \in Records /\ Len(n) = Len(l)
        /\ n[1].id = l[1].id /\ n[1].leader = l[1].leader
    BY <2>1, UnwatchedIs
  <2> HIDE DEF n
  <2>3. m = n \/ m = l
    OBVIOUS
  <2> HIDE DEF m
  <2>4. m \in Records /\ Len(m) > 0 /\ m[1].id = v /\ m[1].leader
    BY <1>1, <2>1, <2>2, <2>3
  <2> QED
    BY <1>1, <2>4 DEF Fits
<1> HIDE DEF m
<1>9. Replaced(v, m, succ[v])
  BY <1>3 DEF Replaced, IInv, TypeOK
<1>10. ltcp' \in [Server -> (Link \X Server) \cup {NoConn}]
  BY <1>3 DEF IInv, TypeOK, Link
<1>11. participant' \in [Server -> BOOLEAN] /\ UNCHANGED <<status, spent>>
  BY DEF IInv, TypeOK
<1> QED
  BY <1>7, <1>8, <1>9, <1>10, <1>11, OneListKeeps

LEMMA RecvWhoKeeps ==
    ASSUME IInv, NEW v \in Server, NEW d \in mc[v], RecvWho(v, d)
    PROVE  IInv'
<1>1. mc' \in [Server -> SUBSET Datagram] /\ \A s \in Server : DatagramsOk(s)'
  BY TakenDatagram DEF RecvWho
<1>2. UNCHANGED <<status, participant, succ, spent>>
  BY DEF RecvWho
<1>3. CASE Leads(v) /\ Up(d.id) /\ ring_reconstruction(v, d.id)
  <2>1. d.id \in Server /\ d.id # v
    BY DatagramParts DEF IInv, DatagramsOk
  <2> QED
    BY <1>1, <1>2, <1>3, <2>1, ring_reconstructionKeeps
<1>4. CASE UNCHANGED <<lst, ltcp, chan>>
  <2>1. TypeOK'
    BY <1>1, <1>2, <1>4 DEF IInv, TypeOK
  <2> QED
    BY <1>1, <1>2, <1>4, <2>1, ListsKept
<1> QED
  BY <1>3, <1>4 DEF RecvWho

LEMMA RecvHeartbeatKeeps ==
    ASSUME IInv, NEW v \in Server, NEW d \in mc[v], RecvHeartbeat(v, d)
    PROVE  IInv'
<1>1. CASE NullDeref(v)
  BY <1>1, NullDerefKeeps
<1>2. CASE Taken(v, d) /\ UNCHANGED <<status, locals, chan, spent>>
  <2>1. mc' \in [Server -> SUBSET Datagram] /\ \A s \in Server : DatagramsOk(s)'
    BY <1>2, TakenDatagram
  <2>2. TypeOK'
    BY <1>2, <2>1 DEF IInv, TypeOK, locals
  <2> QED
    BY <1>2, <2>1, <2>2, ListsKept DEF locals
<1> QED
  BY <1>1, <1>2 DEF RecvHeartbeat

LEMMA HeartbeatKeeps ==
    ASSUME IInv, NEW l \in Server, Heartbeat(l)
    PROVE  IInv'
<1>1. mc' \in [Server -> SUBSET Datagram] /\ \A s \in Server : DatagramsOk(s)'
  <2>1. Beat(l) \in Datagram /\ Beat(l).id = l
    BY MessageTypes DEF Beat
  <2> QED
    BY <2>1, MulticastKeeps DEF Heartbeat
<1>2. spent.beats + 1 \in 0 .. MaxBeats
  BY BoundAssumption DEF Heartbeat, IInv, TypeOK
<1>3. TypeOK'
  BY <1>1, <1>2 DEF Heartbeat, locals, IInv, TypeOK
<1> QED
  BY <1>1, <1>3, ListsKept DEF Heartbeat, locals

LEMMA LoseKeeps ==
    ASSUME IInv, NEW v \in Server, NEW d \in mc[v], Lose(v, d)
    PROVE  IInv'
<1>1. mc' \in [Server -> SUBSET Datagram] /\ \A s \in Server : DatagramsOk(s)'
  BY TakenDatagram DEF Lose
<1>2. spent.loss + 1 \in 0 .. MaxLoss
  BY BoundAssumption DEF Lose, IInv, TypeOK
<1>3. TypeOK'
  BY <1>1, <1>2 DEF Lose, locals, IInv, TypeOK
<1> QED
  BY <1>1, <1>3, ListsKept DEF Lose, locals

-----------------------------------------------------------------------------
(* Ends of connections, and timeouts of followers.                         *)

(* What a step that only changes a list, and perhaps sends, leaves alone.  *)
LEMMA QuietStep ==
    ASSUME IInv, NEW v \in Server, NEW m, NEW t, Fits(v, m, t), Replaced(v, m, t),
           chan' \in Channels, UNCHANGED <<status, participant, ltcp, mc, spent>>
    PROVE  IInv'
<1>1. \A s \in Server : DatagramsOk(s)'
  BY DEF IInv, DatagramsOk
<1> QED
  BY <1>1, OneListKeeps DEF IInv, TypeOK

LEMMA SuccessorGoneKeeps ==
    ASSUME IInv, NEW n \in Server, SuccessorGone(n)
    PROVE  IInv'
<1>1. CASE NullDeref(n)
  BY <1>1, NullDerefKeeps
<1>2. CASE /\ ~NoSecond(n)
           /\ lst' = [lst EXCEPT ![n] = delete_server(@, @[3].id)]
           /\ succ' = [succ EXCEPT ![n] = NULL]
           /\ UNCHANGED <<status, participant, ltcp, chan, mc, spent>>
  <2> DEFINE l == lst[n]
             m == delete_server(l, l[3].id)
  <2>1. l \in Records /\ Len(l) \in Nat \ {0} /\ l[1].id = n /\ Len(l) > 2 /\ Len(l) <= 3
    BY <1>2, ListBefore DEF NoSecond, SuccessorGone
  <2>2. Replaced(n, m, NULL)
    BY <1>2 DEF Replaced, IInv, TypeOK
  <2> HIDE DEF l
  <2>3. 3 \in 2 .. Len(l)
    BY <2>1
  <2>4. Without(l, m)
    BY <2>1, <2>3, DeletedIs
  <2> HIDE DEF m
  <2>5. Fits(n, m, NULL)
    <3>1. \A i \in Nat : i > 2 /\ i <= 3 => i - 1 > 0 /\ i - 1 <= 3 /\ i - 1 # 3
      OBVIOUS
    <3>2. Len(m) > 0 /\ Len(m) <= 3 /\ Len(m) # 3
      BY <2>1, <2>4, <3>1 DEF Without
    <3> QED
      BY <2>1, <2>4, <3>2 DEF Without, Fits
  <2>6. chan' \in Channels
    BY <1>2 DEF IInv, TypeOK, Channels
  <2> QED
    BY <1>2, <2>2, <2>5, <2>6, QuietStep
<1> QED
  BY <1>1, <1>2 DEF SuccessorGone

LEMMA PeerGoneKeeps ==
    ASSUME IInv, NEW s \in Server, NEW i \in DOMAIN lst[s], PeerGone(s, i)
    PROVE  IInv'
<1> DEFINE l == lst[s]
           m == [l EXCEPT ![i].sock = "closed"]
<1>1. /\ l \in Records /\ Len(l) \in Nat \ {0} /\ l[1].id = s /\ l[1].leader
      /\ succ[s] \in Server \cup {NULL} /\ i \in 2 .. Len(l)
  BY ListBefore DEF PeerGone, Leads
<1>2. Replaced(s, m, succ[s]) /\ chan' \in Channels
  BY DEF PeerGone, Replaced, IInv, TypeOK, Channels
<1>3. UNCHANGED <<status, participant, ltcp, mc, spent>>
  BY DEF PeerGone
<1> HIDE DEF l
<1>4. l[i] \in Record /\ i \in 1 .. Len(l)
  BY <1>1, RecordType
<1>5. [l[i] EXCEPT !.sock = "closed"] \in Record
  BY <1>4 DEF Record, Sock
<1>6. m \in Records /\ Len(m) = Len(l) /\ m[1] = l[1]
  BY <1>1, <1>4, <1>5 DEF Records
<1>7. Fits(s, m, succ[s])
  <2> HIDE DEF m
  <2>1. \A j \in Nat \ {0} : j > 0
    OBVIOUS
  <2> QED
    BY <1>1, <1>6, <2>1 DEF Fits
<1> HIDE DEF m
<1> QED
  BY <1>2, <1>3, <1>7, QuietStep

LEMMA BrokenPipeKeeps ==
    ASSUME IInv, NEW s \in Server, NEW i, BrokenPipe(s, i)
    PROVE  IInv'
<1>1. Die(s, "sigpipe") /\ UNCHANGED spent /\ "sigpipe" \in Death
  BY DEF BrokenPipe, Death
<1> QED
  BY <1>1, DieKeeps DEF IInv, TypeOK

LEMMA EvictSilentKeeps ==
    ASSUME IInv, NEW s \in Server, NEW i \in DOMAIN lst[s], EvictSilent(s, i)
    PROVE  IInv'
<1> DEFINE k == lst[s]
           l == delete_server(k, k[i].id)
           pred == k[PredecessorInRing(k[i].id, k)]
           t == l[IF i > Len(l) THEN 2 ELSE i].id
<1>1. /\ k \in Records /\ Len(k) \in Nat \ {0} /\ k[1].id = s /\ k[1].leader
      /\ succ[s] \in Server \cup {NULL} /\ i \in 2 .. Len(k)
  BY ListBefore DEF EvictSilent, Leads
<1>2. CASE Exit(s)
  BY <1>2, NullDerefKeeps
<1>3. CASE /\ lst' = [lst EXCEPT ![s] = l]
           /\ chan' = IF Len(l) > 2 THEN Sent(chan, s, pred, Update(t)) ELSE chan
           /\ UNCHANGED <<status, participant, ltcp, succ, mc, spent>>
  <2>1. Replaced(s, l, succ[s])
    BY <1>3 DEF Replaced, IInv, TypeOK
  <2> HIDE DEF k, pred
  <2>2. Without(k, l)
    BY <1>1, DeletedIs
  <2> HIDE DEF l
  <2>3. Fits(s, l, succ[s])
    <3>1. Len(l) > 0
      BY <1>1, <2>2 DEF Without
    <3> QED
      BY <1>1, <2>2, <3>1 DEF Without, Fits
  <2>4. chan' \in Channels
    <3>0. chan \in Channels
      BY DEF IInv, TypeOK, Channels
    <3>1. CASE Len(l) > 2
      <4> DEFINE j == IF i > Len(l) THEN 2 ELSE i
      <4>1. j \in 1 .. Len(l) /\ l \in Records
        BY <1>1, <2>2, <3>1 DEF Without
      <4>2. t \in Server
        BY <4>1, RecordType
      <4> QED
        BY <1>3, <3>0, <3>1, <4>2, SentType, MessageTypes
    <3>2. CASE ~(Len(l) > 2)
      BY <1>3, <3>0, <3>2
    <3> QED
      BY <3>1, <3>2
  <2> QED
    BY <1>3, <2>1, <2>3, <2>4, QuietStep
<1> QED
  BY <1>2, <1>3 DEF EvictSilent

-----------------------------------------------------------------------------
(* The established ring.                                                   *)

(* Every finite set of numbers can be put in order.                        *)
Ordering(S, f) ==
    /\ f \in [1 .. Cardinality(S) -> S]
    /\ \A i, j \in DOMAIN f : i < j => f[i] < f[j]

LEMMA OrderingExists ==
    ASSUME NEW S \in SUBSET Nat, IsFiniteSet(S)
    PROVE  \E f : Ordering(S, f)
<1> DEFINE Bad == {n \in Nat : \E T \in SUBSET S :
                       Cardinality(T) = n /\ ~\E f : Ordering(T, f)}
<1>1. ASSUME Bad # {} PROVE FALSE
  <2> DEFINE n == Min(Bad)
  <2>1. n \in Bad /\ \A k \in Bad : n <= k
    BY <1>1, LeastExists
  <2>2. PICK T \in SUBSET S : Cardinality(T) = n /\ ~\E f : Ordering(T, f)
    BY <2>1
  <2>3. IsFiniteSet(T) /\ n \in Nat
    BY <2>1, FS_Subset
  <2>4. CASE T = {}
    <3> DEFINE f == [i \in 1 .. 0 |-> i]
    <3>1. Cardinality(T) = 0
      BY <2>4, FS_EmptySet
    <3>2. f \in [1 .. 0 -> T] /\ \A i \in DOMAIN f : FALSE
      OBVIOUS
    <3>3. Ordering(T, f)
      BY <3>1, <3>2 DEF Ordering
    <3> QED
      BY <2>2, <3>3
  <2>5. CASE T # {}
    <3> DEFINE x == Min(T)
               U == T \ {x}
    <3>1. x \in T /\ T \in SUBSET Nat /\ \A y \in T : x <= y
      BY <2>5, LeastExists
    <3> HIDE DEF x, n
    <3>2. IsFiniteSet(U) /\ Cardinality(U) = n - 1
      BY <2>2, <2>3, <3>1, FS_RemoveElement
    <3>3. n - 1 \in Nat /\ n - 1 \notin Bad
      <4>1. n - 1 \in Nat
        BY <3>2, FS_CardinalityType
      <4> QED
        BY <2>1, <2>3, <4>1
    <3>4. U \in SUBSET S
      OBVIOUS
    <3> HIDE DEF U
    <3>5. PICK g : Ordering(U, g)
      BY <3>2, <3>3, <3>4
    <3> DEFINE f == [i \in 1 .. n |-> IF i = 1 THEN x ELSE g[i - 1]]
    <3>6. /\ DOMAIN g = 1 .. n - 1 /\ \A i \in 1 .. n - 1 : g[i] \in U
          /\ \A i, j \in 1 .. n - 1 : i < j => g[i] < g[j]
      BY <3>2, <3>5 DEF Ordering
    <3>7. \A i \in 1 .. n : i # 1 => i - 1 \in 1 .. n - 1
      BY <2>3
    <3>8. f \in [1 .. n -> T]
      BY <3>1, <3>6, <3>7 DEF U
    <3>9. ASSUME NEW i \in 1 .. n, NEW j \in 1 .. n, i < j PROVE f[i] < f[j]
      <4>1. j # 1 /\ j - 1 \in 1 .. n - 1
        BY <2>3, <3>9
      <4>2. f[j] = g[j - 1] /\ g[j - 1] \in U
        BY <3>6, <4>1
      <4>3. CASE i = 1
        <5>1. f[i] = x
          BY <4>3
        <5>2. \A y \in U : y \in Nat /\ x <= y /\ y # x
          BY <3>1 DEF U
        <5>3. x \in Nat
          BY <3>1
        <5> QED
          BY <4>2, <5>1, <5>2, <5>3
      <4>4. CASE i # 1
        <5>1. i - 1 \in 1 .. n - 1 /\ i - 1 < j - 1 /\ f[i] = g[i - 1]
          BY <2>3, <3>7, <3>9, <4>4
        <5> QED
          BY <3>6, <4>1, <4>2, <5>1
      <4> QED
        BY <4>3, <4>4
    <3>10. DOMAIN f = 1 .. n
      OBVIOUS
    <3> HIDE DEF f
    <3>11. Ordering(T, f)
      BY <2>2, <3>8, <3>9, <3>10 DEF Ordering
    <3> QED
      BY <2>2, <3>11
  <2> QED
    BY <2>4, <2>5
<1>2. Cardinality(S) \in Nat
  BY FS_CardinalityType
<1> QED
  BY <1>1, <1>2

LEMMA FollowersInOrder ==
    /\ Follower \in SUBSET Nat /\ IsFiniteSet(Follower) /\ Cardinality(Follower) \in Nat
    /\ Follower \subseteq Server
    /\ Ordering(Follower, InOrder)
<1>1. Follower \in SUBSET Nat /\ IsFiniteSet(Follower) /\ Follower \subseteq Server
  BY ServerAssumption, FS_Subset DEF Follower
<1>2. Cardinality(Follower) \in Nat
  BY <1>1, FS_CardinalityType
<1>3. \E f \in [1 .. Cardinality(Follower) -> Follower] :
         \A i, j \in DOMAIN f : i < j => f[i] < f[j]
  BY <1>1, OrderingExists DEF Ordering
<1> QED
  BY <1>1, <1>2, <1>3 DEF Ordering, InOrder

LEMMA NextOfFollower ==
    ASSUME NEW f \in Follower
    PROVE  NextOf(f, Follower) \in Follower
<1>1. Follower \in SUBSET Nat
  BY FollowersInOrder
<1> DEFINE G == {q \in Follower : q > f}
<1>2. CASE G = {}
  BY <1>1, <1>2, LeastExists DEF NextOf
<1>3. CASE G # {}
  <2>1. G \in SUBSET Nat
    BY <1>1
  <2>2. Min(G) \in G
    BY <1>3, <2>1, LeastExists
  <2> QED
    BY <1>3, <2>2 DEF NextOf
<1> QED
  BY <1>2, <1>3

(* a \o c begins as a does.                                                *)
Headed(E, a, c) ==
    /\ a \o c \in Seq(E) /\ Len(a \o c) \in Nat /\ Len(a \o c) > 0
    /\ (a \o c)[1] = a[1]

LEMMA HeadOfConcat ==
    ASSUME NEW E, NEW a \in Seq(E), NEW c \in Seq(E), Len(a) = 1
    PROVE  Headed(E, a, c)
<1>1. /\ a \o c \in Seq(E) /\ Len(a \o c) = Len(a) + Len(c)
      /\ \A i \in 1 .. Len(a) : (a \o c)[i] = a[i]
  BY ConcatAt
<1>2. Len(c) \in Nat /\ 1 \in 1 .. Len(a)
  OBVIOUS
<1> DEFINE d == a \o c
<1> HIDE DEF d
<1>3. d \in Seq(E) /\ Len(d) = 1 + Len(c) /\ d[1] = a[1]
  BY <1>1, <1>2 DEF d
<1>4. Len(d) \in Nat /\ Len(d) > 0
  BY <1>2, <1>3
<1> QED
  BY <1>3, <1>4 DEF Headed, d

LEMMA PairAndMore ==
    ASSUME NEW E, NEW x \in E, NEW y \in E, NEW z \in E
    PROVE  <<x, y>> \o << >> = <<x, y>> /\ <<x, y>> \o <<z>> = <<x, y, z>>
<1> DEFINE p == <<x, y>>
           q == <<z>>
           d == p \o q
<1>1. p \in Seq(E) /\ q \in Seq(E) /\ Len(p) = 2 /\ Len(q) = 1
  OBVIOUS
<1>2. p \o << >> = p
  BY <1>1, ConcatEmptySeq
<1>3. p[1] = x /\ p[2] = y /\ q[1] = z
  OBVIOUS
<1> HIDE DEF p, q
<1>4. /\ d \in Seq(E) /\ Len(d) = Len(p) + Len(q)
      /\ \A i \in 1 .. Len(p) : d[i] = p[i]
      /\ \A i \in Len(p) + 1 .. Len(p) + Len(q) : d[i] = q[i - Len(p)]
  BY <1>1, ConcatAt
<1> HIDE DEF d
<1>5. Len(d) = 3 /\ d[1] = x /\ d[2] = y /\ d[3] = z
  <2>1. Len(d) = 3 /\ d[1] = p[1] /\ d[2] = p[2]
    BY <1>1, <1>4
  <2>2. 3 \in 3 .. 3 /\ 3 - 2 = 1
    OBVIOUS
  <2>3. d[3] = q[1]
    BY <1>1, <1>4, <2>2
  <2> QED
    BY <1>3, <2>1, <2>3
<1>6. d = <<x, y, z>>
  <2> DEFINE r == <<x, y, z>>
  <2>1. r \in Seq(E) /\ Len(r) = 3 /\ r[1] = x /\ r[2] = y /\ r[3] = z
    OBVIOUS
  <2> HIDE DEF r
  <2>2. \A i \in 1 .. 3 : i = 1 \/ i = 2 \/ i = 3
    OBVIOUS
  <2>3. Len(d) = Len(r) /\ \A i \in 1 .. Len(d) : d[i] = r[i]
    BY <1>5, <2>1, <2>2
  <2>4. d = r
    BY <1>4, <2>1, <2>3, SeqEqual
  <2> QED
    BY <2>4 DEF r
<1> QED
  BY <1>2, <1>6 DEF d, p, q

LEMMA InitHolds ==
    ASSUME Init
    PROVE  IInv
<1>1. LeaderList \in Records /\ Len(LeaderList) > 0
      /\ LeaderList[1].id = OldLeader /\ LeaderList[1].leader
  <2> DEFINE a == <<Entry(OldLeader, TRUE, "listen")>>
             b == [i \in DOMAIN InOrder |-> Entry(InOrder[i], FALSE, "lead")]
             n == Cardinality(Follower)
  <2>1. n \in Nat /\ DOMAIN InOrder = 1 .. n /\ \A i \in 1 .. n : InOrder[i] \in Server
    BY FollowersInOrder DEF Ordering
  <2>2. \A i \in 1 .. n : Entry(InOrder[i], FALSE, "lead") \in Record
    BY <2>1, EntryType DEF Sock, Link
  <2>3. b \in Seq(Record)
    <3>1. b = [i \in 1 .. n |-> Entry(InOrder[i], FALSE, "lead")]
      BY <2>1
    <3> HIDE DEF b, n
    <3>2. b \in [1 .. n -> Record]
      BY <2>2, <3>1
    <3> QED
      BY <2>1, <3>2, SeqDef
  <2>4. a \in Seq(Record) /\ Len(a) = 1 /\ a[1].id = OldLeader /\ a[1].leader
    <3> DEFINE e == Entry(OldLeader, TRUE, "listen")
    <3>1. e \in Record /\ e.id = OldLeader /\ e.leader
      BY ServerAssumption, EntryType DEF Sock, Entry
    <3>2. a = <<e>>
      OBVIOUS
    <3> HIDE DEF e, a
    <3> QED
      BY <3>1, <3>2
  <2> HIDE DEF a, b, n
  <2>5. Headed(Record, a, b)
    BY <2>3, <2>4, HeadOfConcat
  <2>6. LeaderList = a \o b
    BY DEF LeaderList, a, b
  <2> QED
    BY <2>4, <2>5, <2>6 DEF Records, Headed
<1>2. ASSUME NEW f \in Follower
      PROVE  /\ FollowerList(f) \in Records /\ Len(FollowerList(f)) \in {2, 3}
             /\ FollowerList(f)[1].id = f
             /\ Len(FollowerList(f)) = 3 => /\ Follower # {f}
                                            /\ FollowerList(f)[3].id = NextOf(f, Follower)
  <2> DEFINE x == Entry(f, FALSE, "listen")
             y == Entry(OldLeader, TRUE, "up")
             z == Entry(NextOf(f, Follower), FALSE, "ring")
  <2>1. /\ x \in Record /\ y \in Record /\ z \in Record
        /\ x.id = f /\ z.id = NextOf(f, Follower)
    BY EntryType, NextOfFollower, FollowersInOrder, ServerAssumption DEF Sock, Link
  <2>2. FollowerList(f) = IF Follower = {f} THEN <<x, y>> \o << >> ELSE <<x, y>> \o <<z>>
    BY DEF FollowerList
  <2> HIDE DEF x, y, z
  <2>3. <<x, y>> \o << >> = <<x, y>> /\ <<x, y>> \o <<z>> = <<x, y, z>>
    BY <2>1, PairAndMore
  <2>4. CASE Follower = {f}
    BY <2>1, <2>2, <2>3, <2>4 DEF Records
  <2>5. CASE Follower # {f}
    BY <2>1, <2>2, <2>3, <2>5 DEF Records
  <2> QED
    BY <2>4, <2>5
<1>3. \A s \in Server : s = OldLeader \/ s \in Follower
  BY DEF Follower
<1>4. /\ status = [s \in Server |-> "up"]
      /\ lst = [s \in Server |-> IF s = OldLeader THEN LeaderList ELSE FollowerList(s)]
      /\ participant = [s \in Server |-> FALSE]
      /\ ltcp = [s \in Server |-> IF s = OldLeader THEN NoConn ELSE <<"lead", OldLeader>>]
      /\ succ = [s \in Server |-> IF s = OldLeader \/ Follower = {s} THEN NULL
                                  ELSE NextOf(s, Follower)]
      /\ chan = [c \in Conn |-> << >>]
      /\ mc = [s \in Server |-> {}]
      /\ spent = [crash |-> 0, repeat |-> 0, loss |-> 0, beats |-> 0]
  BY DEF Init
<1>5. lst \in [Server -> Records]
  BY <1>1, <1>2, <1>3, <1>4
<1>6. ltcp \in [Server -> (Link \X Server) \cup {NoConn}]
  BY <1>4, ServerAssumption DEF Link
<1>7. succ \in [Server -> Server \cup {NULL}]
  BY <1>3, <1>4, NextOfFollower, FollowersInOrder
<1>8. spent \in [crash : 0 .. MaxCrash, repeat : 0 .. MaxRepeat,
                 loss : 0 .. MaxLoss, beats : 0 .. MaxBeats]
  BY <1>4, BoundAssumption
<1>9. TypeOK
  <2>1. status \in [Server -> {"up"} \cup Death] /\ participant \in [Server -> BOOLEAN]
    BY <1>4
  <2>2. chan \in [Conn -> Seq(Message)] /\ mc \in [Server -> SUBSET Datagram]
    BY <1>4
  <2> QED
    BY <1>5, <1>6, <1>7, <1>8, <2>1, <2>2 DEF TypeOK, Records, Record
<1>10. ASSUME NEW s \in Server PROVE ListOk(s)
  <2>1. CASE s = OldLeader
    <3>1. lst[s] = LeaderList
      BY <1>4, <2>1
    <3> QED
      BY <1>1, <2>1, <3>1 DEF ListOk, Leads
  <2>2. CASE s \in Follower /\ s # OldLeader
    <3> DEFINE l == FollowerList(s)
    <3>1. lst[s] = l /\ (Follower # {s} => succ[s] = NextOf(s, Follower))
      BY <1>4, <2>2
    <3>2. /\ Len(l) \in {2, 3} /\ l[1].id = s
          /\ Len(l) = 3 => l[3].id = NextOf(s, Follower) /\ Follower # {s}
      BY <1>2, <2>2
    <3>3. /\ Len(l) > 0 /\ Len(l) <= 3
          /\ Len(l) = 3 => l[3].id = succ[s]
      <4> HIDE DEF l
      <4>1. Len(l) = 2 \/ Len(l) = 3
        BY <3>2
      <4>2. \A i \in {2, 3} : i > 0 /\ i <= 3
        OBVIOUS
      <4>3. Len(l) > 0 /\ Len(l) <= 3
        BY <3>2, <4>2
      <4>4. Len(l) = 3 => l[3].id = succ[s]
        BY <3>1, <3>2
      <4> QED
        BY <4>3, <4>4
    <3> HIDE DEF l
    <3> QED
      BY <3>1, <3>2, <3>3 DEF ListOk
  <2> QED
    BY <1>3, <2>1, <2>2
<1>11. \A s \in Server : DatagramsOk(s)
  BY <1>4 DEF DatagramsOk
<1> QED
  BY <1>9, <1>10, <1>11 DEF IInv

-----------------------------------------------------------------------------
LEMMA ReceiveKeeps ==
    ASSUME IInv, NEW v \in Server, NEW c \in Conn, Receive(v, c)
    PROVE  IInv'
  BY RecvVoteGreaterKeeps, RecvVoteSmallerKeeps, RecvVoteMineKeeps, RecvLeaderMineKeeps,
     RecvLeaderOtherKeeps, RecvUpdateKeeps, RecvKnowKeeps DEF Receive

LEMMA NextKeeps ==
    ASSUME IInv, Next
    PROVE  IInv'
<1>1. ASSUME NEW s \in Server,
             \/ Crash(s) \/ Heartbeat(s) \/ ClaimAlone(s) \/ StartVote(s)
             \/ RepeatVote(s) \/ SuccessorGone(s)
      PROVE  IInv'
  BY <1>1, CrashKeeps, HeartbeatKeeps, ClaimAloneKeeps, StartVoteKeeps, RepeatVoteKeeps,
     SuccessorGoneKeeps
<1>2. ASSUME NEW v \in Server, NEW c \in Conn, Receive(v, c)
      PROVE  IInv'
  BY <1>2, ReceiveKeeps
<1>3. ASSUME NEW v \in Server, NEW d \in mc[v], RecvDatagram(v, d) \/ Lose(v, d)
      PROVE  IInv'
  BY <1>3, RecvWhoKeeps, RecvHeartbeatKeeps, LoseKeeps DEF RecvDatagram
<1>4. ASSUME NEW s \in Server, NEW i \in DOMAIN lst[s],
             PeerGone(s, i) \/ BrokenPipe(s, i) \/ EvictSilent(s, i)
      PROVE  IInv'
  BY <1>4, PeerGoneKeeps, BrokenPipeKeeps, EvictSilentKeeps
<1> QED
  BY <1>1, <1>2, <1>3, <1>4 DEF Next

LEMMA Invariance == Spec => []IInv
<1>1. Init => IInv
  BY InitHolds
<1>2. IInv /\ [Next]_vars => IInv'
  <2> SUFFICES ASSUME IInv, [Next]_vars PROVE IInv'
    OBVIOUS
  <2>1. CASE Next
    BY <2>1, NextKeeps
  <2>2. CASE UNCHANGED vars
    BY <2>2 DEF vars, IInv, TypeOK, ListOk, DatagramsOk, Leads
  <2> QED
    BY <2>1, <2>2
<1> QED
  BY <1>1, <1>2, PTL DEF Spec

-----------------------------------------------------------------------------
(* Every variable keeps its type through crashes, losses and votes sent    *)
(* twice: nobody takes for its successor, or lists, the NULL that          *)
(* KNOW_NEW_LEADER may carry.                                              *)
THEOREM TypeCorrect == Spec => []TypeOK
<1>1. IInv => TypeOK
  BY DEF IInv
<1> QED
  BY Invariance, <1>1, PTL

(* A follower sends its votes to the server whose disconnection it would   *)
(* notice: the third of its list is the one of successor_socket, whatever  *)
(* messages of old and new leaders it has read.                            *)
THEOREM WatchesItsSuccessor == Spec => []SuccessorWatched
<1>1. IInv => SuccessorWatched
  <2> SUFFICES ASSUME IInv, NEW n \in Server, Up(n), ~Leads(n), Len(lst[n]) > 2
               PROVE  lst[n][3].id = succ[n]
    BY DEF SuccessorWatched
  <2>1. Len(lst[n]) \in Nat /\ Len(lst[n]) <= 3 /\ (Len(lst[n]) = 3 => lst[n][3].id = succ[n])
    BY ListBefore
  <2>2. \A i \in Nat : i > 2 /\ i <= 3 => i = 3
    OBVIOUS
  <2> QED
    BY <2>1, <2>2
<1> QED
  BY Invariance, <1>1, PTL

-----------------------------------------------------------------------------
(* The old ring: positions, neighbours, and the greatest follower.         *)

Size == Cardinality(Follower)
Positions == 0 .. Size - 1
After(n) == IF n = Size - 1 THEN 0 ELSE n + 1

LEMMA RingIdIs ==
    /\ Size \in Nat /\ DOMAIN RingId = Positions
    /\ \A n \in Positions : RingId[n] \in Follower /\ RingId[n] \in Nat
    /\ \A m, n \in Positions : m < n => RingId[m] < RingId[n]
    /\ \A f \in Follower : \E n \in Positions : RingId[n] = f
<1> DEFINE g == InOrder
<1>1. /\ Follower \in SUBSET Nat /\ IsFiniteSet(Follower) /\ Size \in Nat
      /\ g \in [1 .. Size -> Follower] /\ \A i, j \in 1 .. Size : i < j => g[i] < g[j]
  BY FollowersInOrder DEF Ordering, Size
<1>2. g \in Injection(1 .. Size, Follower)
  <2>1. ASSUME NEW i \in 1 .. Size, NEW j \in 1 .. Size, g[i] = g[j] PROVE i = j
    <3>0. \A x \in Nat : ~(x < x)
      OBVIOUS
    <3>1. g[i] \in Nat /\ ~(g[i] < g[j]) /\ ~(g[j] < g[i])
      BY <1>1, <2>1, <3>0
    <3>2. ~(i < j) /\ ~(j < i)
      BY <1>1, <3>1
    <3> QED
      BY <1>1, <3>2
  <2> QED
    BY <1>1, <2>1 DEF Injection, IsInjective
<1>3. g \in Surjection(1 .. Size, Follower)
  <2>1. Cardinality(1 .. Size) = Size
    BY <1>1, UpToSize
  <2> QED
    BY <1>1, <1>2, <2>1, FS_Injection DEF Size
<1>4. DOMAIN RingId = Positions /\ \A n \in Positions : RingId[n] = g[n + 1]
  BY DEF RingId, Positions, Size
<1>5. \A n \in Positions : n \in Int /\ n + 1 \in 1 .. Size
  BY <1>1 DEF Positions
<1>6. \A n \in Positions : RingId[n] \in Follower /\ RingId[n] \in Nat
  BY <1>1, <1>4, <1>5
<1>7. ASSUME NEW m \in Positions, NEW n \in Positions, m < n PROVE RingId[m] < RingId[n]
  <2>1. m + 1 < n + 1
    BY <1>5, <1>7
  <2> QED
    BY <1>1, <1>4, <1>5, <2>1
<1>8. ASSUME NEW f \in Follower PROVE \E n \in Positions : RingId[n] = f
  <2>1. PICK i \in 1 .. Size : g[i] = f
    BY <1>3 DEF Surjection
  <2>2. i - 1 \in Positions /\ (i - 1) + 1 = i
    BY <1>1 DEF Positions
  <2> QED
    BY <1>4, <2>1, <2>2
<1> QED
  BY <1>1, <1>4, <1>6, <1>7, <1>8

LEMMA RingNeighbours ==
    ASSUME NEW n \in Positions
    PROVE  After(n) \in Positions /\ NextOf(RingId[n], Follower) = RingId[After(n)]
<1> DEFINE r == RingId
           G == {q \in Follower : q > r[n]}
<1>1. /\ Size \in Nat /\ Follower \in SUBSET Nat
      /\ \A m \in Positions : r[m] \in Follower /\ r[m] \in Nat
      /\ \A i, j \in Positions : i < j => r[i] < r[j]
      /\ \A f \in Follower : \E m \in Positions : r[m] = f
  BY RingIdIs, FollowersInOrder
<1>2. NextOf(r[n], Follower) = IF G = {} THEN Min(Follower) ELSE Min(G)
  BY DEF NextOf
<1> HIDE DEF r
<1>3. ASSUME NEW f \in Follower, NEW m \in Positions, \A j \in Positions : r[j] = f => m <= j
      PROVE  r[m] <= f
  <2>1. PICK j \in Positions : r[j] = f
    BY <1>1
  <2>2. m = j \/ m < j
    BY <1>1, <1>3, <2>1 DEF Positions
  <2>3. r[m] = r[j] \/ r[m] < r[j]
    BY <1>1, <2>2
  <2> QED
    BY <1>1, <2>1, <2>3
<1>4. CASE n = Size - 1
  <2>1. After(n) = 0 /\ 0 \in Positions
    BY <1>1, <1>4 DEF After, Positions
  <2>2. G = {}
    <3> SUFFICES ASSUME NEW q \in Follower, q > r[n] PROVE FALSE
      OBVIOUS
    <3>1. PICK j \in Positions : r[j] = q
      BY <1>1
    <3>2. j = n \/ j < n
      BY <1>1, <1>4 DEF Positions
    <3>3. r[j] = r[n] \/ r[j] < r[n]
      BY <1>1, <3>2
    <3> QED
      BY <1>1, <3>1, <3>3
  <2>3. \A f \in Follower : r[0] <= f
    BY <1>1, <1>3, <2>1 DEF Positions
  <2>4. Min(Follower) = r[0]
    BY <1>1, <2>1, <2>3, MinIs
  <2> QED
    BY <1>2, <2>1, <2>2, <2>4 DEF r
<1>5. CASE n # Size - 1
  <2>1. After(n) = n + 1 /\ n + 1 \in Positions /\ n < n + 1
    BY <1>1, <1>5 DEF After, Positions
  <2>2. r[n + 1] \in G
    BY <1>1, <2>1
  <2>3. ASSUME NEW q \in G PROVE r[n + 1] <= q
    <3>1. ASSUME NEW j \in Positions, r[j] = q PROVE n + 1 <= j
      <4>1. ~(r[j] < r[n]) /\ r[j] # r[n]
        BY <1>1, <3>1
      <4>2. ~(j < n) /\ j # n
        BY <1>1, <4>1
      <4> QED
        BY <1>1, <4>2 DEF Positions
    <3> QED
      BY <1>3, <2>1, <3>1
  <2>4. G \in SUBSET Nat
    BY <1>1
  <2>5. Min(G) = r[n + 1]
    BY <2>2, <2>3, <2>4, MinIs
  <2> QED
    BY <1>2, <2>1, <2>2, <2>5 DEF r
<1> QED
  BY <1>4, <1>5

(* Where a follower is in the ring.                                        *)
Pos(f) == CHOOSE n \in Positions : RingId[n] = f

LEMMA PosIs ==
    ASSUME NEW f \in Follower
    PROVE  /\ Pos(f) \in Positions /\ RingId[Pos(f)] = f
           /\ \A n \in Positions : RingId[n] = f => n = Pos(f)
<1>1. Pos(f) \in Positions /\ RingId[Pos(f)] = f
  BY RingIdIs DEF Pos
<1>2. ASSUME NEW n \in Positions, RingId[n] = f PROVE n = Pos(f)
  <2>1. f \in Nat /\ ~(f < f)
    BY FollowersInOrder
  <2>2. ~(n < Pos(f)) /\ ~(Pos(f) < n)
    BY <1>1, <1>2, <2>1, RingIdIs
  <2> QED
    BY <1>1, <2>2 DEF Positions
<1> QED
  BY <1>1, <1>2

IsTop(f) == \A g \in Follower : g <= f

LEMMA Neighbour ==
    ASSUME NEW f \in Follower
    PROVE  /\ NextOf(f, Follower) \in Follower
           /\ Pos(NextOf(f, Follower)) = After(Pos(f))
           /\ Before(NextOf(f, Follower)) = f
           /\ Before(f) \in Follower /\ NextOf(Before(f), Follower) = f
           /\ NextOf(f, Follower) = f <=> Follower = {f}
           /\ NextOf(f, Follower) < f => IsTop(f)
<1> DEFINE s(g) == NextOf(g, Follower)
<1>1. \A g \in Follower : s(g) \in Follower /\ Pos(s(g)) = After(Pos(g))
  <2> TAKE g \in Follower
  <2>1. Pos(g) \in Positions /\ RingId[Pos(g)] = g
    BY PosIs
  <2>2. After(Pos(g)) \in Positions /\ s(g) = RingId[After(Pos(g))]
    BY <2>1, RingNeighbours
  <2>3. s(g) \in Follower
    BY <2>2, RingIdIs
  <2> HIDE DEF s
  <2> QED
    BY <2>2, <2>3, PosIs
<1>2. \A g, h \in Follower : s(g) = s(h) => g = h
  <2> SUFFICES ASSUME NEW g \in Follower, NEW h \in Follower, s(g) = s(h) PROVE g = h
    OBVIOUS
  <2> HIDE DEF s
  <2>1. After(Pos(g)) = After(Pos(h))
    BY <1>1
  <2>2. Size \in Nat /\ Pos(g) \in Positions /\ Pos(h) \in Positions
    BY PosIs, RingIdIs
  <2>3. Pos(g) = Pos(h)
    BY <2>1, <2>2 DEF After, Positions
  <2> QED
    BY <2>3, PosIs
<1>3. \A g \in Follower : \E h \in Follower : s(h) = g
  <2> TAKE g \in Follower
  <2>1. Size \in Nat /\ Pos(g) \in Positions /\ RingId[Pos(g)] = g
    BY PosIs, RingIdIs
  <2>2. PICK n \in Positions : After(n) = Pos(g)
    <3>1. CASE Pos(g) = 0
      <4>1. Size - 1 \in Positions /\ After(Size - 1) = 0
        BY <2>1 DEF Positions, After
      <4> QED
        BY <3>1, <4>1
    <3>2. CASE Pos(g) # 0
      <4>1. Pos(g) - 1 \in Positions /\ After(Pos(g) - 1) = Pos(g)
        BY <2>1, <3>2 DEF Positions, After
      <4> QED
        BY <4>1
    <3> QED
      BY <3>1, <3>2
  <2>3. RingId[n] \in Follower /\ s(RingId[n]) = g
    BY <2>1, <2>2, RingNeighbours, RingIdIs
  <2> QED
    BY <2>3
<1>4. Before(s(f)) = f
  BY <1>1, <1>2 DEF Before
<1>5. Before(f) \in Follower /\ s(Before(f)) = f
  BY <1>3 DEF Before
<1>6. s(f) = f <=> Follower = {f}
  <2>1. Size \in Nat /\ Pos(f) \in Positions
    BY PosIs, RingIdIs
  <2>2. ASSUME Follower = {f} PROVE s(f) = f
    BY <1>1, <2>2
  <2>3. ASSUME s(f) = f, NEW g \in Follower PROVE g = f
    <3>1. After(Pos(f)) = Pos(f)
      BY <1>1, <2>3
    <3>2. Size = 1
      BY <2>1, <3>1 DEF After, Positions
    <3>3. Pos(g) \in Positions /\ RingId[Pos(g)] = g /\ RingId[Pos(f)] = f
      BY PosIs
    <3>4. Pos(g) = Pos(f)
      BY <2>1, <3>2, <3>3 DEF Positions
    <3> QED
      BY <3>3, <3>4
  <2> HIDE DEF s
  <2> QED
    BY <2>2, <2>3
<1>7. ASSUME s(f) < f PROVE IsTop(f)
  <2> DEFINE G == {q \in Follower : q > f}
  <2>1. Follower \in SUBSET Nat
    BY FollowersInOrder
  <2>2. G = {}
    <3> SUFFICES ASSUME G # {} PROVE FALSE
      OBVIOUS
    <3>1. G \in SUBSET Nat
      BY <2>1
    <3>2. Min(G) \in G
      BY <3>1, LeastExists
    <3>3. s(f) = Min(G)
      BY DEF NextOf
    <3>4. s(f) \in Nat /\ f \in Nat /\ s(f) > f
      BY <2>1, <3>2, <3>3
    <3> HIDE DEF s
    <3> QED
      BY <1>7, <3>4
  <2> QED
    BY <2>1, <2>2 DEF IsTop
<1> QED
  BY <1>1, <1>4, <1>5, <1>6, <1>7
-----------------------------------------------------------------------------
(* What is true as long as no follower has died: each is in the old ring,  *)
(* or leads it alone, or looks for the one that leads, or has found it.    *)

Left(f) == ~InOldRing(f)
Edge(f) == <<"ring", f, NextOf(f, Follower)>>
OldEdge(c) == c[1] = "ring" /\ c[2] \in Follower /\ c[3] = NextOf(c[2], Follower)

(* The peers of a leader are followers that are up and watched.            *)
PeersOk(w) ==
    \A i \in 2 .. Len(lst[w]) :
        /\ lst[w][i].id \in Follower /\ lst[w][i].sock = "lead" /\ lst[w][i].heard

(* Nothing happens before the old leader's death.                          *)
Begins ==
    Up(OldLeader) =>
        /\ Leads(OldLeader) /\ PeersOk(OldLeader)
        /\ Follower # {} => ~Alone(OldLeader)
        /\ \A f \in Follower : ~Left(f)
        /\ \A c \in Conn : chan[c] = << >>

Stays == \A f \in Follower : ~Left(f) => lst[f] = FollowerList(f)

(* A peer of the new leader has it in its list, or the news on the way.    *)
Follows(p, w) ==
    IF Alone(p) THEN chan[<<"lead", w, p>>] # << >>
    ELSE lst[p][2].id = w

Wins ==
    \A w \in Follower : Leads(w) =>
        /\ IsTop(w) /\ Left(w) /\ PeersOk(w)
        /\ \A p \in Ids(lst[w]) : Left(p) /\ ~Leads(p) /\ Follows(p, w)

Seeks ==
    \A f \in Follower : Left(f) /\ ~Leads(f) /\ ~Alone(f) =>
        LET w == lst[f][2].id IN w \in Follower /\ Leads(w) /\ f \in Ids(lst[w])

Succs == \A f \in Follower : succ[f] \in Follower \cup {NULL}

(* The old ring carries votes and announcements, each vote no further than *)
(* to the next server unless it is the greatest's; everything else comes   *)
(* from the new leader.                                                    *)
OfElection(c, m) ==
    \/ m.kind = "VOTE" /\ m.id = c[2]
    \/ m.kind = "VOTE" /\ m.id \in Follower /\ IsTop(m.id)
    \/ m.kind = "LEADER" /\ m.id \in Follower /\ IsTop(m.id) /\ Leads(m.id)
OfLeader(c, m) ==
    /\ m.kind = "KNOW_NEW_LEADER" /\ m.leader = c[2] /\ m.succ \in Follower \cup {NULL}
    /\ c[2] \in Follower /\ Leads(c[2]) /\ c[3] \in Ids(lst[c[2]])
Allowed(c) ==
    {m \in Message : IF OldEdge(c) THEN OfElection(c, m) ELSE OfLeader(c, m)}

Carry == \A c \in Conn : chan[c] \in Seq(Allowed(c))

(* The announcement sweeps the old ring: it is the last message on each    *)
(* connection, and whoever it has passed is out of the election.           *)
Done(s) == Left(s) /\ (Leads(s) => ~participant[s])
Announces(q) == \E i \in 1 .. Len(q) : q[i].kind = "LEADER"
AnnouncedLast(q) == \A i \in 1 .. Len(q) : q[i].kind = "LEADER" => i = Len(q)

SweptAt(c) ==
    /\ AnnouncedLast(chan[c]) /\ (Announces(chan[c]) => Left(c[2]))
    /\ Done(c[3]) => Left(c[2]) /\ chan[c] = << >>
Swept == \A c \in Conn : OldEdge(c) => SweptAt(c)

(* Whoever asks for the leader has left and is not answered yet.           *)
Asks ==
    \A v \in Server : \A d \in mc[v] : d.kind = "WHO_IS_LEADER" =>
        /\ d.id \in Follower /\ Left(d.id) /\ ~Leads(d.id)
        /\ v \in Follower /\ Leads(v) => d.id \notin Ids(lst[v])

Orderly == Begins /\ Stays /\ Wins /\ Seeks /\ Succs /\ Carry /\ Swept /\ Asks

-----------------------------------------------------------------------------
(* The connections of the old ring.                                        *)

LEMMA EdgeIs ==
    ASSUME NEW f \in Follower, Follower # {f}
    PROVE  Edge(f) \in Conn /\ OldEdge(Edge(f)) /\ Edge(f)[2] = f
           /\ Edge(f)[3] = NextOf(f, Follower) /\ NextOf(f, Follower) # f
<1>1. NextOf(f, Follower) \in Follower /\ NextOf(f, Follower) # f
  BY Neighbour
<1>2. f \in Server /\ NextOf(f, Follower) \in Server
  BY <1>1, FollowersInOrder
<1> QED
  BY <1>1, <1>2 DEF Edge, OldEdge, Conn, Link

LEMMA OldEdgeIs ==
    ASSUME NEW c \in Conn, OldEdge(c)
    PROVE  /\ c[2] \in Follower /\ c[3] \in Follower /\ c[2] # c[3]
           /\ c = Edge(c[2]) /\ Follower # {c[2]} /\ Follower # {c[3]} /\ c # Edge(c[3])
           /\ Before(c[3]) = c[2]
<1>1. /\ c[2] \in Follower /\ c[3] = NextOf(c[2], Follower) /\ c[2] # c[3]
      /\ c = <<c[1], c[2], c[3]>> /\ c[1] = "ring"
  BY DEF OldEdge, Conn
<1>2. c[3] \in Follower /\ Before(c[3]) = c[2]
  BY <1>1, Neighbour
<1>3. c = Edge(c[2])
  BY <1>1 DEF Edge
<1>4. c # Edge(c[3])
  BY <1>1 DEF Edge
<1>5. Follower # {c[2]} /\ Follower # {c[3]}
  BY <1>1, <1>2
<1> QED
  BY <1>1, <1>2, <1>3, <1>4, <1>5

LEMMA SameInbox ==
    ASSUME NEW a, NEW b,
           \A f \in Follower : Follower # {f} => a[Edge(f)] = b[Edge(f)]
    PROVE  RingInbox(a) = RingInbox(b)
<1>1. DOMAIN RingId = Positions /\ \A n \in Positions : RingId[n] \in Follower
  BY RingIdIs
<1>2. ASSUME NEW s \in Follower, Before(s) # s
      PROVE  a[<<"ring", Before(s), s>>] = b[<<"ring", Before(s), s>>]
  <2>1. Before(s) \in Follower /\ NextOf(Before(s), Follower) = s
    BY Neighbour
  <2>2. Follower # {Before(s)} /\ Edge(Before(s)) = <<"ring", Before(s), s>>
    BY <1>2, <2>1 DEF Edge
  <2> QED
    BY <2>1, <2>2
<1> QED
  BY <1>1, <1>2 DEF RingInbox

LEMMA InboxEdge ==
    ASSUME NEW f \in Follower, Follower # {f}, NEW ch \in Channels, NEW q
    PROVE  /\ RingInbox([ch EXCEPT ![Edge(f)] = q]) =
                [RingInbox(ch) EXCEPT ![After(Pos(f))] = q]
           /\ RingInbox(ch)[After(Pos(f))] = ch[Edge(f)]
           /\ After(Pos(f)) \in Positions
<1> DEFINE t == NextOf(f, Follower)
           m == After(Pos(f))
           dh == [ch EXCEPT ![Edge(f)] = q]
           in(h, n) == LET s == RingId[n] IN
                       IF Before(s) = s THEN << >> ELSE h[<<"ring", Before(s), s>>]
<1>1. /\ t \in Follower /\ Pos(t) = m /\ Before(t) = f /\ t # f
      /\ Edge(f) = <<"ring", f, t>> /\ Edge(f) \in Conn
  BY Neighbour, EdgeIs DEF Edge
<1>2. m \in Positions /\ RingId[m] = t /\ \A n \in Positions : RingId[n] = t => n = m
  BY <1>1, PosIs
<1>3. DOMAIN RingId = Positions /\ DOMAIN ch = Conn
  BY RingIdIs DEF Channels
<1> HIDE DEF t, m
<1>4. dh[Edge(f)] = q /\ \A c \in Conn : c # Edge(f) => dh[c] = ch[c]
  BY <1>1, <1>3
<1>5. in(dh, m) = q /\ in(ch, m) = ch[Edge(f)]
  BY <1>1, <1>2, <1>4
<1>6. ASSUME NEW n \in Positions, n # m PROVE in(dh, n) = in(ch, n)
  <2> DEFINE s == RingId[n]
  <2>1. s \in Follower /\ s # t /\ s \in Server
    BY <1>2, <1>6, RingIdIs, FollowersInOrder
  <2>2. Before(s) \in Follower /\ Before(s) \in Server
    BY <2>1, Neighbour, FollowersInOrder
  <2>3. Before(s) # s => <<"ring", Before(s), s>> \in Conn /\ <<"ring", Before(s), s>> # Edge(f)
    BY <1>1, <2>1, <2>2 DEF Conn, Link
  <2> HIDE DEF s, dh
  <2>4. Before(s) # s => dh[<<"ring", Before(s), s>>] = ch[<<"ring", Before(s), s>>]
    BY <1>4, <2>3
  <2> QED
    BY <2>4 DEF s
<1> HIDE DEF dh
<1>7. /\ RingInbox(dh) = [n \in Positions |-> in(dh, n)]
      /\ RingInbox(ch) = [n \in Positions |-> in(ch, n)]
  BY <1>3 DEF RingInbox
<1> HIDE DEF in
<1>8. RingInbox(dh) = [RingInbox(ch) EXCEPT ![m] = q] /\ RingInbox(ch)[m] = ch[Edge(f)]
  BY <1>2, <1>5, <1>6, <1>7
<1> QED
  BY <1>2, <1>8 DEF dh, m

(* What send() to the successor in the old ring does to the election.      *)
LEMMA SentOnRing ==
    ASSUME NEW v \in Follower, Follower # {v}, FollowersUp, NEW ch \in Channels,
           NEW e, e.sock = "ring", e.id = NextOf(v, Follower), NEW msg
    PROVE  /\ Sent(ch, v, e, msg) = [ch EXCEPT ![Edge(v)] = Append(ch[Edge(v)], msg)]
           /\ RingInbox(Sent(ch, v, e, msg)) = Election!Sent(RingInbox(ch), Pos(v), msg)
<1> DEFINE q == Append(ch[Edge(v)], msg)
           m == After(Pos(v))
           r == RingInbox(ch)
<1>1. Sent(ch, v, e, msg) = [ch EXCEPT ![Edge(v)] = q]
  BY DEF Sent, Edge, Link
<1>2. /\ RingInbox([ch EXCEPT ![Edge(v)] = q]) = [r EXCEPT ![m] = q]
      /\ r[m] = ch[Edge(v)] /\ m \in Positions
  BY InboxEdge
<1>3. OfRing(status)[m] = "up"
  <2>1. DOMAIN RingId = Positions /\ RingId[m] \in Follower
    BY <1>2, RingIdIs
  <2> QED
    BY <1>2, <2>1 DEF OfRing, FollowersUp, Up
<1>4. Election!Successor(Pos(v)) = m
  BY DEF Election!Successor, After, Size
<1>5. Election!Sent(r, Pos(v), msg) = [r EXCEPT ![m] = Append(r[m], msg)]
  <2> HIDE DEF r, m
  <2> QED
    BY <1>3, <1>4 DEF Election!Sent
<1> QED
  BY <1>1, <1>2, <1>5

-----------------------------------------------------------------------------
(* Who is where.                                                           *)

LEMMA FollowerListIs ==
    ASSUME NEW f \in Follower
    PROVE  LET l == FollowerList(f) IN
           /\ l \in Records /\ l[1].id = f /\ ~l[1].leader /\ l[2].id = OldLeader
           /\ Len(l) = IF Follower = {f} THEN 2 ELSE 3
           /\ Follower # {f} => l[3].id = NextOf(f, Follower) /\ l[3].sock = "ring"
<1> DEFINE x == Entry(f, FALSE, "listen")
           y == Entry(OldLeader, TRUE, "up")
           z == Entry(NextOf(f, Follower), FALSE, "ring")
<1>1. /\ x \in Record /\ y \in Record /\ z \in Record
      /\ x.id = f /\ ~x.leader /\ y.id = OldLeader
      /\ z.id = NextOf(f, Follower) /\ z.sock = "ring"
  BY EntryType, NextOfFollower, FollowersInOrder, ServerAssumption DEF Sock, Link, Entry
<1>2. FollowerList(f) = IF Follower = {f} THEN <<x, y>> \o << >> ELSE <<x, y>> \o <<z>>
  BY DEF FollowerList
<1> HIDE DEF x, y, z
<1>3. <<x, y>> \o << >> = <<x, y>> /\ <<x, y>> \o <<z>> = <<x, y, z>>
  BY <1>1, PairAndMore
<1>4. CASE Follower = {f}
  BY <1>1, <1>2, <1>3, <1>4 DEF Records
<1>5. CASE Follower # {f}
  BY <1>1, <1>2, <1>3, <1>5 DEF Records
<1> QED
  BY <1>4, <1>5

LEMMA Staying ==
    ASSUME Orderly, NEW v \in Follower, ~Left(v)
    PROVE  /\ lst[v] \in Records /\ lst[v][1].id = v /\ ~Leads(v) /\ ~Alone(v)
           /\ lst[v][2].id = OldLeader
           /\ Len(lst[v]) = IF Follower = {v} THEN 2 ELSE 3
           /\ NoSecond(v) <=> Follower = {v}
           /\ Follower # {v} => lst[v][3].id = NextOf(v, Follower) /\ lst[v][3].sock = "ring"
<1>1. lst[v] = FollowerList(v)
  BY DEF Orderly, Stays
<1> QED
  BY <1>1, FollowerListIs DEF Leads, Alone, NoSecond

(* What a follower sends in the ring finds its successor.                  *)
LEMMA SendingSucceeds ==
    ASSUME Orderly, FollowersUp, NEW v \in Follower, ~Left(v), ~NoSecond(v)
    PROVE  ~SendFails(v)
<1>1. Follower # {v} /\ lst[v][3].id = NextOf(v, Follower) /\ lst[v][3].sock = "ring"
  BY Staying
<1>2. NextOf(v, Follower) \in Follower
  BY NextOfFollower
<1> QED
  BY <1>1, <1>2 DEF SendFails, FollowersUp

LEMMA ElectionMessages ==
    ASSUME IInv, Orderly, NEW v \in Server, NEW c \in Conn,
           NEW kind \in {"VOTE", "LEADER"}, Reads(v, c, kind)
    PROVE  /\ OldEdge(c) /\ c[3] = v /\ v \in Follower /\ chan[c] # << >>
           /\ chan[c] \in Seq(Allowed(c)) /\ OfElection(c, Head(chan[c]))
           /\ Head(chan[c]) \in Message /\ Head(chan[c]).kind = kind
           /\ ~Up(OldLeader) /\ SweptAt(c) /\ ~Done(v)
           /\ ~Left(v) \/ (Leads(v) /\ participant[v])
<1>1. c[3] = v /\ chan[c] # << >> /\ Head(chan[c]).kind = kind
  BY DEF Reads
<1>2. chan[c] \in Seq(Allowed(c))
  BY DEF Orderly, Carry
<1>3. Head(chan[c]) \in Allowed(c)
  BY <1>1, <1>2
<1>4. OldEdge(c) /\ OfElection(c, Head(chan[c])) /\ Head(chan[c]) \in Message
  BY <1>1, <1>3 DEF Allowed, OfLeader
<1>5. ~Up(OldLeader)
  BY <1>1 DEF Orderly, Begins
<1>6. SweptAt(c)
  BY <1>4 DEF Orderly, Swept
<1>7. ~Done(v)
  BY <1>1, <1>6 DEF SweptAt
<1>8. v \in Follower
  BY <1>1, <1>4, OldEdgeIs
<1> QED
  BY <1>1, <1>2, <1>4, <1>5, <1>6, <1>7, <1>8 DEF Done

LEMMA TimedOut ==
    ASSUME IInv, Orderly, FollowersUp, NEW n \in Server, TimesOut(n)
    PROVE  n \in Follower /\ ~Left(n) /\ ~Up(OldLeader)
<1>1. Up(n) /\ ~Leads(n) /\ ~Alone(n) /\ LeaderSilent(n)
  BY DEF TimesOut
<1>2. n \in Follower
  BY <1>1 DEF Orderly, Begins, Follower
<1>3. ~Left(n)
  <2> SUFFICES ASSUME Left(n) PROVE FALSE
    OBVIOUS
  <2> DEFINE w == lst[n][2].id
  <2>1. w \in Follower /\ Leads(w) /\ n \in Ids(lst[w])
    BY <1>1, <1>2 DEF Orderly, Seeks
  <2>2. Up(w)
    BY <2>1 DEF FollowersUp
  <2>3. Alone(w)
    BY <1>1, <2>1, <2>2 DEF LeaderSilent
  <2> HIDE DEF w
  <2>4. Len(lst[w]) = 1
    BY <2>3 DEF Alone
  <2>5. \A i \in Nat : i = 1 => 2 .. i = {}
    OBVIOUS
  <2>6. 2 .. Len(lst[w]) = {}
    BY <2>4, <2>5
  <2> QED
    BY <2>1, <2>6 DEF Ids
<1>4. lst[n][2].id = OldLeader
  BY <1>2, <1>3, Staying
<1>5. ~Up(OldLeader)
  BY <1>1, <1>2, <1>4 DEF LeaderSilent, Orderly, Begins
<1> QED
  BY <1>2, <1>3, <1>5

-----------------------------------------------------------------------------
(* Reading and sending.                                                    *)

LEMMA TailOf ==
    ASSUME NEW S, NEW q \in Seq(S), q # << >>
    PROVE  /\ Tail(q) \in Seq(S)
           /\ Announces(Tail(q)) => Announces(q)
           /\ AnnouncedLast(q) => AnnouncedLast(Tail(q))
           /\ AnnouncedLast(q) /\ Head(q).kind = "LEADER" => Tail(q) = << >>
<1> DEFINE r == Tail(q)
<1>1. /\ r \in Seq(S) /\ Len(q) \in Nat \ {0} /\ Len(r) = Len(q) - 1
      /\ \A i \in 1 .. Len(r) : r[i] = q[i + 1]
      /\ Head(q) = q[1]
  OBVIOUS
<1> HIDE DEF r
<1>2. Len(r) = 0 => r = << >>
  BY <1>1
<1>3. \A i \in 1 .. Len(r) : i + 1 \in 1 .. Len(q) /\ (i + 1 = Len(q) => i = Len(r))
  BY <1>1
<1>4. 1 \in 1 .. Len(q) /\ (1 = Len(q) => Len(r) = 0)
  BY <1>1
<1>5. Announces(r) => Announces(q)
  BY <1>1, <1>3 DEF Announces
<1>6. AnnouncedLast(q) => AnnouncedLast(r)
  BY <1>1, <1>3 DEF AnnouncedLast
<1>7. AnnouncedLast(q) /\ Head(q).kind = "LEADER" => r = << >>
  BY <1>1, <1>2, <1>4 DEF AnnouncedLast
<1> QED
  BY <1>1, <1>5, <1>6, <1>7 DEF r

LEMMA AppendOf ==
    ASSUME NEW S, NEW q \in Seq(S), NEW m \in S
    PROVE  /\ Append(q, m) \in Seq(S)
           /\ Announces(Append(q, m)) => Announces(q) \/ m.kind = "LEADER"
           /\ ~Announces(q) => AnnouncedLast(Append(q, m))
<1> DEFINE r == Append(q, m)
<1>1. /\ r \in Seq(S) /\ Len(q) \in Nat /\ Len(r) = Len(q) + 1
      /\ \A i \in 1 .. Len(q) : r[i] = q[i]
      /\ r[Len(q) + 1] = m
  OBVIOUS
<1> HIDE DEF r
<1>2. \A i \in 1 .. Len(r) : i \in 1 .. Len(q) \/ (i = Len(q) + 1 /\ i = Len(r))
  BY <1>1
<1>3. \A i \in 1 .. Len(r) : r[i].kind = "LEADER" => Announces(q) \/ (i = Len(r) /\ m.kind = "LEADER")
  BY <1>1, <1>2 DEF Announces
<1>4. Announces(r) => Announces(q) \/ m.kind = "LEADER"
  BY <1>3 DEF Announces
<1>5. ~Announces(q) => AnnouncedLast(r)
  BY <1>3 DEF AnnouncedLast
<1> QED
  BY <1>1, <1>4, <1>5 DEF r

LEMMA ConsumedIs ==
    ASSUME IInv, NEW c \in Conn, chan[c] # << >>
    PROVE  /\ Consumed(c) = [chan EXCEPT ![c] = Tail(chan[c])]
           /\ Consumed(c) \in Channels
           /\ Consumed(c)[c] = Tail(chan[c])
           /\ \A d \in Conn : d # c => Consumed(c)[d] = chan[d]
<1>1. chan \in Channels
  BY DEF IInv, TypeOK, Channels
<1>2. chan[c] \in Seq(Message)
  BY <1>1 DEF Channels
<1>3. Tail(chan[c]) \in Seq(Message)
  BY <1>2
<1> QED
  BY <1>1, <1>3 DEF Consumed, Channels

(* A message of the election is read and not passed on.                    *)
LEMMA ReadOnRing ==
    ASSUME IInv, NEW c \in Conn, OldEdge(c), chan[c] # << >>
    PROVE  RingInbox(Consumed(c)) = [RingInbox(chan) EXCEPT ![Pos(c[3])] = Tail(@)]
<1> DEFINE p == c[2]
           q == Tail(chan[c])
<1>1. /\ p \in Follower /\ Follower # {p} /\ c = Edge(p)
      /\ c[3] = NextOf(p, Follower) /\ chan \in Channels
  BY OldEdgeIs DEF OldEdge, IInv, TypeOK, Channels
<1> HIDE DEF p, q
<1>2. Pos(c[3]) = After(Pos(p))
  BY <1>1, Neighbour
<1>3. /\ RingInbox([chan EXCEPT ![Edge(p)] = q]) = [RingInbox(chan) EXCEPT ![After(Pos(p))] = q]
      /\ RingInbox(chan)[After(Pos(p))] = chan[Edge(p)]
  BY <1>1, InboxEdge
<1>4. Consumed(c) = [chan EXCEPT ![c] = Tail(chan[c])]
  BY ConsumedIs
<1>5. Consumed(c) = [chan EXCEPT ![Edge(p)] = q]
  BY <1>1, <1>4 DEF q
<1>6. RingInbox(chan)[Pos(c[3])] = chan[c]
  BY <1>1, <1>2, <1>3
<1> QED
  BY <1>2, <1>3, <1>5, <1>6 DEF q

(* A message msg is sent to the successor in ch.                           *)
SentTo(v, ch, msg, dh) ==
    /\ dh \in Channels /\ dh[Edge(v)] = Append(ch[Edge(v)], msg)
    /\ \A d \in Conn : d # Edge(v) => dh[d] = ch[d]
    /\ RingInbox(dh) = Election!Sent(RingInbox(ch), Pos(v), msg)

LEMMA SendOnRing ==
    ASSUME Orderly, FollowersUp, NEW v \in Follower, ~Left(v), ~NoSecond(v),
           NEW ch \in Channels, NEW msg \in Message
    PROVE  SentTo(v, ch, msg, Sent(ch, v, lst[v][3], msg))
<1> DEFINE e == lst[v][3]
           dh == Sent(ch, v, e, msg)
<1>1. Follower # {v} /\ e.id = NextOf(v, Follower) /\ e.sock = "ring"
  BY Staying
<1>2. dh \in Channels
  BY SentType
<1>3. /\ dh = [ch EXCEPT ![Edge(v)] = Append(ch[Edge(v)], msg)]
      /\ RingInbox(dh) = Election!Sent(RingInbox(ch), Pos(v), msg)
  BY <1>1, SentOnRing
<1>4. Edge(v) \in Conn /\ DOMAIN ch = Conn
  BY <1>1, EdgeIs DEF Channels
<1> QED
  BY <1>2, <1>3, <1>4 DEF SentTo

-----------------------------------------------------------------------------
(* Steps that the election does not notice.                                *)

(* What a step of the old ring is for the election.                        *)
Elects == Election!Next \/ UNCHANGED Election!vars

LEMMA Unnoticed ==
    ASSUME FollowersUp, FollowersUp', UNCHANGED <<lst, participant>>,
           RingInbox(chan)' = RingInbox(chan), spent'.repeat = spent.repeat
    PROVE  UNCHANGED Election!vars
<1>1. DOMAIN RingId = Positions /\ \A n \in Positions : RingId[n] \in Follower
  BY RingIdIs
<1>2. OfRing(status)' = OfRing(status)
  BY <1>1 DEF OfRing, FollowersUp, Up
<1>3. OfRing(participant)' = OfRing(participant)
  BY DEF OfRing
<1>4. RingLeads' = RingLeads /\ RingPeers' = RingPeers /\ RingAsking' = RingAsking
  BY DEF RingLeads, RingPeers, RingAsking, Leads, InOldRing, NoSecond
<1> QED
  BY <1>2, <1>3, <1>4 DEF Election!vars

LEMMA Undisturbed ==
    ASSUME Orderly, UNCHANGED <<lst, participant, succ, chan>>,
           Up(OldLeader)' => Up(OldLeader),
           \A v \in Server : \A d \in mc'[v] : d.kind = "WHO_IS_LEADER" => d \in mc[v]
    PROVE  Orderly'
<1>1. Begins'
  BY DEF Orderly, Begins, PeersOk, Leads, Alone, Left, InOldRing
<1>2. Stays' /\ Succs'
  BY DEF Orderly, Stays, Succs, Left, InOldRing
<1>3. Wins'
  BY DEF Orderly, Wins, PeersOk, Leads, Alone, Left, InOldRing, Follows
<1>4. Seeks'
  BY DEF Orderly, Seeks, Leads, Alone, Left, InOldRing
<1>5. \A c : Allowed(c)' = Allowed(c)
  BY DEF Allowed, OfElection, OfLeader, Leads
<1>6. Carry'
  BY <1>5 DEF Orderly, Carry
<1>7. Swept'
  BY DEF Orderly, Swept, SweptAt, Done, Left, InOldRing, Leads
<1>8. Asks'
  BY DEF Orderly, Asks, Left, InOldRing, Leads
<1> QED
  BY <1>1, <1>2, <1>3, <1>4, <1>6, <1>7, <1>8 DEF Orderly

LEMMA IdleStep ==
    ASSUME Orderly, FollowersUp, FollowersUp',
           UNCHANGED <<lst, participant, succ, chan>>, spent'.repeat = spent.repeat,
           Up(OldLeader)' => Up(OldLeader),
           \A v \in Server : \A d \in mc'[v] : d.kind = "WHO_IS_LEADER" => d \in mc[v]
    PROVE  Orderly' /\ Elects
<1>1. RingInbox(chan)' = RingInbox(chan)
  BY DEF RingInbox
<1> QED
  BY <1>1, Undisturbed, Unnoticed DEF Elects

(* Nothing is on its way to the old leader.                                *)
LEMMA NothingForOldLeader ==
    ASSUME IInv, Orderly, NEW c \in Conn, c[3] = OldLeader
    PROVE  chan[c] = << >>
<1> SUFFICES ASSUME chan[c] # << >> PROVE FALSE
  OBVIOUS
<1>1. Head(chan[c]) \in Allowed(c)
  <2>1. chan[c] \in Seq(Allowed(c))
    BY DEF Orderly, Carry
  <2> QED
    BY <2>1
<1>2. ~OldEdge(c)
  BY OldEdgeIs DEF Follower
<1>3. c[2] \in Follower /\ Leads(c[2]) /\ OldLeader \in Ids(lst[c[2]])
  BY <1>1, <1>2 DEF Allowed, OfLeader
<1>4. PeersOk(c[2])
  BY <1>3 DEF Orderly, Wins
<1> QED
  BY <1>3, <1>4 DEF PeersOk, Ids, Follower

LEMMA DieStep ==
    ASSUME IInv, Orderly, FollowersUp, FollowersUp', NEW s \in Server, NEW how \in Death,
           Die(s, how), spent'.repeat = spent.repeat
    PROVE  Orderly' /\ Elects
<1>1. UNCHANGED <<lst, participant, succ>> /\ status' = [status EXCEPT ![s] = how]
  BY DEF Die, locals
<1>2. status'[s] = how /\ how # "up"
  BY <1>1 DEF IInv, TypeOK, Death
<1>3. s = OldLeader
  BY <1>2 DEF FollowersUp, Up, Follower
<1>4. ~Up(OldLeader)'
  BY <1>2, <1>3 DEF Up
<1>5. chan' = chan
  <2>1. chan' = [c \in Conn |-> IF c[3] = s THEN << >> ELSE chan[c]]
    BY DEF Die
  <2>2. chan = [c \in Conn |-> chan[c]]
    BY DEF IInv, TypeOK
  <2>3. \A c \in Conn : c[3] = s => chan[c] = << >>
    BY <1>3, NothingForOldLeader
  <2> QED
    BY <2>1, <2>2, <2>3
<1>6. \A v \in Server : \A d \in mc'[v] : d \in mc[v]
  BY DEF Die, IInv, TypeOK
<1> QED
  BY <1>1, <1>4, <1>5, <1>6, IdleStep

LEMMA EndStep ==
    ASSUME IInv, Orderly, FollowersUp, FollowersUp', NEW s \in Server,
           NullDeref(s) \/ Exit(s) \/ Crash(s) \/ \E i : BrokenPipe(s, i)
    PROVE  Orderly' /\ Elects
<1>1. PICK how \in Death : Die(s, how)
  BY DEF NullDeref, Exit, Crash, BrokenPipe, Death
<1>2. spent'.repeat = spent.repeat
  BY DEF NullDeref, Exit, Crash, BrokenPipe, IInv, TypeOK
<1> QED
  BY <1>1, <1>2, DieStep

LEMMA BeatStep ==
    ASSUME IInv, Orderly, FollowersUp, FollowersUp', NEW l \in Server, Heartbeat(l)
    PROVE  Orderly' /\ Elects
<1>1. UNCHANGED <<status, lst, participant, succ, chan>> /\ spent'.repeat = spent.repeat
  BY DEF Heartbeat, locals, IInv, TypeOK
<1>2. ASSUME NEW v \in Server, NEW d \in mc'[v], d.kind = "WHO_IS_LEADER" PROVE d \in mc[v]
  <2>1. d \in mc[v] \/ d = Beat(l)
    BY DEF Heartbeat, Multicast
  <2> QED
    BY <1>2, <2>1 DEF Beat
<1> QED
  BY <1>1, <1>2, IdleStep DEF Up

LEMMA DatagramGone ==
    ASSUME IInv, Orderly, FollowersUp, FollowersUp', NEW v \in Server, NEW d, Taken(v, d),
           UNCHANGED <<status, lst, participant, succ, chan>>, spent'.repeat = spent.repeat
    PROVE  Orderly' /\ Elects
<1>1. \A u \in Server : mc'[u] \subseteq mc[u]
  BY DEF Taken, IInv, TypeOK
<1> QED
  BY <1>1, IdleStep DEF Up

LEMMA HeartbeatRead ==
    ASSUME IInv, Orderly, FollowersUp, FollowersUp', NEW v \in Server, NEW d \in mc[v],
           RecvHeartbeat(v, d) \/ Lose(v, d)
    PROVE  Orderly' /\ Elects
<1>1. CASE NullDeref(v)
  BY <1>1, EndStep
<1>2. CASE Taken(v, d) /\ UNCHANGED <<status, locals, chan>> /\ spent'.repeat = spent.repeat
  BY <1>2, DatagramGone DEF locals
<1>3. Lose(v, d) => spent'.repeat = spent.repeat
  BY DEF Lose, IInv, TypeOK
<1> QED
  BY <1>1, <1>2, <1>3 DEF RecvHeartbeat, Lose

(* No end of a connection is read: those that died have no follower at     *)
(* theirs.                                                                 *)
LEMMA SuccessorIsThere ==
    ASSUME IInv, Orderly, FollowersUp, NEW n \in Server, SuccessorGone(n)
    PROVE  FALSE
<1>1. Up(n) /\ ~Leads(n) /\ succ[n] # NULL /\ ~Up(succ[n])
  BY DEF SuccessorGone
<1>2. n \in Follower
  BY <1>1 DEF Orderly, Begins, Follower
<1>3. succ[n] \in Follower
  BY <1>1, <1>2 DEF Orderly, Succs
<1> QED
  BY <1>1, <1>3 DEF FollowersUp

LEMMA LeaderHasPeers ==
    ASSUME Orderly, NEW s \in Server, Up(s), Leads(s)
    PROVE  PeersOk(s)
  BY DEF Orderly, Begins, Wins, Follower

LEMMA PeersAreThere ==
    ASSUME IInv, Orderly, FollowersUp, NEW s \in Server, NEW i \in DOMAIN lst[s], PeerGone(s, i)
    PROVE  FALSE
<1>1. Up(s) /\ Leads(s) /\ i \in 2 .. Len(lst[s]) /\ ~Up(lst[s][i].id)
  BY DEF PeerGone
<1>2. lst[s][i].id \in Follower
  BY <1>1, LeaderHasPeers DEF PeersOk
<1> QED
  BY <1>1, <1>2 DEF FollowersUp

LEMMA PeersAreHeard ==
    ASSUME IInv, Orderly, FollowersUp, NEW s \in Server, NEW i \in DOMAIN lst[s],
           EvictSilent(s, i)
    PROVE  FALSE
<1> DEFINE p == lst[s][i].id
<1>1. Up(s) /\ Leads(s) /\ i \in 2 .. Len(lst[s]) /\ PeerSilent(s, i)
  BY DEF EvictSilent
<1>2. p \in Follower /\ lst[s][i].heard /\ Up(p) /\ p \in Server
  BY <1>1, LeaderHasPeers, FollowersInOrder DEF PeersOk, FollowersUp
<1>3. \A k \in Link : chan[<<k, s, p>>] = << >>
  BY <1>1, <1>2 DEF PeerSilent
<1>4. ~Leads(p) /\ ~Alone(p) /\ lst[p][2].id = s
  <2>1. CASE s = OldLeader
    <3>1. ~Left(p)
      BY <1>1, <1>2, <2>1 DEF Orderly, Begins
    <3> QED
      BY <1>2, <2>1, <3>1, Staying
  <2>2. CASE s \in Follower
    <3>1. p \in Ids(lst[s])
      BY <1>1 DEF Ids
    <3>2. ~Leads(p) /\ Follows(p, s)
      BY <1>1, <2>2, <3>1 DEF Orderly, Wins
    <3>3. "lead" \in Link
      BY DEF Link
    <3> HIDE DEF p
    <3> QED
      BY <1>3, <3>2, <3>3 DEF Follows
  <2> QED
    BY <2>1, <2>2 DEF Follower
<1> HIDE DEF p
<1>5. 2 \in At(lst[p], s)
  <2>1. Len(lst[p]) \in Nat \ {0} /\ Len(lst[p]) # 1
    BY <1>2, <1>4, ListBefore DEF Alone
  <2>2. \A j \in Nat \ {0} : j # 1 => 2 \in 2 .. j
    OBVIOUS
  <2> QED
    BY <1>4, <2>1, <2>2 DEF At
<1> QED
  BY <1>1, <1>2, <1>4, <1>5 DEF PeerSilent, p

LEMMA NoUpdate ==
    ASSUME IInv, Orderly, NEW v \in Server, NEW c \in Conn, RecvUpdate(v, c)
    PROVE  FALSE
<1>1. chan[c] # << >> /\ Head(chan[c]).kind = "UPDATE_FROM_LEADER"
  BY DEF RecvUpdate, Reads
<1>2. chan[c] \in Seq(Allowed(c))
  BY DEF Orderly, Carry
<1>3. Head(chan[c]) \in Allowed(c)
  BY <1>1, <1>2
<1> QED
  BY <1>1, <1>3 DEF Allowed, OfElection, OfLeader

-----------------------------------------------------------------------------
(* Votes.                                                                  *)

LEMMA ListsStay ==
    ASSUME Orderly, ~Up(OldLeader), UNCHANGED <<status, lst, succ, mc>>,
           \A c \in Conn : IF OldEdge(c) THEN chan'[c] \in Seq(Allowed(c)) /\ SweptAt(c)'
                           ELSE chan'[c] = chan[c]
    PROVE  Orderly'
<1>1. Begins'
  BY DEF Begins, Up
<1>2. Stays' /\ Succs'
  BY DEF Orderly, Stays, Succs, Left, InOldRing
<1>3. Wins'
  <2>1. ASSUME NEW w \in Follower, Leads(w), NEW p \in Ids(lst[w])
        PROVE  Follows(p, w)'
    <3>1. Follows(p, w) /\ PeersOk(w) /\ ~Leads(p)
      BY <2>1 DEF Orderly, Wins
    <3>2. p \in Server /\ w \in Server /\ p # w
      BY <2>1, <3>1, FollowersInOrder DEF PeersOk, Ids
    <3>3. <<"lead", w, p>> \in Conn /\ ~OldEdge(<<"lead", w, p>>)
      BY <3>2 DEF Conn, Link, OldEdge
    <3>4. chan'[<<"lead", w, p>>] = chan[<<"lead", w, p>>]
      BY <3>3
    <3> QED
      BY <3>1, <3>4 DEF Follows, Alone
  <2> QED
    BY <2>1 DEF Orderly, Wins, PeersOk, Leads, Alone, Left, InOldRing
<1>4. Seeks'
  BY DEF Orderly, Seeks, Leads, Alone, Left, InOldRing
<1>5. \A c : Allowed(c)' = Allowed(c)
  BY DEF Allowed, OfElection, OfLeader, Leads
<1>6. Carry'
  BY <1>5 DEF Orderly, Carry
<1>7. Swept'
  BY DEF Orderly, Swept
<1>8. Asks'
  BY DEF Orderly, Asks, Left, InOldRing, Leads
<1> QED
  BY <1>1, <1>2, <1>3, <1>4, <1>6, <1>7, <1>8 DEF Orderly

(* A server of the old ring has not let the announcement through.          *)
LEMMA EdgeAhead ==
    ASSUME IInv, Orderly, NEW v \in Follower, ~Left(v), Follower # {v}
    PROVE  /\ Edge(v) \in Conn /\ OldEdge(Edge(v)) /\ chan[Edge(v)] \in Seq(Allowed(Edge(v)))
           /\ ~Announces(chan[Edge(v)]) /\ ~Done(NextOf(v, Follower))
<1>1. /\ Edge(v) \in Conn /\ OldEdge(Edge(v))
      /\ Edge(v)[2] = v /\ Edge(v)[3] = NextOf(v, Follower)
  BY EdgeIs
<1>2. SweptAt(Edge(v)) /\ chan[Edge(v)] \in Seq(Allowed(Edge(v)))
  BY <1>1 DEF Orderly, Swept, Carry
<1> QED
  BY <1>1, <1>2 DEF SweptAt

(* A step of a server in the old ring, which reads and sends at most.      *)
ReadsOrNot(d) == chan'[d] = chan[d] \/ (chan[d] # << >> /\ chan'[d] = Tail(chan[d]))

LEMMA VoterKeeps ==
    ASSUME IInv, Orderly, ~Up(OldLeader), UNCHANGED <<status, lst, succ, mc>>,
           NEW v \in Follower, ~Left(v), Follower # {v},
           \A f \in Follower : f # v => participant'[f] = participant[f],
           chan'[Edge(v)] \in Seq(Allowed(Edge(v))), ~Announces(chan'[Edge(v)]),
           \A d \in Conn : d # Edge(v) /\ OldEdge(d) => ReadsOrNot(d),
           \A d \in Conn : ~OldEdge(d) => chan'[d] = chan[d]
    PROVE  Orderly'
<1>1. \A f \in Follower : Done(f)' => Done(f) /\ f # v
  BY DEF Done, Left, InOldRing, Leads
<1>2. ASSUME NEW d \in Conn, OldEdge(d) PROVE chan'[d] \in Seq(Allowed(d)) /\ SweptAt(d)'
  <2>1. /\ chan[d] \in Seq(Allowed(d)) /\ SweptAt(d)
        /\ d[2] \in Follower /\ d[3] \in Follower /\ Left(d[2])' = Left(d[2])
    BY <1>2, OldEdgeIs DEF Orderly, Carry, Swept, Left, InOldRing
  <2>2. CASE d = Edge(v)
    <3>1. ~Done(NextOf(v, Follower)) /\ d[3] = NextOf(v, Follower)
      BY <2>2, EdgeAhead, EdgeIs
    <3>2. ~Done(d[3])'
      BY <1>1, <2>1, <3>1
    <3>3. AnnouncedLast(chan'[d])
      BY <2>2 DEF Announces, AnnouncedLast
    <3> QED
      BY <2>2, <3>2, <3>3 DEF SweptAt
  <2>3. CASE d # Edge(v)
    <3>1. ReadsOrNot(d)
      BY <1>2, <2>3
    <3>2. chan'[d] \in Seq(Allowed(d)) /\ AnnouncedLast(chan'[d])
          /\ (Announces(chan'[d]) => Announces(chan[d]))
      BY <2>1, <3>1, TailOf DEF ReadsOrNot, SweptAt
    <3>3. Done(d[3])' => Left(d[2]) /\ chan'[d] = << >>
      BY <1>1, <2>1, <3>1 DEF ReadsOrNot, SweptAt
    <3> QED
      BY <2>1, <3>2, <3>3 DEF SweptAt
  <2> QED
    BY <2>2, <2>3
<1> QED
  BY <1>2, ListsStay

(* The new leader reads what comes after its own vote.                     *)
LEMMA WinnerKeeps ==
    ASSUME IInv, Orderly, ~Up(OldLeader), UNCHANGED <<status, lst, succ, mc>>,
           NEW c \in Conn, OldEdge(c), chan[c] # << >>, chan' = Consumed(c),
           Leads(c[3]), participant[c[3]],
           \A f \in Follower : f # c[3] => participant'[f] = participant[f],
           participant'[c[3]] \/ Head(chan[c]).kind = "LEADER"
    PROVE  Orderly'
<1>1. \A f \in Follower : f # c[3] /\ Done(f)' => Done(f)
  BY DEF Done, Left, InOldRing, Leads
<1>2. /\ chan'[c] = Tail(chan[c]) /\ \A d \in Conn : d # c => chan'[d] = chan[d]
  BY ConsumedIs
<1>3. ASSUME NEW d \in Conn, OldEdge(d) PROVE chan'[d] \in Seq(Allowed(d)) /\ SweptAt(d)'
  <2>1. /\ chan[d] \in Seq(Allowed(d)) /\ SweptAt(d)
        /\ d[2] \in Follower /\ d[3] \in Follower /\ Left(d[2])' = Left(d[2])
    BY <1>3, OldEdgeIs DEF Orderly, Carry, Swept, Left, InOldRing
  <2>2. CASE d = c
    <3>1. /\ chan'[c] \in Seq(Allowed(c)) /\ AnnouncedLast(chan'[c])
          /\ Announces(chan'[c]) => Announces(chan[c])
          /\ Head(chan[c]).kind = "LEADER" => chan'[c] = << >>
      BY <1>2, <2>1, <2>2, TailOf DEF SweptAt
    <3>2. Head(chan[c]).kind = "LEADER" => Announces(chan[c])
      <4>1. chan[c] \in Seq(Allowed(c)) /\ chan[c] # << >>
        BY <2>1, <2>2
      <4>2. 1 \in 1 .. Len(chan[c]) /\ Head(chan[c]) = chan[c][1]
        BY <4>1
      <4> QED
        BY <4>2 DEF Announces
    <3>3. Done(c[3])' => Head(chan[c]).kind = "LEADER"
      BY DEF Done, Leads
    <3> QED
      BY <2>1, <2>2, <3>1, <3>2, <3>3 DEF SweptAt
  <2>3. CASE d # c
    <3>1. d[3] # c[3]
      BY <1>3, <2>3, OldEdgeIs
    <3>2. chan'[d] = chan[d]
      BY <1>2, <2>3
    <3> QED
      BY <1>1, <2>1, <3>1, <3>2 DEF SweptAt
  <2> QED
    BY <2>2, <2>3
<1>4. \A d \in Conn : ~OldEdge(d) => chan'[d] = chan[d]
  BY <1>2
<1> QED
  BY <1>3, <1>4, ListsStay

-----------------------------------------------------------------------------
(* What the election sees.                                                 *)

LEMMA Seen ==
    ASSUME IInv, FollowersUp, NEW v \in Follower, NEW n, n = Pos(v)
    PROVE  /\ n \in Positions /\ n \in Election!Node /\ RingId[n] = v
           /\ OfRing(status)[n] = "up" /\ OfRing(participant)[n] = participant[v]
           /\ RingLeads[n] = Leads(v)
           /\ RingPeers[n] = IF Left(v) THEN "alone" ELSE IF NoSecond(v) THEN "cut" ELSE "ring"
           /\ \A c \in Conn : OldEdge(c) /\ c[3] = v => RingInbox(chan)[n] = chan[c]
<1>1. n \in Positions /\ RingId[n] = v /\ DOMAIN RingId = Positions
  BY PosIs, RingIdIs
<1>2. ASSUME NEW c \in Conn, OldEdge(c), c[3] = v PROVE RingInbox(chan)[n] = chan[c]
  <2>1. Before(v) = c[2] /\ c[2] # v /\ c = <<"ring", c[2], v>>
    BY <1>2, OldEdgeIs DEF Edge, OldEdge
  <2> QED
    BY <1>1, <2>1 DEF RingInbox
<1>3. n \in Election!Node
  BY <1>1 DEF Election!Node, Positions, Size
<1> QED
  BY <1>1, <1>2, <1>3 DEF OfRing, RingLeads, RingPeers, FollowersUp, Up, Left

LEMMA ListsUnseen ==
    ASSUME FollowersUp, FollowersUp', UNCHANGED lst
    PROVE  /\ OfRing(status)' = OfRing(status) /\ RingLeads' = RingLeads
           /\ RingPeers' = RingPeers /\ RingAsking' = RingAsking
<1>1. DOMAIN RingId = Positions /\ \A n \in Positions : RingId[n] \in Follower
  BY RingIdIs
<1>2. OfRing(status)' = OfRing(status)
  BY <1>1 DEF OfRing, FollowersUp, Up
<1> QED
  BY <1>2 DEF RingLeads, RingPeers, RingAsking, Leads, InOldRing, NoSecond

LEMMA ParticipantSeen ==
    ASSUME IInv, NEW v \in Follower, NEW b, participant' = [participant EXCEPT ![v] = b]
    PROVE  OfRing(participant)' = [OfRing(participant) EXCEPT ![Pos(v)] = b]
<1>1. DOMAIN RingId = Positions /\ \A n \in Positions : RingId[n] \in Follower
  BY RingIdIs
<1>2. \A n \in Positions : RingId[n] = v <=> n = Pos(v)
  BY PosIs
<1>3. \A f \in Follower : participant'[f] = IF f = v THEN b ELSE participant[f]
  BY FollowersInOrder DEF IInv, TypeOK
<1>4. /\ OfRing(participant) = [n \in Positions |-> participant[RingId[n]]]
      /\ OfRing(participant)' = [n \in Positions |-> participant'[RingId[n]]]
  BY <1>1 DEF OfRing
<1> QED
  BY <1>1, <1>2, <1>3, <1>4

LEMMA IsElected ==
    ASSUME NEW n \in Election!Node,
           \/ Election!ClaimAlone(n) \/ Election!StartVote(n) \/ Election!RepeatVote(n)
           \/ Election!RecvVoteGreater(n) \/ Election!RecvVoteSmaller(n)
           \/ Election!RecvVoteMine(n)
           \/ Election!RecvLeaderMine(n) \/ Election!RecvLeaderOther(n)
    PROVE  Elects
  BY DEF Elects, Election!Next, Election!LeaderTimeout, Election!Receive

-----------------------------------------------------------------------------
(* The votes that time out.                                                *)

LEMMA VoteAllowed ==
    ASSUME NEW v \in Follower, Follower # {v}
    PROVE  Vote(v) \in Message /\ Vote(v) \in Allowed(Edge(v)) /\ Vote(v).kind = "VOTE"
<1>1. OldEdge(Edge(v)) /\ Edge(v)[2] = v
  BY EdgeIs
<1>2. Vote(v) \in Message /\ Vote(v).kind = "VOTE" /\ Vote(v).id = v
  BY MessageTypes, FollowersInOrder DEF Vote
<1> QED
  BY <1>1, <1>2 DEF Allowed, OfElection

LEMMA StartVoteStep ==
    ASSUME IInv, Orderly, FollowersUp, FollowersUp', NEW v \in Server, StartVote(v)
    PROVE  Orderly' /\ Elects
<1> DEFINE n == Pos(v)
           m == Vote(v)
           a == Sent(chan, v, lst[v][3], m)
           k == Edge(v)
<1>1. v \in Follower /\ ~Left(v) /\ ~Up(OldLeader) /\ ~NoSecond(v) /\ ~participant[v]
  BY TimedOut DEF StartVote
<1>2. Follower # {v} /\ ~Leads(v)
  BY <1>1, Staying
<1>3. m \in Message /\ m \in Allowed(k) /\ m.kind = "VOTE"
  BY <1>1, <1>2, VoteAllowed
<1>4. /\ participant' = [participant EXCEPT ![v] = TRUE]
      /\ chan' = Sent(a, v, lst[v][3], m)
      /\ UNCHANGED <<status, lst, ltcp, succ, mc, spent>>
  BY DEF StartVote
<1>5. chan \in Channels
  BY DEF IInv, TypeOK, Channels
<1> HIDE DEF m
<1>6. SentTo(v, chan, m, a)
  BY <1>1, <1>3, <1>5, SendOnRing
<1> HIDE DEF a
<1>7. SentTo(v, a, m, chan')
  BY <1>1, <1>3, <1>4, <1>6, SendOnRing DEF SentTo
<1>8. Orderly'
  <2>1. chan[k] \in Seq(Allowed(k)) /\ ~Announces(chan[k])
    BY <1>1, <1>2, EdgeAhead
  <2>2. a[k] \in Seq(Allowed(k)) /\ ~Announces(a[k])
    BY <1>3, <1>6, <2>1, AppendOf DEF SentTo
  <2>3. chan'[k] \in Seq(Allowed(k)) /\ ~Announces(chan'[k])
    BY <1>3, <1>7, <2>2, AppendOf DEF SentTo
  <2>4. \A d \in Conn : d # k => chan'[d] = chan[d]
    BY <1>6, <1>7 DEF SentTo
  <2>5. \A d \in Conn : ~OldEdge(d) => d # k
    BY <1>1, <1>2, EdgeIs
  <2>6. \A f \in Follower : f # v => participant'[f] = participant[f]
    BY <1>4
  <2> QED
    BY <1>1, <1>2, <1>4, <2>3, <2>4, <2>5, <2>6, VoterKeeps DEF ReadsOrNot
<1>9. Election!StartVote(n)
  <2>1. /\ n \in Election!Node /\ RingId[n] = v /\ OfRing(status)[n] = "up"
        /\ ~OfRing(participant)[n] /\ ~RingLeads[n] /\ RingPeers[n] = "ring"
    BY <1>1, <1>2, Seen
  <2>2. /\ OfRing(status)' = OfRing(status) /\ RingLeads' = RingLeads
        /\ RingPeers' = RingPeers /\ RingAsking' = RingAsking
    BY <1>4, ListsUnseen
  <2>3. OfRing(participant)' = [OfRing(participant) EXCEPT ![n] = TRUE]
    BY <1>1, <1>4, ParticipantSeen
  <2>4. RingInbox(chan)' = Election!Sent(Election!Sent(RingInbox(chan), n, m), n, m)
    <3>1. RingInbox(chan)' = RingInbox(chan')
      BY DEF RingInbox
    <3> QED
      BY <1>6, <1>7, <3>1 DEF SentTo
  <2>5. Election!VoteFor(n) = m
    BY <2>1 DEF Election!VoteFor, m, Vote
  <2>6. spent'.repeat = spent.repeat
    BY <1>4
  <2> HIDE DEF n
  <2> QED
    BY <2>1, <2>2, <2>3, <2>4, <2>5, <2>6 DEF Election!StartVote
<1>10. n \in Election!Node
  BY <1>1, Seen
<1> QED
  BY <1>8, <1>9, <1>10, IsElected

LEMMA RepeatVoteStep ==
    ASSUME IInv, Orderly, FollowersUp, FollowersUp', NEW v \in Server, RepeatVote(v)
    PROVE  Orderly' /\ Elects
<1> DEFINE n == Pos(v)
           m == Vote(v)
           k == Edge(v)
<1>1. v \in Follower /\ ~Left(v) /\ ~Up(OldLeader) /\ ~NoSecond(v) /\ participant[v]
  BY TimedOut DEF RepeatVote
<1>2. Follower # {v} /\ ~Leads(v)
  BY <1>1, Staying
<1>3. m \in Message /\ m \in Allowed(k) /\ m.kind = "VOTE"
  BY <1>1, <1>2, VoteAllowed
<1>4. /\ chan' = Sent(chan, v, lst[v][3], m)
      /\ spent.repeat < MaxRepeat /\ spent'.repeat = spent.repeat + 1
      /\ UNCHANGED <<status, lst, participant, ltcp, succ, mc>>
  BY DEF RepeatVote, IInv, TypeOK
<1>5. chan \in Channels
  BY DEF IInv, TypeOK, Channels
<1> HIDE DEF m
<1>6. SentTo(v, chan, m, chan')
  BY <1>1, <1>3, <1>4, <1>5, SendOnRing
<1>8. Orderly'
  <2>1. chan[k] \in Seq(Allowed(k)) /\ ~Announces(chan[k])
    BY <1>1, <1>2, EdgeAhead
  <2>2. chan'[k] \in Seq(Allowed(k)) /\ ~Announces(chan'[k])
    BY <1>3, <1>6, <2>1, AppendOf DEF SentTo
  <2>3. \A d \in Conn : d # k => chan'[d] = chan[d]
    BY <1>6 DEF SentTo
  <2>4. \A d \in Conn : ~OldEdge(d) => d # k
    BY <1>1, <1>2, EdgeIs
  <2> QED
    BY <1>1, <1>2, <1>4, <2>2, <2>3, <2>4, VoterKeeps DEF ReadsOrNot
<1>9. Election!RepeatVote(n)
  <2>1. /\ n \in Election!Node /\ RingId[n] = v /\ OfRing(status)[n] = "up"
        /\ OfRing(participant)[n] /\ ~RingLeads[n] /\ RingPeers[n] = "ring"
    BY <1>1, <1>2, Seen
  <2>2. /\ OfRing(status)' = OfRing(status) /\ RingLeads' = RingLeads
        /\ RingPeers' = RingPeers /\ RingAsking' = RingAsking
        /\ OfRing(participant)' = OfRing(participant)
    BY <1>4, ListsUnseen DEF OfRing
  <2>3. RingInbox(chan)' = Election!Sent(RingInbox(chan), n, m)
    <3>1. RingInbox(chan)' = RingInbox(chan')
      BY DEF RingInbox
    <3> QED
      BY <1>6, <3>1 DEF SentTo
  <2>4. Election!VoteFor(n) = m
    BY <2>1 DEF Election!VoteFor, m, Vote
  <2> HIDE DEF n
  <2> QED
    BY <1>4, <2>1, <2>2, <2>3, <2>4 DEF Election!RepeatVote
<1>10. n \in Election!Node
  BY <1>1, Seen
<1> QED
  BY <1>8, <1>9, <1>10, IsElected

-----------------------------------------------------------------------------
(* The votes that are read.                                                *)

(* What the reader of a message of the election knows of the election.     *)
LEMMA Received ==
    ASSUME IInv, Orderly, FollowersUp, NEW v \in Server, NEW c \in Conn,
           NEW kind \in {"VOTE", "LEADER"}, Reads(v, c, kind), NEW n, n = Pos(v)
    PROVE  /\ v \in Follower /\ Follower # {v} /\ n \in Election!Node /\ RingId[n] = v
           /\ Election!Receives(n, kind) /\ Head(RingInbox(chan)[n]) = Head(chan[c])
           /\ OfRing(participant)[n] = participant[v] /\ RingLeads[n] = Leads(v)
           /\ RingPeers[n] = IF Left(v) THEN "alone" ELSE "ring"
           /\ RingInbox(Consumed(c)) = [RingInbox(chan) EXCEPT ![n] = Tail(@)]
<1>1. /\ OldEdge(c) /\ c[3] = v /\ v \in Follower /\ chan[c] # << >>
      /\ Head(chan[c]).kind = kind
  BY ElectionMessages
<1>2. Follower # {v}
  BY <1>1, OldEdgeIs
<1>3. ~Left(v) => ~NoSecond(v)
  BY <1>1, <1>2, Staying
<1>4. /\ n \in Election!Node /\ RingId[n] = v /\ OfRing(status)[n] = "up"
      /\ OfRing(participant)[n] = participant[v] /\ RingLeads[n] = Leads(v)
      /\ RingPeers[n] = IF Left(v) THEN "alone" ELSE IF NoSecond(v) THEN "cut" ELSE "ring"
      /\ RingInbox(chan)[n] = chan[c]
  BY <1>1, Seen
<1>5. RingInbox(Consumed(c)) = [RingInbox(chan) EXCEPT ![n] = Tail(@)]
  BY <1>1, ReadOnRing
<1> QED
  BY <1>1, <1>2, <1>3, <1>4, <1>5 DEF Election!Receives

(* A message of the election is read and thrown away.                      *)
LEMMA IgnoreStep ==
    ASSUME IInv, Orderly, FollowersUp, FollowersUp', NEW v \in Server, NEW c \in Conn,
           Reads(v, c, "VOTE"), Ignore(c)
    PROVE  Orderly' /\ Election!Ignore(Pos(v))
<1> DEFINE n == Pos(v)
<1>1. chan' = Consumed(c) /\ UNCHANGED <<status, lst, participant, ltcp, succ, mc, spent>>
  BY DEF Ignore, locals
<1>2. /\ OldEdge(c) /\ c[3] = v /\ v \in Follower /\ chan[c] # << >> /\ ~Up(OldLeader)
      /\ ~Left(v) \/ (Leads(v) /\ participant[v])
  BY ElectionMessages
<1>3. /\ chan'[c] = Tail(chan[c]) /\ \A d \in Conn : d # c => chan'[d] = chan[d]
  BY <1>1, <1>2, ConsumedIs
<1>4. Orderly'
  <2>1. CASE ~Left(v)
    <3>1. Follower # {v} /\ c # Edge(v)
      BY <1>2, OldEdgeIs
    <3>2. chan[Edge(v)] \in Seq(Allowed(Edge(v))) /\ ~Announces(chan[Edge(v)]) /\ Edge(v) \in Conn
      BY <1>2, <2>1, <3>1, EdgeAhead
    <3>3. chan'[Edge(v)] = chan[Edge(v)]
      BY <1>3, <3>1, <3>2
    <3>4. \A d \in Conn : ReadsOrNot(d)
      BY <1>2, <1>3 DEF ReadsOrNot
    <3>5. \A d \in Conn : ~OldEdge(d) => chan'[d] = chan[d]
      BY <1>2, <1>3
    <3>6. \A f \in Follower : participant'[f] = participant[f]
      BY <1>1
    <3> QED
      BY <1>1, <1>2, <2>1, <3>1, <3>2, <3>3, <3>4, <3>5, <3>6, VoterKeeps
  <2>2. CASE Leads(v) /\ participant[v]
    BY <1>1, <1>2, <2>2, WinnerKeeps
  <2> QED
    BY <1>2, <2>1, <2>2
<1>5. Election!Ignore(n)
  <2>1. RingInbox(Consumed(c)) = [RingInbox(chan) EXCEPT ![n] = Tail(@)]
    BY Received
  <2>2. RingInbox(chan)' = RingInbox(Consumed(c))
    BY <1>1 DEF RingInbox
  <2>3. /\ OfRing(status)' = OfRing(status) /\ RingLeads' = RingLeads
        /\ RingPeers' = RingPeers /\ RingAsking' = RingAsking
        /\ OfRing(participant)' = OfRing(participant) /\ spent'.repeat = spent.repeat
    BY <1>1, ListsUnseen DEF OfRing
  <2> HIDE DEF n
  <2> QED
    BY <2>1, <2>2, <2>3 DEF Election!Ignore, Election!Consume
<1> QED
  BY <1>4, <1>5

(* A vote is read and one is sent on.                                      *)
LEMMA PassStep ==
    ASSUME IInv, Orderly, FollowersUp, FollowersUp', NEW v \in Server, NEW c \in Conn,
           Reads(v, c, "VOTE"), ~Left(v), NEW msg \in Message, msg.kind = "VOTE",
           msg \in Allowed(Edge(v)), Forward(v, c, msg),
           \A f \in Follower : f # v => participant'[f] = participant[f],
           UNCHANGED <<status, lst, ltcp, succ, mc, spent>>
    PROVE  Orderly' /\ Election!ConsumeAndSend(Pos(v), msg)
<1> DEFINE n == Pos(v)
           a == Consumed(c)
           k == Edge(v)
<1>1. OldEdge(c) /\ c[3] = v /\ v \in Follower /\ chan[c] # << >> /\ ~Up(OldLeader)
  BY ElectionMessages
<1>2. Follower # {v} /\ c # k /\ ~NoSecond(v)
  BY <1>1, OldEdgeIs, Staying
<1>3. a \in Channels /\ a[c] = Tail(chan[c]) /\ \A d \in Conn : d # c => a[d] = chan[d]
  BY <1>1, ConsumedIs
<1>4. chan' = Sent(a, v, lst[v][3], msg)
  BY DEF Forward
<1> HIDE DEF a
<1>5. SentTo(v, a, msg, chan')
  BY <1>1, <1>2, <1>3, <1>4, SendOnRing
<1>6. Orderly'
  <2>1. chan[k] \in Seq(Allowed(k)) /\ ~Announces(chan[k]) /\ k \in Conn /\ OldEdge(k)
    BY <1>1, <1>2, EdgeAhead
  <2>2. chan'[k] = Append(chan[k], msg) /\ \A d \in Conn : d # k => chan'[d] = a[d]
    BY <1>2, <1>3, <1>5, <2>1 DEF SentTo
  <2>3. chan'[k] \in Seq(Allowed(k)) /\ ~Announces(chan'[k])
    BY <2>1, <2>2, AppendOf
  <2>4. \A d \in Conn : d # k => ReadsOrNot(d)
    BY <1>1, <1>3, <2>2 DEF ReadsOrNot
  <2>5. \A d \in Conn : ~OldEdge(d) => chan'[d] = chan[d]
    BY <1>1, <1>3, <2>1, <2>2
  <2> QED
    BY <1>1, <1>2, <2>3, <2>4, <2>5, VoterKeeps
<1>7. Election!ConsumeAndSend(n, msg)
  <2>1. RingInbox(a) = [RingInbox(chan) EXCEPT ![n] = Tail(@)]
    BY Received DEF a
  <2>2. RingInbox(chan)' = RingInbox(chan')
    BY DEF RingInbox
  <2> HIDE DEF n
  <2> QED
    BY <1>5, <2>1, <2>2 DEF SentTo, Election!ConsumeAndSend, n
<1> QED
  BY <1>6, <1>7

(* Who reads a greater vote is still in the old ring.                      *)
LEMMA GreaterVote ==
    ASSUME IInv, Orderly, NEW v \in Server, NEW c \in Conn, Reads(v, c, "VOTE"),
           Head(chan[c]).id > v
    PROVE  Head(chan[c]).id \in Follower /\ IsTop(Head(chan[c]).id) /\ ~Left(v)
<1> DEFINE m == Head(chan[c])
<1>1. /\ OldEdge(c) /\ c[3] = v /\ v \in Follower /\ OfElection(c, m)
      /\ m.kind = "VOTE" /\ (~Left(v) \/ (Leads(v) /\ participant[v]))
  BY ElectionMessages
<1>2. m.id \in Follower /\ IsTop(m.id)
  <2>1. c[2] \in Follower /\ v = NextOf(c[2], Follower) /\ c[2] \in Nat /\ v \in Nat
    BY <1>1, FollowersInOrder DEF OldEdge
  <2>2. m.id = c[2] => IsTop(c[2])
    BY <2>1, Neighbour
  <2> QED
    BY <1>1, <2>1, <2>2 DEF OfElection
<1>3. Leads(v) => IsTop(v)
  BY <1>1 DEF Orderly, Wins
<1>4. ~IsTop(v)
  <2>1. v \in Nat /\ m.id \in Nat
    BY <1>1, <1>2, FollowersInOrder
  <2> QED
    BY <1>2, <2>1 DEF IsTop
<1> QED
  BY <1>1, <1>2, <1>3, <1>4

LEMMA RecvVoteGreaterStep ==
    ASSUME IInv, Orderly, FollowersUp, FollowersUp', NEW v \in Server, NEW c \in Conn,
           RecvVoteGreater(v, c)
    PROVE  Orderly' /\ Elects
<1> DEFINE n == Pos(v)
           m == Head(chan[c])
<1>1. Reads(v, c, "VOTE") /\ m.id > v
  BY DEF RecvVoteGreater
<1>2. /\ OldEdge(c) /\ c[3] = v /\ v \in Follower /\ OfElection(c, m) /\ m \in Message
      /\ m.kind = "VOTE" /\ (~Left(v) \/ (Leads(v) /\ participant[v]))
  BY <1>1, ElectionMessages
<1>3. m.id \in Follower /\ IsTop(m.id) /\ ~Left(v)
  BY <1>1, GreaterVote
<1>4. /\ v \in Follower /\ Follower # {v} /\ n \in Election!Node /\ RingId[n] = v
      /\ Election!Receives(n, "VOTE") /\ Head(RingInbox(chan)[n]) = m /\ RingPeers[n] = "ring"
  BY <1>1, <1>3, Received
<1>5. ~Alone(v) /\ ~NoSecond(v)
  BY <1>2, <1>3, <1>4, Staying
<1>6. CASE NullDeref(v)
  BY <1>6, EndStep
<1>7. CASE Forward(v, c, m) /\ UNCHANGED <<status, locals, mc, spent>>
  <2>1. m \in Allowed(Edge(v))
    <3>1. OldEdge(Edge(v))
      BY <1>4, EdgeIs
    <3> QED
      BY <1>2, <1>3, <3>1 DEF Allowed, OfElection
  <2>2. UNCHANGED <<status, lst, participant, ltcp, succ, mc, spent>>
    BY <1>7 DEF locals
  <2> HIDE DEF m
  <2>3. Orderly' /\ Election!ConsumeAndSend(n, m)
    BY <1>1, <1>2, <1>3, <1>7, <2>1, <2>2, PassStep
  <2>4. /\ OfRing(status)' = OfRing(status) /\ RingLeads' = RingLeads
        /\ RingPeers' = RingPeers /\ RingAsking' = RingAsking
        /\ OfRing(participant)' = OfRing(participant) /\ spent'.repeat = spent.repeat
    BY <2>2, ListsUnseen DEF OfRing
  <2> HIDE DEF n
  <2>5. Election!RecvVoteGreater(n)
    BY <1>1, <1>4, <2>3, <2>4 DEF Election!RecvVoteGreater
  <2> QED
    BY <1>4, <2>3, <2>5, IsElected
<1> QED
  BY <1>5, <1>6, <1>7 DEF RecvVoteGreater

LEMMA RecvVoteSmallerStep ==
    ASSUME IInv, Orderly, FollowersUp, FollowersUp', NEW v \in Server, NEW c \in Conn,
           RecvVoteSmaller(v, c)
    PROVE  Orderly' /\ Elects
<1> DEFINE n == Pos(v)
           m == Head(chan[c])
<1>1. Reads(v, c, "VOTE") /\ m.id < v
  BY DEF RecvVoteSmaller
<1>2. /\ OldEdge(c) /\ c[3] = v /\ v \in Follower
      /\ ~Left(v) \/ (Leads(v) /\ participant[v])
  BY <1>1, ElectionMessages
<1>3. /\ v \in Follower /\ Follower # {v} /\ n \in Election!Node /\ RingId[n] = v
      /\ Election!Receives(n, "VOTE") /\ Head(RingInbox(chan)[n]) = m
      /\ OfRing(participant)[n] = participant[v]
      /\ RingPeers[n] = IF Left(v) THEN "alone" ELSE "ring"
  BY <1>1, Received
<1> HIDE DEF m
<1>4. CASE (Alone(v) \/ participant[v]) /\ Ignore(c)
  <2>1. Orderly' /\ Election!Ignore(n)
    BY <1>1, <1>4, IgnoreStep
  <2>2. participant[v]
    BY <1>2, <1>4, Staying
  <2> HIDE DEF n
  <2>3. Election!RecvVoteSmaller(n)
    BY <1>1, <1>3, <2>1, <2>2 DEF Election!RecvVoteSmaller
  <2> QED
    BY <1>3, <2>1, <2>3, IsElected
<1>5. CASE NullDeref(v)
  BY <1>5, EndStep
<1>6. CASE /\ ~NoSecond(v) /\ ~participant[v]
           /\ participant' = [participant EXCEPT ![v] = TRUE]
           /\ Forward(v, c, Vote(v))
           /\ UNCHANGED <<status, lst, ltcp, succ, mc, spent>>
  <2>1. ~Left(v)
    BY <1>2, <1>6
  <2>2. Vote(v) \in Message /\ Vote(v) \in Allowed(Edge(v)) /\ Vote(v).kind = "VOTE"
    BY <1>3, VoteAllowed
  <2>3. \A f \in Follower : f # v => participant'[f] = participant[f]
    BY <1>6
  <2>4. Orderly' /\ Election!ConsumeAndSend(n, Vote(v))
    BY <1>1, <1>6, <2>1, <2>2, <2>3, PassStep
  <2>5. /\ OfRing(status)' = OfRing(status) /\ RingLeads' = RingLeads
        /\ RingPeers' = RingPeers /\ RingAsking' = RingAsking /\ spent'.repeat = spent.repeat
    BY <1>6, ListsUnseen
  <2>6. OfRing(participant)' = [OfRing(participant) EXCEPT ![n] = TRUE]
    BY <1>2, <1>6, ParticipantSeen
  <2>7. Election!VoteFor(n) = Vote(v)
    BY <1>3 DEF Election!VoteFor, Vote
  <2> HIDE DEF n
  <2>8. Election!RecvVoteSmaller(n)
    BY <1>1, <1>3, <1>6, <2>1, <2>4, <2>5, <2>6, <2>7 DEF Election!RecvVoteSmaller
  <2> QED
    BY <1>3, <2>4, <2>8, IsElected
<1> QED
  BY <1>4, <1>5, <1>6 DEF RecvVoteSmaller, m

LEMMA RecvLeaderMineStep ==
    ASSUME IInv, Orderly, FollowersUp, FollowersUp', NEW v \in Server, NEW c \in Conn,
           RecvLeaderMine(v, c)
    PROVE  Orderly' /\ Elects
<1> DEFINE n == Pos(v)
           m == Head(chan[c])
<1>1. /\ Reads(v, c, "LEADER") /\ m.id = v
      /\ participant' = [participant EXCEPT ![v] = FALSE]
      /\ chan' = Consumed(c)
      /\ UNCHANGED <<status, lst, ltcp, succ, mc, spent>>
  BY DEF RecvLeaderMine
<1>2. /\ OldEdge(c) /\ c[3] = v /\ v \in Follower /\ OfElection(c, m) /\ chan[c] # << >>
      /\ m.kind = "LEADER" /\ ~Up(OldLeader) /\ (~Left(v) \/ (Leads(v) /\ participant[v]))
  BY <1>1, ElectionMessages
<1>3. Leads(v) /\ participant[v]
  <2>1. Leads(v)
    BY <1>1, <1>2 DEF OfElection
  <2> QED
    BY <1>2, <2>1, Staying
<1>4. /\ n \in Election!Node /\ RingId[n] = v
      /\ Election!Receives(n, "LEADER") /\ Head(RingInbox(chan)[n]) = m
      /\ RingInbox(Consumed(c)) = [RingInbox(chan) EXCEPT ![n] = Tail(@)]
  BY <1>1, Received
<1>5. \A f \in Follower : f # v => participant'[f] = participant[f]
  BY <1>1
<1>6. Orderly'
  BY <1>1, <1>2, <1>3, <1>5, WinnerKeeps
<1>7. /\ OfRing(status)' = OfRing(status) /\ RingLeads' = RingLeads
      /\ RingPeers' = RingPeers /\ RingAsking' = RingAsking /\ spent'.repeat = spent.repeat
  BY <1>1, ListsUnseen
<1>8. OfRing(participant)' = [OfRing(participant) EXCEPT ![n] = FALSE]
  BY <1>1, <1>2, ParticipantSeen
<1>9. RingInbox(chan)' = RingInbox(Consumed(c))
  BY <1>1 DEF RingInbox
<1> HIDE DEF n, m
<1>10. Election!RecvLeaderMine(n)
  BY <1>1, <1>4, <1>7, <1>8, <1>9 DEF Election!RecvLeaderMine, Election!Consume
<1> QED
  BY <1>4, <1>6, <1>10, IsElected

-----------------------------------------------------------------------------
(* A follower leaves the old ring: its list is cut to itself.              *)

Leaves(v, m) ==
    /\ v \in Follower /\ ~Left(v) /\ ~Up(OldLeader)
    /\ Len(m) = 1 /\ lst' = [lst EXCEPT ![v] = m]

LEMMA LeaverIs ==
    ASSUME IInv, Orderly, NEW v, NEW m, Leaves(v, m)
    PROVE  /\ lst'[v] = m /\ Left(v)' /\ Alone(v)' /\ Leads(v)' = m[1].leader /\ Ids(m) = {}
           /\ PeersOk(v)'
           /\ ~Leads(v)
           /\ \A f \in Server : f # v =>
                /\ lst'[f] = lst[f] /\ Left(f)' = Left(f) /\ Alone(f)' = Alone(f)
                /\ Leads(f)' = Leads(f)
           /\ \A w \in Follower : Leads(w) => w # v /\ v \notin Ids(lst[w])
<1>1. v \in Server /\ lst \in [Server -> Records]
  BY FollowersInOrder DEF Leaves, IInv, TypeOK, Records, Record
<1>2. lst'[v] = m /\ \A f \in Server : f # v => lst'[f] = lst[f]
  BY <1>1 DEF Leaves
<1>3. \A i \in Nat : i = 1 => 2 .. i = {} /\ ~(i > 1)
  OBVIOUS
<1>4. 2 .. Len(m) = {} /\ ~(Len(m) > 1)
  BY <1>3 DEF Leaves
<1>5. ~Leads(v)
  BY Staying DEF Leaves
<1>6. \A w \in Follower : Leads(w) => w # v /\ v \notin Ids(lst[w])
  BY <1>5 DEF Orderly, Wins, Leaves
<1>7. Left(v)' /\ Alone(v)' /\ Leads(v)' = m[1].leader
  BY <1>2, <1>4 DEF Left, InOldRing, Alone, Leads, Leaves
<1>8. Ids(m) = {} /\ PeersOk(v)'
  BY <1>2, <1>4 DEF Ids, PeersOk
<1>9. ASSUME NEW f \in Server, f # v
      PROVE  /\ lst'[f] = lst[f] /\ Left(f)' = Left(f) /\ Alone(f)' = Alone(f)
             /\ Leads(f)' = Leads(f)
  BY <1>2, <1>9 DEF Left, InOldRing, Alone, Leads
<1> QED
  BY <1>2, <1>5, <1>6, <1>7, <1>8, <1>9

(* What a connection may carry it still may carry.                         *)
LEMMA LeaverAllows ==
    ASSUME IInv, Orderly, NEW v, NEW m, Leaves(v, m), NEW c \in Conn
    PROVE  Allowed(c) \subseteq Allowed(c)'
<1>1. /\ ~Leads(v) /\ \A f \in Server : f # v => lst'[f] = lst[f] /\ Leads(f)' = Leads(f)
  BY LeaverIs
<1>2. Follower \subseteq Server
  BY FollowersInOrder
<1>3. \A f \in Follower : Leads(f) => Leads(f)' /\ lst'[f] = lst[f]
  BY <1>1, <1>2
<1>4. ASSUME NEW x \in Message PROVE OfElection(c, x) => OfElection(c, x)'
  BY <1>3 DEF OfElection
<1>5. ASSUME NEW x \in Message PROVE OfLeader(c, x) => OfLeader(c, x)'
  BY <1>3 DEF OfLeader
<1> QED
  BY <1>4, <1>5 DEF Allowed

LEMMA LeaverKeeps ==
    ASSUME IInv, Orderly, NEW v, NEW m, Leaves(v, m), UNCHANGED status,
           m[1].leader => IsTop(v), Succs',
           \A c \in Conn : IF OldEdge(c) THEN chan'[c] \in Seq(Allowed(c)') /\ SweptAt(c)'
                           ELSE chan'[c] = chan[c],
           \A u \in Server : \A d \in mc'[u] : d.kind = "WHO_IS_LEADER" =>
               d \in mc[u] \/ (d.id = v /\ ~m[1].leader)
    PROVE  Orderly'
<1>0. Follower \subseteq Server /\ v \in Follower /\ ~Up(OldLeader) /\ ~Left(v)
  BY FollowersInOrder DEF Leaves
<1>1. /\ lst'[v] = m /\ Left(v)' /\ Alone(v)' /\ Leads(v)' = m[1].leader /\ Ids(m) = {}
      /\ PeersOk(v)' /\ ~Leads(v)
  BY LeaverIs
<1>2. \A f \in Server : f # v =>
          /\ lst'[f] = lst[f] /\ Left(f)' = Left(f) /\ Alone(f)' = Alone(f)
          /\ Leads(f)' = Leads(f)
  BY LeaverIs
<1>3. \A w \in Follower : Leads(w) => w # v /\ v \notin Ids(lst[w])
  BY LeaverIs
<1>4. Begins'
  BY <1>0 DEF Begins, Up
<1>5. Stays'
  BY <1>0, <1>1, <1>2 DEF Orderly, Stays
<1>6. Wins'
  <2> SUFFICES ASSUME NEW w \in Follower, Leads(w)'
               PROVE  /\ IsTop(w) /\ Left(w)' /\ PeersOk(w)'
                      /\ \A p \in Ids(lst'[w]) : Left(p)' /\ ~Leads(p)' /\ Follows(p, w)'
    BY DEF Wins, IsTop
  <2>1. CASE w = v
    BY <1>1, <2>1
  <2>2. CASE w # v
    <3>1. Leads(w) /\ lst'[w] = lst[w]
      BY <1>0, <1>2, <2>2
    <3>2. /\ IsTop(w) /\ Left(w) /\ PeersOk(w)
          /\ \A p \in Ids(lst[w]) : Left(p) /\ ~Leads(p) /\ Follows(p, w)
      BY <3>1 DEF Orderly, Wins
    <3>3. IsTop(w) /\ Left(w)' /\ PeersOk(w)'
      BY <1>0, <1>2, <2>2, <3>1, <3>2 DEF PeersOk
    <3>4. ASSUME NEW p \in Ids(lst[w]) PROVE Left(p)' /\ ~Leads(p)' /\ Follows(p, w)'
      <4>1. Left(p) /\ ~Leads(p) /\ Follows(p, w) /\ p \in Follower /\ p # w
        BY <3>1, <3>2 DEF PeersOk, Ids
      <4>2. p # v /\ p \in Server /\ w \in Server
        BY <1>0, <4>1
      <4>3. <<"lead", w, p>> \in Conn /\ ~OldEdge(<<"lead", w, p>>)
        BY <4>1, <4>2 DEF Conn, Link, OldEdge
      <4>4. chan'[<<"lead", w, p>>] = chan[<<"lead", w, p>>]
        BY <4>3
      <4>5. Left(p)' /\ ~Leads(p)' /\ lst'[p] = lst[p] /\ Alone(p)' = Alone(p)
        BY <1>2, <4>1, <4>2
      <4> QED
        BY <4>1, <4>4, <4>5 DEF Follows
    <3> QED
      BY <3>1, <3>3, <3>4
  <2> QED
    BY <2>1, <2>2
<1>7. Seeks'
  <2> SUFFICES ASSUME NEW f \in Follower, Left(f)', ~Leads(f)', ~Alone(f)'
               PROVE  (LET w == lst[f][2].id IN w \in Follower /\ Leads(w) /\ f \in Ids(lst[w]))'
    BY DEF Seeks
  <2>1. f # v /\ f \in Server
    BY <1>0, <1>1
  <2>2. Left(f) /\ ~Leads(f) /\ ~Alone(f) /\ lst'[f] = lst[f]
    BY <1>2, <2>1
  <2>3. PICK w \in Follower : w = lst[f][2].id /\ Leads(w) /\ f \in Ids(lst[w])
    BY <2>2 DEF Orderly, Seeks
  <2>4. w # v /\ w \in Server
    BY <1>0, <1>3, <2>3
  <2>5. Leads(w)' /\ lst'[w] = lst[w]
    BY <1>2, <2>3, <2>4
  <2> QED
    BY <2>2, <2>3, <2>5 DEF Leads
<1>8. Carry'
  <2> SUFFICES ASSUME NEW c \in Conn PROVE chan'[c] \in Seq(Allowed(c)')
    BY DEF Carry
  <2>1. CASE OldEdge(c)
    BY <2>1
  <2>2. CASE ~OldEdge(c)
    <3> DEFINE A == Allowed(c)
               B == Allowed(c)'
    <3>1. chan'[c] = chan[c] /\ chan[c] \in Seq(A)
      BY <2>2 DEF Orderly, Carry
    <3>2. A \subseteq B
      BY LeaverAllows
    <3> HIDE DEF A, B
    <3>3. chan[c] \in Seq(B)
      BY <3>1, <3>2
    <3> QED
      BY <3>1, <3>3 DEF B
  <2> QED
    BY <2>1, <2>2
<1>9. Swept'
  BY DEF Swept, OldEdge
<1>10. Asks'
  <2> SUFFICES ASSUME NEW u \in Server, NEW d \in mc'[u], d.kind = "WHO_IS_LEADER"
               PROVE  /\ d.id \in Follower /\ Left(d.id)' /\ ~Leads(d.id)'
                      /\ u \in Follower /\ Leads(u)' => d.id \notin Ids(lst'[u])
    BY DEF Asks
  <2>1. CASE d \in mc[u]
    <3>1. /\ d.id \in Follower /\ Left(d.id) /\ ~Leads(d.id)
          /\ u \in Follower /\ Leads(u) => d.id \notin Ids(lst[u])
      BY <2>1 DEF Orderly, Asks
    <3>2. d.id # v /\ d.id \in Server
      BY <1>0, <3>1
    <3>3. Left(d.id)' /\ ~Leads(d.id)'
      BY <1>2, <3>1, <3>2
    <3> QED
      BY <1>1, <1>2, <3>1, <3>3
  <2>2. CASE d.id = v /\ ~m[1].leader
    BY <1>0, <1>1, <1>2, <1>3, <2>2
  <2> QED
    BY <2>1, <2>2
<1> QED
  BY <1>4, <1>5, <1>6, <1>7, <1>8, <1>9, <1>10 DEF Orderly

(* What the election sees of it.                                           *)
LEMMA LeaverSeen ==
    ASSUME IInv, Orderly, FollowersUp, FollowersUp', NEW v, NEW m, Leaves(v, m),
           m[1].leader \in BOOLEAN, NEW n, n = Pos(v)
    PROVE  /\ OfRing(status)' = OfRing(status)
           /\ RingLeads' = [RingLeads EXCEPT ![n] = m[1].leader]
           /\ RingPeers' = [RingPeers EXCEPT ![n] = "alone"]
           /\ RingAsking' = IF m[1].leader THEN RingAsking ELSE RingAsking \cup {n}
<1>1. DOMAIN RingId = Positions /\ \A k \in Positions : RingId[k] \in Follower
  BY RingIdIs
<1>2. v \in Follower /\ Follower \subseteq Server /\ ~Left(v)
  BY FollowersInOrder DEF Leaves
<1>3. n \in Positions /\ RingId[n] = v /\ \A k \in Positions : RingId[k] = v => k = n
  BY <1>2, PosIs
<1>4. OfRing(status)' = OfRing(status)
  BY <1>1 DEF OfRing, FollowersUp, Up
<1>5. Left(v)' /\ Leads(v)' = m[1].leader /\ ~Leads(v)
  BY LeaverIs
<1>6. ASSUME NEW k \in Positions, k # n
      PROVE  /\ RingId[k] # v /\ Left(RingId[k])' = Left(RingId[k])
             /\ Leads(RingId[k])' = Leads(RingId[k])
             /\ NoSecond(RingId[k])' = NoSecond(RingId[k])
  <2>1. RingId[k] \in Server /\ RingId[k] # v
    BY <1>1, <1>2, <1>3, <1>6
  <2>2. lst'[RingId[k]] = lst[RingId[k]]
    BY <2>1, LeaverIs
  <2> QED
    BY <2>1, <2>2 DEF Left, InOldRing, Leads, NoSecond
<1>7. RingLeads' = [RingLeads EXCEPT ![n] = m[1].leader]
  <2>1. /\ RingLeads = [k \in Positions |-> Leads(RingId[k])]
        /\ RingLeads' = [k \in Positions |-> Leads(RingId[k])']
    BY <1>1 DEF RingLeads
  <2> QED
    BY <1>3, <1>5, <1>6, <2>1
<1>8. RingPeers' = [RingPeers EXCEPT ![n] = "alone"]
  <2> DEFINE g(k) == IF ~InOldRing(RingId[k]) THEN "alone"
                     ELSE IF NoSecond(RingId[k]) THEN "cut" ELSE "ring"
  <2>1. RingPeers = [k \in Positions |-> g(k)] /\ RingPeers' = [k \in Positions |-> g(k)']
    BY <1>1 DEF RingPeers
  <2>2. g(n)' = "alone"
    BY <1>3, <1>5 DEF Left
  <2>3. \A k \in Positions : k # n => g(k)' = g(k)
    BY <1>6 DEF Left
  <2> HIDE DEF g
  <2> QED
    BY <1>3, <2>1, <2>2, <2>3
<1>9. RingAsking' = IF m[1].leader THEN RingAsking ELSE RingAsking \cup {n}
  <2>1. /\ RingAsking = {k \in Positions : Left(RingId[k]) /\ ~Leads(RingId[k])}
        /\ RingAsking' = {k \in Positions : Left(RingId[k])' /\ ~Leads(RingId[k])'}
    BY <1>1 DEF RingAsking, Left
  <2>2. n \notin RingAsking
    BY <1>2, <1>3, <2>1
  <2>3. n \in RingAsking' <=> ~m[1].leader
    BY <1>3, <1>5, <2>1
  <2>4. \A k \in Positions : k # n => (k \in RingAsking' <=> k \in RingAsking)
    BY <1>6, <2>1
  <2> QED
    BY <1>3, <2>1, <2>2, <2>3, <2>4
<1> QED
  BY <1>4, <1>7, <1>8, <1>9

LEMMA ClaimAloneStep ==
    ASSUME IInv, Orderly, FollowersUp, FollowersUp', NEW v \in Server, ClaimAlone(v)
    PROVE  Orderly' /\ Elects
<1> DEFINE n == Pos(v)
           l == lst[v]
           k == Claimed(l)
           m == delete_server(k, l[2].id)
<1>1. v \in Follower /\ ~Left(v) /\ ~Up(OldLeader) /\ NoSecond(v)
  BY TimedOut DEF ClaimAlone
<1>2. l \in Records /\ Len(l) = 2 /\ Follower = {v} /\ ~Leads(v)
  BY <1>1, Staying
<1>3. /\ lst' = [lst EXCEPT ![v] = m]
      /\ UNCHANGED <<status, participant, ltcp, succ, chan, mc, spent>>
  BY DEF ClaimAlone, IInv, TypeOK
<1> HIDE DEF l
<1>4. k \in Records /\ Len(k) = 2 /\ k[1].leader /\ k[2] = l[2]
  BY <1>2, ClaimedIs
<1> HIDE DEF k
<1>5. Without(k, delete_server(k, k[2].id))
  BY <1>4, DeletedIs
<1>6. Len(m) = 1 /\ m[1].leader = TRUE
  <2>1. m[1] = k[1] /\ k[1] \in Record
    BY <1>4, <1>5, RecordType DEF Without
  <2> QED
    BY <1>4, <1>5, <2>1 DEF Without, Record
<1> HIDE DEF m
<1>7. Leaves(v, m)
  BY <1>1, <1>3, <1>6 DEF Leaves
<1>8. Orderly'
  <2>1. IsTop(v)
    BY <1>1, <1>2, FollowersInOrder DEF IsTop
  <2>2. Succs'
    BY <1>3 DEF Orderly, Succs
  <2>3. \A c \in Conn : ~OldEdge(c) /\ chan'[c] = chan[c]
    BY <1>2, <1>3, OldEdgeIs
  <2> QED
    BY <1>3, <1>7, <2>1, <2>2, <2>3, LeaverKeeps
<1>9. Election!ClaimAlone(n)
  <2>1. OfRing(status)[n] = "up" /\ ~RingLeads[n] /\ RingPeers[n] = "cut"
    BY <1>1, <1>2, Seen
  <2>2. /\ OfRing(status)' = OfRing(status)
        /\ RingLeads' = [RingLeads EXCEPT ![n] = TRUE]
        /\ RingPeers' = [RingPeers EXCEPT ![n] = "alone"]
        /\ RingAsking' = RingAsking
    BY <1>6, <1>7, LeaverSeen
  <2>3. /\ OfRing(participant)' = OfRing(participant) /\ RingInbox(chan)' = RingInbox(chan)
        /\ spent'.repeat = spent.repeat
    BY <1>3 DEF OfRing, RingInbox
  <2> HIDE DEF n
  <2> QED
    BY <2>1, <2>2, <2>3 DEF Election!ClaimAlone
<1>10. n \in Election!Node
  BY <1>1, Seen
<1> QED
  BY <1>8, <1>9, <1>10, IsElected

(* Whoever leaves passes the announcement on: the old ring behind it is    *)
(* swept.                                                                  *)
LEMMA LeaverAnnounces ==
    ASSUME IInv, Orderly, FollowersUp, NEW v \in Server, NEW m, Leaves(v, m),
           NEW c \in Conn, NEW kind \in {"VOTE", "LEADER"}, Reads(v, c, kind),
           NEW msg \in Message, msg \in Allowed(Edge(v))', Forward(v, c, msg),
           \A f \in Follower : f # v => participant'[f] = participant[f],
           Done(v)' => Left(c[2]) /\ Tail(chan[c]) = << >>
    PROVE  /\ Election!ConsumeAndSend(Pos(v), msg)
           /\ \A d \in Conn : IF OldEdge(d) THEN chan'[d] \in Seq(Allowed(d)') /\ SweptAt(d)'
                              ELSE chan'[d] = chan[d]
<1> DEFINE n == Pos(v)
           a == Consumed(c)
           k == Edge(v)
<1>1. /\ OldEdge(c) /\ c[3] = v /\ v \in Follower /\ chan[c] # << >>
      /\ SweptAt(c) /\ chan[c] \in Seq(Allowed(c)) /\ ~Left(v)
  BY ElectionMessages DEF Leaves
<1>2. Follower # {v} /\ c # k /\ ~NoSecond(v)
  BY <1>1, OldEdgeIs, Staying
<1>3. a \in Channels /\ a[c] = Tail(chan[c]) /\ \A d \in Conn : d # c => a[d] = chan[d]
  BY <1>1, ConsumedIs
<1>4. chan' = Sent(a, v, lst[v][3], msg)
  BY DEF Forward
<1> HIDE DEF a
<1>5. SentTo(v, a, msg, chan')
  BY <1>1, <1>2, <1>3, <1>4, SendOnRing
<1>6. /\ chan[k] \in Seq(Allowed(k)) /\ ~Announces(chan[k]) /\ k \in Conn /\ OldEdge(k)
      /\ ~Done(NextOf(v, Follower))
  BY <1>1, <1>2, EdgeAhead
<1>7. /\ chan'[k] = Append(chan[k], msg) /\ chan'[c] = Tail(chan[c])
      /\ \A d \in Conn : d # k /\ d # c => chan'[d] = chan[d]
  BY <1>2, <1>3, <1>5, <1>6 DEF SentTo
<1>8. /\ \A f \in Follower : Left(f) => Left(f)'
      /\ \A f \in Follower : f # v => (Done(f)' => Done(f))
      /\ Left(v)'
  <2>1. \A f \in Follower : f # v => Left(f)' = Left(f) /\ Leads(f)' = Leads(f)
    BY LeaverIs, FollowersInOrder
  <2>2. Left(v)'
    BY LeaverIs
  <2> QED
    BY <2>1, <2>2 DEF Done
<1>9. ASSUME NEW d \in Conn, OldEdge(d) PROVE chan'[d] \in Seq(Allowed(d)') /\ SweptAt(d)'
  <2> DEFINE A == Allowed(d)
             B == Allowed(d)'
  <2>1. chan[d] \in Seq(A) /\ SweptAt(d) /\ d[2] \in Follower /\ d[3] \in Follower
    BY <1>9, OldEdgeIs DEF Orderly, Carry, Swept
  <2>2. A \subseteq B
    BY LeaverAllows
  <2> HIDE DEF A, B
  <2>3. chan[d] \in Seq(B)
    BY <2>1, <2>2
  <2>4. CASE d = k
    <3>1. msg \in B /\ d[2] = v /\ d[3] = NextOf(v, Follower) /\ NextOf(v, Follower) # v
      BY <1>1, <1>2, <2>4, EdgeIs DEF B
    <3>2. chan'[d] \in Seq(B) /\ AnnouncedLast(chan'[d])
      <4>1. chan'[d] = Append(chan[d], msg) /\ ~Announces(chan[d])
        BY <1>6, <1>7, <2>4
      <4>2. Append(chan[d], msg) \in Seq(B) /\ AnnouncedLast(Append(chan[d], msg))
        BY <2>3, <3>1, <4>1, AppendOf
      <4> QED
        BY <4>1, <4>2
    <3>3. ~Done(d[3])'
      BY <1>6, <1>8, <2>1, <3>1
    <3> QED
      BY <1>8, <3>1, <3>2, <3>3 DEF SweptAt, B
  <2>5. CASE d = c
    <3>1. /\ chan'[c] \in Seq(B) /\ AnnouncedLast(chan'[c])
          /\ Announces(chan'[c]) => Announces(chan[c])
      BY <1>1, <1>7, <2>1, <2>3, <2>5, TailOf DEF SweptAt
    <3>2. Done(c[3])' => Left(c[2]) /\ chan'[c] = << >>
      BY <1>1, <1>7
    <3> QED
      BY <1>8, <2>1, <2>5, <3>1, <3>2 DEF SweptAt, B
  <2>6. CASE d # k /\ d # c
    <3>1. d[3] # v
      BY <1>1, <1>9, <2>6, OldEdgeIs
    <3>2. chan'[d] = chan[d]
      BY <1>7, <2>6
    <3> QED
      BY <1>8, <2>1, <2>3, <3>1, <3>2 DEF SweptAt, B
  <2> QED
    BY <2>4, <2>5, <2>6
<1>10. \A d \in Conn : ~OldEdge(d) => chan'[d] = chan[d]
  BY <1>1, <1>6, <1>7
<1>11. Election!ConsumeAndSend(n, msg)
  <2>1. RingInbox(a) = [RingInbox(chan) EXCEPT ![n] = Tail(@)]
    BY Received DEF a
  <2>2. RingInbox(chan)' = RingInbox(chan')
    BY DEF RingInbox
  <2> HIDE DEF n
  <2> QED
    BY <1>5, <2>1, <2>2 DEF SentTo, Election!ConsumeAndSend, n
<1> QED
  BY <1>9, <1>10, <1>11

LEMMA RecvVoteMineStep ==
    ASSUME IInv, Orderly, FollowersUp, FollowersUp', NEW v \in Server, NEW c \in Conn,
           RecvVoteMine(v, c)
    PROVE  Orderly' /\ Elects
<1> DEFINE n == Pos(v)
<1>1. Reads(v, c, "VOTE") /\ Head(chan[c]).id = v
  BY DEF RecvVoteMine
<1>2. /\ OldEdge(c) /\ c[3] = v /\ v \in Follower /\ OfElection(c, Head(chan[c]))
      /\ Head(chan[c]).kind = "VOTE" /\ ~Up(OldLeader)
      /\ ~Left(v) \/ (Leads(v) /\ participant[v])
  BY <1>1, ElectionMessages
<1>3. /\ v \in Follower /\ Follower # {v} /\ n \in Election!Node /\ RingId[n] = v
      /\ Election!Receives(n, "VOTE") /\ Head(RingInbox(chan)[n]) = Head(chan[c])
      /\ OfRing(participant)[n] = participant[v] /\ RingLeads[n] = Leads(v)
      /\ RingPeers[n] = IF Left(v) THEN "alone" ELSE "ring"
  BY <1>1, Received
<1>4. CASE Leads(v) /\ Ignore(c)
  <2>1. Orderly' /\ Election!Ignore(n)
    BY <1>1, <1>4, IgnoreStep
  <2> HIDE DEF n
  <2>2. Election!RecvVoteMine(n)
    BY <1>1, <1>3, <1>4, <2>1 DEF Election!RecvVoteMine
  <2> QED
    BY <1>3, <2>1, <2>2, IsElected
<1>5. CASE NullDeref(v)
  BY <1>5, EndStep
<1>6. CASE /\ ~Leads(v) /\ ~NoSecond(v)
           /\ participant' = [participant EXCEPT ![v] = TRUE]
           /\ lst' = [lst EXCEPT ![v] = Detached(Claimed(@))]
           /\ succ' = [succ EXCEPT ![v] = NULL]
           /\ Forward(v, c, Leader(v))
           /\ UNCHANGED <<status, ltcp, mc, spent>>
  <2> DEFINE l == lst[v]
             k == Claimed(l)
             m == Detached(k)
  <2>1. ~Left(v) /\ IsTop(v)
    <3>1. Head(chan[c]).id # c[2]
      BY <1>1, <1>2, OldEdgeIs
    <3> QED
      BY <1>1, <1>2, <1>6, <3>1 DEF OfElection
  <2>2. l \in Records /\ Len(l) = 3
    BY <1>3, <2>1, Staying
  <2>3. lst' = [lst EXCEPT ![v] = m]
    BY <1>6 DEF IInv, TypeOK
  <2> HIDE DEF l
  <2>4. k \in Records /\ Len(k) = 3 /\ k[1].leader
    BY <2>2, ClaimedIs
  <2> HIDE DEF k
  <2>5. Len(m) = 1 /\ m[1].leader = TRUE
    <3>0. Len(k) > 2
      BY <2>4
    <3>1. WithoutTwo(k, m)
      BY <2>4, <3>0, DetachedIs
    <3>2. k[1] \in Record
      BY <2>4, RecordType
    <3> QED
      BY <2>4, <3>1, <3>2 DEF WithoutTwo, Record
  <2> HIDE DEF m
  <2>6. Leaves(v, m)
    BY <1>2, <2>1, <2>3, <2>5 DEF Leaves
  <2>7. Leads(v)'
    BY <2>5, <2>6, LeaverIs
  <2>8. Leader(v) \in Message /\ Leader(v) \in Allowed(Edge(v))'
    <3>1. Leader(v) \in Message /\ Leader(v).kind = "LEADER" /\ Leader(v).id = v
      BY MessageTypes DEF Leader
    <3>2. OldEdge(Edge(v))
      BY <1>3, EdgeIs
    <3>3. OfElection(Edge(v), Leader(v))'
      BY <1>3, <2>1, <2>7, <3>1 DEF OfElection
    <3> QED
      BY <3>1, <3>2, <3>3 DEF Allowed
  <2>9. ~Done(v)' /\ \A f \in Follower : f # v => participant'[f] = participant[f]
    BY <1>6, <2>7 DEF Done, IInv, TypeOK
  <2>10. /\ Election!ConsumeAndSend(n, Leader(v))
         /\ \A d \in Conn : IF OldEdge(d) THEN chan'[d] \in Seq(Allowed(d)') /\ SweptAt(d)'
                            ELSE chan'[d] = chan[d]
    BY <1>1, <1>6, <2>6, <2>8, <2>9, LeaverAnnounces
  <2>11. Orderly'
    <3>1. Succs'
      BY <1>6 DEF Orderly, Succs, IInv, TypeOK
    <3> QED
      BY <1>6, <2>1, <2>6, <2>10, <3>1, LeaverKeeps
  <2>12. /\ OfRing(status)' = OfRing(status)
         /\ RingLeads' = [RingLeads EXCEPT ![n] = TRUE]
         /\ RingPeers' = [RingPeers EXCEPT ![n] = "alone"]
         /\ RingAsking' = RingAsking
    BY <2>5, <2>6, LeaverSeen
  <2>13. OfRing(participant)' = [OfRing(participant) EXCEPT ![n] = TRUE]
    BY <1>2, <1>6, ParticipantSeen
  <2>14. Election!LeaderIs(n) = Leader(v) /\ spent'.repeat = spent.repeat
    BY <1>3, <1>6 DEF Election!LeaderIs, Leader
  <2> HIDE DEF n
  <2>15. Election!RecvVoteMine(n)
    BY <1>1, <1>3, <1>6, <2>1, <2>10, <2>12, <2>13, <2>14 DEF Election!RecvVoteMine
  <2> QED
    BY <1>3, <2>11, <2>15, IsElected
<1>7. ~(~Leads(v) /\ ~NoSecond(v) /\ SendFails(v))
  BY <1>2, SendingSucceeds
<1> QED
  BY <1>4, <1>5, <1>6, <1>7 DEF RecvVoteMine

LEMMA RecvLeaderOtherStep ==
    ASSUME IInv, Orderly, FollowersUp, FollowersUp', NEW v \in Server, NEW c \in Conn,
           RecvLeaderOther(v, c)
    PROVE  Orderly' /\ Elects
<1> DEFINE n == Pos(v)
<1>0. PICK x : x = Head(chan[c])
  OBVIOUS
<1>1. Reads(v, c, "LEADER") /\ x.id # v
  BY <1>0 DEF RecvLeaderOther
<1>2. /\ OldEdge(c) /\ c[3] = v /\ v \in Follower /\ OfElection(c, x) /\ x \in Message
      /\ x.kind = "LEADER" /\ ~Up(OldLeader) /\ SweptAt(c)
      /\ chan[c] # << >> /\ chan[c] \in Seq(Allowed(c))
      /\ ~Left(v) \/ (Leads(v) /\ participant[v])
  BY <1>0, <1>1, ElectionMessages
<1>3. x.id \in Follower /\ IsTop(x.id) /\ Leads(x.id)
  BY <1>2 DEF OfElection
<1>4. ~Left(v)
  <2>1. Leads(v) => IsTop(v)
    BY <1>2 DEF Orderly, Wins
  <2>2. ~IsTop(v)
    <3>1. v \in Nat /\ x.id \in Nat
      BY <1>2, <1>3, FollowersInOrder
    <3>2. v <= x.id
      BY <1>2, <1>3 DEF IsTop
    <3>3. ~(x.id <= v)
      BY <1>1, <3>1, <3>2
    <3> QED
      BY <1>3, <3>3 DEF IsTop
  <2> QED
    BY <1>2, <2>1, <2>2
<1>5. /\ v \in Follower /\ Follower # {v} /\ n \in Election!Node /\ RingId[n] = v
      /\ Election!Receives(n, "LEADER") /\ Head(RingInbox(chan)[n]) = x
      /\ OfRing(participant)[n] = participant[v] /\ RingLeads[n] = Leads(v)
      /\ RingPeers[n] = "ring"
  BY <1>0, <1>1, <1>4, Received
<1>6. ~Alone(v) /\ ~NoSecond(v) /\ ~Leads(v) /\ lst[v] \in Records /\ Len(lst[v]) = 3
  BY <1>2, <1>4, <1>5, Staying
<1>7. CASE NullDeref(v)
  BY <1>7, EndStep
<1>8. CASE /\ participant' = [participant EXCEPT ![v] = FALSE]
           /\ lst' = [lst EXCEPT ![v] = Detached(@)]
           /\ succ' = [succ EXCEPT ![v] = NULL]
           /\ Forward(v, c, x)
           /\ Multicast(v, Who(v))
           /\ UNCHANGED <<status, ltcp, spent>>
  <2> DEFINE l == lst[v]
             m == Detached(l)
  <2>1. lst' = [lst EXCEPT ![v] = m]
    BY <1>8 DEF IInv, TypeOK
  <2>2. l \in Records /\ Len(l) = 3 /\ ~l[1].leader
    BY <1>6 DEF Leads
  <2> HIDE DEF l
  <2>3. Len(m) = 1 /\ m[1].leader = FALSE
    <3>0. Len(l) > 2
      BY <2>2
    <3>1. WithoutTwo(l, m)
      BY <2>2, <3>0, DetachedIs
    <3>2. l[1] \in Record
      BY <2>2, RecordType
    <3> QED
      BY <2>2, <3>1, <3>2 DEF WithoutTwo, Record
  <2> HIDE DEF m
  <2>4. Leaves(v, m)
    BY <1>2, <1>4, <2>1, <2>3 DEF Leaves
  <2>5. x \in Allowed(Edge(v))'
    <3>1. Leads(x.id)'
      BY <1>1, <1>3, <2>4, LeaverIs, FollowersInOrder
    <3>2. OldEdge(Edge(v))
      BY <1>5, EdgeIs
    <3>3. OfElection(Edge(v), x)'
      BY <1>2, <1>3, <3>1 DEF OfElection
    <3> QED
      BY <1>2, <3>2, <3>3 DEF Allowed
  <2>6. \A f \in Follower : f # v => participant'[f] = participant[f]
    BY <1>8
  <2>7. Left(c[2]) /\ Tail(chan[c]) = << >>
    <3>1. Tail(chan[c]) = << >>
      BY <1>0, <1>2, TailOf DEF SweptAt
    <3>2. 1 \in 1 .. Len(chan[c]) /\ x = chan[c][1]
      BY <1>0, <1>2
    <3>3. Announces(chan[c])
      BY <1>2, <3>2 DEF Announces
    <3> QED
      BY <1>2, <3>1, <3>3 DEF SweptAt
  <2>8. /\ Election!ConsumeAndSend(n, x)
        /\ \A d \in Conn : IF OldEdge(d) THEN chan'[d] \in Seq(Allowed(d)') /\ SweptAt(d)'
                           ELSE chan'[d] = chan[d]
    <3> QED
      BY <1>1, <1>2, <1>8, <2>4, <2>5, <2>6, <2>7, LeaverAnnounces
  <2>9. Orderly'
    <3>1. Succs'
      BY <1>8 DEF Orderly, Succs, IInv, TypeOK
    <3>2. ASSUME NEW u \in Server, NEW d \in mc'[u]
          PROVE  d \in mc[u] \/ (d.id = v /\ ~m[1].leader)
      <4>1. d \in mc[u] \/ d = Who(v)
        BY <1>8, <3>2 DEF Multicast
      <4> QED
        BY <2>3, <4>1 DEF Who
    <3> QED
      BY <1>8, <2>3, <2>4, <2>8, <3>1, <3>2, LeaverKeeps
  <2>10. /\ OfRing(status)' = OfRing(status)
         /\ RingLeads' = [RingLeads EXCEPT ![n] = FALSE]
         /\ RingPeers' = [RingPeers EXCEPT ![n] = "alone"]
         /\ RingAsking' = RingAsking \cup {n}
    <3>1. m[1].leader \in BOOLEAN /\ ~m[1].leader
      BY <2>3
    <3>2. /\ OfRing(status)' = OfRing(status)
          /\ RingLeads' = [RingLeads EXCEPT ![n] = m[1].leader]
          /\ RingPeers' = [RingPeers EXCEPT ![n] = "alone"]
          /\ RingAsking' = IF m[1].leader THEN RingAsking ELSE RingAsking \cup {n}
      BY <2>4, <3>1, LeaverSeen
    <3> HIDE DEF n
    <3> QED
      BY <2>3, <3>1, <3>2
  <2>11. RingLeads' = RingLeads
    <3>1. RingLeads[n] = FALSE
      BY <1>5, <1>6, RingIdIs DEF RingLeads, Leads
    <3>2. RingLeads = [i \in DOMAIN RingId |-> RingLeads[i]]
      BY DEF RingLeads
    <3> HIDE DEF n
    <3> QED
      BY <2>10, <3>1, <3>2
  <2>12. OfRing(participant)' = [OfRing(participant) EXCEPT ![n] = FALSE]
    BY <1>2, <1>8, ParticipantSeen
  <2>13. spent'.repeat = spent.repeat
    BY <1>8
  <2> HIDE DEF n
  <2>14. Election!RecvLeaderOther(n)
    BY <1>1, <1>5, <2>8, <2>10, <2>11, <2>12, <2>13 DEF Election!RecvLeaderOther
  <2> QED
    BY <1>5, <2>9, <2>14, IsElected
<1>9. ~SendFails(v)
  BY <1>2, <1>4, <1>6, SendingSucceeds
<1> QED
  BY <1>0, <1>6, <1>7, <1>8, <1>9 DEF RecvLeaderOther

-----------------------------------------------------------------------------
(* The new leader and those who ask for it.                                *)

(* The election does not see the lists of those who have left.             *)
LEMMA AfterElection ==
    ASSUME FollowersUp, FollowersUp', UNCHANGED participant, spent'.repeat = spent.repeat,
           \A f \in Follower : /\ Left(f)' = Left(f) /\ Leads(f)' = Leads(f)
                               /\ ~Left(f) => lst'[f] = lst[f],
           \A c \in Conn : OldEdge(c) => chan'[c] = chan[c]
    PROVE  Elects
<1>1. DOMAIN RingId = Positions /\ \A n \in Positions : RingId[n] \in Follower
  BY RingIdIs
<1>2. OfRing(status)' = OfRing(status) /\ OfRing(participant)' = OfRing(participant)
  BY <1>1 DEF OfRing, FollowersUp, Up
<1>3. RingLeads' = RingLeads /\ RingAsking' = RingAsking
  BY <1>1 DEF RingLeads, RingAsking, Left
<1>4. RingPeers' = RingPeers
  <2> DEFINE g(f) == IF ~InOldRing(f) THEN "alone" ELSE IF NoSecond(f) THEN "cut" ELSE "ring"
  <2>1. \A f \in Follower : g(f)' = g(f)
    BY DEF Left, NoSecond
  <2>2. /\ RingPeers = [n \in Positions |-> g(RingId[n])]
        /\ RingPeers' = [n \in Positions |-> g(RingId[n])']
    BY <1>1 DEF RingPeers
  <2> HIDE DEF g
  <2> QED
    BY <1>1, <2>1, <2>2
<1>5. RingInbox(chan)' = RingInbox(chan)
  <2>1. \A f \in Follower : Follower # {f} => chan'[Edge(f)] = chan[Edge(f)]
    BY EdgeIs
  <2>2. RingInbox(chan') = RingInbox(chan)
    BY <2>1, SameInbox
  <2> QED
    BY <2>2 DEF RingInbox
<1> QED
  BY <1>2, <1>3, <1>4, <1>5 DEF Elects, Election!vars

LEMMA OneLeader ==
    ASSUME Orderly, NEW v \in Follower, NEW w \in Follower, Leads(v), Leads(w)
    PROVE  v = w
<1>1. v <= w /\ w <= v
  BY DEF Orderly, Wins, IsTop
<1>2. v \in Nat /\ w \in Nat
  BY FollowersInOrder
<1> QED
  BY <1>1, <1>2

(* Without its third server a list keeps the first two.                    *)
LEMMA SecondKept ==
    ASSUME NEW l \in Records, Len(l) = 3
    PROVE  LET k == delete_server(l, l[3].id) IN
           /\ k \in Seq(Record) /\ Len(k) = 2 /\ Len(k) > 1
           /\ k[1] = l[1] /\ k[2].id = l[2].id
<1>1. l \in Seq(Record) /\ Len(l) \in Nat
  BY DEF Records
<1> DEFINE S == At(l, l[3].id)
           i == Min(S)
           k == delete_server(l, l[3].id)
<1>2. S \in SUBSET Nat /\ 3 \in S /\ S \subseteq 2 .. Len(l) /\ \A j \in S : l[j].id = l[3].id
  BY <1>1 DEF At
<1>3. i \in S /\ i \in 2 .. Len(l)
  BY <1>2, LeastExists
<1>4. l[i].id = l[3].id
  BY <1>2, <1>3
<1>5. k = RemoveAt(l, i)
  BY DEF delete_server
<1> HIDE DEF i, k
<1>6. i = 2 \/ i = 3
  BY <1>3
<1>7. i \in 1 .. Len(l)
  BY <1>6
<1>8. /\ k \in Seq(Record) /\ Len(k) = Len(l) - 1
      /\ \A j \in 1 .. i-1 : k[j] = l[j]
      /\ \A j \in i .. Len(l) - 1 : k[j] = l[j+1]
  BY <1>1, <1>5, <1>7, RemovedAt
<1>9. Len(k) = 2 /\ Len(k) > 1 /\ k[1] = l[1]
  BY <1>6, <1>8
<1>10. k[2].id = l[2].id
  <2>1. CASE i = 2
    <3>1. 2 \in i .. Len(l) - 1 /\ 2 + 1 = 3
      BY <2>1
    <3>2. k[2] = l[3]
      BY <1>8, <3>1
    <3> QED
      BY <1>4, <2>1, <3>2
  <2>2. CASE i = 3
    <3>1. 2 \in 1 .. i-1
      BY <2>2
    <3> QED
      BY <1>8, <3>1
  <2> QED
    BY <1>6, <2>1, <2>2
<1> QED
  BY <1>8, <1>9, <1>10 DEF k

(* The second of a list stays when its third is replaced.                  *)
SecondStays(l, m) == Len(m) > 1 /\ m[1] = l[1] /\ m[2].id = l[2].id

LEMMA SucceededSecond ==
    ASSUME NEW l \in Records, Len(l) = 2 \/ Len(l) = 3, NEW t \in Server
    PROVE  SecondStays(l, Succeeded(l, t))
<1> DEFINE k == IF Len(l) > 2 THEN delete_server(l, l[3].id) ELSE l
           e == Entry(t, FALSE, "ring")
           m == append_server(k, e)
<1>1. l \in Seq(Record) /\ Len(l) \in Nat
  BY DEF Records
<1>2. k \in Seq(Record) /\ Len(k) = 2 /\ k[1] = l[1] /\ k[2].id = l[2].id
  <2>1. CASE Len(l) = 3
    <3>1. k = delete_server(l, l[3].id)
      BY <2>1
    <3> QED
      BY <2>1, <3>1, SecondKept
  <2>2. CASE Len(l) = 2
    BY <1>1, <2>2
  <2> QED
    BY <2>1, <2>2
<1>3. e \in Record
  BY EntryType DEF Sock, Link
<1>4. Succeeded(l, t) = m
  BY DEF Succeeded
<1> HIDE DEF k, e
<1>5. /\ server_info_exist(e.id, k) => m = k
      /\ ~server_info_exist(e.id, k) => AddedLast(k, e, m)
  BY <1>2, <1>3, Appended
<1> HIDE DEF m
<1>6. CASE m = k
  <2>1. Len(k) > 1
    BY <1>2
  <2> QED
    BY <1>2, <1>4, <1>6, <2>1 DEF SecondStays
<1>7. CASE AddedLast(k, e, m)
  <2>1. Len(m) = Len(k) + 1 /\ \A i \in 1 .. Len(k) : m[i] = k[i]
    BY <1>7 DEF AddedLast
  <2>2. Len(m) = 3 /\ m[1] = k[1] /\ m[2] = k[2]
    BY <1>2, <2>1
  <2> QED
    BY <1>2, <1>4, <2>2 DEF SecondStays
<1> QED
  BY <1>5, <1>6, <1>7

(* A message of the new leader to one that it lists.                       *)
LEMMA LeaderMessages ==
    ASSUME IInv, Orderly, NEW v \in Server, NEW c \in Conn, Reads(v, c, "KNOW_NEW_LEADER"),
           NEW x, x = Head(chan[c])
    PROVE  /\ ~OldEdge(c) /\ c[3] = v /\ x.leader = c[2] /\ x.succ \in Follower \cup {NULL}
           /\ c[2] \in Follower /\ Leads(c[2]) /\ v \in Ids(lst[c[2]])
           /\ v \in Follower /\ Left(v) /\ ~Leads(v) /\ Follows(v, c[2])
           /\ ~Up(OldLeader) /\ chan[c] # << >>
<1>1. c[3] = v /\ chan[c] # << >> /\ x.kind = "KNOW_NEW_LEADER"
  BY DEF Reads
<1>2. chan[c] \in Seq(Allowed(c))
  BY DEF Orderly, Carry
<1>3. x \in Allowed(c)
  BY <1>1, <1>2
<1>4. ~OldEdge(c) /\ OfLeader(c, x)
  BY <1>1, <1>3 DEF Allowed, OfElection
<1>5. c[2] \in Follower /\ Leads(c[2]) /\ v \in Ids(lst[c[2]])
  BY <1>1, <1>4 DEF OfLeader
<1>6. PeersOk(c[2]) /\ Left(v) /\ ~Leads(v) /\ Follows(v, c[2])
  BY <1>5 DEF Orderly, Wins
<1>7. v \in Follower
  BY <1>5, <1>6 DEF PeersOk, Ids
<1>8. ~Up(OldLeader)
  BY <1>1 DEF Orderly, Begins
<1> QED
  BY <1>1, <1>4, <1>5, <1>6, <1>7, <1>8 DEF OfLeader

(* The list of one that hears of the leader w.                             *)
Hears(v, w, m) ==
    /\ v \in Follower /\ Left(v) /\ ~Leads(v)
    /\ w \in Follower /\ Leads(w) /\ v \in Ids(lst[w])
    /\ lst' = [lst EXCEPT ![v] = m]
    /\ Len(m) > 1 /\ m[1] = lst[v][1] /\ m[2].id = w

LEMMA HearerIs ==
    ASSUME IInv, Orderly, NEW v, NEW w, NEW m, Hears(v, w, m)
    PROVE  /\ lst'[v] = m /\ Left(v)' /\ ~Alone(v)' /\ ~Leads(v)' /\ v # w
           /\ \A f \in Server : f # v => lst'[f] = lst[f] /\ Alone(f)' = Alone(f)
           /\ \A f \in Follower : Left(f)' = Left(f) /\ Leads(f)' = Leads(f)
<1>1. v \in Server /\ lst \in [Server -> Records]
  BY FollowersInOrder DEF Hears, IInv, TypeOK, Records, Record
<1>2. lst'[v] = m /\ \A f \in Server : f # v => lst'[f] = lst[f]
  BY <1>1 DEF Hears
<1>3. m[2].id # OldLeader
  BY DEF Hears, Follower
<1>4. Len(m) # 1
  BY DEF Hears
<1>5. Left(v)' /\ ~Alone(v)' /\ Leads(v)' = Leads(v) /\ ~Leads(v)' /\ v # w
  BY <1>2, <1>3, <1>4 DEF Left, InOldRing, Alone, Leads, Hears
<1>6. \A f \in Server : f # v => lst'[f] = lst[f] /\ Alone(f)' = Alone(f)
  BY <1>2 DEF Alone
<1>7. ASSUME NEW f \in Follower PROVE Left(f)' = Left(f) /\ Leads(f)' = Leads(f)
  <2>1. CASE f = v
    BY <1>5, <2>1 DEF Hears
  <2>2. CASE f # v
    <3>1. lst'[f] = lst[f]
      BY <1>2, <2>2, FollowersInOrder
    <3> QED
      BY <3>1 DEF Left, InOldRing, Leads
  <2> QED
    BY <2>1, <2>2
<1> QED
  BY <1>2, <1>5, <1>6, <1>7

LEMMA HearerKeeps ==
    ASSUME IInv, Orderly, FollowersUp, FollowersUp', NEW v \in Server, NEW w, NEW m, Hears(v, w, m),
           ~Up(OldLeader), UNCHANGED <<status, participant, mc, spent>>, Succs',
           NEW c \in Conn, ~OldEdge(c), c[3] = v, chan[c] # << >>, chan' = Consumed(c)
    PROVE  Orderly' /\ Elects
<1>0. Follower \subseteq Server /\ w \in Follower /\ Leads(w) /\ v \in Ids(lst[w]) /\ v \in Follower
  BY FollowersInOrder DEF Hears
<1>1. /\ lst'[v] = m /\ Left(v)' /\ ~Alone(v)' /\ ~Leads(v)' /\ m[2].id = w /\ v # w
      /\ \A f \in Server : f # v => lst'[f] = lst[f] /\ Alone(f)' = Alone(f)
      /\ \A f \in Follower : Left(f)' = Left(f) /\ Leads(f)' = Leads(f)
  <2>1. m[2].id = w
    BY DEF Hears
  <2>2. /\ lst'[v] = m /\ Left(v)' /\ ~Alone(v)' /\ ~Leads(v)' /\ v # w
        /\ \A f \in Server : f # v => lst'[f] = lst[f] /\ Alone(f)' = Alone(f)
        /\ \A f \in Follower : Left(f)' = Left(f) /\ Leads(f)' = Leads(f)
    BY HearerIs
  <2> QED
    BY <2>1, <2>2
<1>2. chan'[c] = Tail(chan[c]) /\ \A d \in Conn : d # c => chan'[d] = chan[d]
  BY ConsumedIs
<1>3. \A f \in Follower : Leads(f) => f # v /\ lst'[f] = lst[f]
  BY <1>0, <1>1
<1>4. Begins' /\ Stays'
  BY <1>0, <1>1 DEF Orderly, Begins, Stays, Up
<1>5. Wins'
  <2> SUFFICES ASSUME NEW u \in Follower, Leads(u)'
               PROVE  /\ IsTop(u) /\ Left(u)' /\ PeersOk(u)'
                      /\ \A p \in Ids(lst'[u]) : Left(p)' /\ ~Leads(p)' /\ Follows(p, u)'
    BY DEF Wins, IsTop
  <2>1. Leads(u) /\ lst'[u] = lst[u] /\ u = w
    BY <1>0, <1>1, <1>3, OneLeader
  <2>2. /\ IsTop(u) /\ Left(u) /\ PeersOk(u)
        /\ \A p \in Ids(lst[u]) : Left(p) /\ ~Leads(p) /\ Follows(p, u)
    BY <2>1 DEF Orderly, Wins
  <2>3. Left(u)' /\ PeersOk(u)'
    BY <1>1, <2>1, <2>2 DEF PeersOk
  <2>4. ASSUME NEW p \in Ids(lst[u]) PROVE Left(p)' /\ ~Leads(p)' /\ Follows(p, u)'
    <3>1. Left(p) /\ ~Leads(p) /\ Follows(p, u) /\ p \in Follower
      BY <2>2 DEF PeersOk, Ids
    <3>2. CASE p = v
      BY <1>1, <2>1, <3>2 DEF Follows
    <3>3. CASE p # v
      <4>1. p # u /\ p \in Server /\ u \in Server
        BY <1>0, <2>1, <3>1
      <4>2. <<"lead", u, p>> \in Conn /\ <<"lead", u, p>> # c
        BY <3>3, <4>1 DEF Conn, Link
      <4>3. chan'[<<"lead", u, p>>] = chan[<<"lead", u, p>>]
        BY <1>2, <4>2
      <4>4. lst'[p] = lst[p] /\ Alone(p)' = Alone(p)
        BY <1>1, <3>3, <4>1
      <4> QED
        BY <1>1, <3>1, <4>3, <4>4 DEF Follows
    <3> QED
      BY <3>2, <3>3
  <2> QED
    BY <2>1, <2>2, <2>3, <2>4
<1>6. Seeks'
  <2> SUFFICES ASSUME NEW f \in Follower, Left(f)', ~Leads(f)', ~Alone(f)'
               PROVE  (LET u == lst[f][2].id IN u \in Follower /\ Leads(u) /\ f \in Ids(lst[u]))'
    BY DEF Seeks
  <2>1. CASE f = v
    BY <1>0, <1>1, <1>3, <2>1
  <2>2. CASE f # v
    <3>1. Left(f) /\ ~Leads(f) /\ ~Alone(f) /\ lst'[f] = lst[f]
      BY <1>0, <1>1, <2>2
    <3>2. PICK u \in Follower : u = lst[f][2].id /\ Leads(u) /\ f \in Ids(lst[u])
      BY <3>1 DEF Orderly, Seeks
    <3> QED
      BY <1>1, <1>3, <3>1, <3>2
  <2> QED
    BY <2>1, <2>2
<1>7. Carry'
  <2> SUFFICES ASSUME NEW d \in Conn PROVE chan'[d] \in Seq(Allowed(d)')
    BY DEF Carry
  <2>1. Allowed(d)' = Allowed(d)
    BY <1>1, <1>3 DEF Allowed, OfElection, OfLeader
  <2>2. chan[d] \in Seq(Allowed(d))
    BY DEF Orderly, Carry
  <2>3. d = c => Tail(chan[c]) \in Seq(Allowed(d))
    BY <2>2, TailOf
  <2> QED
    BY <1>2, <2>1, <2>2, <2>3
<1>8. Swept'
  <2>1. ASSUME NEW d \in Conn, OldEdge(d) PROVE SweptAt(d)'
    <3>1. SweptAt(d) /\ chan'[d] = chan[d] /\ d[2] \in Follower /\ d[3] \in Follower
      BY <1>2, <2>1, OldEdgeIs DEF Orderly, Swept
    <3> QED
      BY <1>1, <3>1 DEF SweptAt, Done
  <2> QED
    BY <2>1 DEF Swept, OldEdge
<1>9. Asks'
  <2> SUFFICES ASSUME NEW u \in Server, NEW d \in mc[u], d.kind = "WHO_IS_LEADER"
               PROVE  /\ d.id \in Follower /\ Left(d.id)' /\ ~Leads(d.id)'
                      /\ u \in Follower /\ Leads(u)' => d.id \notin Ids(lst'[u])
    BY DEF Asks
  <2>1. /\ d.id \in Follower /\ Left(d.id) /\ ~Leads(d.id)
        /\ u \in Follower /\ Leads(u) => d.id \notin Ids(lst[u])
    BY DEF Orderly, Asks
  <2> QED
    BY <1>1, <1>3, <2>1
<1>10. Elects
  <2>1. \A f \in Follower : ~Left(f) => lst'[f] = lst[f]
    BY <1>0, <1>1
  <2>2. \A d \in Conn : OldEdge(d) => chan'[d] = chan[d]
    BY <1>2
  <2> QED
    BY <1>1, <2>1, <2>2, AfterElection
<1> QED
  BY <1>4, <1>5, <1>6, <1>7, <1>8, <1>9, <1>10 DEF Orderly

LEMMA RecvKnowStep ==
    ASSUME IInv, Orderly, FollowersUp, FollowersUp', NEW v \in Server, NEW c \in Conn,
           RecvKnow(v, c)
    PROVE  Orderly' /\ Elects
<1>0. PICK x : x = Head(chan[c])
  OBVIOUS
<1>1. PICK w : w = c[2]
  OBVIOUS
<1> DEFINE e == Entry(x.leader, TRUE, "up")
           l == IF Alone(v) THEN append_server(lst[v], e) ELSE lst[v]
           m == IF x.succ = NULL THEN l ELSE Succeeded(l, x.succ)
<1>2. /\ ~OldEdge(c) /\ c[3] = v /\ x.leader = w /\ x.succ \in Follower \cup {NULL}
      /\ w \in Follower /\ Leads(w) /\ v \in Ids(lst[w])
      /\ v \in Follower /\ Left(v) /\ ~Leads(v) /\ Follows(v, w)
      /\ ~Up(OldLeader) /\ chan[c] # << >>
  BY <1>0, <1>1, LeaderMessages DEF RecvKnow
<1>3. CASE Exit(v)
  BY <1>3, EndStep
<1>4. CASE /\ lst' = [lst EXCEPT ![v] = m]
           /\ succ' = [succ EXCEPT ![v] = IF x.succ = NULL THEN @ ELSE x.succ]
           /\ chan' = Consumed(c)
           /\ UNCHANGED <<status, participant, mc, spent>>
  <2>1. /\ lst[v] \in Records /\ Len(lst[v]) \in Nat \ {0} /\ lst[v][1].id = v
        /\ ~lst[v][1].leader /\ Len(lst[v]) <= 3 /\ v # w
    BY <1>2, ListBefore DEF Leads
  <2>2. e \in Record /\ e.id = w
    BY <1>2, FollowersInOrder, EntryType DEF Sock, Link
  <2>3. x.succ = NULL \/ x.succ \in Server
    BY <1>2, FollowersInOrder
  <2> HIDE DEF e
  <2>4. /\ l \in Records /\ (Len(l) = 2 \/ Len(l) = 3) /\ l[1] = lst[v][1]
        /\ l[2].id = w
    <3>1. CASE Alone(v)
      <4>1. lst[v] \in Seq(Record) /\ Len(lst[v]) = 1
        BY <2>1, <3>1 DEF Alone, Records
      <4>2. ~server_info_exist(e.id, lst[v])
        BY <2>1, <2>2, <4>1 DEF server_info_exist
      <4> DEFINE n == append_server(lst[v], e)
      <4>3. n \in Seq(Record) /\ AddedLast(lst[v], e, n)
        BY <2>2, <4>1, <4>2, Appended
      <4>4. l = n
        BY <3>1
      <4> HIDE DEF n, l
      <4>5. Len(n) = 2 /\ n[1] = lst[v][1] /\ n[2] = e
        BY <4>1, <4>3 DEF AddedLast
      <4> QED
        BY <2>2, <4>3, <4>4, <4>5 DEF Records
    <3>2. CASE ~Alone(v)
      <4>1. l = lst[v]
        BY <3>2
      <4>2. Len(lst[v]) # 1 /\ lst[v][2].id = w
        BY <1>2, <3>2 DEF Alone, Follows
      <4>3. \A i \in Nat \ {0} : i # 1 /\ i <= 3 => i = 2 \/ i = 3
        OBVIOUS
      <4>4. Len(lst[v]) = 2 \/ Len(lst[v]) = 3
        BY <2>1, <4>2, <4>3
      <4> HIDE DEF l
      <4> QED
        BY <2>1, <4>1, <4>2, <4>4
    <3> QED
      BY <3>1, <3>2
  <2> HIDE DEF l
  <2>5. SecondStays(l, m)
    <3>1. CASE x.succ = NULL
      <4>1. m = l /\ Len(l) > 1
        BY <2>4, <3>1
      <4> HIDE DEF m
      <4> QED
        BY <4>1 DEF SecondStays
    <3>2. CASE x.succ # NULL
      BY <2>3, <2>4, <3>2, SucceededSecond
    <3> QED
      BY <3>1, <3>2
  <2> HIDE DEF m
  <2>6. Hears(v, w, m)
    BY <1>2, <1>4, <2>1, <2>4, <2>5 DEF Hears, SecondStays
  <2>7. Succs'
    BY <1>2, <1>4 DEF Orderly, Succs, IInv, TypeOK
  <2> QED
    BY <1>2, <1>4, <2>6, <2>7, HearerKeeps
<1> QED
  BY <1>0, <1>3, <1>4 DEF RecvKnow

LEMMA AskerIsAlone ==
    ASSUME Orderly, NEW v \in Follower, Leads(v), NEW a \in Follower, Left(a), ~Leads(a),
           a \notin Ids(lst[v])
    PROVE  Alone(a)
<1> SUFFICES ASSUME ~Alone(a) PROVE FALSE
  OBVIOUS
<1>1. PICK w \in Follower : Leads(w) /\ a \in Ids(lst[w])
  BY DEF Orderly, Seeks
<1> QED
  BY <1>1, OneLeader

LEMMA NotAged ==
    ASSUME NEW l \in Records, NEW a, a \notin Ids(l)
    PROVE  Aged(l, a) = l
<1>1. Len(l) \in Nat /\ DOMAIN l = 1 .. Len(l)
  BY DEF Records
<1>2. \A i \in DOMAIN l : i > 1 => i \in 2 .. Len(l)
  BY <1>1
<1>3. \A i \in DOMAIN l : i > 1 => l[i].id # a
  BY <1>2 DEF Ids
<1>4. Aged(l, a) = [i \in DOMAIN l |-> l[i]]
  BY <1>3 DEF Aged
<1> QED
  BY <1>4 DEF Records

(* The list of the leader with the new peer a.                             *)
Peered(k, a, m) ==
    /\ m \in Records /\ Len(m) \in Nat /\ Len(m) > 1 /\ Len(m) = Len(k) + 1 /\ m[1] = k[1]
    /\ \A i \in 2 .. Len(m) :
          m[i] = Entry(a, FALSE, "lead") \/ \E j \in 2 .. Len(k) : m[i] = k[j]
    /\ Ids(m) = Ids(k) \cup {a}

LEMMA PeeredIs ==
    ASSUME NEW k \in Records, Len(k) > 0, NEW a \in Server, a \notin Ids(k), k[1].id # a
    PROVE  Peered(k, a, append_server_sorted(Aged(k, a), Entry(a, FALSE, "lead")))
<1> DEFINE e == Entry(a, FALSE, "lead")
           m == append_server_sorted(k, e)
<1>1. k \in Seq(Record) /\ Len(k) \in Nat /\ Aged(k, a) = k
  BY NotAged DEF Records
<1>2. e \in Record /\ e.id = a
  BY EntryType DEF Sock, Link
<1> HIDE DEF e
<1>3. ~server_info_exist(e.id, k)
  <2> SUFFICES ASSUME NEW i \in 1 .. Len(k), k[i].id = a PROVE FALSE
    BY <1>2 DEF server_info_exist
  <2>1. i = 1 \/ i \in 2 .. Len(k)
    BY <1>1
  <2> QED
    BY <2>1 DEF Ids
<1>4. PICK i \in 2 .. Len(m) : Inserted(k, e, i, m)
  BY <1>1, <1>2, <1>3, SortedIn
<1>5. m \in Seq(Record)
  BY <1>1, <1>2, SortedIn
<1> HIDE DEF m
<1>6. /\ Len(m) = Len(k) + 1 /\ m[1] = k[1] /\ m[i] = e
      /\ \A n \in 2 .. Len(m) : n = i \/ \E j \in 2 .. Len(k) : m[n] = k[j]
      /\ \A j \in 2 .. Len(k) : \E n \in 2 .. Len(m) : n # i /\ m[n] = k[j]
  BY <1>1, <1>2, <1>4, <1>5, InsertedAmong DEF Among
<1>7. Ids(m) = Ids(k) \cup {a}
  <2>1. Ids(m) \subseteq Ids(k) \cup {a}
    <3> SUFFICES ASSUME NEW n \in 2 .. Len(m) PROVE m[n].id \in Ids(k) \cup {a}
      BY DEF Ids
    <3>1. n = i \/ \E j \in 2 .. Len(k) : m[n] = k[j]
      BY <1>6
    <3> QED
      BY <1>2, <1>6, <3>1 DEF Ids
  <2>2. a \in Ids(m)
    BY <1>2, <1>6 DEF Ids
  <2>3. Ids(k) \subseteq Ids(m)
    <3> SUFFICES ASSUME NEW j \in 2 .. Len(k) PROVE k[j].id \in Ids(m)
      BY DEF Ids
    <3>1. PICK n \in 2 .. Len(m) : m[n] = k[j]
      BY <1>6
    <3>2. m[n].id \in Ids(m)
      BY DEF Ids
    <3> QED
      BY <3>1, <3>2
  <2> QED
    BY <2>1, <2>2, <2>3
<1>8. Peered(k, a, m)
  <2>1. Len(m) \in Nat /\ Len(m) > 1 /\ m \in Records
    BY <1>1, <1>5, <1>6 DEF Records
  <2>2. \A n \in 2 .. Len(m) : m[n] = e \/ \E j \in 2 .. Len(k) : m[n] = k[j]
    BY <1>6
  <2> QED
    BY <1>6, <1>7, <2>1, <2>2 DEF Peered, e
<1> QED
  BY <1>1, <1>8 DEF m, e

(* Positions after the head that ring_reconstruction() finds in it.        *)
LEMMA PeerPositions ==
    ASSUME NEW m \in Records, Len(m) > 1, NEW a \in Ids(m)
    PROVE  get_successor(a, m) \in 2 .. Len(m) /\ PredecessorInRing(a, m) \in 2 .. Len(m)
<1>1. Len(m) \in Nat /\ 2 \in 2 .. Len(m) /\ Len(m) \in 2 .. Len(m)
  BY DEF Records
<1>2. get_successor(a, m) \in 2 .. Len(m)
  <2>1. Above(m, a) \in SUBSET Nat /\ Above(m, a) \subseteq 2 .. Len(m)
    BY <1>1 DEF Above
  <2>2. Above(m, a) # {} => Min(Above(m, a)) \in 2 .. Len(m)
    BY <2>1, LeastExists
  <2> QED
    BY <1>1, <2>2 DEF get_successor
<1>3. PredecessorInRing(a, m) \in 2 .. Len(m)
  <2> DEFINE S == At(m, a)
             i == Min(S)
  <2>1. S \in SUBSET Nat /\ S # {} /\ S \subseteq 2 .. Len(m)
    BY <1>1 DEF At, Ids
  <2>2. i \in 2 .. Len(m)
    BY <2>1, LeastExists
  <2>3. get_predecessor(a, m) = i - 1
    BY DEF get_predecessor
  <2> HIDE DEF i
  <2>4. i - 1 # 1 => i - 1 \in 2 .. Len(m)
    BY <1>1, <2>2
  <2> QED
    BY <1>1, <2>3, <2>4 DEF PredecessorInRing, get_last_server
<1> QED
  BY <1>2, <1>3

(* What the leader v sends its peers p of P.                               *)
Tells(v, P, ch, dh) ==
    /\ dh \in Channels
    /\ \A c \in Conn : \/ dh[c] = ch[c]
                       \/ /\ c[2] = v /\ c[1] = "lead" /\ c[3] \in P
                          /\ \E s \in Follower \cup {NULL} : dh[c] = Append(ch[c], Know(v, s))

LEMMA TellsOne ==
    ASSUME NEW v \in Server, NEW P, NEW ch \in Channels, NEW e, e.sock = "lead", e.id \in P,
           e.id \in Server, e.id # v, NEW s \in Follower \cup {NULL}
    PROVE  /\ Tells(v, P, ch, Sent(ch, v, e, Know(v, s)))
           /\ Sent(ch, v, e, Know(v, s))[<<"lead", v, e.id>>] # << >>
<1> DEFINE k == <<"lead", v, e.id>>
           x == Know(v, s)
<1>1. k \in Conn /\ k[1] = "lead" /\ k[2] = v /\ k[3] = e.id
  BY DEF Conn, Link
<1>2. x \in Message
  BY MessageTypes, FollowersInOrder
<1>3. Sent(ch, v, e, x) \in Channels
  BY <1>2, SentType
<1>4. Sent(ch, v, e, x) = [ch EXCEPT ![k] = Append(ch[k], x)]
  BY DEF Sent, Link
<1>5. ch[k] \in Seq(Message) /\ DOMAIN ch = Conn
  BY <1>1 DEF Channels
<1>6. Append(ch[k], x) # << >>
  <2> HIDE DEF x, k
  <2>1. Len(Append(ch[k], x)) = Len(ch[k]) + 1 /\ Len(ch[k]) \in Nat /\ Len(<< >>) = 0
    BY <1>2, <1>5
  <2> QED
    BY <2>1
<1> HIDE DEF k
<1>7. /\ Sent(ch, v, e, x)[k] = Append(ch[k], x)
      /\ \A c \in Conn : c # k => Sent(ch, v, e, x)[c] = ch[c]
  BY <1>1, <1>4, <1>5
<1>8. Tells(v, P, ch, Sent(ch, v, e, x))
  BY <1>1, <1>3, <1>7 DEF Tells
<1> QED
  BY <1>6, <1>7, <1>8 DEF k

LEMMA TellsMore ==
    ASSUME NEW v, NEW P, NEW ch, NEW dh, Tells(v, P, ch, dh), NEW c \in Conn,
           NEW A, ch[c] \in Seq(A),
           c[1] = "lead" /\ c[2] = v /\ c[3] \in P =>
               \A s \in Follower \cup {NULL} : Know(v, s) \in A
    PROVE  /\ dh[c] \in Seq(A) /\ (ch[c] # << >> => dh[c] # << >>)
           /\ c[1] # "lead" => dh[c] = ch[c]
<1>1. CASE dh[c] = ch[c]
  BY <1>1
<1>2. CASE c[1] = "lead" /\ \E x \in A : dh[c] = Append(ch[c], x)
  <2>1. PICK x \in A : dh[c] = Append(ch[c], x)
    BY <1>2
  <2> DEFINE q == ch[c]
  <2>2. /\ Append(q, x) \in Seq(A) /\ Len(Append(q, x)) = Len(q) + 1
        /\ Len(q) \in Nat /\ Len(<< >>) = 0
    OBVIOUS
  <2> HIDE DEF q
  <2>3. Append(q, x) # << >>
    BY <2>2
  <2> QED
    BY <1>2, <2>1, <2>2, <2>3 DEF q
<1> QED
  BY <1>1, <1>2 DEF Tells

(* What the new leader's answer to a leaves behind.                        *)
Answered(v, a, m) ==
    /\ v \in Follower /\ Leads(v) /\ a \in Follower /\ Left(a) /\ ~Leads(a)
    /\ a \notin Ids(lst[v]) /\ ~Up(OldLeader)
    /\ Peered(lst[v], a, m) /\ lst' = [lst EXCEPT ![v] = m]

LEMMA AnsweredIs ==
    ASSUME IInv, Orderly, NEW v, NEW a, NEW m, Answered(v, a, m)
    PROVE  /\ v \in Server /\ a \in Server /\ a # v
           /\ lst'[v] = m /\ PeersOk(v) /\ PeersOk(v)'
           /\ Ids(m) = Ids(lst[v]) \cup {a} /\ Ids(m) \subseteq Follower \ {v}
           /\ \A f \in Server : f # v => lst'[f] = lst[f] /\ Alone(f)' = Alone(f)
           /\ \A f \in Follower : Left(f)' = Left(f) /\ Leads(f)' = Leads(f)
<1>1. v \in Server /\ a \in Server /\ a # v /\ lst \in [Server -> Records]
  BY FollowersInOrder DEF Answered, IInv, TypeOK, Records, Record
<1>2. lst'[v] = m /\ \A f \in Server : f # v => lst'[f] = lst[f]
  BY <1>1 DEF Answered
<1>3. PeersOk(v) /\ Left(v) /\ \A p \in Ids(lst[v]) : ~Leads(p)
  BY DEF Answered, Orderly, Wins
<1>4. Ids(m) = Ids(lst[v]) \cup {a} /\ Ids(m) \subseteq Follower \ {v}
  <2>1. Ids(m) = Ids(lst[v]) \cup {a} /\ a \in Follower /\ Leads(v)
    BY DEF Answered, Peered
  <2>2. \A p \in Ids(lst[v]) : p \in Follower /\ p # v
    BY <1>3, <2>1 DEF PeersOk, Ids
  <2> QED
    BY <1>1, <2>1, <2>2
<1>5. ASSUME NEW i \in 2 .. Len(m)
      PROVE  m[i].id \in Follower /\ m[i].sock = "lead" /\ m[i].heard
  <2>1. m[i] = Entry(a, FALSE, "lead") \/ \E j \in 2 .. Len(lst[v]) : m[i] = lst[v][j]
    BY DEF Answered, Peered
  <2>2. CASE m[i] = Entry(a, FALSE, "lead")
    BY <2>2 DEF Entry, Answered
  <2>3. CASE \E j \in 2 .. Len(lst[v]) : m[i] = lst[v][j]
    BY <1>3, <2>3 DEF PeersOk
  <2> QED
    BY <2>1, <2>2, <2>3
<1>6. PeersOk(v)'
  BY <1>2, <1>5 DEF PeersOk
<1>7. Left(v)' /\ Leads(v)' = Leads(v)
  <2>1. Len(m) > 1 /\ Len(m) \in Nat /\ m[1] = lst[v][1]
    BY DEF Answered, Peered
  <2>2. 2 \in 2 .. Len(m)
    BY <2>1
  <2>3. m[2].id # OldLeader
    BY <1>5, <2>2 DEF Follower
  <2> QED
    BY <1>2, <2>1, <2>3 DEF Left, InOldRing, Leads
<1>8. ASSUME NEW f \in Follower PROVE Left(f)' = Left(f) /\ Leads(f)' = Leads(f)
  <2>1. CASE f = v
    BY <1>3, <1>7, <2>1
  <2>2. CASE f # v
    <3>1. lst'[f] = lst[f]
      BY <1>2, <2>2, FollowersInOrder
    <3> QED
      BY <3>1 DEF Left, InOldRing, Leads
  <2> QED
    BY <2>1, <2>2
<1>9. \A f \in Server : f # v => lst'[f] = lst[f] /\ Alone(f)' = Alone(f)
  BY <1>2 DEF Alone
<1> QED
  BY <1>1, <1>2, <1>3, <1>4, <1>6, <1>8, <1>9

(* What the answer adds to the connections.                                *)
AnswerSent(v, a, P) ==
    /\ chan'[<<"lead", v, a>>] # << >>
    /\ \A c \in Conn : /\ chan[c] # << >> => chan'[c] # << >>
                       /\ c[1] # "lead" => chan'[c] = chan[c]
                       /\ chan'[c] \in Seq(Allowed(c)')

LEMMA AnswerArrives ==
    ASSUME IInv, Orderly, NEW v, NEW a, NEW m, Answered(v, a, m),
           NEW ch, Tells(v, Ids(m), chan, ch), ch[<<"lead", v, a>>] # << >>,
           chan' = ch \/ Tells(v, Ids(m), ch, chan')
    PROVE  AnswerSent(v, a, Ids(m))
<1>1. /\ v \in Server /\ a \in Server /\ a # v /\ lst'[v] = m
      /\ Ids(m) = Ids(lst[v]) \cup {a} /\ Ids(m) \subseteq Follower \ {v}
      /\ v \in Follower /\ Leads(v)
      /\ \A f \in Server : f # v => lst'[f] = lst[f]
      /\ \A f \in Follower : Leads(f)' = Leads(f)
  BY AnsweredIs DEF Answered
<1>2. ASSUME NEW c \in Conn
      PROVE  /\ chan[c] # << >> => ch[c] # << >>
             /\ ch[c] # << >> => chan'[c] # << >>
             /\ c[1] # "lead" => chan'[c] = chan[c]
             /\ chan'[c] \in Seq(Allowed(c)')
  <2> DEFINE A == Allowed(c)
             B == Allowed(c)'
  <2>1. A \subseteq B
    <3>1. \A x \in Message : OfElection(c, x) => OfElection(c, x)'
      BY <1>1 DEF OfElection
    <3>2. \A x \in Message : OfLeader(c, x) => OfLeader(c, x)'
      <4>1. \A f \in Follower : Ids(lst[f]) \subseteq Ids(lst'[f])
        BY <1>1, FollowersInOrder
      <4> QED
        BY <1>1, <4>1 DEF OfLeader
    <3> QED
      BY <3>1, <3>2 DEF Allowed
  <2>2. ASSUME c[1] = "lead", c[2] = v, c[3] \in Ids(m), NEW s \in Follower \cup {NULL}
        PROVE  Know(v, s) \in B
    <3>1. ~OldEdge(c)
      BY <2>2 DEF OldEdge
    <3>2. Know(v, s) \in Message
      BY <1>1, MessageTypes, FollowersInOrder
    <3>3. OfLeader(c, Know(v, s))'
      BY <1>1, <2>2 DEF OfLeader, Know
    <3> QED
      BY <3>1, <3>2, <3>3 DEF Allowed
  <2>3. chan[c] \in Seq(A)
    BY DEF Orderly, Carry
  <2> HIDE DEF A, B
  <2>4. chan[c] \in Seq(B)
    BY <2>1, <2>3
  <2>5. /\ ch[c] \in Seq(B) /\ (chan[c] # << >> => ch[c] # << >>)
        /\ c[1] # "lead" => ch[c] = chan[c]
    BY <2>2, <2>4, TellsMore
  <2>6. CASE chan' = ch
    BY <2>5, <2>6 DEF B
  <2>7. CASE Tells(v, Ids(m), ch, chan')
    <3>1. /\ chan'[c] \in Seq(B) /\ (ch[c] # << >> => chan'[c] # << >>)
          /\ c[1] # "lead" => chan'[c] = ch[c]
      BY <2>2, <2>5, <2>7, TellsMore
    <3> QED
      BY <2>5, <3>1 DEF B
  <2> QED
    BY <2>6, <2>7
<1>3. <<"lead", v, a>> \in Conn
  BY <1>1 DEF Conn, Link
<1> QED
  BY <1>2, <1>3 DEF AnswerSent

LEMMA AnswerKeeps ==
    ASSUME IInv, Orderly, FollowersUp, FollowersUp', NEW v \in Server, NEW a, NEW m,
           Answered(v, a, m), AnswerSent(v, a, Ids(m)), NEW d \in mc[v],
           d.id = a, d.kind = "WHO_IS_LEADER", Taken(v, d),
           UNCHANGED <<status, participant, succ, spent>>
    PROVE  Orderly' /\ Elects
<1>0. /\ Follower \subseteq Server /\ v \in Follower /\ Leads(v) /\ a \in Follower
      /\ Left(a) /\ ~Leads(a) /\ a \notin Ids(lst[v]) /\ ~Up(OldLeader)
  BY FollowersInOrder DEF Answered
<1>1. /\ a \in Server /\ a # v /\ lst'[v] = m /\ PeersOk(v) /\ PeersOk(v)'
      /\ Ids(m) = Ids(lst[v]) \cup {a} /\ Ids(m) \subseteq Follower \ {v}
      /\ \A f \in Server : f # v => lst'[f] = lst[f] /\ Alone(f)' = Alone(f)
      /\ \A f \in Follower : Left(f)' = Left(f) /\ Leads(f)' = Leads(f)
  BY AnsweredIs
<1>2. /\ chan'[<<"lead", v, a>>] # << >>
      /\ \A c \in Conn : /\ chan[c] # << >> => chan'[c] # << >>
                         /\ c[1] # "lead" => chan'[c] = chan[c]
                         /\ chan'[c] \in Seq(Allowed(c)')
  BY DEF AnswerSent
<1>3. Alone(a)
  BY <1>0, AskerIsAlone
<1>4. \A f \in Follower : Leads(f) => f = v
  BY <1>0, OneLeader
<1>5. \A c \in Conn : OldEdge(c) => chan'[c] = chan[c]
  BY <1>2 DEF OldEdge
<1>6. Begins' /\ Succs'
  BY <1>0 DEF Orderly, Begins, Succs, Up
<1>7. Stays'
  <2>1. Left(v)
    BY <1>0 DEF Orderly, Wins
  <2> QED
    BY <1>0, <1>1, <2>1 DEF Orderly, Stays
<1>8. Wins'
  <2> SUFFICES ASSUME NEW u \in Follower, Leads(u)'
               PROVE  /\ IsTop(u) /\ Left(u)' /\ PeersOk(u)'
                      /\ \A p \in Ids(lst'[u]) : Left(p)' /\ ~Leads(p)' /\ Follows(p, u)'
    BY DEF Wins, IsTop
  <2>1. Leads(u) /\ u = v
    BY <1>1, <1>4
  <2>2. /\ IsTop(v) /\ Left(v)
        /\ \A p \in Ids(lst[v]) : Left(p) /\ ~Leads(p) /\ Follows(p, v)
    BY <1>0 DEF Orderly, Wins
  <2>3. ASSUME NEW p \in Ids(m) PROVE Left(p)' /\ ~Leads(p)' /\ Follows(p, v)'
    <3>1. p \in Follower /\ p # v /\ p \in Server
      BY <1>0, <1>1
    <3>2. lst'[p] = lst[p] /\ Alone(p)' = Alone(p)
      BY <1>1, <3>1
    <3>3. CASE p = a
      BY <1>0, <1>1, <1>2, <1>3, <3>2, <3>3 DEF Follows
    <3>4. CASE p # a
      <4>1. Left(p) /\ ~Leads(p) /\ Follows(p, v)
        BY <1>1, <2>2, <3>4
      <4>2. <<"lead", v, p>> \in Conn
        BY <3>1 DEF Conn, Link
      <4> QED
        BY <1>1, <1>2, <3>1, <3>2, <4>1, <4>2 DEF Follows
    <3> QED
      BY <3>3, <3>4
  <2> QED
    BY <1>1, <2>1, <2>2, <2>3
<1>9. Seeks'
  <2> SUFFICES ASSUME NEW f \in Follower, Left(f)', ~Leads(f)', ~Alone(f)'
               PROVE  (LET u == lst[f][2].id IN u \in Follower /\ Leads(u) /\ f \in Ids(lst[u]))'
    BY DEF Seeks
  <2>1. f # v /\ Left(f) /\ ~Leads(f) /\ ~Alone(f) /\ lst'[f] = lst[f]
    BY <1>0, <1>1
  <2>2. PICK u \in Follower : u = lst[f][2].id /\ Leads(u) /\ f \in Ids(lst[u])
    BY <2>1 DEF Orderly, Seeks
  <2>3. u = v /\ f \in Ids(m)
    BY <1>1, <1>4, <2>2
  <2> QED
    BY <1>0, <1>1, <2>1, <2>2, <2>3
<1>10. Carry'
  BY <1>2 DEF Carry
<1>11. Swept'
  <2>1. ASSUME NEW c \in Conn, OldEdge(c) PROVE SweptAt(c)'
    <3>1. SweptAt(c) /\ chan'[c] = chan[c] /\ c[2] \in Follower /\ c[3] \in Follower
      BY <1>5, <2>1, OldEdgeIs DEF Orderly, Swept
    <3> QED
      BY <1>1, <3>1 DEF SweptAt, Done
  <2> QED
    BY <2>1 DEF Swept, OldEdge
<1>12. Asks'
  <2> SUFFICES ASSUME NEW u \in Server, NEW x \in mc'[u], x.kind = "WHO_IS_LEADER"
               PROVE  /\ x.id \in Follower /\ Left(x.id)' /\ ~Leads(x.id)'
                      /\ u \in Follower /\ Leads(u)' => x.id \notin Ids(lst'[u])
    BY DEF Asks
  <2>1. mc \in [Server -> SUBSET Datagram]
    BY DEF IInv, TypeOK
  <2>2. x \in mc[u] /\ (u = v => x # d)
    BY <2>1 DEF Taken
  <2>3. /\ x.id \in Follower /\ Left(x.id) /\ ~Leads(x.id)
        /\ u \in Follower /\ Leads(u) => x.id \notin Ids(lst[u])
    BY <2>2 DEF Orderly, Asks
  <2>4. ASSUME u = v PROVE x.id # a
    <3>1. x \in Datagram /\ d \in Datagram /\ x # d
      BY <2>1, <2>2, <2>4
    <3> QED
      BY <3>1 DEF Datagram
  <2> QED
    BY <1>1, <1>4, <2>3, <2>4
<1>13. Elects
  <2>1. Left(v) /\ \A f \in Follower : ~Left(f) => lst'[f] = lst[f]
    <3>1. Left(v)
      BY <1>0 DEF Orderly, Wins
    <3> QED
      BY <1>0, <1>1, <3>1
  <2> QED
    BY <1>1, <1>5, <2>1, AfterElection
<1> QED
  BY <1>6, <1>7, <1>8, <1>9, <1>10, <1>11, <1>12, <1>13 DEF Orderly

LEMMA RecvWhoStep ==
    ASSUME IInv, Orderly, FollowersUp, FollowersUp', NEW v \in Server, NEW d \in mc[v],
           RecvWho(v, d)
    PROVE  Orderly' /\ Elects
<1>0. PICK a : a = d.id
  OBVIOUS
<1> DEFINE k == lst[v]
           e == Entry(a, FALSE, "lead")
           l == append_server_sorted(Aged(k, a), e)
<1>1. /\ Taken(v, d) /\ UNCHANGED <<status, participant, succ, spent>>
      /\ d.kind = "WHO_IS_LEADER" /\ Up(v)
  BY DEF RecvWho, Datagrams
<1>2. CASE UNCHANGED <<lst, ltcp, chan>>
  BY <1>1, <1>2, DatagramGone
<1>3. CASE Leads(v) /\ ring_reconstruction(v, a)
  <2>1. /\ a \in Follower /\ Left(a) /\ ~Leads(a)
        /\ v \in Follower => a \notin Ids(lst[v])
    BY <1>0, <1>1, <1>3 DEF Orderly, Asks
  <2>2. ~Up(OldLeader)
    BY <2>1 DEF Orderly, Begins
  <2>3. v \in Follower /\ a \notin Ids(lst[v]) /\ a # v /\ a \in Server
    <3>1. v \in Follower /\ a \in Server
      BY <1>1, <2>1, <2>2, FollowersInOrder DEF Follower
    <3>2. a # v
      BY <1>0 DEF IInv, DatagramsOk
    <3> QED
      BY <2>1, <3>1, <3>2
  <2>4. k \in Records /\ Len(k) \in Nat /\ Len(k) > 0 /\ k[1].id = v
    <3>1. k \in Records /\ Len(k) \in Nat \ {0} /\ k[1].id = v
      BY ListBefore
    <3> QED
      BY <3>1
  <2>5. Peered(k, a, l)
    BY <2>3, <2>4, PeeredIs
  <2>6. PICK m : m = l
    OBVIOUS
  <2>7. Reopened(v, a) = chan
    <3>1. ~server_info_exist(a, k)
      <4> SUFFICES ASSUME NEW i \in 1 .. Len(k), k[i].id = a PROVE FALSE
        BY DEF server_info_exist
      <4>1. i = 1 \/ i \in 2 .. Len(k)
        BY <2>4
      <4> QED
        BY <2>3, <2>4, <4>1 DEF Ids
    <3> QED
      BY <3>1 DEF Reopened
  <2> DEFINE first == Alone(v)
             p == IF first THEN 1 ELSE PredecessorInRing(a, m)
             t == IF first THEN NULL ELSE m[get_successor(a, m)].id
             ch == Sent(chan, v, e, Know(v, t))
  <2>8. /\ m \in Records /\ Len(m) \in Nat /\ Len(m) > 1 /\ Len(m) = Len(k) + 1
        /\ a \in Ids(m) /\ m[1] = k[1] /\ Ids(m) = Ids(k) \cup {a}
        /\ \A i \in 2 .. Len(m) : m[i].sock = "lead" /\ m[i].id \in Follower \ {v}
    <3>1. PeersOk(v)
      BY <1>3, <2>3 DEF Orderly, Wins
    <3>2. /\ m \in Records /\ Len(m) \in Nat /\ Len(m) > 1 /\ Len(m) = Len(k) + 1
          /\ a \in Ids(m) /\ m[1] = k[1] /\ Ids(m) = Ids(k) \cup {a}
          /\ \A i \in 2 .. Len(m) : m[i] = e \/ \E j \in 2 .. Len(k) : m[i] = k[j]
      BY <2>5, <2>6 DEF Peered
    <3>3. \A x \in Ids(k) : ~Leads(x)
      BY <1>3, <2>3 DEF Orderly, Wins
    <3>4. ASSUME NEW i \in 2 .. Len(m)
          PROVE  m[i].sock = "lead" /\ m[i].id \in Follower \ {v}
      <4>1. CASE m[i] = e
        BY <2>1, <2>3, <4>1 DEF Entry
      <4>2. CASE \E j \in 2 .. Len(k) : m[i] = k[j]
        BY <1>3, <3>1, <3>3, <4>2 DEF PeersOk, Ids
      <4> QED
        BY <3>2, <4>1, <4>2
    <3> QED
      BY <3>2, <3>4
  <2>9. get_successor(a, m) \in 2 .. Len(m) /\ PredecessorInRing(a, m) \in 2 .. Len(m)
    BY <2>8, PeerPositions
  <2>10. t \in Follower \cup {NULL}
    BY <2>8, <2>9
  <2>11. ~first => p \in 2 .. Len(m)
    BY <2>9
  <2>12. /\ lst' = [lst EXCEPT ![v] = m]
         /\ chan' = IF Len(m) > 2 THEN Sent(ch, v, m[p], Know(v, a)) ELSE ch
    <3>1. ~(~first /\ m[p].sock = "closed")
      BY <2>8, <2>11
    <3> HIDE DEF first
    <3> QED
      BY <1>3, <2>6, <2>7, <3>1 DEF ring_reconstruction, first
  <2>13. Answered(v, a, m)
    BY <1>3, <2>1, <2>2, <2>3, <2>5, <2>6, <2>12 DEF Answered
  <2>14. PICK c : c = ch
    OBVIOUS
  <2>15. Tells(v, Ids(m), chan, c) /\ c[<<"lead", v, a>>] # << >> /\ c \in Channels
    <3>1. chan \in Channels
      BY DEF IInv, TypeOK, Channels
    <3>2. e.sock = "lead" /\ e.id = a
      BY DEF Entry
    <3> DEFINE P == Ids(m)
    <3>3. a \in P
      BY <2>8
    <3> HIDE DEF e, t, P
    <3>4. /\ Tells(v, P, chan, Sent(chan, v, e, Know(v, t)))
          /\ Sent(chan, v, e, Know(v, t))[<<"lead", v, e.id>>] # << >>
      BY <2>3, <2>10, <3>1, <3>2, <3>3, TellsOne
    <3>5. Tells(v, P, chan, c) /\ c[<<"lead", v, a>>] # << >>
      BY <2>14, <3>2, <3>4
    <3> QED
      BY <3>5 DEF Tells, P
  <2>16. chan' = c \/ Tells(v, Ids(m), c, chan')
    <3>1. CASE Len(m) > 2
      <4>1. ~first
        <5>1. first => Len(k) = 1
          BY DEF Alone
        <5>2. Len(m) = Len(k) + 1 /\ ~(2 > 2)
          BY <2>4, <2>8
        <5>3. Len(k) = 1 => Len(m) = 2
          BY <5>2
        <5> HIDE DEF first
        <5> QED
          BY <3>1, <5>1, <5>2, <5>3
      <4>2. PICK q : q = m[p]
        OBVIOUS
      <4>3. q.sock = "lead" /\ q.id \in Ids(m) /\ q.id # v /\ q.id \in Server
        BY <2>8, <2>11, <4>1, <4>2, FollowersInOrder DEF Ids
      <4>4. Tells(v, Ids(m), c, Sent(c, v, q, Know(v, a)))
        BY <2>1, <2>15, <4>3, TellsOne
      <4> QED
        BY <2>12, <2>14, <3>1, <4>2, <4>4
    <3>2. CASE ~(Len(m) > 2)
      BY <2>12, <2>14, <3>2
    <3> QED
      BY <3>1, <3>2
  <2>17. AnswerSent(v, a, Ids(m))
    BY <2>13, <2>15, <2>16, AnswerArrives
  <2> QED
    BY <1>0, <1>1, <2>13, <2>17, AnswerKeeps
<1> QED
  BY <1>0, <1>2, <1>3 DEF RecvWho

-----------------------------------------------------------------------------
(* The start.                                                              *)

Concats(a, c, d) ==
    /\ Len(d) = Len(a) + Len(c)
    /\ \A i \in 1 .. Len(a) : d[i] = a[i]
    /\ \A i \in Len(a) + 1 .. Len(a) + Len(c) : d[i] = c[i - Len(a)]

LEMMA ConcatsIs ==
    ASSUME NEW E, NEW a \in Seq(E), NEW c \in Seq(E)
    PROVE  Concats(a, c, a \o c)
  BY ConcatAt DEF Concats

LEMMA LeaderListIs ==
    /\ LeaderList[1].leader /\ LeaderList[1].id = OldLeader
    /\ Len(LeaderList) = Size + 1
    /\ \A i \in 2 .. Len(LeaderList) :
          /\ LeaderList[i].id = InOrder[i - 1] /\ LeaderList[i].id \in Follower
          /\ LeaderList[i].sock = "lead" /\ LeaderList[i].heard
<1> DEFINE a == <<Entry(OldLeader, TRUE, "listen")>>
           b == [i \in DOMAIN InOrder |-> Entry(InOrder[i], FALSE, "lead")]
<1>1. Size \in Nat /\ DOMAIN InOrder = 1 .. Size /\ \A i \in 1 .. Size : InOrder[i] \in Follower
  BY FollowersInOrder DEF Ordering, Size
<1>2. /\ \A i \in 1 .. Size : b[i] = Entry(InOrder[i], FALSE, "lead")
      /\ b = [i \in 1 .. Size |-> Entry(InOrder[i], FALSE, "lead")]
  BY <1>1
<1>3. b \in Seq(Record) /\ Len(b) = Size
  <2>1. \A i \in 1 .. Size : Entry(InOrder[i], FALSE, "lead") \in Record
    BY <1>1, EntryType, FollowersInOrder DEF Sock, Link
  <2> HIDE DEF b
  <2>2. b \in [1 .. Size -> Record]
    BY <1>2, <2>1
  <2> QED
    BY <1>1, <2>2, SeqDef
<1>4. a \in Seq(Record) /\ Len(a) = 1 /\ a[1].leader /\ a[1].id = OldLeader
  <2> DEFINE e == Entry(OldLeader, TRUE, "listen")
  <2>1. e \in Record /\ e.leader /\ e.id = OldLeader
    BY ServerAssumption, EntryType DEF Sock, Entry
  <2>2. a = <<e>>
    OBVIOUS
  <2> HIDE DEF e, a
  <2> QED
    BY <2>1, <2>2
<1> DEFINE l == a \o b
<1>5. LeaderList = l
  BY DEF LeaderList
<1> HIDE DEF a, b
<1>6. /\ Len(l) = Len(a) + Len(b)
      /\ \A i \in 1 .. Len(a) : l[i] = a[i]
      /\ \A i \in Len(a) + 1 .. Len(a) + Len(b) : l[i] = b[i - Len(a)]
  <2>1. Concats(a, b, l)
    BY <1>3, <1>4, ConcatsIs
  <2> HIDE DEF l
  <2> QED
    BY <2>1 DEF Concats
<1> HIDE DEF l
<1>7. Len(l) = Size + 1 /\ l[1].leader /\ l[1].id = OldLeader
  BY <1>1, <1>3, <1>4, <1>6
<1>8. ASSUME NEW i \in 2 .. Len(l)
      PROVE  /\ l[i].id = InOrder[i - 1] /\ l[i].id \in Follower
             /\ l[i].sock = "lead" /\ l[i].heard
  <2>1. i - 1 \in 1 .. Size /\ i \in Len(a) + 1 .. Len(a) + Len(b)
    BY <1>1, <1>3, <1>4, <1>7
  <2>2. l[i] = Entry(InOrder[i - 1], FALSE, "lead")
    BY <1>2, <1>4, <1>6, <2>1
  <2> QED
    BY <1>1, <2>1, <2>2 DEF Entry
<1> QED
  BY <1>5, <1>7, <1>8

LEMMA InitOrderly ==
    ASSUME Init
    PROVE  Orderly /\ Election!Init
<1>1. /\ status = [s \in Server |-> "up"]
      /\ lst = [s \in Server |-> IF s = OldLeader THEN LeaderList ELSE FollowerList(s)]
      /\ participant = [s \in Server |-> FALSE]
      /\ succ = [s \in Server |-> IF s = OldLeader \/ Follower = {s} THEN NULL
                                  ELSE NextOf(s, Follower)]
      /\ chan = [c \in Conn |-> << >>]
      /\ mc = [s \in Server |-> {}]
      /\ spent.repeat = 0
  BY DEF Init
<1>2. /\ OldLeader \in Server /\ Follower \subseteq Server
      /\ \A f \in Follower : f \in Server /\ f # OldLeader
  BY ServerAssumption DEF Follower
<1>3. lst[OldLeader] = LeaderList /\ \A f \in Follower : lst[f] = FollowerList(f)
  BY <1>1, <1>2
<1>4. ASSUME NEW f \in Follower
      PROVE  ~Left(f) /\ Leads(f) = FALSE /\ (NoSecond(f) <=> Follower = {f})
  <2> DEFINE l == FollowerList(f)
  <2>1. /\ l \in Records /\ ~l[1].leader /\ l[2].id = OldLeader
        /\ Len(l) = IF Follower = {f} THEN 2 ELSE 3
    BY FollowerListIs
  <2>2. lst[f] = l
    BY <1>3
  <2> HIDE DEF l
  <2>3. /\ Len(l) = 2 \/ Len(l) = 3
        /\ Len(l) = 2 <=> Follower = {f}
    BY <2>1
  <2>4. Len(l) > 1 /\ (Len(l) <= 2 <=> Follower = {f}) /\ 1 \in 1 .. Len(l)
    <3>1. \A i \in {2, 3} : i > 1 /\ (i <= 2 <=> i = 2) /\ 1 \in 1 .. i
      OBVIOUS
    <3> QED
      BY <2>3, <3>1
  <2>5. l[1].leader = FALSE
    BY <2>1, <2>4, RecordType
  <2> QED
    BY <2>1, <2>2, <2>4, <2>5 DEF Left, InOldRing, Leads, NoSecond
<1>5. \A c \in Conn : chan[c] = << >>
  BY <1>1
<1>6. Begins
  <2>1. Leads(OldLeader) /\ PeersOk(OldLeader)
    BY <1>3, LeaderListIs DEF Leads, PeersOk
  <2>2. Follower # {} => ~Alone(OldLeader)
    <3> SUFFICES ASSUME NEW f \in Follower PROVE Len(LeaderList) # 1
      BY <1>3 DEF Alone
    <3>1. Size \in Nat /\ Pos(f) \in Positions /\ Len(LeaderList) = Size + 1
      BY PosIs, RingIdIs, LeaderListIs
    <3> QED
      BY <3>1 DEF Positions
  <2> QED
    BY <1>4, <1>5, <2>1, <2>2 DEF Begins
<1>7. Stays /\ Wins /\ Seeks
  BY <1>3, <1>4 DEF Stays, Wins, Seeks
<1>8. Succs
  BY <1>1, <1>2, NextOfFollower DEF Succs
<1>9. Carry
  <2> SUFFICES ASSUME NEW c \in Conn PROVE chan[c] \in Seq(Allowed(c))
    BY DEF Carry
  <2> DEFINE A == Allowed(c)
  <2> HIDE DEF A
  <2>1. << >> \in Seq(A)
    OBVIOUS
  <2> QED
    BY <1>5, <2>1 DEF A
<1>10. Swept
  <2>1. AnnouncedLast(<< >>) /\ ~Announces(<< >>)
    BY DEF AnnouncedLast, Announces
  <2>2. ASSUME NEW c \in Conn, OldEdge(c) PROVE ~Done(c[3])
    BY <1>4, <2>2, OldEdgeIs DEF Done
  <2> QED
    BY <1>5, <2>1, <2>2 DEF Swept, SweptAt
<1>11. Asks
  BY <1>1 DEF Asks
<1>12. Election!Init
  <2>1. /\ Size \in Nat /\ DOMAIN RingId = Positions /\ Election!Node = Positions
        /\ \A n \in Positions : RingId[n] \in Follower
    BY RingIdIs DEF Election!Node, Positions, Size
  <2>2. /\ OfRing(status) = [n \in Election!Node |-> "up"]
        /\ OfRing(participant) = [n \in Election!Node |-> FALSE]
    BY <1>1, <1>2, <2>1 DEF OfRing
  <2>3. RingLeads = [n \in Election!Node |-> FALSE]
    BY <1>4, <2>1 DEF RingLeads
  <2>4. RingPeers = [n \in Election!Node |-> IF Size = 1 THEN "cut" ELSE "ring"]
    <3>1. ASSUME NEW f \in Follower PROVE Follower = {f} <=> Size = 1
      <4>1. Pos(f) \in Positions
        BY PosIs
      <4>2. NextOf(f, Follower) = f <=> Follower = {f}
        BY Neighbour
      <4>3. NextOf(f, Follower) \in Follower /\ Pos(NextOf(f, Follower)) = After(Pos(f))
        BY Neighbour
      <4>4. NextOf(f, Follower) = f <=> After(Pos(f)) = Pos(f)
        BY <4>3, PosIs
      <4>5. After(Pos(f)) = Pos(f) <=> Size = 1
        BY <2>1, <4>1 DEF After, Positions
      <4> QED
        BY <4>2, <4>4, <4>5
    <3>2. \A n \in Positions : /\ InOldRing(RingId[n])
                               /\ NoSecond(RingId[n]) <=> Size = 1
      BY <1>4, <2>1, <3>1 DEF Left
    <3> QED
      BY <2>1, <3>2 DEF RingPeers
  <2>5. RingInbox(chan) = [n \in Election!Node |-> << >>]
    <3>1. ASSUME NEW s \in Follower, Before(s) # s
          PROVE  chan[<<"ring", Before(s), s>>] = << >>
      <4>1. Before(s) \in Follower
        BY Neighbour
      <4>2. <<"ring", Before(s), s>> \in Conn
        BY <1>2, <3>1, <4>1 DEF Conn, Link
      <4> QED
        BY <1>5, <4>2
    <3> QED
      BY <2>1, <3>1 DEF RingInbox
  <2>6. RingAsking = {}
    BY <1>4, <2>1 DEF RingAsking, Left
  <2> QED
    BY <1>1, <2>2, <2>3, <2>4, <2>5, <2>6 DEF Election!Init, Size
<1> QED
  BY <1>6, <1>7, <1>8, <1>9, <1>10, <1>11, <1>12 DEF Orderly

-----------------------------------------------------------------------------
(* Every step.                                                             *)

(* The dead stay dead.                                                     *)
LEMMA DeadStay ==
    ASSUME IInv, [Next]_vars, FollowersUp'
    PROVE  FollowersUp
<1>1. UNCHANGED status \/ \E s \in Server : \E how \in Death : Die(s, how)
  <2>1. CASE UNCHANGED vars
    BY <2>1 DEF vars
  <2>2. ASSUME NEW s \in Server, \/ Crash(s) \/ Heartbeat(s) \/ ClaimAlone(s) \/ StartVote(s)
                                 \/ RepeatVote(s) \/ SuccessorGone(s)
        PROVE  UNCHANGED status \/ \E how \in Death : Die(s, how)
    BY <2>2 DEF Crash, Heartbeat, ClaimAlone, StartVote, RepeatVote, SuccessorGone, NullDeref,
                Death
  <2>3. ASSUME NEW v \in Server, NEW c \in Conn, Receive(v, c)
        PROVE  UNCHANGED status \/ \E how \in Death : Die(v, how)
    BY <2>3 DEF Receive, RecvVoteGreater, RecvVoteSmaller, RecvVoteMine, RecvLeaderMine,
                RecvLeaderOther, RecvUpdate, RecvKnow, Ignore, NullDeref, Exit, Death
  <2>4. ASSUME NEW v \in Server, NEW d \in mc[v], RecvDatagram(v, d) \/ Lose(v, d)
        PROVE  UNCHANGED status \/ \E how \in Death : Die(v, how)
    BY <2>4 DEF RecvDatagram, RecvWho, RecvHeartbeat, Lose, NullDeref, Death
  <2>5. ASSUME NEW s \in Server, NEW i \in DOMAIN lst[s],
               PeerGone(s, i) \/ BrokenPipe(s, i) \/ EvictSilent(s, i)
        PROVE  UNCHANGED status \/ \E how \in Death : Die(s, how)
    BY <2>5 DEF PeerGone, BrokenPipe, EvictSilent, Exit, Death
  <2> QED
    BY <2>1, <2>2, <2>3, <2>4, <2>5 DEF Next
<1>2. CASE UNCHANGED status
  BY <1>2 DEF FollowersUp, Up
<1>3. ASSUME NEW s \in Server, NEW how \in Death, Die(s, how)
      PROVE  FollowersUp
  <2>1. status' = [status EXCEPT ![s] = how] /\ how # "up"
    BY <1>3 DEF Die, Death
  <2>2. \A f \in Follower : f \in Server /\ status'[f] = "up"
    BY FollowersInOrder DEF FollowersUp, Up
  <2>3. status \in [Server -> {"up"} \cup Death]
    BY DEF IInv, TypeOK
  <2>4. \A f \in Follower : status[f] = "up"
    BY <2>1, <2>2, <2>3
  <2> QED
    BY <2>4 DEF FollowersUp, Up
<1> QED
  BY <1>1, <1>2, <1>3

LEMMA ReceiveStep ==
    ASSUME IInv, Orderly, FollowersUp, FollowersUp', NEW v \in Server, NEW c \in Conn,
           Receive(v, c)
    PROVE  Orderly' /\ Elects
  BY RecvVoteGreaterStep, RecvVoteSmallerStep, RecvVoteMineStep, RecvLeaderMineStep,
     RecvLeaderOtherStep, NoUpdate, RecvKnowStep DEF Receive

LEMMA NextStep ==
    ASSUME IInv, Orderly, FollowersUp, FollowersUp', Next
    PROVE  Orderly' /\ Elects
<1>1. ASSUME NEW s \in Server,
             \/ Crash(s) \/ Heartbeat(s) \/ ClaimAlone(s) \/ StartVote(s)
             \/ RepeatVote(s) \/ SuccessorGone(s)
      PROVE  Orderly' /\ Elects
  BY <1>1, EndStep, BeatStep, ClaimAloneStep, StartVoteStep, RepeatVoteStep, SuccessorIsThere
<1>2. ASSUME NEW v \in Server, NEW c \in Conn, Receive(v, c)
      PROVE  Orderly' /\ Elects
  BY <1>2, ReceiveStep
<1>3. ASSUME NEW v \in Server, NEW d \in mc[v], RecvDatagram(v, d) \/ Lose(v, d)
      PROVE  Orderly' /\ Elects
  BY <1>3, RecvWhoStep, HeartbeatRead DEF RecvDatagram
<1>4. ASSUME NEW s \in Server, NEW i \in DOMAIN lst[s],
             PeerGone(s, i) \/ BrokenPipe(s, i) \/ EvictSilent(s, i)
      PROVE  Orderly' /\ Elects
  BY <1>4, PeersAreThere, EndStep, PeersAreHeard
<1> QED
  BY <1>1, <1>2, <1>3, <1>4 DEF Next

LEMMA StutterStep ==
    ASSUME Orderly, UNCHANGED vars
    PROVE  Orderly'
  BY Undisturbed DEF vars, Up

LEMMA OrderlyStays ==
    ASSUME IInv, FollowersUp => Orderly, [Next]_vars
    PROVE  (FollowersUp => Orderly)' /\ [FollowersUp' => Elects]_vars
<1>1. CASE ~FollowersUp'
  BY <1>1
<1>2. CASE FollowersUp'
  <2>1. FollowersUp /\ Orderly
    BY <1>2, DeadStay
  <2>2. CASE Next
    BY <1>2, <2>1, <2>2, NextStep
  <2>3. CASE UNCHANGED vars
    BY <2>1, <2>3, StutterStep
  <2> QED
    BY <2>2, <2>3
<1> QED
  BY <1>1, <1>2

-----------------------------------------------------------------------------
(* As long as no follower dies, Failover implements Election: the lists,   *)
(* connections and multicasts of any number of servers take no step that   *)
(* the election on the old ring does not.                                  *)
THEOREM ImplementsElection == Spec => ElectionSpec
<1> DEFINE J == FollowersUp => Orderly
<1>1. Init => J /\ Election!Init
  BY InitOrderly
<1>2. IInv /\ J /\ [Next]_vars => J' /\ [FollowersUp' => Elects]_vars
  BY OrderlyStays
<1>3. IInv /\ J /\ [Next]_vars =>
         J' /\ [FollowersUp' => Election!Next \/ UNCHANGED Election!vars]_vars
  BY <1>2 DEF Elects
<1>4. Spec => []IInv
  BY Invariance
<1> QED
  BY <1>1, <1>3, <1>4, PTL DEF Spec, ElectionSpec

-----------------------------------------------------------------------------
(* One fault kills nobody else.                                            *)

(* What is not spent has not happened, and nobody has died but by a crash. *)
Spared ==
    /\ spent.crash = 0 => \A s \in Server : Up(s)
    /\ spent.beats = 0 => \A v \in Server : \A d \in mc[v] : d.kind # "HEARTBEAT"
    /\ \A s \in Server : status[s] \in {"up", "crashed"}

OneFault == spent.crash + spent.beats < 2

(* The lists that the leader and the followers start with.                 *)
Untouched == Up(OldLeader) =>
    /\ lst[OldLeader] = LeaderList
    /\ \A f \in Follower : succ[f] # NULL => Len(lst[f]) > 2

(* Whoever reads a message of the election can pass it on, or has won.     *)
LEMMA ReaderHasSecond ==
    ASSUME IInv, Orderly, NEW v \in Server, NEW c \in Conn,
           NEW kind \in {"VOTE", "LEADER"}, Reads(v, c, kind)
    PROVE  ~NoSecond(v) \/ (Leads(v) /\ participant[v] /\ IsTop(v))
<1>1. /\ OldEdge(c) /\ c[3] = v /\ v \in Follower
      /\ ~Left(v) \/ (Leads(v) /\ participant[v])
  BY ElectionMessages
<1>2. ~Left(v) => ~NoSecond(v)
  <2>1. Follower # {v}
    BY <1>1, OldEdgeIs
  <2> QED
    BY <1>1, <2>1, Staying
<1>3. Leads(v) => IsTop(v)
  BY <1>1 DEF Orderly, Wins
<1> QED
  BY <1>1, <1>2, <1>3

LEMMA ReceivingIsSafe ==
    ASSUME IInv, Orderly, FollowersUp, NEW v \in Server, NEW c \in Conn, Receive(v, c)
    PROVE  UNCHANGED <<status, spent>>
<1>1. Len(lst[v]) = 2 => NoSecond(v)
  <2>1. \A i : i = 2 => i <= 2
    OBVIOUS
  <2> QED
    BY <2>1 DEF NoSecond
<1>2. CASE RecvVoteGreater(v, c)
  <2>1. Reads(v, c, "VOTE") /\ Head(chan[c]).id > v
    BY <1>2 DEF RecvVoteGreater
  <2>2. v \in Follower /\ ~Left(v) /\ Follower # {v}
    BY <2>1, GreaterVote, ElectionMessages, OldEdgeIs
  <2>3. ~NoSecond(v)
    BY <2>2, Staying
  <2> QED
    BY <1>1, <1>2, <2>3 DEF RecvVoteGreater, Ignore
<1>3. CASE RecvVoteSmaller(v, c)
  <2>1. Reads(v, c, "VOTE")
    BY <1>3 DEF RecvVoteSmaller
  <2>2. ~NoSecond(v) \/ participant[v]
    BY <2>1, ReaderHasSecond
  <2> QED
    BY <1>1, <1>3, <2>2 DEF RecvVoteSmaller, Ignore
<1>4. CASE RecvVoteMine(v, c)
  <2>1. Reads(v, c, "VOTE")
    BY <1>4 DEF RecvVoteMine
  <2>2. ~NoSecond(v) \/ Leads(v)
    BY <2>1, ReaderHasSecond
  <2> QED
    BY <1>4, <2>2 DEF RecvVoteMine, Ignore
<1>5. CASE RecvLeaderOther(v, c)
  <2> DEFINE m == Head(chan[c])
  <2>1. Reads(v, c, "LEADER") /\ m.id # v
    BY <1>5 DEF RecvLeaderOther
  <2>2. m.id \in Follower /\ IsTop(m.id) /\ v \in Follower
    BY <2>1, ElectionMessages DEF OfElection
  <2>3. ~IsTop(v)
    <3>1. v \in Nat /\ m.id \in Nat
      BY <2>2, FollowersInOrder
    <3>2. v <= m.id /\ (IsTop(v) => m.id <= v)
      BY <2>2 DEF IsTop
    <3> QED
      BY <2>1, <3>1, <3>2
  <2>4. ~NoSecond(v)
    BY <2>1, <2>3, ReaderHasSecond
  <2> QED
    BY <1>1, <1>5, <2>4 DEF RecvLeaderOther, Ignore
<1>6. CASE RecvKnow(v, c)
  <2>1. Reads(v, c, "KNOW_NEW_LEADER")
    BY <1>6 DEF RecvKnow
  <2>2. PICK x : x = Head(chan[c])
    OBVIOUS
  <2>3. x.succ \in Follower \cup {NULL}
    BY <2>1, <2>2, LeaderMessages
  <2>4. x.succ # NULL => Up(x.succ)
    BY <2>3 DEF FollowersUp
  <2> QED
    BY <1>6, <2>2, <2>4 DEF RecvKnow
<1>7. RecvLeaderMine(v, c) => UNCHANGED <<status, spent>>
  BY DEF RecvLeaderMine
<1> QED
  BY <1>2, <1>3, <1>4, <1>5, <1>6, <1>7, NoUpdate DEF Receive

(* A heartbeat finds nobody alone while its sender is there.               *)
LEMMA HeartbeatIsSafe ==
    ASSUME IInv, Orderly, Up(OldLeader), NEW v \in Server, NEW d \in mc[v],
           RecvHeartbeat(v, d)
    PROVE  UNCHANGED <<status, spent>>
<1>1. Leads(v) \/ ~Alone(v)
  BY Staying DEF Orderly, Begins, Follower
<1> QED
  BY <1>1 DEF RecvHeartbeat

LEMMA PipeHolds ==
    ASSUME IInv, Orderly, FollowersUp, NEW s \in Server, NEW i \in DOMAIN lst[s],
           BrokenPipe(s, i)
    PROVE  FALSE
<1> DEFINE e == lst[s][i]
           c == <<e.sock, s, e.id>>
<1>1. Up(s) /\ e.sock \in Link /\ ~Up(e.id) /\ Len(chan[c]) > IF Leads(s) THEN 1 ELSE 0
  BY DEF BrokenPipe
<1>2. e.id \in Server
  BY ListBefore, RecordType
<1>3. e.id = OldLeader
  BY <1>1, <1>2 DEF FollowersUp, Follower
<1>4. c \in Conn /\ c[3] = OldLeader
  BY <1>1, <1>2, <1>3 DEF Conn
<1>5. chan[c] = << >>
  BY <1>4, NothingForOldLeader
<1> HIDE DEF c
<1> QED
  BY <1>1, <1>5

(* As long as no follower has died, a step kills nobody but by a crash.    *)
LEMMA OnlyCrashesKill ==
    ASSUME IInv, Orderly, FollowersUp, Spared, OneFault, Next
    PROVE  (\E s \in Server : Crash(s)) \/ UNCHANGED status
<1>1. ASSUME NEW s \in Server, \/ Heartbeat(s) \/ ClaimAlone(s) \/ StartVote(s)
                               \/ RepeatVote(s) \/ SuccessorGone(s)
      PROVE  UNCHANGED status
  BY <1>1, SuccessorIsThere DEF Heartbeat, ClaimAlone, StartVote, RepeatVote
<1>2. ASSUME NEW v \in Server, NEW c \in Conn, Receive(v, c)
      PROVE  UNCHANGED status
  BY <1>2, ReceivingIsSafe
<1>3. ASSUME NEW v \in Server, NEW d \in mc[v], RecvDatagram(v, d) \/ Lose(v, d)
      PROVE  UNCHANGED status
  <2>1. CASE RecvHeartbeat(v, d)
    <3>1. spent.beats # 0
      BY <2>1 DEF Spared, RecvHeartbeat
    <3>2. spent.crash = 0
      BY <3>1 DEF OneFault, IInv, TypeOK
    <3>3. Up(OldLeader)
      BY <3>2, ServerAssumption DEF Spared
    <3> QED
      BY <2>1, <3>3, HeartbeatIsSafe
  <2>2. CASE RecvWho(v, d) \/ Lose(v, d)
    BY <2>2 DEF RecvWho, Lose
  <2> QED
    BY <1>3, <2>1, <2>2 DEF RecvDatagram
<1>4. ASSUME NEW s \in Server, NEW i \in DOMAIN lst[s],
             PeerGone(s, i) \/ BrokenPipe(s, i) \/ EvictSilent(s, i)
      PROVE  UNCHANGED status
  BY <1>4, PeersAreThere, PipeHolds, PeersAreHeard
<1> QED
  BY <1>1, <1>2, <1>3, <1>4 DEF Next

(* A step that is no fault counts none, and multicasts no heartbeat.       *)
FaultFree ==
    /\ spent'.crash = spent.crash /\ spent'.beats = spent.beats
    /\ \A u \in Server : \A d \in mc'[u] : d.kind = "HEARTBEAT" => d \in mc[u]

LEMMA NewDatagrams ==
    ASSUME IInv
    PROVE  /\ UNCHANGED mc => \A u \in Server : mc'[u] = mc[u]
           /\ \A v, d : Taken(v, d) => \A u \in Server : mc'[u] \subseteq mc[u]
           /\ \A s, how : Die(s, how) => \A u \in Server : mc'[u] \subseteq mc[u]
           /\ \A s : Multicast(s, Who(s)) =>
                 \A u \in Server : \A d \in mc'[u] : d.kind = "HEARTBEAT" => d \in mc[u]
<1>1. mc \in [Server -> SUBSET Datagram]
  BY DEF IInv, TypeOK
<1>2. \A v, d : Taken(v, d) => \A u \in Server : mc'[u] \subseteq mc[u]
  BY <1>1 DEF Taken
<1>3. \A s, how : Die(s, how) => \A u \in Server : mc'[u] \subseteq mc[u]
  BY <1>1 DEF Die
<1>4. ASSUME NEW s, Multicast(s, Who(s)), NEW u \in Server, NEW d \in mc'[u],
             d.kind = "HEARTBEAT"
      PROVE  d \in mc[u]
  <2>1. d \in mc[u] \/ d = Who(s)
    BY <1>4 DEF Multicast
  <2> QED
    BY <1>4, <2>1 DEF Who
<1> QED
  BY <1>2, <1>3, <1>4

LEMMA ReceiveFaultFree ==
    ASSUME IInv, NEW v \in Server, NEW c \in Conn, Receive(v, c)
    PROVE  FaultFree
<1>1. UNCHANGED spent
  BY DEF Receive, RecvVoteGreater, RecvVoteSmaller, RecvVoteMine, RecvLeaderMine,
         RecvLeaderOther, RecvUpdate, RecvKnow, Ignore, NullDeref, Exit
<1>2. UNCHANGED mc \/ (\E how : Die(v, how)) \/ Multicast(v, Who(v))
  BY DEF Receive, RecvVoteGreater, RecvVoteSmaller, RecvVoteMine, RecvLeaderMine,
         RecvLeaderOther, RecvUpdate, RecvKnow, Ignore, NullDeref, Exit
<1> QED
  BY <1>1, <1>2, NewDatagrams DEF FaultFree

LEMMA FaultsCounted ==
    ASSUME IInv, [Next]_vars
    PROVE  \/ (\E s \in Server : Crash(s)) /\ spent'.crash = spent.crash + 1
                                           /\ spent'.beats = spent.beats
           \/ (\E s \in Server : Heartbeat(s)) /\ spent'.beats = spent.beats + 1
                                               /\ spent'.crash = spent.crash
           \/ FaultFree
<1>1. ASSUME NEW s \in Server, Crash(s)
      PROVE  spent'.crash = spent.crash + 1 /\ spent'.beats = spent.beats
  BY <1>1 DEF Crash, IInv, TypeOK
<1>2. ASSUME NEW s \in Server, Heartbeat(s)
      PROVE  spent'.beats = spent.beats + 1 /\ spent'.crash = spent.crash
  BY <1>2 DEF Heartbeat, IInv, TypeOK
<1>3. ASSUME NEW s \in Server, ClaimAlone(s) \/ StartVote(s) \/ RepeatVote(s) \/ SuccessorGone(s)
      PROVE  FaultFree
  <2>1. spent'.crash = spent.crash /\ spent'.beats = spent.beats
    BY <1>3 DEF ClaimAlone, StartVote, RepeatVote, SuccessorGone, NullDeref, IInv, TypeOK
  <2>2. UNCHANGED mc \/ \E how : Die(s, how)
    BY <1>3 DEF ClaimAlone, StartVote, RepeatVote, SuccessorGone, NullDeref
  <2> QED
    BY <2>1, <2>2, NewDatagrams DEF FaultFree
<1>4. ASSUME NEW v \in Server, NEW d \in mc[v], RecvDatagram(v, d) \/ Lose(v, d)
      PROVE  FaultFree
  <2>1. spent'.crash = spent.crash /\ spent'.beats = spent.beats
    BY <1>4 DEF RecvDatagram, RecvWho, RecvHeartbeat, Lose, NullDeref, IInv, TypeOK
  <2>2. Taken(v, d) \/ \E how : Die(v, how)
    BY <1>4 DEF RecvDatagram, RecvWho, RecvHeartbeat, Lose, NullDeref
  <2> QED
    BY <2>1, <2>2, NewDatagrams DEF FaultFree
<1>5. ASSUME NEW s \in Server, NEW i \in DOMAIN lst[s],
             PeerGone(s, i) \/ BrokenPipe(s, i) \/ EvictSilent(s, i)
      PROVE  FaultFree
  <2>1. UNCHANGED spent
    BY <1>5 DEF PeerGone, BrokenPipe, EvictSilent, Exit
  <2>2. UNCHANGED mc \/ \E how : Die(s, how)
    BY <1>5 DEF PeerGone, BrokenPipe, EvictSilent, Exit
  <2> QED
    BY <2>1, <2>2, NewDatagrams DEF FaultFree
<1>6. UNCHANGED vars => FaultFree
  BY NewDatagrams DEF vars, FaultFree
<1> QED
  BY <1>1, <1>2, <1>3, <1>4, <1>5, <1>6, ReceiveFaultFree DEF Next

LEMMA FaultsGrow ==
    ASSUME IInv, [Next]_vars, OneFault'
    PROVE  /\ OneFault
           /\ \/ /\ \E s \in Server : Crash(s)
                 /\ spent.crash = 0 /\ spent.beats = 0 /\ spent'.crash = 1 /\ spent'.beats = 0
              \/ /\ \E s \in Server : Heartbeat(s)
                 /\ spent.crash = 0 /\ spent'.crash = 0 /\ spent'.beats = 1
              \/ FaultFree
<1>1. spent.crash \in Nat /\ spent.beats \in Nat
  BY BoundAssumption DEF IInv, TypeOK
<1>2. spent'.crash + spent'.beats < 2
  BY DEF OneFault
<1> QED
  BY <1>1, <1>2, FaultsCounted DEF OneFault, FaultFree

(* The old ring is as it was as long as its leader is there.               *)
LEMMA UntouchedStays ==
    ASSUME IInv, Orderly, FollowersUp, Untouched, UNCHANGED status, [Next]_vars
    PROVE  Untouched'
<1> SUFFICES ASSUME Up(OldLeader) PROVE UNCHANGED <<lst, succ>>
  BY DEF Untouched, Up
<1>1. \A c \in Conn : chan[c] = << >>
  BY DEF Orderly, Begins
<1>2. ASSUME NEW s \in Server, \/ Crash(s) \/ Heartbeat(s) \/ ClaimAlone(s) \/ StartVote(s)
                               \/ RepeatVote(s) \/ SuccessorGone(s)
      PROVE  UNCHANGED <<lst, succ>>
  <2>1. ~ClaimAlone(s) /\ ~SuccessorGone(s)
    BY TimedOut, SuccessorIsThere DEF ClaimAlone
  <2> QED
    BY <1>2, <2>1 DEF Crash, Die, Heartbeat, StartVote, RepeatVote, locals
<1>3. ASSUME NEW v \in Server, NEW c \in Conn, Receive(v, c)
      PROVE  FALSE
  <2>1. chan[c] # << >>
    BY <1>3 DEF Receive, RecvVoteGreater, RecvVoteSmaller, RecvVoteMine, RecvLeaderMine,
                RecvLeaderOther, RecvUpdate, RecvKnow, Reads
  <2> QED
    BY <1>1, <2>1
<1>4. ASSUME NEW v \in Server, NEW d \in mc[v], RecvDatagram(v, d) \/ Lose(v, d)
      PROVE  UNCHANGED <<lst, succ>>
  <2>1. ~RecvWho(v, d)
    BY DEF RecvWho, Orderly, Asks, Begins
  <2> QED
    BY <1>4, <2>1 DEF RecvDatagram, RecvHeartbeat, NullDeref, Die, Lose, locals
<1>5. ASSUME NEW s \in Server, NEW i \in DOMAIN lst[s],
             PeerGone(s, i) \/ BrokenPipe(s, i) \/ EvictSilent(s, i)
      PROVE  FALSE
  BY <1>5, PeersAreThere, PipeHolds, PeersAreHeard
<1> QED
  BY <1>2, <1>3, <1>4, <1>5 DEF Next, vars

-----------------------------------------------------------------------------
(* Follower x has died, and nobody else has or will.                       *)

(* What the leader still lists; it writes only to those that are up.       *)
StillLists(l, x) ==
    /\ Len(l) > 0 /\ l[1].leader /\ Distinct(l)
    /\ \A i \in 2 .. Len(l) :
          /\ l[i].id \in Follower /\ l[i].heard
          /\ l[i].id # x => l[i].sock = "lead"
    /\ Follower \ {x} \subseteq Ids(l)

(* What a follower still knows; it had a successor if it had x for one.    *)
StillFollows(f, x) ==
    /\ ~Leads(f) /\ ~Alone(f) /\ lst[f][2].id = OldLeader
    /\ succ[f] = x => Len(lst[f]) > 2
    /\ succ[f] \in Follower \cup {NULL}

(* The leader sends the followers that are left to each other.             *)
Told(c, x) ==
    IF c[1] = "lead" /\ c[2] = OldLeader /\ c[3] # x
    THEN {m \in Message : m.kind = "UPDATE_FROM_LEADER" /\ m.succ \in Follower \ {x}}
    ELSE {}

Bereft(x) ==
    /\ \A s \in Server : Up(s) <=> s # x
    /\ StillLists(lst[OldLeader], x)
    /\ \A f \in Follower \ {x} : StillFollows(f, x)
    /\ \A c \in Conn : chan[c] \in Seq(Told(c, x))
    /\ \A v \in Server : mc[v] = {}

LEMMA LeaderListNames ==
    ASSUME LeaderList \in Records
    PROVE  Distinct(LeaderList) /\ Follower \subseteq Ids(LeaderList) /\ Len(LeaderList) > 0
<1> DEFINE l == LeaderList
<1>1. /\ l[1].id = OldLeader /\ Len(l) = Size + 1 /\ DOMAIN l = 1 .. Size + 1 /\ Size \in Nat
      /\ \A i \in 2 .. Size + 1 : l[i].id = InOrder[i - 1] /\ l[i].id \in Follower
  BY LeaderListIs, RingIdIs DEF Records
<1> HIDE DEF l
<1>2. /\ \A i \in 2 .. Size + 1 : i - 2 \in Positions /\ (i - 2) + 1 = i - 1
      /\ \A n \in Positions : n + 2 \in 2 .. Size + 1 /\ (n + 2) - 1 = n + 1
  BY <1>1 DEF Positions
<1>3. \A n \in Positions : RingId[n] = InOrder[n + 1]
  BY DEF RingId, Positions, Size
<1>4. \A i \in 2 .. Size + 1 : l[i].id = RingId[i - 2]
  BY <1>1, <1>2, <1>3
<1>5. ASSUME NEW i \in 1 .. Size + 1, NEW j \in 1 .. Size + 1, l[i].id = l[j].id
      PROVE  i = j
  <2>1. (i = 1 \/ i \in 2 .. Size + 1) /\ (j = 1 \/ j \in 2 .. Size + 1)
    BY <1>1
  <2>2. CASE i \in 2 .. Size + 1 /\ j \in 2 .. Size + 1
    <3>1. i - 2 \in Positions /\ j - 2 \in Positions /\ RingId[i - 2] = RingId[j - 2]
      BY <1>2, <1>4, <1>5, <2>2
    <3>2. i - 2 = j - 2
      BY <3>1, PosIs, RingIdIs
    <3> QED
      BY <2>2, <3>2
  <2>3. OldLeader \notin Follower
    BY DEF Follower
  <2> QED
    BY <1>1, <1>5, <2>1, <2>2, <2>3
<1>6. ASSUME NEW f \in Follower PROVE f \in Ids(l)
  <2>1. Pos(f) \in Positions /\ RingId[Pos(f)] = f
    BY PosIs
  <2>2. PICK i : i = Pos(f) + 2
    OBVIOUS
  <2>3. i \in 2 .. Size + 1 /\ i - 1 = Pos(f) + 1
    BY <1>2, <2>1, <2>2
  <2>4. l[i].id = f
    BY <1>1, <1>3, <2>1, <2>3
  <2> QED
    BY <1>1, <2>3, <2>4 DEF Ids
<1>7. Size + 1 > 0
  BY <1>1
<1> QED
  BY <1>1, <1>5, <1>6, <1>7 DEF Distinct, l

LEMMA FollowerDies ==
    ASSUME IInv, Orderly, FollowersUp, Spared, Untouched, spent.beats = 0, spent.crash = 0,
           NEW x \in Follower, Crash(x)
    PROVE  Bereft(x)'
<1>1. /\ status' = [status EXCEPT ![x] = "crashed"] /\ UNCHANGED <<lst, succ>>
      /\ chan' = [c \in Conn |-> IF c[3] = x THEN << >> ELSE chan[c]]
      /\ mc' = [mc EXCEPT ![x] = {}]
  BY DEF Crash, Die, locals
<1>2. \A s \in Server : Up(s)
  BY DEF Spared
<1>3. Up(OldLeader) /\ x \in Server /\ x # NULL /\ NULL \notin Follower
  BY <1>2, ServerAssumption DEF Follower, NULL
<1>4. \A s \in Server : Up(s)' <=> s # x
  BY <1>1, <1>2, <1>3 DEF Up, IInv, TypeOK
<1>5. /\ Leads(OldLeader) /\ \A f \in Follower : ~Left(f) /\ succ[f] \in Follower \cup {NULL}
      /\ \A c \in Conn : chan[c] = << >>
  BY <1>3 DEF Orderly, Begins, Succs
<1>6. StillLists(lst[OldLeader], x)
  <2>1. lst[OldLeader] = LeaderList /\ LeaderList \in Records
    BY <1>3, ListBefore, ServerAssumption DEF Untouched
  <2> QED
    BY <2>1, LeaderListNames, LeaderListIs DEF StillLists
<1>7. ASSUME NEW f \in Follower PROVE StillFollows(f, x)
  <2>1. ~Leads(f) /\ ~Alone(f) /\ lst[f][2].id = OldLeader
    BY <1>5, Staying
  <2>2. succ[f] = x => Len(lst[f]) > 2
    BY <1>3 DEF Untouched
  <2> QED
    BY <1>5, <2>1, <2>2 DEF StillFollows
<1>8. ASSUME NEW c \in Conn PROVE chan'[c] \in Seq(Told(c, x))
  <2> DEFINE A == Told(c, x)
  <2>1. chan'[c] = << >>
    BY <1>1, <1>5
  <2> HIDE DEF A
  <2>2. << >> \in Seq(A)
    OBVIOUS
  <2> QED
    BY <2>1, <2>2 DEF A
<1>9. ASSUME NEW v \in Server PROVE mc'[v] = {}
  <2>1. \A d \in mc[v] : d.kind # "HEARTBEAT" /\ d.kind # "WHO_IS_LEADER"
    BY <1>5 DEF Spared, Orderly, Asks
  <2>2. mc[v] = {}
    BY <2>1, DatagramParts DEF IInv
  <2> QED
    BY <1>1, <2>2 DEF IInv, TypeOK
<1>10. /\ StillLists(lst[OldLeader], x)' /\ \A f \in Follower : StillFollows(f, x)'
  BY <1>1, <1>6, <1>7 DEF StillLists, StillFollows, Leads, Alone
<1>11. \A c : Told(c, x)' = Told(c, x)
  BY DEF Told
<1> QED
  BY <1>4, <1>8, <1>9, <1>10, <1>11 DEF Bereft

(* What is known of the servers that are left.                             *)
LEMMA BereftIs ==
    ASSUME IInv, NEW x \in Follower, Bereft(x)
    PROVE  /\ Up(OldLeader) /\ Leads(OldLeader) /\ (Follower # {x} => ~Alone(OldLeader))
           /\ OldLeader \in Server /\ x \in Server /\ ~Up(x) /\ x # OldLeader
           /\ \A s \in Server : Up(s) /\ ~Leads(s) => s \in Follower \ {x}
           /\ \A s \in Server : Up(s) /\ Leads(s) => s = OldLeader
<1>1. OldLeader \in Server /\ x \in Server /\ x # OldLeader
  BY ServerAssumption DEF Follower
<1>2. Up(OldLeader) /\ ~Up(x) /\ Leads(OldLeader)
  BY <1>1 DEF Bereft, StillLists, Leads
<1>3. ASSUME NEW f \in Follower, f # x PROVE ~Alone(OldLeader)
  <2>1. f \in Ids(lst[OldLeader])
    BY <1>3 DEF Bereft, StillLists
  <2>2. \A n : n = 1 => 2 .. n = {}
    OBVIOUS
  <2> QED
    BY <2>1, <2>2 DEF Ids, Alone
<1>4. ASSUME NEW s \in Server, Up(s) PROVE s = OldLeader \/ (s \in Follower \ {x} /\ ~Leads(s))
  BY <1>2, <1>4 DEF Bereft, StillFollows, Follower
<1> QED
  BY <1>1, <1>2, <1>3, <1>4

LEMMA BereftDoNotTimeOut ==
    ASSUME IInv, NEW x \in Follower, Bereft(x), NEW n \in Server, TimesOut(n)
    PROVE  FALSE
<1>1. Up(n) /\ ~Leads(n) /\ LeaderSilent(n)
  BY DEF TimesOut
<1>2. n \in Follower \ {x} /\ Up(OldLeader) /\ Leads(OldLeader) /\ ~Alone(OldLeader)
  BY <1>1, BereftIs
<1>3. lst[n][2].id = OldLeader
  BY <1>2 DEF Bereft, StillFollows
<1> QED
  BY <1>1, <1>2, <1>3 DEF LeaderSilent

(* One list of a follower, and its successor, change.                      *)
LEMMA FollowerChanges ==
    ASSUME IInv, NEW x \in Follower, Bereft(x), UNCHANGED <<status, mc>>,
           NEW f \in Follower \ {x}, NEW m, NEW t,
           lst' = [lst EXCEPT ![f] = m], succ' = [succ EXCEPT ![f] = t],
           m[1] = lst[f][1], Len(m) > 1, m[2].id = OldLeader,
           t \in (Follower \ {x}) \cup {NULL},
           \A c \in Conn : chan'[c] \in Seq(Told(c, x))
    PROVE  Bereft(x)'
<1>1. lst \in [Server -> Records] /\ succ \in [Server -> Server \cup {NULL}]
  BY DEF IInv, TypeOK, Records, Record
<1>2. f \in Server /\ f # OldLeader /\ x \in Server /\ x # NULL /\ OldLeader \in Server
  BY ServerAssumption DEF Follower, NULL
<1>3. /\ lst'[f] = m /\ succ'[f] = t
      /\ \A s \in Server : s # f => lst'[s] = lst[s] /\ succ'[s] = succ[s]
  BY <1>1, <1>2
<1>4. \A s \in Server : Up(s)' <=> s # x
  BY DEF Bereft, Up
<1>5. StillLists(lst[OldLeader], x)'
  <2>1. lst'[OldLeader] = lst[OldLeader]
    BY <1>2, <1>3
  <2> QED
    BY <2>1 DEF Bereft, StillLists
<1>6. ASSUME NEW g \in Follower \ {x} PROVE StillFollows(g, x)'
  <2>1. CASE g = f
    <3>1. ~m[1].leader
      BY DEF Bereft, StillFollows, Leads
    <3>2. Len(m) # 1
      <4>1. \A n : n > 1 => n # 1
        OBVIOUS
      <4> QED
        BY <4>1
    <3> QED
      BY <1>2, <1>3, <2>1, <3>1, <3>2 DEF StillFollows, Leads, Alone
  <2>2. CASE g # f
    <3>1. g \in Server /\ StillFollows(g, x)
      BY DEF Bereft, Follower
    <3>2. lst'[g] = lst[g] /\ succ'[g] = succ[g]
      BY <1>3, <2>2, <3>1
    <3> QED
      BY <3>1, <3>2 DEF StillFollows, Leads, Alone
  <2> QED
    BY <2>1, <2>2
<1>7. \A c : Told(c, x)' = Told(c, x)
  BY DEF Told
<1>8. \A v \in Server : mc'[v] = {}
  BY DEF Bereft
<1> QED
  BY <1>4, <1>5, <1>6, <1>7, <1>8 DEF Bereft

LEMMA BereftFollowerList ==
    ASSUME IInv, NEW x \in Follower, Bereft(x), NEW f \in Follower \ {x}
    PROVE  /\ lst[f] \in Records /\ (Len(lst[f]) = 2 \/ Len(lst[f]) = 3)
           /\ f \in Server /\ ~Alone(f) /\ lst[f][2].id = OldLeader
<1>1. f \in Server /\ ~Leads(f) /\ ~Alone(f) /\ lst[f][2].id = OldLeader
  BY FollowersInOrder DEF Bereft, StillFollows
<1>2. lst[f] \in Records /\ Len(lst[f]) \in Nat \ {0} /\ Len(lst[f]) <= 3
  BY <1>1, ListBefore
<1>3. \A n \in Nat \ {0} : n <= 3 /\ n # 1 => n = 2 \/ n = 3
  OBVIOUS
<1> QED
  BY <1>1, <1>2, <1>3 DEF Alone

LEMMA BereftRecv ==
    ASSUME IInv, NEW x \in Follower, Bereft(x), NEW v \in Server, NEW c \in Conn, Receive(v, c)
    PROVE  Bereft(x)' /\ UNCHANGED status
<1>1. chan[c] # << >> /\ c[3] = v
  BY DEF Receive, RecvVoteGreater, RecvVoteSmaller, RecvVoteMine, RecvLeaderMine,
         RecvLeaderOther, RecvUpdate, RecvKnow, Reads
<1>2. PICK y : y = Head(chan[c])
  OBVIOUS
<1>3. y \in Told(c, x) /\ Tail(chan[c]) \in Seq(Told(c, x))
  <2> DEFINE A == Told(c, x)
  <2>1. chan[c] \in Seq(A)
    BY DEF Bereft
  <2> HIDE DEF A
  <2>2. Head(chan[c]) \in A /\ Tail(chan[c]) \in Seq(A)
    BY <1>1, <2>1
  <2> QED
    BY <1>2, <2>2 DEF A
<1>4. /\ y.kind = "UPDATE_FROM_LEADER" /\ y.succ \in Follower \ {x}
      /\ c[2] = OldLeader /\ c[3] # x
  BY <1>3 DEF Told
<1>5. v \in Follower \ {x}
  BY <1>1, <1>4 DEF Conn, Follower
<1>6. RecvUpdate(v, c)
  BY <1>2, <1>4 DEF Receive, RecvVoteGreater, RecvVoteSmaller, RecvVoteMine, RecvLeaderMine,
                    RecvLeaderOther, RecvKnow, Reads
<1>7. PICK t \in Follower \ {x} : t = y.succ
  BY <1>4
<1>8. Up(t) /\ t \in Server
  BY FollowersInOrder DEF Bereft
<1>9. /\ lst[v] \in Records /\ (Len(lst[v]) = 2 \/ Len(lst[v]) = 3)
      /\ ~Alone(v) /\ lst[v][2].id = OldLeader
  BY <1>5, BereftFollowerList
<1>10. \A d \in Conn : Consumed(c)[d] \in Seq(Told(d, x))
  <2>1. Consumed(c)[c] = Tail(chan[c]) /\ \A d \in Conn : d # c => Consumed(c)[d] = chan[d]
    BY <1>1, ConsumedIs
  <2>2. \A d \in Conn : chan[d] \in Seq(Told(d, x))
    BY DEF Bereft
  <2> QED
    BY <1>3, <2>1, <2>2
<1>11. CASE Ignore(c)
  <2>1. chan' = Consumed(c) /\ UNCHANGED <<status, lst, succ, mc>>
    BY <1>11 DEF Ignore, locals
  <2>2. \A d \in Conn : chan'[d] \in Seq(Told(d, x)')
    BY <1>10, <2>1 DEF Told
  <2> QED
    BY <2>1, <2>2 DEF Bereft, StillLists, StillFollows, Leads, Alone, Up
<1>12. CASE /\ lst' = [lst EXCEPT ![v] = Succeeded(@, t)]
            /\ succ' = [succ EXCEPT ![v] = t]
            /\ chan' = Consumed(c)
            /\ UNCHANGED <<status, participant, ltcp, mc, spent>>
  <2>1. SecondStays(lst[v], Succeeded(lst[v], t))
    BY <1>8, <1>9, SucceededSecond
  <2>2. PICK m : m = Succeeded(lst[v], t)
    OBVIOUS
  <2>3. lst' = [lst EXCEPT ![v] = m]
    BY <1>12, <2>2
  <2> QED
    BY <1>5, <1>9, <1>10, <1>12, <2>1, <2>2, <2>3, FollowerChanges DEF SecondStays
<1> QED
  BY <1>2, <1>6, <1>7, <1>8, <1>9, <1>11, <1>12 DEF RecvUpdate

LEMMA BereftSuccessorGone ==
    ASSUME IInv, NEW x \in Follower, Bereft(x), NEW n \in Server, SuccessorGone(n)
    PROVE  Bereft(x)' /\ UNCHANGED status
<1>1. Up(n) /\ ~Leads(n) /\ succ[n] # NULL /\ ~Up(succ[n])
  BY DEF SuccessorGone
<1>2. n \in Follower \ {x}
  BY <1>1, BereftIs
<1>3. /\ lst[n] \in Records /\ (Len(lst[n]) = 2 \/ Len(lst[n]) = 3)
      /\ lst[n][2].id = OldLeader
  BY <1>2, BereftFollowerList
<1>4. succ[n] = x
  BY <1>1, <1>2, FollowersInOrder DEF Bereft, StillFollows
<1>5. ~NoSecond(n) /\ Len(lst[n]) = 3
  <2>1. Len(lst[n]) > 2
    BY <1>2, <1>4 DEF Bereft, StillFollows
  <2>2. \A k \in {2, 3} : k > 2 => k = 3 /\ ~(k <= 2)
    OBVIOUS
  <2> QED
    BY <1>3, <2>1, <2>2 DEF NoSecond
<1>6. /\ lst' = [lst EXCEPT ![n] = delete_server(@, @[3].id)]
      /\ succ' = [succ EXCEPT ![n] = NULL]
      /\ UNCHANGED <<status, participant, ltcp, chan, mc, spent>>
  BY <1>5 DEF SuccessorGone
<1>7. PICK m : m = delete_server(lst[n], lst[n][3].id)
  OBVIOUS
<1>8. Len(m) > 1 /\ m[1] = lst[n][1] /\ m[2].id = OldLeader
  BY <1>3, <1>5, <1>7, SecondKept
<1>9. lst' = [lst EXCEPT ![n] = m]
  BY <1>6, <1>7
<1>10. \A c \in Conn : chan'[c] \in Seq(Told(c, x))
  BY <1>6 DEF Bereft
<1> QED
  BY <1>2, <1>6, <1>8, <1>9, <1>10, FollowerChanges

(* The leader's list and what it sends change.                             *)
LEMMA LeaderChanges ==
    ASSUME IInv, NEW x \in Follower, Bereft(x), UNCHANGED <<status, succ, mc>>,
           NEW m, lst' = [lst EXCEPT ![OldLeader] = m], StillLists(m, x),
           \A c \in Conn : chan'[c] \in Seq(Told(c, x))
    PROVE  Bereft(x)'
<1>1. OldLeader \in Server /\ lst \in [Server -> Records]
  BY ServerAssumption DEF IInv, TypeOK, Records, Record
<1>2. lst'[OldLeader] = m /\ \A s \in Server : s # OldLeader => lst'[s] = lst[s]
  BY <1>1
<1>3. StillLists(lst[OldLeader], x)'
  BY <1>2 DEF StillLists
<1>4. ASSUME NEW f \in Follower \ {x} PROVE StillFollows(f, x)'
  <2>1. lst'[f] = lst[f] /\ StillFollows(f, x)
    BY <1>2 DEF Follower, Bereft
  <2> QED
    BY <2>1 DEF StillFollows, Leads, Alone
<1>5. \A c : Told(c, x)' = Told(c, x)
  BY DEF Told
<1> QED
  BY <1>3, <1>4, <1>5 DEF Bereft, Up

LEMMA BereftPeerGone ==
    ASSUME IInv, NEW x \in Follower, Bereft(x), NEW s \in Server, NEW i \in DOMAIN lst[s],
           PeerGone(s, i)
    PROVE  Bereft(x)' /\ UNCHANGED status
<1> DEFINE l == lst[s]
           m == [l EXCEPT ![i].sock = "closed"]
<1>1. Up(s) /\ Leads(s) /\ i \in 2 .. Len(l) /\ ~Up(l[i].id)
  BY DEF PeerGone
<1>2. s = OldLeader /\ StillLists(l, x) /\ l \in Records
  BY <1>1, BereftIs, ListBefore DEF Bereft
<1>3. l[i].id = x
  <2>1. l[i].id \in Server
    BY <1>1, <1>2, FollowersInOrder DEF StillLists
  <2> QED
    BY <1>1, <2>1 DEF Bereft
<1>4. /\ lst' = [lst EXCEPT ![s] = m]
      /\ UNCHANGED <<status, participant, ltcp, succ, chan, mc, spent>>
  <2>1. lst' = [lst EXCEPT ![s][i].sock = "closed"]
    BY DEF PeerGone
  <2> QED
    BY <2>1 DEF PeerGone
<1> HIDE DEF l
<1>5. l \in Seq(Record) /\ Len(l) \in Nat /\ DOMAIN l = 1 .. Len(l) /\ 1 # i
  BY <1>1, <1>2 DEF Records
<1>6. /\ Len(m) = Len(l) /\ DOMAIN m = 1 .. Len(l) /\ m[1] = l[1]
      /\ \A j \in 2 .. Len(l) : m[j].id = l[j].id /\ m[j].heard = l[j].heard
      /\ \A j \in 2 .. Len(l) : j # i => m[j] = l[j]
  BY <1>1, <1>5 DEF Record
<1> HIDE DEF m
<1>7. \A j \in 1 .. Len(l) : m[j].id = l[j].id
  BY <1>5, <1>6
<1>8. StillLists(m, x)
  <2>1. Ids(m) = Ids(l)
    BY <1>6 DEF Ids
  <2>2. Distinct(m)
    BY <1>2, <1>5, <1>6, <1>7 DEF StillLists, Distinct
  <2>3. \A j \in 2 .. Len(l) : m[j].id # x => m[j].sock = "lead"
    BY <1>2, <1>3, <1>6 DEF StillLists
  <2> QED
    BY <1>2, <1>6, <2>1, <2>2, <2>3 DEF StillLists
<1>9. \A c \in Conn : chan'[c] \in Seq(Told(c, x))
  BY <1>4 DEF Bereft
<1> QED
  BY <1>2, <1>4, <1>8, <1>9, LeaderChanges

LEMMA BereftPipeHolds ==
    ASSUME IInv, NEW x \in Follower, Bereft(x), NEW s \in Server, NEW i \in DOMAIN lst[s],
           BrokenPipe(s, i)
    PROVE  FALSE
<1> DEFINE e == lst[s][i]
           c == <<e.sock, s, e.id>>
<1>1. Up(s) /\ e.sock \in Link /\ ~Up(e.id) /\ Len(chan[c]) > IF Leads(s) THEN 1 ELSE 0
  BY DEF BrokenPipe
<1>2. e.id \in Server
  BY ListBefore, RecordType
<1>3. e.id = x
  BY <1>1, <1>2 DEF Bereft
<1>4. c \in Conn /\ c[3] = x
  BY <1>1, <1>2, <1>3 DEF Conn
<1>5. chan[c] \in Seq({})
  BY <1>4 DEF Bereft, Told
<1> HIDE DEF c
<1>6. Len(chan[c]) = 0
  BY <1>5
<1> QED
  BY <1>1, <1>6

(* x leaves the list, whose other entries are written to as before.        *)
LEMMA Forgotten ==
    ASSUME NEW x \in Follower, NEW l \in Records, StillLists(l, x), NEW i \in 2 .. Len(l),
           l[i].id = x, NEW m, m = delete_server(l, x)
    PROVE  /\ StillLists(m, x) /\ Len(m) \in Nat /\ Len(m) = Len(l) - 1
           /\ \A n \in 2 .. Len(m) : m[n].id \in Follower \ {x}
<1>1. /\ l \in Seq(Record) /\ Len(l) \in Nat /\ DOMAIN l = 1 .. Len(l)
      /\ Distinct(l) /\ l[1].leader
  BY DEF Records, StillLists
<1>2. m \in Seq(Record) /\ Shortened(l, i, m) /\ Distinct(m)
  BY <1>1, Deleted
<1>3. /\ Len(m) = Len(l) - 1 /\ Len(m) \in Nat /\ Len(m) > 0
      /\ \A n \in 1 .. i-1 : m[n] = l[n]
      /\ \A n \in i .. Len(l) - 1 : m[n] = l[n+1]
  BY <1>1, <1>2 DEF Shortened
<1>4. m[1] = l[1]
  BY <1>1, <1>3
<1>5. \A k \in 2 .. Len(l) : k # i => l[k].id # x
  BY <1>1 DEF Distinct
<1>6. ASSUME NEW n \in 2 .. Len(m)
      PROVE  m[n].id \in Follower \ {x} /\ m[n].heard /\ m[n].sock = "lead"
  <2>1. PICK k \in 2 .. Len(l) : k # i /\ m[n] = l[k]
    <3>1. CASE n < i
      <4>1. n \in 1 .. i-1 /\ n \in 2 .. Len(l) /\ n # i
        BY <1>3, <3>1
      <4> QED
        BY <1>3, <4>1
    <3>2. CASE ~(n < i)
      <4>1. n \in i .. Len(l) - 1 /\ n + 1 \in 2 .. Len(l) /\ n + 1 # i
        BY <1>1, <1>3, <3>2
      <4> QED
        BY <1>3, <4>1
    <3> QED
      BY <3>1, <3>2
  <2> QED
    BY <1>5, <2>1 DEF StillLists
<1>7. ASSUME NEW f \in Follower \ {x} PROVE f \in Ids(m)
  <2>1. PICK k \in 2 .. Len(l) : l[k].id = f
    BY DEF StillLists, Ids
  <2>2. k # i
    BY <2>1
  <2>3. CASE k < i
    <3>1. k \in 1 .. i-1 /\ k \in 2 .. Len(m)
      BY <1>1, <1>3, <2>3
    <3> QED
      BY <1>3, <2>1, <3>1 DEF Ids
  <2>4. CASE k > i
    <3>1. k - 1 \in i .. Len(l) - 1 /\ k - 1 \in 2 .. Len(m) /\ (k - 1) + 1 = k
      BY <1>1, <1>3, <2>4
    <3>2. m[k - 1] = l[k]
      BY <1>3, <3>1
    <3> QED
      BY <2>1, <3>1, <3>2 DEF Ids
  <2> QED
    BY <2>2, <2>3, <2>4
<1> QED
  BY <1>1, <1>2, <1>3, <1>4, <1>6, <1>7 DEF StillLists

(* The successor's name goes to a follower that is up.                     *)
LEMMA ToldOne ==
    ASSUME IInv, NEW x \in Follower, Bereft(x), NEW e, e.sock = "lead",
           e.id \in Follower \ {x}, NEW t \in Follower \ {x}, NEW c \in Conn
    PROVE  Sent(chan, OldLeader, e, Update(t))[c] \in Seq(Told(c, x))
<1> DEFINE d == <<"lead", OldLeader, e.id>>
           A == Told(c, x)
           q == Append(chan[d], Update(t))
<1>1. Sent(chan, OldLeader, e, Update(t)) = [chan EXCEPT ![d] = q] /\ chan \in Channels
  BY DEF Sent, Link, IInv, TypeOK, Channels
<1>2. chan[c] \in Seq(A)
  BY DEF Bereft
<1>3. CASE c = d
  <2>1. Update(t) \in A
    <3>1. t \in Server /\ Update(t).kind = "UPDATE_FROM_LEADER" /\ Update(t).succ = t
      BY FollowersInOrder DEF Update
    <3>2. Update(t) \in Message
      BY <3>1, MessageTypes
    <3>3. c[1] = "lead" /\ c[2] = OldLeader /\ c[3] # x
      BY <1>3
    <3> QED
      BY <3>1, <3>2, <3>3 DEF Told
  <2> HIDE DEF A, d
  <2>2. q \in Seq(A)
    BY <1>2, <1>3, <2>1
  <2>3. [chan EXCEPT ![d] = q][c] = q
    BY <1>1, <1>3 DEF Channels
  <2> QED
    BY <1>1, <2>2, <2>3 DEF A
<1>4. CASE c # d
  <2> HIDE DEF d, q
  <2>1. [chan EXCEPT ![d] = q][c] = chan[c]
    BY <1>1, <1>4 DEF Channels
  <2> QED
    BY <1>1, <1>2, <2>1
<1> QED
  BY <1>3, <1>4

LEMMA BereftEvictSilent ==
    ASSUME IInv, NEW x \in Follower, Bereft(x), NEW s \in Server, NEW i \in DOMAIN lst[s],
           EvictSilent(s, i)
    PROVE  Bereft(x)' /\ UNCHANGED status
<1>1. Up(s) /\ Leads(s) /\ i \in 2 .. Len(lst[s]) /\ PeerSilent(s, i)
  BY DEF EvictSilent
<1>2. s = OldLeader
  BY <1>1, BereftIs
<1>3. lst[s] \in Records /\ StillLists(lst[s], x)
  BY <1>2, ListBefore DEF Bereft
<1>4. lst[s][i].id = x
  <2> SUFFICES ASSUME lst[s][i].id # x PROVE FALSE
    OBVIOUS
  <2>1. PICK p : p = lst[s][i].id
    OBVIOUS
  <2>2. p \in Follower \ {x} /\ lst[s][i].heard
    BY <1>1, <1>3, <2>1 DEF StillLists
  <2>3. Up(p) /\ ~Leads(p)
    BY <2>2, FollowersInOrder DEF Bereft, StillFollows
  <2>4. 2 \in At(lst[p], s)
    <3>1. lst[p][2].id = s /\ (Len(lst[p]) = 2 \/ Len(lst[p]) = 3)
      BY <1>2, <2>2, BereftFollowerList
    <3>2. \A n \in {2, 3} : 2 \in 2 .. n
      OBVIOUS
    <3> QED
      BY <3>1, <3>2 DEF At
  <2> QED
    BY <1>1, <2>1, <2>2, <2>3, <2>4 DEF PeerSilent
<1>5. PICK l : l = lst[s]
  OBVIOUS
<1>6. PICK m : m = delete_server(l, x)
  OBVIOUS
<1>7. /\ StillLists(m, x) /\ Len(m) \in Nat /\ Len(m) = Len(l) - 1
      /\ \A n \in 2 .. Len(m) : m[n].id \in Follower \ {x}
  BY <1>1, <1>3, <1>4, <1>5, <1>6, Forgotten
<1> DEFINE j == PredecessorInRing(x, l)
           t == m[IF i > Len(m) THEN 2 ELSE i].id
<1>8. j = IF i - 1 = 1 THEN Len(l) ELSE i - 1
  <2>1. l \in Seq(Record) /\ Distinct(l) /\ i \in 2 .. Len(l) /\ l[i].id = x
    BY <1>1, <1>3, <1>4, <1>5 DEF StillLists, Records
  <2>2. Min(At(l, x)) = i
    BY <2>1, Deleted
  <2> QED
    BY <2>2 DEF PredecessorInRing, get_predecessor, get_last_server
<1>9. \/ Len(m) > 2 /\ l[j].sock = "closed" /\ Exit(s)
      \/ /\ lst' = [lst EXCEPT ![s] = m]
         /\ chan' = IF Len(m) > 2 THEN Sent(chan, s, l[j], Update(t)) ELSE chan
         /\ UNCHANGED <<status, participant, ltcp, succ, mc, spent>>
  BY <1>4, <1>5, <1>6 DEF EvictSilent
<1>10. ASSUME Len(m) > 2
       PROVE  l[j].sock = "lead" /\ l[j].id \in Follower \ {x} /\ t \in Follower \ {x}
  <2>1. Len(l) \in Nat /\ i \in 2 .. Len(l)
    BY <1>1, <1>3, <1>5 DEF Records
  <2>2. j \in 2 .. Len(l) /\ j # i
    BY <1>7, <1>8, <1>10, <2>1
  <2>3. (IF i > Len(m) THEN 2 ELSE i) \in 2 .. Len(m)
    BY <1>7, <1>10, <2>1
  <2>4. t \in Follower \ {x}
    BY <1>7, <2>3
  <2> HIDE DEF j
  <2>5. l[j].id # x
    <3>1. DOMAIN l = 1 .. Len(l) /\ Distinct(l) /\ l[i].id = x
      BY <1>3, <1>4, <1>5 DEF Records, StillLists
    <3>2. i \in 1 .. Len(l) /\ j \in 1 .. Len(l)
      BY <2>1, <2>2
    <3> QED
      BY <2>2, <3>1, <3>2 DEF Distinct
  <2> QED
    BY <1>3, <1>5, <2>2, <2>4, <2>5 DEF StillLists
<1> HIDE DEF j, t
<1>11. /\ lst' = [lst EXCEPT ![OldLeader] = m]
       /\ chan' = IF Len(m) > 2 THEN Sent(chan, OldLeader, l[j], Update(t)) ELSE chan
       /\ UNCHANGED <<status, participant, ltcp, succ, mc, spent>>
  BY <1>2, <1>9, <1>10
<1>12. \A c \in Conn : chan'[c] \in Seq(Told(c, x))
  <2>1. CASE Len(m) > 2
    BY <1>10, <1>11, <2>1, ToldOne
  <2>2. CASE ~(Len(m) > 2)
    BY <1>11, <2>2 DEF Bereft
  <2> QED
    BY <2>1, <2>2
<1> QED
  BY <1>7, <1>11, <1>12, LeaderChanges

LEMMA BereftStays ==
    ASSUME IInv, NEW x \in Follower, Bereft(x), [Next]_vars,
           ~\E s \in Server : Crash(s) \/ Heartbeat(s)
    PROVE  Bereft(x)' /\ UNCHANGED status
<1>1. ASSUME NEW s \in Server,
             ClaimAlone(s) \/ StartVote(s) \/ RepeatVote(s) \/ SuccessorGone(s)
      PROVE  Bereft(x)' /\ UNCHANGED status
  BY <1>1, BereftDoNotTimeOut, BereftSuccessorGone DEF ClaimAlone, StartVote, RepeatVote
<1>2. ASSUME NEW v \in Server, NEW c \in Conn, Receive(v, c)
      PROVE  Bereft(x)' /\ UNCHANGED status
  BY <1>2, BereftRecv
<1>3. ASSUME NEW v \in Server, NEW d \in mc[v] PROVE FALSE
  BY <1>3 DEF Bereft
<1>4. ASSUME NEW s \in Server, NEW i \in DOMAIN lst[s],
             PeerGone(s, i) \/ BrokenPipe(s, i) \/ EvictSilent(s, i)
      PROVE  Bereft(x)' /\ UNCHANGED status
  BY <1>4, BereftPeerGone, BereftPipeHolds, BereftEvictSilent
<1>5. CASE UNCHANGED vars
  <2>1. Bereft(x)'
    BY <1>5 DEF vars, Bereft, StillLists, StillFollows, Told, Leads, Alone, Up
  <2> QED
    BY <1>5, <2>1 DEF vars
<1> QED
  BY <1>1, <1>2, <1>3, <1>4, <1>5 DEF Next

(* After at most one fault the old ring is as the old leader built it, or  *)
(* one follower is missing in it.                                          *)
OneInv ==
    OneFault =>
        /\ Spared
        /\ FollowersUp => Untouched
        /\ ~FollowersUp => spent.beats = 0 /\ \E x \in Follower : Bereft(x)

LEMMA SparedStays ==
    ASSUME IInv, Spared, OneFault', [Next]_vars,
           UNCHANGED status \/ \E s \in Server : Crash(s)
    PROVE  Spared'
<1>1. \A s \in Server : status'[s] \in {"up", "crashed"}
  BY DEF Spared, Crash, Die, IInv, TypeOK
<1>2. ASSUME spent'.crash = 0 PROVE \A s \in Server : Up(s)'
  <2>1. spent.crash = 0 /\ \A s \in Server : ~Crash(s)
    <3>1. \A s \in Server : ~Crash(s)
      <4> SUFFICES ASSUME NEW s \in Server, Crash(s) PROVE FALSE
        OBVIOUS
      <4>1. spent'.crash = spent.crash + 1 /\ spent.crash \in Nat
        BY BoundAssumption DEF Crash, IInv, TypeOK
      <4> QED
        BY <1>2, <4>1
    <3> QED
      BY <1>2, <3>1, FaultsGrow DEF FaultFree
  <2> QED
    BY <2>1 DEF Spared, Up
<1>3. ASSUME spent'.beats = 0, NEW v \in Server, NEW d \in mc'[v]
      PROVE  d.kind # "HEARTBEAT"
  <2>1. CASE \E s \in Server : Crash(s)
    <3>1. d \in mc[v] /\ spent.beats = 0
      BY <1>3, <2>1, NewDatagrams DEF Crash, IInv, TypeOK
    <3> QED
      BY <3>1 DEF Spared
  <2>2. CASE FaultFree
    BY <1>3, <2>2 DEF FaultFree, Spared
  <2>3. spent'.beats # 1
    BY <1>3
  <2> QED
    BY <2>1, <2>2, <2>3, FaultsGrow
<1> QED
  BY <1>1, <1>2, <1>3 DEF Spared

LEMMA CrashSpares ==
    ASSUME IInv, OneFault', NEW x \in Server, Crash(x), [Next]_vars
    PROVE  spent.crash = 0 /\ spent.beats = 0 /\ spent'.beats = 0
<1>1. /\ spent'.crash = spent.crash + 1 /\ spent'.beats = spent.beats
      /\ spent.crash \in Nat /\ spent.beats \in Nat
  BY BoundAssumption DEF Crash, IInv, TypeOK
<1> QED
  BY <1>1 DEF OneFault

LEMMA OneInvStays ==
    ASSUME IInv, FollowersUp => Orderly, OneInv, [Next]_vars, OneFault'
    PROVE  /\ Spared'
           /\ FollowersUp' => Untouched'
           /\ ~FollowersUp' => spent'.beats = 0 /\ \E x \in Follower : Bereft(x)'
<1>1. OneFault /\ Spared
  BY FaultsGrow DEF OneInv
<1>2. CASE FollowersUp
  <2>1. Orderly /\ Untouched
    BY <1>1, <1>2 DEF OneInv
  <2>2. (\E s \in Server : Crash(s)) \/ UNCHANGED status
    BY <1>1, <1>2, <2>1, OnlyCrashesKill DEF vars
  <2>3. Spared'
    BY <1>1, <2>2, SparedStays
  <2>4. CASE UNCHANGED status
    <3>1. FollowersUp'
      BY <1>2, <2>4 DEF FollowersUp, Up
    <3> QED
      BY <1>2, <2>1, <2>3, <2>4, <3>1, UntouchedStays
  <2>5. ASSUME NEW x \in Server, Crash(x), x \in Follower
        PROVE  spent'.beats = 0 /\ Bereft(x)' /\ ~FollowersUp'
    <3>1. spent.crash = 0 /\ spent.beats = 0 /\ spent'.beats = 0
      BY <2>5, CrashSpares
    <3>2. Bereft(x)'
      BY <1>1, <1>2, <2>1, <2>5, <3>1, FollowerDies
    <3>3. ~Up(x)'
      BY <3>2 DEF Bereft
    <3> QED
      BY <2>5, <3>1, <3>2, <3>3 DEF FollowersUp
  <2>6. ASSUME NEW x \in Server, Crash(x), x = OldLeader
        PROVE  FollowersUp' /\ Untouched'
    <3>1. status' = [status EXCEPT ![x] = "crashed"]
      BY <2>6 DEF Crash, Die
    <3>2. FollowersUp'
      BY <1>2, <2>6, <3>1, FollowersInOrder DEF FollowersUp, Up, Follower, IInv, TypeOK
    <3>3. ~Up(OldLeader)'
      BY <2>6, <3>1 DEF Up, IInv, TypeOK
    <3> QED
      BY <3>2, <3>3 DEF Untouched
  <2> QED
    BY <2>2, <2>3, <2>4, <2>5, <2>6 DEF Follower
<1>3. CASE ~FollowersUp
  <2>1. PICK x \in Follower : Bereft(x)
    BY <1>1, <1>3 DEF OneInv
  <2>2. spent.beats = 0 /\ spent.crash # 0
    BY <1>1, <1>3, FollowersInOrder DEF OneInv, Spared, FollowersUp
  <2>3. FaultFree
    BY <2>2, FaultsGrow
  <2>4. ~\E s \in Server : Crash(s) \/ Heartbeat(s)
    <3>1. ASSUME NEW s \in Server, Crash(s) \/ Heartbeat(s) PROVE FALSE
      <4>1. /\ spent'.crash = spent.crash + 1 \/ spent'.beats = spent.beats + 1
            /\ spent.crash \in Nat /\ spent.beats \in Nat
        BY <3>1, BoundAssumption DEF Crash, Heartbeat, IInv, TypeOK
      <4> QED
        BY <2>3, <4>1 DEF FaultFree
    <3> QED
      BY <3>1
  <2>5. Bereft(x)' /\ UNCHANGED status
    BY <2>1, <2>4, BereftStays
  <2>6. Spared' /\ spent'.beats = 0
    BY <1>1, <2>2, <2>3, <2>5, SparedStays DEF FaultFree
  <2>7. ~FollowersUp'
    BY <1>3, <2>5 DEF FollowersUp, Up
  <2> QED
    BY <2>5, <2>6, <2>7
<1> QED
  BY <1>2, <1>3

LEMMA OneInvStarts == Init => OneInv
<1> SUFFICES ASSUME Init PROVE Spared /\ FollowersUp /\ Untouched
  BY DEF OneInv
<1>1. /\ status = [s \in Server |-> "up"] /\ mc = [s \in Server |-> {}]
      /\ lst = [s \in Server |-> IF s = OldLeader THEN LeaderList ELSE FollowerList(s)]
      /\ succ = [s \in Server |-> IF s = OldLeader \/ Follower = {s} THEN NULL
                                  ELSE NextOf(s, Follower)]
  BY DEF Init
<1>2. /\ OldLeader \in Server
      /\ \A f \in Follower : f \in Server /\ f # OldLeader
  BY ServerAssumption DEF Follower
<1>3. Spared /\ FollowersUp
  BY <1>1, <1>2 DEF Spared, FollowersUp, Up
<1>4. ASSUME NEW f \in Follower, succ[f] # NULL PROVE Len(lst[f]) > 2
  <2>1. Follower # {f} /\ lst[f] = FollowerList(f)
    BY <1>1, <1>2, <1>4
  <2>2. Len(lst[f]) = 3
    BY <2>1, FollowerListIs
  <2> QED
    BY <2>2
<1>5. Untouched
  BY <1>1, <1>2, <1>4 DEF Untouched
<1> QED
  BY <1>3, <1>5

(* One crash, or one heartbeat, takes no other server with it through a    *)
(* NULL dereference or an exit(1), however many servers there are: without *)
(* the leader, all that the election reads finds the entries that it       *)
(* dereferences; without a follower, the leader sends the others only to   *)
(* one another.                                                            *)
THEOREM OneFaultKillsNoOther == Spec => []OneFaultOneDeath
<1> DEFINE J == FollowersUp => Orderly
<1>1. Init => J /\ OneInv
  BY InitOrderly, OneInvStarts
<1>2. IInv /\ J /\ [Next]_vars => J'
  BY OrderlyStays
<1>3. ASSUME IInv, J, OneInv, [Next]_vars PROVE OneInv'
  <2>1. CASE OneFault'
    BY <1>3, <2>1, OneInvStays DEF OneInv
  <2>2. CASE ~OneFault'
    BY <2>2 DEF OneInv
  <2> QED
    BY <2>1, <2>2
<1>4. OneInv => OneFaultOneDeath
  BY DEF OneInv, OneFault, Spared, OneFaultOneDeath
<1>5. Spec => []IInv
  BY Invariance
<1> QED
  BY <1>1, <1>2, <1>3, <1>4, <1>5, PTL DEF Spec
=============================================================================
