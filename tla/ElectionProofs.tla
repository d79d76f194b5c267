---------------------------- MODULE ElectionProofs ----------------------------
(***************************************************************************)
(* Proofs about Election, for every ring size, every assignment of IDs and *)
(* any number of crashes.  One lemma per action shows that it preserves    *)
(* IInv; the theorems follow.                                              *)
(***************************************************************************)
EXTENDS Election, TLAPS

(* Two servers never share an ID, and only one has the greatest.           *)
LEMMA UniqueMax ==
    ASSUME NEW m \in Node, NEW n \in Node, IsMax(m), IsMax(n)
    PROVE  m = n
<1>1. Id[m] \in Nat /\ Id[n] \in Nat
  BY IdAssumption DEF Node
<1>2. Id[m] = Id[n]
  BY <1>1 DEF IsMax
<1> QED
  BY <1>2, IdAssumption DEF Node

(* A vote that has come back to the server that cast it passed all others. *)
LEMMA ReturnedVoteIsMax ==
    ASSUME NEW n \in Node, Climbed(Id[n], n)
    PROVE  IsMax(n)
<1>1. PICK o \in Node : /\ Id[n] = Id[o]
                        /\ \A m \in Node : Between(o, m, n) => Id[m] < Id[o]
  BY DEF Climbed
<1>2. o = n
  BY <1>1, IdAssumption DEF Node
<1>3. \A m \in Node : m # n => Between(n, m, n)
  BY NAssumption DEF Between, Node
<1>4. \A m \in Node : Id[m] \in Nat
  BY IdAssumption DEF Node
<1> QED
  BY <1>1, <1>2, <1>3, <1>4 DEF IsMax

(* A server's own vote, and a greater one that it passes on, have passed   *)
(* smaller servers only when they reach its successor.                     *)
LEMMA OwnVoteClimbs ==
    ASSUME NEW n \in Node
    PROVE  Climbed(Id[n], Successor(n))
<1>1. \A m \in Node : ~Between(n, m, Successor(n))
  BY NAssumption DEF Between, Node, Successor
<1> QED
  BY <1>1 DEF Climbed

LEMMA ForwardedVoteClimbs ==
    ASSUME NEW n \in Node, NEW v, Climbed(v, n), v > Id[n]
    PROVE  Climbed(v, Successor(n))
<1>1. PICK o \in Node : /\ v = Id[o]
                        /\ \A m \in Node : Between(o, m, n) => Id[m] < Id[o]
  BY DEF Climbed
<1>2. o # n
  BY <1>1, IdAssumption DEF Node
<1>3. \A m \in Node : Between(o, m, Successor(n)) => Between(o, m, n) \/ m = n
  BY <1>2, NAssumption DEF Between, Node, Successor
<1>4. Id[n] < Id[o]
  BY <1>1, IdAssumption DEF Node
<1> QED
  BY <1>1, <1>3, <1>4 DEF Climbed

LEMMA SuccessorInNode == ASSUME NEW n \in Node PROVE Successor(n) \in Node
  BY NAssumption DEF Node, Successor

-----------------------------------------------------------------------------
(* What consuming and sending do to the inboxes.                           *)

LEMMA ConsumedInbox ==
    ASSUME inbox \in [Node -> Seq(Message)], NEW n \in Node, inbox[n] # << >>
    PROVE  LET box == [inbox EXCEPT ![n] = Tail(@)] IN
           /\ box \in [Node -> Seq(Message)]
           /\ \A m \in Node : \A i \in 1 .. Len(box[m]) :
                 \E j \in 1 .. Len(inbox[m]) : box[m][i] = inbox[m][j]
<1> DEFINE box == [inbox EXCEPT ![n] = Tail(@)]
<1>1. inbox[n] \in Seq(Message) /\ Tail(inbox[n]) \in Seq(Message)
  OBVIOUS
<1>2. box \in [Node -> Seq(Message)]
  BY <1>1
<1>3. ASSUME NEW m \in Node, NEW i \in 1 .. Len(box[m])
      PROVE  \E j \in 1 .. Len(inbox[m]) : box[m][i] = inbox[m][j]
  <2>1. CASE m = n
    <3>1. box[m] = Tail(inbox[n])
      BY <2>1
    <3>2. Len(Tail(inbox[n])) = Len(inbox[n]) - 1 /\ Len(inbox[n]) \in Nat
      BY <1>1
    <3>3. Tail(inbox[n])[i] = inbox[n][i + 1] /\ i + 1 \in 1 .. Len(inbox[n])
      BY <1>1, <3>1, <3>2
    <3> QED
      BY <2>1, <3>1, <3>3
  <2>2. CASE m # n
    BY <2>2
  <2> QED
    BY <2>1, <2>2
<1> QED
  BY <1>2, <1>3

LEMMA SentInbox ==
    ASSUME NEW box \in [Node -> Seq(Message)], NEW n \in Node,
           NEW msg \in Message
    PROVE  /\ Sent(box, n, msg) \in [Node -> Seq(Message)]
           /\ \A m \in Node : \A i \in 1 .. Len(Sent(box, n, msg)[m]) :
                 \/ i \in 1 .. Len(box[m]) /\ Sent(box, n, msg)[m][i] = box[m][i]
                 \/ m = Successor(n) /\ Sent(box, n, msg)[m][i] = msg
<1> DEFINE s == Successor(n)
<1>1. s \in Node /\ box[s] \in Seq(Message)
  BY SuccessorInNode
<1>2. Append(box[s], msg) \in Seq(Message) /\ <<msg>> \in Seq(Message)
  BY <1>1
<1>3. Sent(box, n, msg) \in [Node -> Seq(Message)]
  BY <1>1, <1>2 DEF Sent
<1>4. ASSUME NEW m \in Node, NEW i \in 1 .. Len(Sent(box, n, msg)[m])
      PROVE  \/ i \in 1 .. Len(box[m]) /\ Sent(box, n, msg)[m][i] = box[m][i]
             \/ m = s /\ Sent(box, n, msg)[m][i] = msg
  <2>1. CASE m = s /\ status[s] = "up"
    <3>1. Sent(box, n, msg)[m] = Append(box[s], msg)
      BY <2>1, <1>1 DEF Sent
    <3>2. Len(Append(box[s], msg)) = Len(box[s]) + 1 /\ Len(box[s]) \in Nat
      BY <1>1
    <3>3. CASE i = Len(box[s]) + 1
      BY <3>1, <3>3, <2>1, <1>1
    <3>4. CASE i # Len(box[s]) + 1
      <4>1. i \in 1 .. Len(box[s])
        BY <3>1, <3>2, <3>4
      <4> QED
        BY <4>1, <3>1, <2>1, <1>1
    <3> QED
      BY <3>3, <3>4
  <2>2. CASE m = s /\ status[s] # "up"
    <3>1. Sent(box, n, msg)[m] = <<msg>>
      BY <2>2, <1>1 DEF Sent
    <3>2. i = 1
      BY <3>1
    <3> QED
      BY <2>2, <3>1, <3>2
  <2>3. CASE m # s
    <3>1. Sent(box, n, msg)[m] = box[m]
      BY <2>3, <1>1 DEF Sent
    <3> QED
      BY <3>1
  <2> QED
    BY <2>1, <2>2, <2>3
<1> QED
  BY <1>3, <1>4

(* A message may stand in the inbox of m.                                  *)
Justified(m, msg) ==
    /\ msg.kind = "VOTE" => Climbed(msg.id, m)
    /\ msg.kind = "LEADER" =>
          \E w \in Node : IsMax(w) /\ leader[w] /\ msg.id = Id[w]

(* VotesClimb and AnnouncedLeads survive when no flag is cleared and every *)
(* message of the new inboxes is an old one or justified.                  *)
LEMMA KeepsJustified ==
    ASSUME VotesClimb, AnnouncedLeads,
           \A w \in Node : leader[w] => leader'[w],
           \A m \in Node : \A i \in 1 .. Len(inbox'[m]) :
              \/ \E j \in 1 .. Len(inbox[m]) : inbox'[m][i] = inbox[m][j]
              \/ Justified(m, inbox[m][i])'
    PROVE  VotesClimb' /\ AnnouncedLeads'
<1> SUFFICES ASSUME NEW m \in Node, NEW i \in 1 .. Len(inbox'[m])
             PROVE  Justified(m, inbox[m][i])'
  BY DEF VotesClimb, AnnouncedLeads, Justified, Climbed, IsMax
<1>1. CASE \E j \in 1 .. Len(inbox[m]) : inbox'[m][i] = inbox[m][j]
  BY <1>1 DEF VotesClimb, AnnouncedLeads, Justified, Climbed, IsMax
<1> QED
  BY <1>1

LEMMA ReceivedMessage ==
    ASSUME IInv, NEW n \in Node, NEW kind, Receives(n, kind)
    PROVE  /\ status[n] = "up" /\ inbox[n] # << >>
           /\ Head(inbox[n]) \in Message
           /\ Justified(n, Head(inbox[n]))
<1>1. inbox[n] # << >> /\ inbox[n] \in Seq(Message) /\ status[n] = "up"
  BY DEF Receives, IInv, TypeOK
<1>2. 1 \in 1 .. Len(inbox[n]) /\ Head(inbox[n]) = inbox[n][1]
  BY <1>1
<1>3. Head(inbox[n]) \in Message
  BY <1>1
<1>4. Justified(n, inbox[n][1])
  BY <1>2 DEF IInv, VotesClimb, AnnouncedLeads, Justified
<1> QED
  BY <1>1, <1>2, <1>3, <1>4

LEMMA ConsumeKeeps ==
    ASSUME IInv, NEW n \in Node, inbox[n] # << >>, Consume(n),
           \A w \in Node : leader[w] => leader'[w]
    PROVE  /\ inbox' \in [Node -> Seq(Message)]
           /\ VotesClimb' /\ AnnouncedLeads'
<1>1. inbox \in [Node -> Seq(Message)]
  BY DEF IInv, TypeOK
<1> DEFINE box == [inbox EXCEPT ![n] = Tail(@)]
<1>2. inbox' = box
  BY DEF Consume
<1>3. /\ box \in [Node -> Seq(Message)]
      /\ \A m \in Node : \A i \in 1 .. Len(box[m]) :
            \E j \in 1 .. Len(inbox[m]) : box[m][i] = inbox[m][j]
  BY <1>1, ConsumedInbox
<1> HIDE DEF box
<1>4. VotesClimb /\ AnnouncedLeads
  BY DEF IInv
<1> QED
  BY <1>2, <1>3, <1>4, KeepsJustified

LEMMA SendKeeps ==
    ASSUME IInv, NEW n \in Node, NEW msg \in Message,
           Justified(Successor(n), msg)',
           \/ inbox' = Sent(inbox, n, msg)
           \/ inbox' = Sent(Sent(inbox, n, msg), n, msg)
           \/ inbox[n] # << >> /\ ConsumeAndSend(n, msg),
           \A w \in Node : leader[w] => leader'[w]
    PROVE  /\ inbox' \in [Node -> Seq(Message)]
           /\ VotesClimb' /\ AnnouncedLeads'
<1>1. inbox \in [Node -> Seq(Message)]
  BY DEF IInv, TypeOK
<1>2. PICK box \in [Node -> Seq(Message)] :
         /\ inbox' = Sent(box, n, msg)
         /\ \A m \in Node : \A i \in 1 .. Len(box[m]) :
               \/ \E j \in 1 .. Len(inbox[m]) : box[m][i] = inbox[m][j]
               \/ m = Successor(n) /\ box[m][i] = msg
  <2>1. CASE inbox' = Sent(inbox, n, msg)
    BY <1>1, <2>1
  <2>3. CASE inbox' = Sent(Sent(inbox, n, msg), n, msg)
    <3>1. /\ Sent(inbox, n, msg) \in [Node -> Seq(Message)]
          /\ \A m \in Node : \A i \in 1 .. Len(Sent(inbox, n, msg)[m]) :
                \/ i \in 1 .. Len(inbox[m]) /\ Sent(inbox, n, msg)[m][i] = inbox[m][i]
                \/ m = Successor(n) /\ Sent(inbox, n, msg)[m][i] = msg
      BY <1>1, SentInbox
    <3> QED
      BY <2>3, <3>1
  <2>2. CASE inbox[n] # << >> /\ ConsumeAndSend(n, msg)
    <3> DEFINE b == [inbox EXCEPT ![n] = Tail(@)]
    <3>1. inbox' = Sent(b, n, msg)
      BY <2>2 DEF ConsumeAndSend
    <3>2. /\ b \in [Node -> Seq(Message)]
          /\ \A m \in Node : \A i \in 1 .. Len(b[m]) :
                \E j \in 1 .. Len(inbox[m]) : b[m][i] = inbox[m][j]
      BY <1>1, <2>2, ConsumedInbox
    <3> QED
      BY <3>1, <3>2
  <2> QED
    BY <2>1, <2>2, <2>3
<1>3. inbox' \in [Node -> Seq(Message)]
  BY <1>2, SentInbox
<1>4. ASSUME NEW m \in Node, NEW i \in 1 .. Len(inbox'[m])
      PROVE  \/ \E j \in 1 .. Len(inbox[m]) : inbox'[m][i] = inbox[m][j]
             \/ Justified(m, inbox[m][i])'
  <2>1. \A k \in 1 .. Len(Sent(box, n, msg)[m]) :
            \/ k \in 1 .. Len(box[m]) /\ Sent(box, n, msg)[m][k] = box[m][k]
            \/ m = Successor(n) /\ Sent(box, n, msg)[m][k] = msg
    BY SentInbox
  <2>2. \/ i \in 1 .. Len(box[m]) /\ inbox'[m][i] = box[m][i]
        \/ m = Successor(n) /\ inbox'[m][i] = msg
    BY <2>1, <1>2
  <2>3. CASE i \in 1 .. Len(box[m]) /\ inbox'[m][i] = box[m][i]
    BY <2>3, <1>2
  <2>4. CASE m = Successor(n) /\ inbox'[m][i] = msg
    BY <2>4 DEF Justified
  <2> QED
    BY <2>2, <2>3, <2>4
<1>5. VotesClimb /\ AnnouncedLeads
  BY DEF IInv
<1> QED
  BY <1>3, <1>4, <1>5, KeepsJustified

LEMMA DieKeeps ==
    ASSUME IInv, NEW n \in Node, NEW how \in Death, Die(n, how),
           status[n] = "up", how = "crashed" \/ ~NoCrash
    PROVE  IInv'
<1> USE DEF IInv
<1>1. TypeOK'
  BY DEF TypeOK, Die
<1>2. ~NoCrash'
  <2>1. \A m \in Node : status'[m] = IF m = n THEN how ELSE status[m]
    BY DEF Die, TypeOK
  <2> QED
    BY <2>1 DEF NoCrash
<1>3. VotesClimb' /\ AnnouncedLeads'
  <2>1. \A w \in Node : leader[w] => leader'[w]
    BY DEF Die
  <2>2. \A m \in Node : \A i \in 1 .. Len(inbox'[m]) :
            \E j \in 1 .. Len(inbox[m]) : inbox'[m][i] = inbox[m][j]
    BY DEF Die, TypeOK
  <2> QED
    BY <2>1, <2>2, KeepsJustified
<1>4. AskersAreNotMax' /\ AskedLeads'
  BY DEF AskersAreNotMax, AskedLeads, Die, IsMax
<1> QED
  BY <1>1, <1>2, <1>3, <1>4 DEF Calm

-----------------------------------------------------------------------------
(* IInv holds initially, and each action preserves it.                     *)

LEMMA InitIInv == Init => IInv
<1> SUFFICES ASSUME Init PROVE IInv
  OBVIOUS
<1>1. TypeOK
  BY BoundAssumption DEF BoundAssumption, Init, TypeOK, Shape
<1>2. VotesClimb /\ AnnouncedLeads
  BY DEF Init, VotesClimb, AnnouncedLeads
<1>3. AskersAreNotMax /\ AskedLeads
  BY DEF Init, AskersAreNotMax, AskedLeads
<1>4. Calm
  BY DEF Init, Calm
<1> QED
  BY <1>1, <1>2, <1>3, <1>4 DEF IInv

LEMMA ClaimAloneKeeps ==
    ASSUME IInv, NEW n \in Node, ClaimAlone(n)
    PROVE  IInv'
<1> USE DEF ClaimAlone
<1>1. TypeOK'
  BY DEF IInv, TypeOK, Shape
<1>2. \A w \in Node : leader[w] => leader'[w]
  BY DEF IInv, TypeOK
<1>3. VotesClimb' /\ AnnouncedLeads'
  BY <1>2, KeepsJustified DEF IInv
<1>4. AskersAreNotMax' /\ AskedLeads'
  BY <1>2 DEF IInv, AskersAreNotMax, AskedLeads, IsMax
<1>5. Calm'
  <2> SUFFICES ASSUME NoCrash, NEW m \in Node
               PROVE  /\ status[m] = "up"
                      /\ leader'[m] => IsMax(m) /\ peers'[m] = "alone"
                      /\ peers'[m] = "cut" => N = 1
                      /\ N = 1 => peers'[m] # "ring" /\ inbox[m] = << >>
                      /\ peers'[m] = "alone" => leader'[m] \/ m \in asking
    BY DEF Calm, NoCrash, IsMax
  <2>1. N = 1
    BY DEF IInv, Calm
  <2>2. m = n /\ IsMax(n)
    BY <2>1, IdAssumption DEF Node, IsMax
  <2> QED
    BY <2>1, <2>2 DEF IInv, Calm, TypeOK
<1> QED
  BY <1>1, <1>3, <1>4, <1>5 DEF IInv

(* The own vote is sent once or twice, and nothing else touches the ring.  *)
LEMMA VotingKeeps ==
    ASSUME IInv, NEW n \in Node, peers[n] = "ring",
           \/ inbox' = Sent(inbox, n, VoteFor(n))
           \/ inbox' = Sent(Sent(inbox, n, VoteFor(n)), n, VoteFor(n)),
           participant' \in [Node -> BOOLEAN], repeats' \in 0 .. MaxRepeat,
           UNCHANGED <<status, leader, peers, asking>>
    PROVE  IInv'
<1>1. VoteFor(n) \in Message
  BY DEF VoteFor, Message
<1>2. Justified(Successor(n), VoteFor(n))'
  BY OwnVoteClimbs DEF Justified, VoteFor, Climbed
<1>3. /\ inbox' \in [Node -> Seq(Message)]
      /\ VotesClimb' /\ AnnouncedLeads'
  BY <1>1, <1>2, SendKeeps
<1>4. TypeOK'
  BY <1>3 DEF IInv, TypeOK
<1>5. AskersAreNotMax' /\ AskedLeads'
  BY DEF IInv, AskersAreNotMax, AskedLeads, IsMax
<1>6. Calm'
  BY DEF IInv, Calm, NoCrash, IsMax
<1> QED
  BY <1>3, <1>4, <1>5, <1>6 DEF IInv

LEMMA StartVoteKeeps ==
    ASSUME IInv, NEW n \in Node, StartVote(n) \/ RepeatVote(n)
    PROVE  IInv'
<1>1. participant' \in [Node -> BOOLEAN] /\ repeats' \in 0 .. MaxRepeat
  <2>1. CASE StartVote(n)
    BY <2>1 DEF StartVote, IInv, TypeOK
  <2>2. CASE RepeatVote(n)
    BY <2>2, BoundAssumption DEF BoundAssumption, RepeatVote, IInv, TypeOK
  <2> QED
    BY <2>1, <2>2
<1> QED
  BY <1>1, VotingKeeps DEF StartVote, RepeatVote

(* Dropping the oldest message and nothing else.                           *)
LEMMA DropKeeps ==
    ASSUME IInv, NEW n \in Node, inbox[n] # << >>, Consume(n),
           participant' \in [Node -> BOOLEAN],
           UNCHANGED <<status, leader, peers, asking, repeats>>
    PROVE  IInv'
<1>1. /\ inbox' \in [Node -> Seq(Message)]
      /\ VotesClimb' /\ AnnouncedLeads'
  BY ConsumeKeeps
<1>2. TypeOK'
  BY <1>1 DEF IInv, TypeOK
<1>3. AskersAreNotMax' /\ AskedLeads'
  BY DEF IInv, AskersAreNotMax, AskedLeads, IsMax
<1>4. Calm'
  BY DEF IInv, TypeOK, Calm, NoCrash, IsMax, Consume
<1> QED
  BY <1>1, <1>2, <1>3, <1>4 DEF IInv

(* Passing a justified message on while staying in the ring.               *)
LEMMA PassKeeps ==
    ASSUME IInv, NEW n \in Node, inbox[n] # << >>, peers[n] = "ring",
           NEW msg \in Message, ConsumeAndSend(n, msg),
           Justified(Successor(n), msg),
           participant' \in [Node -> BOOLEAN],
           UNCHANGED <<status, leader, peers, asking, repeats>>
    PROVE  IInv'
<1>1. Justified(Successor(n), msg)'
  BY DEF Justified, Climbed, IsMax
<1>2. /\ inbox' \in [Node -> Seq(Message)]
      /\ VotesClimb' /\ AnnouncedLeads'
  BY <1>1, SendKeeps
<1>3. TypeOK'
  BY <1>2 DEF IInv, TypeOK
<1>4. AskersAreNotMax' /\ AskedLeads'
  BY DEF IInv, AskersAreNotMax, AskedLeads, IsMax
<1>5. Calm'
  <2>1. NoCrash => N # 1
    BY DEF IInv, Calm
  <2> QED
    BY <2>1 DEF IInv, Calm, NoCrash, IsMax
<1> QED
  BY <1>2, <1>3, <1>4, <1>5 DEF IInv

(* A lone follower has no message to read.                                 *)
LEMMA CalmReader ==
    ASSUME IInv, NEW n \in Node, inbox[n] # << >>, NoCrash
    PROVE  N # 1 /\ peers[n] # "cut"
  BY DEF IInv, Calm

LEMMA RecvVoteGreaterKeeps ==
    ASSUME IInv, NEW n \in Node, RecvVoteGreater(n)
    PROVE  IInv'
<1> DEFINE msg == Head(inbox[n])
<1>1. /\ status[n] = "up" /\ inbox[n] # << >> /\ msg \in Message
      /\ Justified(n, msg)
  BY ReceivedMessage DEF RecvVoteGreater
<1>2. msg.kind = "VOTE" /\ msg.id > Id[n]
  BY DEF RecvVoteGreater, Receives
<1>3. CASE peers[n] = "alone" /\ Consume(n)
           /\ UNCHANGED <<status, leader, peers, participant, asking, repeats>>
  BY <1>1, <1>3, DropKeeps DEF IInv, TypeOK
<1>4. CASE peers[n] = "cut" /\ NullDeref(n)
  BY <1>1, <1>4, CalmReader, DieKeeps DEF NullDeref, Death
<1>5. CASE peers[n] = "ring" /\ ConsumeAndSend(n, msg)
           /\ UNCHANGED <<status, leader, peers, participant, asking, repeats>>
  <2>1. Climbed(msg.id, Successor(n))
    BY <1>1, <1>2, ForwardedVoteClimbs DEF Justified
  <2>2. Justified(Successor(n), msg)
    BY <2>1, <1>2 DEF Justified
  <2> HIDE DEF msg
  <2> QED
    BY <1>1, <1>5, <2>2, PassKeeps DEF IInv, TypeOK
<1> QED
  BY <1>3, <1>4, <1>5 DEF RecvVoteGreater, Ignore

LEMMA RecvVoteSmallerKeeps ==
    ASSUME IInv, NEW n \in Node, RecvVoteSmaller(n)
    PROVE  IInv'
<1>1. status[n] = "up" /\ inbox[n] # << >>
  BY ReceivedMessage DEF RecvVoteSmaller
<1>2. CASE Consume(n) /\ UNCHANGED <<status, leader, peers, participant, asking, repeats>>
  BY <1>1, <1>2, DropKeeps DEF IInv, TypeOK
<1>3. CASE peers[n] = "cut" /\ NullDeref(n)
  BY <1>1, <1>3, CalmReader, DieKeeps DEF NullDeref, Death
<1>4. CASE /\ peers[n] = "ring"
           /\ participant' = [participant EXCEPT ![n] = TRUE]
           /\ ConsumeAndSend(n, VoteFor(n))
           /\ UNCHANGED <<status, leader, peers, asking, repeats>>
  <2>1. VoteFor(n) \in Message
    BY DEF VoteFor, Message
  <2>2. Justified(Successor(n), VoteFor(n))
    BY OwnVoteClimbs DEF Justified, VoteFor
  <2>3. participant' \in [Node -> BOOLEAN]
    BY <1>4 DEF IInv, TypeOK
  <2> QED
    BY <1>1, <1>4, <2>1, <2>2, <2>3, PassKeeps
<1> QED
  BY <1>2, <1>3, <1>4 DEF RecvVoteSmaller, Ignore

LEMMA RecvLeaderMineKeeps ==
    ASSUME IInv, NEW n \in Node, RecvLeaderMine(n)
    PROVE  IInv'
<1>1. inbox[n] # << >>
  BY ReceivedMessage DEF RecvLeaderMine
<1>2. participant' \in [Node -> BOOLEAN]
  BY DEF RecvLeaderMine, IInv, TypeOK
<1> QED
  BY <1>1, <1>2, DropKeeps DEF RecvLeaderMine

(* Only a crash closes a connection of the ring before the election is     *)
(* over.                                                                   *)
LEMMA DeadSuccessor ==
    ASSUME IInv, NEW n \in Node, status[Successor(n)] # "up"
    PROVE  ~NoCrash
  BY SuccessorInNode DEF IInv, Calm

LEMMA RecvVoteMineKeeps ==
    ASSUME IInv, NEW n \in Node, RecvVoteMine(n)
    PROVE  IInv'
<1>1. /\ status[n] = "up" /\ inbox[n] # << >>
      /\ Justified(n, Head(inbox[n]))
  BY ReceivedMessage DEF RecvVoteMine
<1>2. IsMax(n)
  BY <1>1, ReturnedVoteIsMax DEF RecvVoteMine, Receives, Justified
<1>3. CASE leader[n] /\ Consume(n)
           /\ UNCHANGED <<status, leader, peers, participant, asking, repeats>>
  BY <1>1, <1>3, DropKeeps DEF IInv, TypeOK
<1>4. CASE ~leader[n] /\ peers[n] # "ring" /\ NullDeref(n)
  <2>1. n \notin asking
    BY <1>2 DEF IInv, AskersAreNotMax
  <2>2. ~NoCrash
    BY <1>1, <1>4, <2>1, CalmReader DEF IInv, Calm, TypeOK, Shape
  <2> QED
    BY <1>1, <1>4, <2>2, DieKeeps DEF NullDeref, Death
<1>5. CASE /\ ~leader[n] /\ peers[n] = "ring"
           /\ participant' = [participant EXCEPT ![n] = TRUE]
           /\ leader' = [leader EXCEPT ![n] = TRUE]
           /\ \/ peers' = [peers EXCEPT ![n] = "alone"]
              \/ SendFails(n) /\ UNCHANGED peers
           /\ ConsumeAndSend(n, LeaderIs(n))
           /\ UNCHANGED <<status, asking, repeats>>
  <2>1. LeaderIs(n) \in Message
    BY DEF LeaderIs, Message
  <2>2. leader'[n] /\ \A w \in Node : leader[w] => leader'[w]
    BY <1>5 DEF IInv, TypeOK
  <2>3. Justified(Successor(n), LeaderIs(n))'
    BY <1>2, <2>2 DEF Justified, LeaderIs, IsMax
  <2>4. /\ inbox' \in [Node -> Seq(Message)]
        /\ VotesClimb' /\ AnnouncedLeads'
    BY <1>1, <1>5, <2>1, <2>2, <2>3, SendKeeps
  <2>5. TypeOK'
    BY <1>5, <2>4 DEF IInv, TypeOK, Shape
  <2>6. AskersAreNotMax' /\ AskedLeads'
    BY <1>5, <2>2 DEF IInv, AskersAreNotMax, AskedLeads, IsMax
  <2>7. Calm'
    <3> SUFFICES ASSUME NoCrash, NEW m \in Node
                 PROVE  /\ status[m] = "up"
                        /\ leader'[m] => IsMax(m) /\ peers'[m] = "alone"
                        /\ peers'[m] = "cut" => N = 1
                        /\ N = 1 => peers'[m] # "ring" /\ inbox'[m] = << >>
                        /\ peers'[m] = "alone" => leader'[m] \/ m \in asking
      BY <1>5 DEF Calm, NoCrash, IsMax
    <3>1. N # 1 /\ peers' = [peers EXCEPT ![n] = "alone"]
      BY <1>1, <1>5, CalmReader, DeadSuccessor DEF SendFails
    <3> QED
      BY <1>2, <1>5, <3>1, <2>2 DEF IInv, Calm, TypeOK
  <2> QED
    BY <2>4, <2>5, <2>6, <2>7 DEF IInv
<1> QED
  BY <1>3, <1>4, <1>5 DEF RecvVoteMine, Ignore

LEMMA RecvLeaderOtherKeeps ==
    ASSUME IInv, NEW n \in Node, RecvLeaderOther(n)
    PROVE  IInv'
<1>0. PICK msg : msg = Head(inbox[n])
  OBVIOUS
<1>1. /\ status[n] = "up" /\ inbox[n] # << >> /\ msg \in Message
      /\ Justified(n, msg)
  BY <1>0, ReceivedMessage DEF RecvLeaderOther
<1>2. msg.kind = "LEADER" /\ msg.id # Id[n]
  BY <1>0 DEF RecvLeaderOther, Receives
<1>3. PICK w \in Node : IsMax(w) /\ leader[w] /\ msg.id = Id[w]
  BY <1>1, <1>2 DEF Justified
<1>4. ~IsMax(n)
  BY <1>2, <1>3, UniqueMax
<1>5. CASE peers[n] = "alone" /\ Consume(n)
           /\ UNCHANGED <<status, leader, peers, participant, asking, repeats>>
  BY <1>1, <1>5, DropKeeps DEF IInv, TypeOK
<1>6. CASE peers[n] = "cut" /\ NullDeref(n)
  BY <1>1, <1>6, CalmReader, DieKeeps DEF NullDeref, Death
<1>7. CASE /\ peers[n] = "ring"
           /\ participant' = [participant EXCEPT ![n] = FALSE]
           /\ peers' = [peers EXCEPT ![n] = "alone"]
           /\ asking' = asking \cup {n}
           /\ ConsumeAndSend(n, msg)
           /\ UNCHANGED <<status, leader, repeats>>
  <2>1. Justified(Successor(n), msg)'
    BY <1>2, <1>3, <1>7 DEF Justified, IsMax
  <2>2. /\ inbox' \in [Node -> Seq(Message)]
        /\ VotesClimb' /\ AnnouncedLeads'
    BY <1>1, <1>7, <2>1, SendKeeps
  <2>3. TypeOK'
    BY <1>7, <2>2 DEF IInv, TypeOK, Shape
  <2>4. AskersAreNotMax' /\ AskedLeads'
    BY <1>3, <1>4, <1>7 DEF IInv, AskersAreNotMax, AskedLeads, IsMax
  <2>5. Calm'
    <3>1. NoCrash => N # 1
      BY <1>1, CalmReader
    <3> QED
      BY <1>7, <3>1 DEF IInv, Calm, TypeOK, NoCrash, IsMax
  <2> QED
    BY <2>2, <2>3, <2>4, <2>5 DEF IInv
<1>8. CASE /\ peers[n] = "ring"
           /\ participant' = [participant EXCEPT ![n] = FALSE]
           /\ ConsumeAndSend(n, msg)
           /\ UNCHANGED <<status, leader, peers, asking, repeats>>
  <2>1. Justified(Successor(n), msg)
    BY <1>2, <1>3 DEF Justified
  <2>2. participant' \in [Node -> BOOLEAN]
    BY <1>8 DEF IInv, TypeOK
  <2> QED
    BY <1>1, <1>8, <2>1, <2>2, PassKeeps
<1> QED
  BY <1>0, <1>5, <1>6, <1>7, <1>8 DEF RecvLeaderOther, Ignore

LEMMA CrashKeeps ==
    ASSUME IInv, NEW n \in Node, Crash(n)
    PROVE  IInv'
  BY DieKeeps DEF Crash, Death

LEMMA SuccessorLostKeeps ==
    ASSUME IInv, NEW n \in Node, SuccessorLost(n)
    PROVE  IInv'
<1> USE DEF SuccessorLost
<1>1. TypeOK'
  BY DEF IInv, TypeOK, Shape
<1>2. VotesClimb' /\ AnnouncedLeads'
  BY KeepsJustified DEF IInv
<1>3. AskersAreNotMax' /\ AskedLeads'
  BY DEF IInv, AskersAreNotMax, AskedLeads, IsMax
<1>4. Calm'
  BY DeadSuccessor DEF Calm, NoCrash
<1> QED
  BY <1>1, <1>2, <1>3, <1>4 DEF IInv

LEMMA BrokenPipeKeeps ==
    ASSUME IInv, NEW n \in Node, BrokenPipe(n)
    PROVE  IInv'
  BY DeadSuccessor, DieKeeps DEF BrokenPipe, Death

(* While nobody has crashed, a leader has nobody to give up.               *)
LEMMA EvictSilentKeeps ==
    ASSUME IInv, NEW n \in Node, EvictSilent(n)
    PROVE  IInv'
<1> USE DEF EvictSilent
<1>1. TypeOK'
  BY DEF IInv, TypeOK, Shape
<1>2. VotesClimb' /\ AnnouncedLeads'
  BY KeepsJustified DEF IInv
<1>3. AskersAreNotMax' /\ AskedLeads'
  BY DEF IInv, AskersAreNotMax, AskedLeads, IsMax
<1>4. Calm'
  BY DEF IInv, Calm, NoCrash
<1> QED
  BY <1>1, <1>2, <1>3, <1>4 DEF IInv

LEMMA StutterKeeps == IInv /\ UNCHANGED vars => IInv'
<1> SUFFICES ASSUME IInv, UNCHANGED vars PROVE IInv'
  OBVIOUS
<1> USE DEF vars
<1>1. TypeOK'
  BY DEF IInv, TypeOK
<1>2. VotesClimb' /\ AnnouncedLeads'
  BY KeepsJustified DEF IInv
<1>3. AskersAreNotMax' /\ AskedLeads'
  BY DEF IInv, AskersAreNotMax, AskedLeads, IsMax
<1>4. Calm'
  BY DEF IInv, Calm, NoCrash, IsMax
<1> QED
  BY <1>1, <1>2, <1>3, <1>4 DEF IInv

LEMMA NextKeeps == IInv /\ [Next]_vars => IInv'
<1> SUFFICES ASSUME IInv, [Next]_vars PROVE IInv'
  OBVIOUS
<1>1. ASSUME NEW n \in Node, LeaderTimeout(n) \/ RepeatVote(n) PROVE IInv'
  BY <1>1, ClaimAloneKeeps, StartVoteKeeps DEF LeaderTimeout
<1>2. ASSUME NEW n \in Node, Receive(n) PROVE IInv'
  BY <1>2, RecvVoteGreaterKeeps, RecvVoteSmallerKeeps, RecvVoteMineKeeps,
     RecvLeaderMineKeeps, RecvLeaderOtherKeeps DEF Receive
<1>3. ASSUME NEW n \in Node,
             Crash(n) \/ SuccessorLost(n) \/ BrokenPipe(n) \/ EvictSilent(n)
      PROVE  IInv'
  BY <1>3, CrashKeeps, SuccessorLostKeeps, BrokenPipeKeeps, EvictSilentKeeps
<1> QED
  BY <1>1, <1>2, <1>3, StutterKeeps DEF Next

-----------------------------------------------------------------------------
(* IInv is an invariant of the specification.                              *)
THEOREM Invariance == Spec => []IInv
  BY InitIInv, NextKeeps, PTL DEF Spec

(* Every variable keeps its type.                                          *)
THEOREM TypeCorrect == Spec => []TypeOK
<1>1. IInv => TypeOK
  BY DEF IInv
<1> QED
  BY <1>1, Invariance, PTL

(* lcr_election() lets no vote pass a server with a greater ID.            *)
THEOREM VotesClimbAlways == Spec => []VotesClimb
<1>1. IInv => VotesClimb
  BY DEF IInv
<1> QED
  BY <1>1, Invariance, PTL

(* As long as no follower crashes, at most one server leads.               *)
THEOREM OneLeader == Spec => []TwoLeadersNeedCrash
<1>1. IInv => TwoLeadersNeedCrash
  BY UniqueMax DEF IInv, Calm, TwoLeadersNeedCrash
<1> QED
  BY <1>1, Invariance, PTL

(* Who multicasts WHO_IS_LEADER does so after the greatest server has set  *)
(* its leader flag, so that there is somebody to answer.                   *)
THEOREM AskedHasLeaderAlways == Spec => []AskedHasLeader
<1>1. IInv => AskedHasLeader
  BY DEF IInv, AskedLeads, AskersAreNotMax, AskedHasLeader
<1> QED
  BY <1>1, Invariance, PTL

(* connected_peers->next->next is never NULL where lcr_election() reads    *)
(* through it, as long as no follower crashes.                             *)
THEOREM NoNullDeref == Spec => []NullDerefNeedsCrash
<1>1. IInv => NullDerefNeedsCrash
  BY DEF IInv, Calm, NullDerefNeedsCrash
<1> QED
  BY <1>1, Invariance, PTL

(* Whatever crashes, a server that takes the lead on the return of its own *)
(* vote has the greatest ID.                                               *)
THEOREM WinnerIsMaxAlways == Spec => WinnerIsMax
<1> DEFINE Won(n) == ~leader[n] /\ leader'[n] /\ peers[n] = "ring"
<1>1. IInv /\ [Next]_vars => [\A n \in Node : Won(n) => IsMax(n)]_vars
  <2> SUFFICES ASSUME IInv, Next, NEW n \in Node, Won(n)
               PROVE  IsMax(n)
    OBVIOUS
  <2>1. PICK m \in Node : \/ LeaderTimeout(m) \/ RepeatVote(m) \/ Receive(m)
                          \/ Crash(m) \/ SuccessorLost(m) \/ BrokenPipe(m)
                          \/ EvictSilent(m)
    BY DEF Next
  <2>2. ClaimAlone(m) \/ RecvVoteMine(m)
    BY <2>1 DEF LeaderTimeout, Receive, StartVote, RepeatVote, RecvVoteGreater,
       RecvVoteSmaller, RecvLeaderMine, RecvLeaderOther, Crash, SuccessorLost,
       BrokenPipe, EvictSilent, Die, NullDeref, Ignore
  <2>3. m = n
    BY <2>2 DEF ClaimAlone, RecvVoteMine, Die, NullDeref, Ignore, IInv, TypeOK
  <2>4. RecvVoteMine(n)
    BY <2>2, <2>3 DEF ClaimAlone
  <2>5. Justified(n, Head(inbox[n]))
    BY <2>4, ReceivedMessage DEF RecvVoteMine
  <2> QED
    BY <2>4, <2>5, ReturnedVoteIsMax DEF RecvVoteMine, Receives, Justified
<1> QED
  BY <1>1, Invariance, PTL DEF Spec, WinnerIsMax
=============================================================================
