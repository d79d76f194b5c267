------------------------------- MODULE Election -------------------------------
(***************************************************************************)
(* The LCR (Chang-Roberts) election that the follower servers run on their *)
(* ring when they stop hearing the leader: election_lcr.c, the ELECTION    *)
(* arm of handle_socket_change() and the successor arm of                  *)
(* handle_disconnection().                                                 *)
(*                                                                         *)
(* The module fixes one ring of followers whose common leader is gone and  *)
(* keeps of every server's list connected_peers only its shape: a follower *)
(* in a ring knows <<itself, the lost leader, its successor>>.  Module     *)
(* Failover holds the lists themselves and implements this module.         *)
(***************************************************************************)
EXTENDS Naturals, Sequences, FiniteSets

CONSTANTS
    N,         \* number of followers; they are 0 .. N-1 in ring order
    Id,        \* the ID each of them drew at start-up
    MaxCrash,  \* bound: how many of them may crash during the election
    MaxRepeat  \* bound: votes sent again because the leader stays silent

ASSUME NAssumption == N \in Nat \ {0}
ASSUME IdAssumption ==
    /\ Id \in [0 .. N-1 -> Nat \ {0}]
    /\ \A m, n \in 0 .. N-1 : Id[m] = Id[n] => m = n
ASSUME BoundAssumption == MaxCrash \in Nat /\ MaxRepeat \in Nat

VARIABLES
    status,       \* "up", or how the server died: see Death
    leader,       \* connected_peers->leader of each server
    peers,        \* shape of the list after its head, see Shape
    participant,  \* the global of election_lcr.c
    inbox,        \* FIFO of the connection from the ring predecessor
    asking,       \* servers that have multicast WHO_IS_LEADER
    repeats       \* how much of MaxRepeat is used

vars == <<status, leader, peers, participant, inbox, asking, repeats>>

Node == 0 .. N-1
Successor(n) == IF n = N-1 THEN 0 ELSE n+1

(* "ring":  the lost leader, then the successor;                           *)
(* "cut":   one of the two only, as a rule the lost leader, when the       *)
(*          successor's connection was closed;                             *)
(* "alone": nobody, connected_peers->next is NULL.                         *)
Shape == {"ring", "cut", "alone"}

IsMax(n) == \A m \in Node : Id[m] <= Id[n]

(* "crashed" from outside, "segv" at a NULL dereference, "sigpipe" at the   *)
(* second send to a connection that its other end has reset.               *)
Death == {"crashed", "segv", "sigpipe"}

Message == [kind : {"VOTE", "LEADER"}, id : {Id[n] : n \in Node}]

(* Faulty: the position in the ring in place of the ID.                    *)
VoteAt(n) == [kind |-> "VOTE", id |-> n]

VoteFor(n)  == [kind |-> "VOTE", id |-> Id[n]]
LeaderIs(n) == [kind |-> "LEADER", id |-> Id[n]]

(* Every variable has its type; in particular every vote and announcement  *)
(* on the ring carries the ID of a server, never its position.             *)
TypeOK ==
    /\ status \in [Node -> {"up"} \cup Death]
    /\ leader \in [Node -> BOOLEAN]
    /\ peers \in [Node -> Shape]
    /\ participant \in [Node -> BOOLEAN]
    /\ inbox \in [Node -> Seq(Message)]
    /\ asking \in SUBSET Node
    /\ repeats \in 0 .. MaxRepeat

Init ==
    /\ status = [n \in Node |-> "up"]
    /\ leader = [n \in Node |-> FALSE]
    /\ peers = [n \in Node |-> IF N = 1 THEN "cut" ELSE "ring"]
    /\ participant = [n \in Node |-> FALSE]
    /\ inbox = [n \in Node |-> << >>]
    /\ asking = {}
    /\ repeats = 0

-----------------------------------------------------------------------------
(* Sockets.  Nobody reads what is sent to a successor that is gone: it is  *)
(* only remembered that something was.  A vote whose send() fails is like  *)
(* that too: lcr_election() does nothing else with it, and main() writes   *)
(* the second copy of a server's own, see BrokenPipe.                      *)

Receives(n, kind) ==
    status[n] = "up" /\ inbox[n] # << >> /\ Head(inbox[n]).kind = kind

Consume(n) == inbox' = [inbox EXCEPT ![n] = Tail(@)]

Ignore(n) ==
    Consume(n) /\ UNCHANGED <<status, leader, peers, participant, asking, repeats>>

Sent(box, n, msg) ==
    [box EXCEPT ![Successor(n)] =
        IF status[Successor(n)] = "up" THEN Append(@, msg) ELSE <<msg>>]

(* send() returns -1: the connection has been reset.                       *)
SendFails(n) == status[Successor(n)] # "up"

ConsumeAndSend(n, msg) ==
    inbox' = Sent([inbox EXCEPT ![n] = Tail(@)], n, msg)

Die(n, how) ==
    /\ status' = [status EXCEPT ![n] = how]
    /\ inbox' = [inbox EXCEPT ![n] = << >>]
    /\ UNCHANGED <<leader, peers, participant, asking, repeats>>

(* connected_peers->next->next is NULL and is dereferenced.                *)
NullDeref(n) == Die(n, "segv")

-----------------------------------------------------------------------------
(* check_leader_timeout() finds the leader silent and calls send_ele_msg():*)
(* a server without a successor takes the lead, any other one that is not  *)
(* yet a participant sends its vote.  Each time the vote also replaces the *)
(* heartbeat in sendBuf, and main() goes on to send what is there to the   *)
(* successor: a second copy, and one more at every later expiry.           *)

ClaimAlone(n) ==
    /\ status[n] = "up" /\ ~leader[n] /\ peers[n] = "cut"
    /\ leader' = [leader EXCEPT ![n] = TRUE]
    /\ peers' = [peers EXCEPT ![n] = "alone"]
    /\ UNCHANGED <<status, participant, inbox, asking, repeats>>

StartVote(n) ==
    /\ status[n] = "up" /\ ~leader[n] /\ peers[n] = "ring"
    /\ ~participant[n]
    /\ participant' = [participant EXCEPT ![n] = TRUE]
    /\ inbox' = Sent(Sent(inbox, n, VoteFor(n)), n, VoteFor(n))
    /\ UNCHANGED <<status, leader, peers, asking, repeats>>

RepeatVote(n) ==
    /\ status[n] = "up" /\ ~leader[n] /\ peers[n] = "ring"
    /\ participant[n] /\ repeats < MaxRepeat
    /\ repeats' = repeats + 1
    /\ inbox' = Sent(inbox, n, VoteFor(n))
    /\ UNCHANGED <<status, leader, peers, participant, asking>>

LeaderTimeout(n) == ClaimAlone(n) \/ StartVote(n)

-----------------------------------------------------------------------------
(* lcr_election("VOTE", pred_id, ...), one action per comparison.          *)

RecvVoteGreater(n) ==
    /\ Receives(n, "VOTE") /\ Head(inbox[n]).id > Id[n]
    /\ \/ /\ peers[n] = "alone"
          /\ Ignore(n)
       \/ peers[n] = "cut" /\ NullDeref(n)
       \/ /\ peers[n] = "ring"
          /\ ConsumeAndSend(n, Head(inbox[n]))
          /\ UNCHANGED <<status, leader, peers, participant, asking, repeats>>

(* Faulty: the smaller vote is passed on, not replaced by the own one.     *)
RecvVoteSmallerPassedOn(n) ==
    /\ Receives(n, "VOTE") /\ Head(inbox[n]).id < Id[n]
    /\ peers[n] = "ring"
    /\ participant' = [participant EXCEPT ![n] = TRUE]
    /\ ConsumeAndSend(n, Head(inbox[n]))
    /\ UNCHANGED <<status, leader, peers, asking, repeats>>

(* Faulty: no return for a participant or for connected_peers->next NULL.  *)
RecvVoteSmallerUnchecked(n) ==
    /\ Receives(n, "VOTE") /\ Head(inbox[n]).id < Id[n]
    /\ \/ peers[n] # "ring" /\ NullDeref(n)
       \/ /\ peers[n] = "ring"
          /\ participant' = [participant EXCEPT ![n] = TRUE]
          /\ ConsumeAndSend(n, VoteFor(n))
          /\ UNCHANGED <<status, leader, peers, asking, repeats>>

RecvVoteSmaller(n) ==
    /\ Receives(n, "VOTE") /\ Head(inbox[n]).id < Id[n]
    /\ \/ /\ peers[n] = "alone" \/ participant[n]
          /\ Ignore(n)
       \/ peers[n] = "cut" /\ ~participant[n] /\ NullDeref(n)
       \/ /\ peers[n] = "ring" /\ ~participant[n]
          /\ participant' = [participant EXCEPT ![n] = TRUE]
          /\ ConsumeAndSend(n, VoteFor(n))
          /\ UNCHANGED <<status, leader, peers, asking, repeats>>

(* Faulty: leads, but sends no LEADER message.                             *)
RecvVoteMineSilent(n) ==
    /\ Receives(n, "VOTE") /\ Head(inbox[n]).id = Id[n]
    /\ leader' = [leader EXCEPT ![n] = TRUE]
    /\ peers' = [peers EXCEPT ![n] = "alone"]
    /\ Consume(n)
    /\ UNCHANGED <<status, participant, asking, repeats>>

(* Faulty: announces itself and never sets its leader flag.                *)
RecvVoteMineUnflagged(n) ==
    /\ Receives(n, "VOTE") /\ Head(inbox[n]).id = Id[n]
    /\ peers[n] = "ring"
    /\ peers' = [peers EXCEPT ![n] = "alone"]
    /\ ConsumeAndSend(n, LeaderIs(n))
    /\ UNCHANGED <<status, leader, participant, asking, repeats>>

(* Faulty: >= where the comparison should be ==.                           *)
RecvVoteMineOrGreater(n) ==
    /\ Receives(n, "VOTE") /\ Head(inbox[n]).id >= Id[n]
    /\ ~leader[n] /\ peers[n] = "ring"
    /\ leader' = [leader EXCEPT ![n] = TRUE]
    /\ peers' = [peers EXCEPT ![n] = "alone"]
    /\ ConsumeAndSend(n, LeaderIs(n))
    /\ UNCHANGED <<status, participant, asking, repeats>>

(* The vote came back: take the lead, announce it and forget the old       *)
(* leader and the successor; both stay listed if send() fails.             *)
RecvVoteMine(n) ==
    /\ Receives(n, "VOTE") /\ Head(inbox[n]).id = Id[n]
    /\ \/ /\ leader[n]
          /\ Ignore(n)
       \/ ~leader[n] /\ peers[n] # "ring" /\ NullDeref(n)
       \/ /\ ~leader[n] /\ peers[n] = "ring"
          /\ participant' = [participant EXCEPT ![n] = TRUE]
          /\ leader' = [leader EXCEPT ![n] = TRUE]
          /\ peers' = [peers EXCEPT ![n] = "alone"]
          /\ ConsumeAndSend(n, LeaderIs(n))
          /\ UNCHANGED <<status, asking, repeats>>
       \/ /\ ~leader[n] /\ peers[n] = "ring" /\ SendFails(n)
          /\ participant' = [participant EXCEPT ![n] = TRUE]
          /\ leader' = [leader EXCEPT ![n] = TRUE]
          /\ ConsumeAndSend(n, LeaderIs(n))
          /\ UNCHANGED <<status, peers, asking, repeats>>

-----------------------------------------------------------------------------
(* lcr_election("LEADER", pred_id, ...) and what handle_socket_change()    *)
(* does with its result: pass the announcement on, forget the old leader   *)
(* and the successor, and ask by multicast who the new leader is.  Unless  *)
(* send() fails: then the old leader's entry has got the winner's ID, and  *)
(* nobody is asked.                                                        *)

RecvLeaderMine(n) ==
    /\ Receives(n, "LEADER") /\ Head(inbox[n]).id = Id[n]
    /\ participant' = [participant EXCEPT ![n] = FALSE]
    /\ Consume(n)
    /\ UNCHANGED <<status, leader, peers, asking, repeats>>

RecvLeaderOther(n) ==
    /\ Receives(n, "LEADER") /\ Head(inbox[n]).id # Id[n]
    /\ \/ /\ peers[n] = "alone"
          /\ Ignore(n)
       \/ peers[n] = "cut" /\ NullDeref(n)
       \/ /\ peers[n] = "ring"
          /\ participant' = [participant EXCEPT ![n] = FALSE]
          /\ peers' = [peers EXCEPT ![n] = "alone"]
          /\ asking' = asking \cup {n}
          /\ ConsumeAndSend(n, Head(inbox[n]))
          /\ UNCHANGED <<status, leader, repeats>>
       \/ /\ peers[n] = "ring" /\ SendFails(n)
          /\ participant' = [participant EXCEPT ![n] = FALSE]
          /\ ConsumeAndSend(n, Head(inbox[n]))
          /\ UNCHANGED <<status, leader, peers, asking, repeats>>

Receive(n) ==
    \/ RecvVoteGreater(n) \/ RecvVoteSmaller(n) \/ RecvVoteMine(n)
    \/ RecvLeaderMine(n) \/ RecvLeaderOther(n)

-----------------------------------------------------------------------------
(* A follower dies; its predecessor reads the end of the connection.       *)

Crash(n) ==
    /\ status[n] = "up"
    /\ Cardinality({m \in Node : status[m] = "crashed"}) < MaxCrash
    /\ Die(n, "crashed")

(* Faulty: the end of the connection is read and the successor kept.       *)
SuccessorKept(n) ==
    /\ status[n] = "up" /\ ~leader[n] /\ peers[n] = "ring"
    /\ status[Successor(n)] # "up"
    /\ UNCHANGED vars

SuccessorLost(n) ==
    /\ status[n] = "up" /\ ~leader[n] /\ peers[n] = "ring"
    /\ status[Successor(n)] # "up"
    /\ peers' = [peers EXCEPT ![n] = "cut"]
    /\ UNCHANGED <<status, leader, participant, inbox, asking, repeats>>

(* Before that it may write twice to the reset connection, a message of    *)
(* the election and another or a heartbeat; nothing catches SIGPIPE.       *)
BrokenPipe(n) ==
    /\ status[n] = "up" /\ ~leader[n] /\ peers[n] = "ring"
    /\ status[Successor(n)] # "up" /\ inbox[Successor(n)] # << >>
    /\ Die(n, "sigpipe")

(* check_heartbeat_timeout(): a leader that could not announce itself      *)
(* gives up the lost leader, and its successor as well if it is time.      *)
EvictSilent(n) ==
    /\ status[n] = "up" /\ leader[n]
    /\ \/ /\ peers[n] = "ring"
          /\ \E left \in {"cut", "alone"} : peers' = [peers EXCEPT ![n] = left]
       \/ peers[n] = "cut" /\ peers' = [peers EXCEPT ![n] = "alone"]
    /\ UNCHANGED <<status, leader, participant, inbox, asking, repeats>>

Next ==
    \E n \in Node :
        \/ LeaderTimeout(n) \/ RepeatVote(n) \/ Receive(n)
        \/ Crash(n) \/ SuccessorLost(n) \/ BrokenPipe(n) \/ EvictSilent(n)

(* A server that is up polls every 100 ms: it serves each readable socket, *)
(* and its heartbeat timer finds a silent leader sooner or later.          *)
Fairness ==
    \A n \in Node :
        /\ WF_vars(LeaderTimeout(n))
        /\ WF_vars(Receive(n))
        /\ WF_vars(SuccessorLost(n))

Spec == Init /\ [][Next]_vars
FairSpec == Spec /\ Fairness

-----------------------------------------------------------------------------
NoCrash == \A n \in Node : status[n] # "crashed"

(* Votes and announcements in flight: m lies strictly between o and n.     *)
Between(o, m, n) == IF o < n THEN o < m /\ m < n ELSE m > o \/ m < n

Climbed(v, n) ==
    \E o \in Node : /\ v = Id[o]
                    /\ \A m \in Node : Between(o, m, n) => Id[m] < Id[o]

(* A vote on its way to a server has passed smaller servers only since the *)
(* one that cast it: lcr_election() lets no vote overtake a greater ID.    *)
VotesClimb ==
    \A n \in Node : \A i \in 1 .. Len(inbox[n]) :
        inbox[n][i].kind = "VOTE" => Climbed(inbox[n][i].id, n)

(* LEADER is announced of the greatest server only, and after its leader   *)
(* flag is set: lcr_election() sets the flag before it sends.              *)
AnnouncedLeads ==
    \A n \in Node : \A i \in 1 .. Len(inbox[n]) :
        inbox[n][i].kind = "LEADER" =>
            \E w \in Node : IsMax(w) /\ leader[w] /\ inbox[n][i].id = Id[w]

(* Whoever takes the lead on the return of its own vote has the greatest   *)
(* ID of the whole ring, whatever crashed meanwhile.                       *)
WinnerIsMax ==
    [][\A n \in Node :
          (~leader[n] /\ leader'[n] /\ peers[n] = "ring") => IsMax(n)]_vars

(* Two servers lead only if some follower died.                            *)
TwoLeadersNeedCrash ==
    NoCrash => \A m, n \in Node : leader[m] /\ leader[n] => m = n

(* WHO_IS_LEADER is multicast once and only a server whose leader flag is  *)
(* set answers: nobody asks before the flag of the greatest is set.        *)
AskedHasLeader ==
    asking # {} => \E w \in Node : leader[w] /\ IsMax(w) /\ w \notin asking

(* The ring code dereferences NULL only after some follower died.          *)
NullDerefNeedsCrash == NoCrash => \A n \in Node : status[n] # "segv"

(* Without crashes the election ends: the greatest leads and every other   *)
(* server has asked for it.                                                *)
ElectionEnds ==
    <>(\E w \in Node : leader[w] /\ IsMax(w) /\ asking = Node \ {w})

(* Even with crashes, somebody takes the lead unless nobody survives.      *)
SomeoneLeads ==
    <>(\/ \E n \in Node : status[n] = "up" /\ leader[n]
       \/ \A n \in Node : status[n] # "up")

-----------------------------------------------------------------------------
(* The inductive invariant of the proofs in ElectionProofs.                *)

(* While nobody has crashed, everybody is up and nobody is cut off, except *)
(* a lone follower; a leader has left the ring, and whoever has left it    *)
(* leads or asks.                                                          *)
Calm ==
    NoCrash =>
        \A n \in Node :
            /\ status[n] = "up"
            /\ leader[n] => IsMax(n) /\ peers[n] = "alone"
            /\ peers[n] = "cut" => N = 1
            /\ N = 1 => peers[n] # "ring" /\ inbox[n] = << >>
            /\ peers[n] = "alone" => leader[n] \/ n \in asking

AskersAreNotMax == \A n \in asking : ~IsMax(n)
AskedLeads == asking # {} => \E w \in Node : leader[w] /\ IsMax(w)

IInv ==
    /\ TypeOK /\ VotesClimb /\ AnnouncedLeads
    /\ AskersAreNotMax /\ AskedLeads /\ Calm
=============================================================================
