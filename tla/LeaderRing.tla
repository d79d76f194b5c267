------------------------------ MODULE LeaderRing ------------------------------
(***************************************************************************)
(* How the leader keeps the ring of its followers: the successors that it  *)
(* hands out when a server joins (new_server() and ring_reconstruction()   *)
(* of multicast.c) and when it gives one up (ring_status() and             *)
(* update_ring() of disconnection_handler.c).                              *)
(*                                                                         *)
(* told[p] is the successor named in the last message sent to peer p.      *)
(* Sending and following an instruction is one step here; module Failover  *)
(* has the messages.                                                       *)
(***************************************************************************)
EXTENDS ServerList

CONSTANTS
    Head0,   \* ID of the leader, the head of the list
    Peer     \* IDs of the servers that may follow it

ASSUME HeadAssumption == Head0 \in Nat \ {0}
ASSUME PeerAssumption == Peer \subseteq Nat \ {0} /\ Head0 \notin Peer

VARIABLES
    lst,     \* connected_peers of the leader
    told

vars == <<lst, told>>

(* The 0.0.0.0 of the answer to the first server to join.                  *)
NoOne == 0

Entry(p) == [id |-> p]

(* Every variable has its type; in particular a peer is never told to take *)
(* the leader, the head of the list, as its successor.                     *)
TypeOK ==
    /\ lst \in Seq([id : Peer \cup {Head0}])
    /\ told \in [Peer -> Peer \cup {NoOne}]

Init ==
    /\ lst = <<Entry(Head0)>>
    /\ told = [p \in Peer |-> NoOne]

(* p asks to join; it may be in the list already.  It is told its          *)
(* successor, and its predecessor to take it as successor.                 *)
Join(p) ==
    LET l == append_server_sorted(lst, Entry(p))
        mine == IF Len(lst) = 1 THEN NoOne ELSE l[get_successor(p, l)].id
        pred == l[PredecessorInRing(p, l)].id IN
    /\ lst' = l
    /\ told' = IF Len(l) > 2 THEN [told EXCEPT ![p] = mine, ![pred] = p]
               ELSE [told EXCEPT ![p] = mine]

(* Faulty: the last peer stays connected to the first one that is gone.    *)
GiveUpFirstUnmended(p) ==
    /\ At(lst, p) # {}
    /\ lst' = delete_server(lst, p)
    /\ told' = IF Len(lst') <= 2 \/ get_predecessor(p, lst) = 1 THEN told
               ELSE [told EXCEPT ![lst[get_predecessor(p, lst)].id] =
                        lst'[get_successor(p, lst')].id]

(* The leader drops p and tells the predecessor, unless at most one peer   *)
(* is left.  In the code the new successor is the element after the        *)
(* predecessor, or head->next where there is none.                         *)
GiveUp(p) ==
    /\ At(lst, p) # {}
    /\ LET l == delete_server(lst, p)
           before == get_predecessor(p, lst)
           pred == lst[PredecessorInRing(p, lst)].id
           succ == IF before = 1 \/ before = Len(l) THEN l[2].id
                   ELSE l[before + 1].id IN
       /\ lst' = l
       /\ told' = IF Len(l) <= 2 THEN told ELSE [told EXCEPT ![pred] = succ]

Next == \E p \in Peer : Join(p) \/ GiveUp(p)

Spec == Init /\ [][Next]_vars

-----------------------------------------------------------------------------
(* The list is the leader, then its peers in increasing order of ID, each  *)
(* once: what get_successor() and get_predecessor() rely on.               *)
SortedPeers == lst # << >> /\ lst[1].id = Head0 /\ TailSorted(lst)

(* One message to one peer mends the ring: with two peers or more, the     *)
(* successors they have been told form the ring ordered by ID.             *)
RingMended ==
    Len(lst) > 2 => \A p \in Ids(lst) : told[p] = NextOf(p, Ids(lst))

(* The same by positions, and the rest of the inductive invariant of       *)
(* LeaderRingProofs.                                                       *)
After(i, n) == IF i = n THEN 2 ELSE i + 1

MendedByPosition ==
    Len(lst) > 2 =>
        \A i \in 2 .. Len(lst) : told[lst[i].id] = lst[After(i, Len(lst))].id

IInv ==
    /\ TypeOK /\ SortedPeers /\ MendedByPosition
    /\ \A i \in 2 .. Len(lst) : lst[i].id \in Peer
=============================================================================
