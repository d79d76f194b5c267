------------------------------ MODULE ServerList ------------------------------
(***************************************************************************)
(* The list connected_peers of a server (server_struct.c): a sequence of   *)
(* records whose first element, the head, is the server itself.  A record  *)
(* has at least an id; ist_peer_server() also reads leader and sock.       *)
(*                                                                         *)
(* A pointer into the list is a position; NULL is the absence of one, and  *)
(* an operator whose code would dereference NULL is used under a guard     *)
(* that says the position exists.                                          *)
(***************************************************************************)
EXTENDS Naturals, Sequences, SequencesExt, FiniteSetsExt

(* Positions after the head with the given ID, and with a greater one.     *)
At(l, id)    == {i \in 2 .. Len(l) : l[i].id = id}
Above(l, id) == {i \in 2 .. Len(l) : l[i].id > id}

server_info_exist(id, l) == \E i \in 1 .. Len(l) : l[i].id = id

append_server(l, e) ==
    IF server_info_exist(e.id, l) THEN l ELSE Append(l, e)

(* Faulty: a new server goes to the end of the list.                       *)
append_server_unsorted(l, e) == append_server(l, e)

(* The head takes no part in the order.                                    *)
append_server_sorted(l, e) ==
    IF server_info_exist(e.id, l) THEN l
    ELSE IF Above(l, e.id) = {} THEN Append(l, e)
    ELSE InsertAt(l, Min(Above(l, e.id)), e)

(* Needs At(l, id) # {}: the loop reads current->next->ID at the end too.  *)
delete_server(l, id) == RemoveAt(l, Min(At(l, id)))

(* Faulty: it wraps around to the head itself.                             *)
get_successor_to_head(id, l) ==
    IF Above(l, id) = {} THEN 1 ELSE Min(Above(l, id))

(* The first peer with a greater ID, else the first peer; it wraps around  *)
(* to head->next.  Needs a peer.                                           *)
get_successor(id, l) == IF Above(l, id) = {} THEN 2 ELSE Min(Above(l, id))

(* The element before the one with this ID.  Needs At(l, id) # {}.         *)
get_predecessor(id, l) == Min(At(l, id)) - 1

get_last_server(l) == Len(l)

(* What new_server(), ring_reconstruction() and ring_status() make of it:  *)
(* the head is not in the ring, so the last peer precedes the first.       *)
PredecessorInRing(id, l) ==
    IF get_predecessor(id, l) = 1 THEN get_last_server(l)
    ELSE get_predecessor(id, l)

(* Positions of the peers that ist_peer_server() can find for a socket.    *)
ist_peer_server(sock, l) ==
    {i \in 2 .. Len(l) : l[1].leader /\ l[i].sock = sock}

Ids(l) == {l[i].id : i \in 2 .. Len(l)}

(* The next one of a set of IDs: the least greater one, else the least.    *)
NextOf(p, S) ==
    LET G == {q \in S : q > p} IN IF G = {} THEN Min(S) ELSE Min(G)

TailSorted(l) ==
    \A i, j \in 2 .. Len(l) : i < j => l[i].id < l[j].id
=============================================================================
