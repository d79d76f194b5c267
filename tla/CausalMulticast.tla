---------------------------- MODULE CausalMulticast ----------------------------
(***************************************************************************)
(* What the group chat promises its members: everyone delivers a message   *)
(* at most once, and only after everything that its sender had delivered   *)
(* or sent before it.  Not that anyone ever delivers it.                   *)
(***************************************************************************)
EXTENDS Naturals, Sequences, FiniteSets, Functions

CONSTANT Client

VARIABLES
    sent,   \* the messages that were sent, each with its causal past
    log     \* what each client has delivered, in order: IDs of messages

vars == <<sent, log>>

(* The k-th message of c, counted from 0.                                  *)
ID == Client \X Nat
Sends(c) == {m \in sent : m.id[1] = c}

Init ==
    /\ sent = {}
    /\ log = [c \in Client |-> << >>]

Send(c) ==
    /\ sent' = sent \cup
          {[id   |-> <<c, Cardinality(Sends(c))>>,
            past |-> Range(log[c]) \cup {m.id : m \in Sends(c)}]}
    /\ UNCHANGED log

Deliver(c) ==
    \E m \in sent :
        /\ m.id \notin Range(log[c])
        /\ m.past \subseteq Range(log[c])
        /\ log' = [log EXCEPT ![c] = Append(@, m.id)]
        /\ UNCHANGED sent

Next == \E c \in Client : Send(c) \/ Deliver(c)

Spec == Init /\ [][Next]_vars
=============================================================================
