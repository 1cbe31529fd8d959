------------------------------ MODULE Broadcast -------------------------------
(***************************************************************************)
(* What the hub of the cloud control promises to the peers, whatever goes   *)
(* on with logins, logouts and the caches: messages are sent out one at a   *)
(* time, so that all receivers get them in one order; each receiver gets a  *)
(* message at most once, its sender never; the messages of one sender keep  *)
(* their order; and a channel is closed between two messages, never within  *)
(* one, and nothing enters it any more.                                     *)
(***************************************************************************)
EXTENDS Integers, Sequences

CONSTANTS Conn, Id, None, IdOf

VARIABLES
    next,     \* no message of this sender with a lower number is still to come
    packet,   \* the message that is being sent out, or None
    waiting,  \* the ids that it has still to reach
    outbound, \* what each connection has been given and not yet taken
    closed    \* nothing more is given to this connection

broadcastVars == <<next, packet, waiting, outbound, closed>>

Init ==
    /\ next = [c \in Conn |-> 1]
    /\ packet = None /\ waiting = {}
    /\ outbound = [c \in Conn |-> <<>>]
    /\ closed = [c \in Conn |-> FALSE]

\* A frame whose message goes to nobody
Discard(c) ==
    /\ next' = [next EXCEPT ![c] = @ + 1]
    /\ UNCHANGED <<packet, waiting, outbound, closed>>

\* A message for some ids, the sender's not among them
Publish(c) ==
    /\ packet = None
    /\ next' = [next EXCEPT ![c] = @ + 1]
    /\ waiting' \subseteq Id \ {IdOf[c]} /\ waiting' # {}
    /\ packet' = [from |-> c, n |-> next[c]]
    /\ UNCHANGED <<outbound, closed>>

\* It reaches the next of them, or passes over one that has no connection.
Reach(i) ==
    /\ packet # None /\ i \in waiting
    /\ \/ UNCHANGED outbound
       \/ \E d \in Conn :
             /\ IdOf[d] = i /\ ~closed[d]
             /\ outbound' = [outbound EXCEPT ![d] = Append(@, packet)]
    /\ waiting' = waiting \ {i}
    /\ packet' = IF waiting' = {} THEN None ELSE packet
    /\ UNCHANGED <<next, closed>>

\* A peer takes what has waited for it the longest.
Take(c) ==
    /\ outbound[c] # <<>>
    /\ outbound' = [outbound EXCEPT ![c] = Tail(@)]
    /\ UNCHANGED <<next, packet, waiting, closed>>

Close(c) ==
    /\ packet = None /\ ~closed[c]
    /\ closed' = [closed EXCEPT ![c] = TRUE]
    /\ UNCHANGED <<next, packet, waiting, outbound>>

Next ==
    \/ \E c \in Conn : Discard(c) \/ Publish(c) \/ Take(c) \/ Close(c)
    \/ \E i \in Id : Reach(i)

Spec == Init /\ [][Next]_broadcastVars
=============================================================================
