--------------------------------- MODULE Hub ---------------------------------
(***************************************************************************)
(* The hub of the cloud control server: src/ndscloud/hub.go.  One          *)
(* goroutine, Run, owns the table of clients and the caches of ids; the    *)
(* goroutines of the connections hand it requests over unbuffered          *)
(* channels (module Cloud) and it pushes every message into the buffered   *)
(* outbound channel of each receiver, one after the other, blocking while  *)
(* that channel is full.                                                   *)
(*                                                                         *)
(* Every operator below is what Run does with one request.  Only the hub   *)
(* writes the variables of this module, except that a writePump takes from *)
(* outbound and a registration of a device sets isLocal.                   *)
(***************************************************************************)
EXTENDS Routing

CONSTANTS
    Conn,     \* the *Client objects, one per accepted websocket
    Id,       \* ids of users and of devices
    Unit,     \* course units
    None,     \* nil
    IdOf,     \* Client.id
    UnitOf,   \* Client.unitId
    KindOf,   \* Client.identity and the type of Client.info together
    Cap,      \* capacity of an outbound channel: 256 in NewClient
    MaxFrames \* bound: how many frames the peer of each connection sends

Kind == {"teacher", "student", "guest", "device"}

\* nil is none of the things it stands in for.
ASSUME HubAssumption ==
    /\ IsFiniteSet(Id)
    /\ IdOf \in [Conn -> Id]
    /\ UnitOf \in [Conn -> Unit]
    /\ KindOf \in [Conn -> Kind]
    /\ Cap \in Nat \ {0}
    /\ MaxFrames \in [Conn -> Nat]
    /\ None \notin Conn /\ None \notin Id /\ None \notin [Field -> SUBSET Id]
    /\ None \notin [from : Conn, n : Nat]

VARIABLES
    clients,    \* Hub.clients: id -> client, None where the map has no entry
    clientSet,  \* Hub.clientSet: unit -> cache, None where it has no entry
    outbound,   \* Client.outbound: what is buffered in it
    closed,     \* Client.outbound was closed
    isLocal,    \* the client is a device with Dt = "1": isLocalControl
    todo,       \* receivers Run still has to serve, in the order of the slice
    packet,     \* the message they are served, None between two requests
    crashed     \* why a panic in the hub ended the process, "no" while it runs

hubVars == <<clients, clientSet, outbound, closed, todo, packet, crashed>>

\* A broadcast message as it lies in a channel: the sender's connection and
\* the number of the frame it came in with.
Packet == [from : Conn, n : Nat]

Cache == [Field -> SUBSET Id]

HubTypeOK ==
    /\ clients \in [Id -> Conn \cup {None}]
    /\ clientSet \in [Unit -> Cache \cup {None}]
    /\ outbound \in [Conn -> Seq(Packet)]
    /\ closed \in [Conn -> BOOLEAN]
    /\ isLocal \in [Conn -> BOOLEAN]
    /\ todo \in Seq(Id)
    /\ packet \in Packet \cup {None}
    /\ crashed \in {"no", "closeClosed", "sendClosed", "nilMap", "nilCache"}

HubInit ==
    /\ clients = [i \in Id |-> None]
    /\ clientSet = [u \in Unit |-> None]
    /\ outbound = [c \in Conn |-> <<>>]
    /\ closed = [c \in Conn |-> FALSE]
    /\ todo = <<>>
    /\ packet = None
    /\ crashed = "no"

\* Hub.exists and Hub.get, under the read lock.
Exists(c) == clients[IdOf[c]] # None
Get(i) == clients[i]

\* Run is at its select: it serves one request to the end before the next.
Idle == crashed = "no" /\ packet = None

\* The sets of its unit's cache that a client is entered in by Hub.add.
FieldsOf(c) ==
    {"All"} \cup (CASE KindOf[c] = "teacher" -> {"Tea"}
                    [] KindOf[c] = "student" -> {"Stu"}
                    [] KindOf[c] = "device"  -> {"Dev"}
                    [] OTHER -> {})
            \cup (IF isLocal[c] THEN {"Nds"} ELSE {})

Crash(why) ==
    /\ crashed' = why
    /\ UNCHANGED <<clients, clientSet, outbound, closed, todo, packet>>

\* Mutant: an id that the table holds already is not entered in the cache again.
AddOnce(c) ==
    /\ Idle
    /\ clients' = [clients EXCEPT ![IdOf[c]] = c]
    /\ LET uc == IF clientSet[UnitOf[c]] = None THEN EmptyCache
                                                ELSE clientSet[UnitOf[c]]
       IN  clientSet' = [clientSet EXCEPT ![UnitOf[c]] =
               [f \in Field |-> IF f \in FieldsOf(c) /\ ~Exists(c)
                                  THEN uc[f] \cup {IdOf[c]} ELSE uc[f]]]
    /\ UNCHANGED <<outbound, closed, todo, packet, crashed>>

\* case client := <-h.register
Add(c) ==
    /\ Idle
    /\ clients' = [clients EXCEPT ![IdOf[c]] = c]
    /\ LET uc == IF clientSet[UnitOf[c]] = None THEN EmptyCache
                                                ELSE clientSet[UnitOf[c]]
       IN  clientSet' = [clientSet EXCEPT ![UnitOf[c]] =
               [f \in Field |-> IF f \in FieldsOf(c) THEN uc[f] \cup {IdOf[c]}
                                                     ELSE uc[f]]]
    /\ UNCHANGED <<outbound, closed, todo, packet, crashed>>

\* Mutant: delete(uc.All, client.id) is missing.
ForgetRoleOnly(c) ==
    IF clientSet[UnitOf[c]] = None
      THEN clientSet
      ELSE [clientSet EXCEPT ![UnitOf[c]] =
               [f \in Field |-> IF f \in FieldsOf(c) \ {"All", "Nds"}
                                  THEN @[f] \ {IdOf[c]} ELSE @[f]]]

\* Mutant: the cache goes with the last of its ids.
ForgetWithCache(c) ==
    IF clientSet[UnitOf[c]] = None
      THEN clientSet
      ELSE [clientSet EXCEPT ![UnitOf[c]] =
               IF @["All"] \subseteq {IdOf[c]} THEN None
                 ELSE [f \in Field |-> @[f] \ {IdOf[c]}]]

\* The cache entry of a client is cleared, Nds excepted.
Forget(c) ==
    IF clientSet[UnitOf[c]] = None
      THEN clientSet
      ELSE [clientSet EXCEPT ![UnitOf[c]] =
               [f \in Field |-> IF f \in FieldsOf(c) \ {"Nds"}
                                  THEN @[f] \ {IdOf[c]} ELSE @[f]]]

\* Mutant: close(client.outbound) is missing.
UnlistWithoutClose(c) ==
    /\ Idle
    /\ clients' = [clients EXCEPT ![IdOf[c]] = None]
    /\ clientSet' = Forget(c)
    /\ UNCHANGED <<outbound, closed, todo, packet, crashed>>

\* Mutant: the channel is closed without a look at the table.
UnlistUnchecked(c) ==
    /\ Idle
    /\ IF closed[c]
         THEN Crash("closeClosed")
         ELSE /\ closed' = [closed EXCEPT ![c] = TRUE]
              /\ clients' = [clients EXCEPT ![IdOf[c]] = None]
              /\ clientSet' = Forget(c)
              /\ UNCHANGED <<outbound, todo, packet, crashed>>

\* case client := <-h.unregister.  The table is searched by id, so the entry
\* that goes may be another connection's; the channel closed is client's own.
Unlist(c) ==
    /\ Idle
    /\ IF Exists(c) /\ closed[c]
         THEN Crash("closeClosed")
         ELSE /\ closed' = [closed EXCEPT ![c] = @ \/ Exists(c)]
              /\ clients' = [clients EXCEPT ![IdOf[c]] = None]
              /\ clientSet' = Forget(c)
              /\ UNCHANGED <<outbound, todo, packet, crashed>>

(***************************************************************************)
(* case message := <-h.inbound                                             *)
(***************************************************************************)

\* Which receivers a kind of message has: those of its field "to", everybody
\* in the sender's unit, or nobody.
Audience(kind) ==
    CASE kind \in {"ordinary", "modstatus"} -> "to"
      [] kind = "ink" -> "nobody"
      [] OTHER -> "unit"

\* Mutant: the sender is among the receivers.
BroadcastEchoes(p, receiverSet) ==
    /\ todo' \in Bijection(1..Cardinality(receiverSet), receiverSet)
    /\ packet' = IF receiverSet = {} THEN None ELSE p
    /\ UNCHANGED <<clients, outbound, closed, crashed>>

\* Run starts on the list of receivers: the sender's id is left out and the
\* others come in the order in which Go happens to walk the map.
Broadcast(p, receiverSet) ==
    LET receivers == receiverSet \ {IdOf[p.from]}
    IN  /\ todo' \in Bijection(1..Cardinality(receivers), receivers)
        /\ packet' = IF receivers = {} THEN None ELSE p
        /\ UNCHANGED <<clients, outbound, closed, crashed>>

\* All the ids of the unit: everybody the cache holds.
BroadcastAll(p, unit) ==
    IF clientSet[unit] = None
      THEN Crash("nilCache")
      ELSE Broadcast(p, clientSet[unit]["All"]) /\ UNCHANGED clientSet

\* The receivers of the field "to".  The ids it names are entered in the map
\* the groups selected, which is the hub's cache itself.
BroadcastTo(p, unit, to) ==
    LET parsed == ParseFieldTo(to)
        f      == ChosenField(parsed.groups)
        set    == clientSet[unit][f] \cup parsed.individuals
    IN  CASE f = "nil" /\ parsed.individuals = {} ->
               Broadcast(p, {}) /\ UNCHANGED clientSet
          [] f = "nil" /\ parsed.individuals # {} ->
               Crash("nilMap")
          [] f # "nil" /\ clientSet[unit] = None ->
               Crash("nilCache")
          [] OTHER ->
               /\ clientSet' = [clientSet EXCEPT ![unit][f] = set]
               /\ Broadcast(p, set)

Accept(p, kind, to) ==
    /\ Idle
    /\ CASE Audience(kind) = "to"     -> BroadcastTo(p, UnitOf[p.from], to)
         [] Audience(kind) = "unit"   -> BroadcastAll(p, UnitOf[p.from])
         [] Audience(kind) = "nobody" -> Broadcast(p, {}) /\ UNCHANGED clientSet

\* Mutant: the loop serves a receiver twice.
NextReceiverTwice ==
    \/ UNCHANGED <<todo, packet>>
    \/ todo' = Tail(todo) /\ packet' = IF Len(todo) = 1 THEN None ELSE packet

\* One turn of the loop over the receivers: an id that is not in the table is
\* passed over, a closed channel panics, a full one blocks the hub.
NextReceiver ==
    /\ todo' = Tail(todo)
    /\ packet' = IF Len(todo) = 1 THEN None ELSE packet

Deliver ==
    /\ crashed = "no" /\ packet # None
    /\ LET c == clients[Head(todo)]
       IN  IF c = None
             THEN NextReceiver /\ UNCHANGED <<outbound, crashed>>
           ELSE IF closed[c]
             THEN crashed' = "sendClosed" /\ UNCHANGED <<outbound, todo, packet>>
           ELSE /\ Len(outbound[c]) < Cap
                /\ outbound' = [outbound EXCEPT ![c] = Append(@, packet)]
                /\ NextReceiver
                /\ UNCHANGED crashed
    /\ UNCHANGED <<clients, clientSet, closed>>
=============================================================================
