----------------------------- MODULE CloudProofs -----------------------------
(***************************************************************************)
(* Theorems about Cloud, for every set of connections, ids and units, and  *)
(* any channel capacity.                                                   *)
(***************************************************************************)
EXTENDS Cloud, FiniteSetTheorems, SequenceTheorems, TLAPS

(***************************************************************************)
(* The type invariant is inductive together with three facts about what is *)
(* kept between two steps: a receiver, a message, a client to force out.   *)
(***************************************************************************)

\* The hub has a message at hand exactly while it has receivers to serve.
Busy == packet = None <=> todo = <<>>

\* A readPump on its way to the hub's inbound channel has a message to send.
HasMessage ==
    \A c \in Conn : read[c] \in {"register", "stopreg", "inbound"} => pending[c] # None

\* A forced login that has found another client has it still.
HasOld ==
    \A c \in Conn : serve[c] \in {"forceWrite", "unregister"} => old[c] # None

TypeInv == TypeOK /\ Busy /\ HasMessage /\ HasOld

\* A list of n elements of S, as the hub makes one of its receivers.
LEMMA ListType ==
    ASSUME NEW S, NEW n \in Nat, NEW f \in [1..n -> S]
    PROVE  /\ f \in Seq(S)
           /\ Len(f) = n
           /\ f = <<>> <=> n = 0
<1>1. f \in Seq(S)
  OBVIOUS
<1>2. Len(f) = n
  OBVIOUS
<1> QED BY <1>1, <1>2, EmptySeq

\* The ids that the field "to" names are ids, and the set it selects is one
\* of the cache's.
LEMMA ParsedType ==
    ASSUME NEW to \in Tos
    PROVE  /\ ParseFieldTo(to).individuals \subseteq Id
           /\ ChosenField(ParseFieldTo(to).groups) \in Field \cup {"nil"}
<1>1. ParseFieldTo(to).individuals \subseteq Id
  BY CloudAssumption DEF ParseFieldTo
<1>2. ASSUME NEW groups PROVE ChosenField(groups) \in Field \cup {"nil"}
  <2> DEFINE known == {i \in DOMAIN groups : groups[i] \in GroupLetters}
             last  == {i \in known : \A j \in known : j <= i}
  <2>1. CASE last = {}
    BY <2>1 DEF ChosenField
  <2>2. CASE last # {}
    <3>1. (CHOOSE i \in last : TRUE) \in known
      BY <2>2
    <3>2. groups[CHOOSE i \in last : TRUE] \in GroupLetters
      BY <3>1
    <3>3. ChosenField(groups) = FieldOfGroup[groups[CHOOSE i \in last : TRUE]]
      BY <2>2 DEF ChosenField
    <3>4. \A g \in GroupLetters : FieldOfGroup[g] \in Field
      BY DEF FieldOfGroup, GroupLetters, Field
    <3> QED BY <3>2, <3>3, <3>4
  <2> QED BY <2>1, <2>2
<1> QED BY <1>1, <1>2

\* Starting a broadcast gives the hub a finite list of ids, empty exactly
\* when nothing is to be sent.
LEMMA BroadcastType ==
    ASSUME NEW p \in Packet, NEW set \in SUBSET Id, Broadcast(p, set)
    PROVE  todo' \in Seq(Id) /\ packet' \in Packet \cup {None} /\ Busy'
<1> DEFINE receivers == set \ {IdOf[p.from]}
           n == Cardinality(receivers)
<1>1. IsFiniteSet(receivers)
  BY HubAssumption, FS_Subset
<1>2. n \in Nat /\ (n = 0 <=> receivers = {})
  BY <1>1, FS_CardinalityType, FS_EmptySet
<1>3. todo' \in [1..n -> receivers]
  BY DEF Broadcast, Bijection, Injection, Surjection
<1> HIDE DEF n
<1>4. todo' \in Seq(receivers) /\ (todo' = <<>> <=> n = 0)
  BY <1>2, <1>3, ListType
<1>5. todo' \in Seq(Id)
  BY <1>4, SeqMonotonic
<1>7. p # None
  BY HubAssumption DEF Packet
<1>8. packet' = IF receivers = {} THEN None ELSE p
  BY DEF Broadcast
<1> QED BY <1>2, <1>4, <1>5, <1>7, <1>8 DEF Busy

LEMMA AddType ==
    ASSUME HubTypeOK, Busy, NEW c \in Conn, Add(c), isLocal' \in [Conn -> BOOLEAN]
    PROVE  HubTypeOK' /\ Busy'
<1>1. clients' \in [Id -> Conn \cup {None}]
  BY DEF HubTypeOK, Add
<1>2. clientSet' \in [Unit -> Cache \cup {None}]
  <2> DEFINE uc == IF clientSet[UnitOf[c]] = None THEN EmptyCache ELSE clientSet[UnitOf[c]]
             new == [f \in Field |-> IF f \in FieldsOf(c) THEN uc[f] \cup {IdOf[c]} ELSE uc[f]]
  <2>1. uc \in Cache
    BY HubAssumption DEF HubTypeOK, EmptyCache, Cache
  <2>2. new \in Cache
    BY <2>1, HubAssumption DEF Cache
  <2>3. clientSet' = [clientSet EXCEPT ![UnitOf[c]] = new]
    BY DEF Add
  <2> QED BY <2>2, <2>3 DEF HubTypeOK
<1> QED BY <1>1, <1>2 DEF HubTypeOK, Add, Busy

LEMMA UnlistType ==
    ASSUME HubTypeOK, Busy, NEW c \in Conn, Unlist(c), isLocal' \in [Conn -> BOOLEAN]
    PROVE  HubTypeOK' /\ Busy'
<1>1. CASE Exists(c) /\ closed[c]
  BY <1>1 DEF Unlist, Crash, HubTypeOK, Busy
<1>2. CASE ~(Exists(c) /\ closed[c])
  <2>1. clientSet' = Forget(c)
    BY <1>2 DEF Unlist
  <2>2. Forget(c) \in [Unit -> Cache \cup {None}]
    BY DEF Forget, HubTypeOK, Cache
  <2>3. closed' \in [Conn -> BOOLEAN]
    BY <1>2 DEF Unlist, HubTypeOK, Exists
  <2> QED BY <1>2, <2>1, <2>2, <2>3 DEF Unlist, HubTypeOK, Busy
<1> QED BY <1>1, <1>2

LEMMA AcceptType ==
    ASSUME HubTypeOK, Busy, NEW c \in Conn, NEW n \in Nat, NEW kind, NEW to \in Tos,
           Accept([from |-> c, n |-> n], kind, to), isLocal' \in [Conn -> BOOLEAN]
    PROVE  HubTypeOK' /\ Busy'
<1> DEFINE p == [from |-> c, n |-> n]
<1>p. p \in Packet /\ p.from = c
  BY DEF Packet
<1>1. ASSUME NEW why \in {"nilMap", "nilCache"}, Crash(why) PROVE HubTypeOK' /\ Busy'
  BY <1>1 DEF Crash, HubTypeOK, Busy
<1>2. ASSUME NEW set \in SUBSET Id, Broadcast(p, set),
             clientSet' \in [Unit -> Cache \cup {None}]
      PROVE  HubTypeOK' /\ Busy'
  BY <1>2, <1>p, BroadcastType DEF Broadcast, HubTypeOK
<1>3. CASE Audience(kind) = "to"
  <2> DEFINE unit == UnitOf[c]
             ids == ParseFieldTo(to).individuals
             f == ChosenField(ParseFieldTo(to).groups)
             set == clientSet[unit][f] \cup ids
  <2>1. BroadcastTo(p, unit, to)
    BY <1>3, <1>p DEF Accept
  <2>2. ids \subseteq Id /\ f \in Field \cup {"nil"}
    BY ParsedType
  <2>3. CASE f = "nil" /\ ids = {}
    <3>1. Broadcast(p, {}) /\ UNCHANGED clientSet
      BY <2>1, <2>3 DEF BroadcastTo
    <3> QED BY <3>1, <1>2 DEF HubTypeOK
  <2>4. CASE f = "nil" /\ ids # {}
    BY <2>1, <2>4, <1>1 DEF BroadcastTo
  <2>5. CASE f # "nil" /\ clientSet[unit] = None
    BY <2>1, <2>5, <1>1 DEF BroadcastTo
  <2>6. CASE f # "nil" /\ clientSet[unit] # None
    <3>1. clientSet' = [clientSet EXCEPT ![unit][f] = set] /\ Broadcast(p, set)
      BY <2>1, <2>6 DEF BroadcastTo
    <3>2. clientSet[unit] \in Cache /\ f \in Field /\ unit \in Unit
      BY <2>2, <2>6, HubAssumption DEF HubTypeOK
    <3>3. set \in SUBSET Id
      BY <2>2, <3>2 DEF Cache
    <3>4. clientSet' \in [Unit -> Cache \cup {None}]
      BY <3>1, <3>2, <3>3 DEF HubTypeOK, Cache
    <3> QED BY <3>1, <3>3, <3>4, <1>2
  <2> QED BY <2>3, <2>4, <2>5, <2>6
<1>4. CASE Audience(kind) = "unit"
  <2>1. BroadcastAll(p, UnitOf[c])
    BY <1>4, <1>p DEF Accept
  <2>2. CASE clientSet[UnitOf[c]] = None
    BY <2>1, <2>2, <1>1 DEF BroadcastAll
  <2>3. CASE clientSet[UnitOf[c]] # None
    <3>1. clientSet[UnitOf[c]]["All"] \in SUBSET Id
      BY <2>3, HubAssumption DEF HubTypeOK, Cache, Field
    <3> QED BY <2>1, <2>3, <3>1, <1>2 DEF BroadcastAll, HubTypeOK
  <2> QED BY <2>2, <2>3
<1>5. CASE Audience(kind) = "nobody"
  BY <1>5, <1>2 DEF Accept, HubTypeOK
<1> QED BY <1>3, <1>4, <1>5 DEF Audience

LEMMA DeliverType ==
    ASSUME HubTypeOK, Busy, Deliver, isLocal' \in [Conn -> BOOLEAN]
    PROVE  HubTypeOK' /\ Busy'
<1>1. todo # <<>> /\ packet # None
  BY DEF Deliver, Busy
<1>2. Tail(todo) \in Seq(Id) /\ (Tail(todo) = <<>> <=> Len(todo) = 1)
  <2>1. todo \in Seq(Id)
    BY DEF HubTypeOK
  <2>2. Tail(todo) \in Seq(Id) /\ Len(Tail(todo)) = Len(todo) - 1
    BY <1>1, <2>1, HeadTailProperties
  <2>3. Len(Tail(todo)) = 0 <=> Tail(todo) = <<>>
    BY <2>2, EmptySeq
  <2>4. Len(todo) \in Nat
    BY <2>1
  <2> QED BY <2>2, <2>3, <2>4
<1>3. Head(todo) \in Id
  BY <1>1, HeadTailProperties DEF HubTypeOK
<1>4. ASSUME NextReceiver
      PROVE  todo' \in Seq(Id) /\ packet' \in Packet \cup {None} /\ Busy'
  BY <1>4, <1>1, <1>2 DEF NextReceiver, HubTypeOK, Busy
<1> DEFINE c == clients[Head(todo)]
<1>5. CASE c = None
  BY <1>4, <1>5 DEF Deliver, HubTypeOK
<1>6. CASE c # None /\ closed[c]
  BY <1>6 DEF Deliver, HubTypeOK, Busy
<1>7. CASE c # None /\ ~closed[c]
  <2>1. c \in Conn
    BY <1>3, <1>7 DEF HubTypeOK
  <2>2. outbound' = [outbound EXCEPT ![c] = Append(@, packet)]
    BY <1>7 DEF Deliver
  <2>3. outbound' \in [Conn -> Seq(Packet)]
    BY <2>1, <2>2, <1>1 DEF HubTypeOK
  <2> QED BY <1>4, <1>7, <2>3 DEF Deliver, HubTypeOK
<1> QED BY <1>5, <1>6, <1>7
\* Every step of every goroutine keeps the types; the hub's part of a step is
\* covered by the lemmas above.
LEMMA ServeType ==
    ASSUME TypeInv, NEW c \in Conn, Serve(c) PROVE TypeInv'
<1> USE DEF TypeInv, TypeOK, HasMessage, HasOld, ServeTo, serveRest, ServeAt
<1>1. CASE ServeExists(c)
  BY <1>1 DEF ServeExists, hubVars, HubTypeOK, Busy
<1>2. CASE ServeGet(c)
  BY <1>2, HubAssumption DEF ServeGet, Get, hubVars, HubTypeOK, Busy
<1>3. CASE ServeForced(c)
  BY <1>3 DEF ServeForced, hubVars, HubTypeOK, Busy
<1>4. CASE ServeUnregister(c)
  <2>1. old[c] \in Conn
    BY <1>4 DEF ServeUnregister
  <2>2. HubTypeOK' /\ Busy'
    BY <1>4, <2>1, UnlistType DEF ServeUnregister, HubTypeOK
  <2> QED BY <1>4, <2>2 DEF ServeUnregister
<1>5. CASE ServeRegister(c)
  <2>1. HubTypeOK' /\ Busy'
    BY <1>5, AddType DEF ServeRegister, HubTypeOK
  <2> QED BY <1>5, <2>1 DEF ServeRegister, CountdownAt, ReadAt, WriteAt
<1> QED BY <1>1, <1>2, <1>3, <1>4, <1>5 DEF Serve

LEMMA CountdownType ==
    ASSUME TypeInv, NEW c \in Conn, Countdown(c) PROVE TypeInv'
<1> USE DEF TypeInv, TypeOK, HasMessage, HasOld, CountdownTo, countdownRest, CountdownAt
<1>1. CASE CountdownFires(c)
  BY <1>1 DEF CountdownFires, hubVars, HubTypeOK, Busy
<1>2. CASE CountdownChecks(c)
  BY <1>2 DEF CountdownChecks, hubVars, HubTypeOK, Busy
<1>3. CASE CountdownUnregister(c)
  <2>1. HubTypeOK' /\ Busy'
    BY <1>3, UnlistType DEF CountdownUnregister, HubTypeOK
  <2> QED BY <1>3, <2>1 DEF CountdownUnregister
<1>4. CASE CountdownStopped(c)
  BY <1>4 DEF CountdownStopped, hubVars, HubTypeOK, Busy
<1> QED BY <1>1, <1>2, <1>3, <1>4 DEF Countdown

LEMMA WriteType ==
    ASSUME TypeInv, NEW c \in Conn, WriteStep(c) \/ WriteTick(c) PROVE TypeInv'
<1> USE DEF TypeInv, TypeOK, HasMessage, HasOld, WriteTo, writeRest, WriteAt, HubTypeOK, Busy
<1>1. CASE WriteTakes(c)
  <2>1. Tail(outbound[c]) \in Seq(Packet)
    BY <1>1, HeadTailProperties DEF WriteTakes
  <2> QED BY <1>1, <2>1 DEF WriteTakes
<1>2. CASE WriteSeesClosed(c)
  BY <1>2 DEF WriteSeesClosed, hubVars
<1>3. CASE WriteTick(c)
  BY <1>3 DEF WriteTick, hubVars
<1>4. CASE WriteDone(c)
  BY <1>4 DEF WriteDone, hubVars
<1>5. CASE WritePinged(c)
  BY <1>5 DEF WritePinged, hubVars
<1>6. CASE WriteReturns(c)
  BY <1>6 DEF WriteReturns, hubVars
<1> QED BY <1>1, <1>2, <1>3, <1>4, <1>5, <1>6 DEF WriteStep

LEMMA SendsType ==
    ASSUME TypeInv, NEW c \in Conn, NEW kind \in FrameKind \cup {"online"}, NEW to \in Tos,
           Sends(c, kind, to)
    PROVE  /\ pending' \in [Conn -> Message \cup {None}]
           /\ pending'[c] # None
           /\ \A d \in Conn : d # c => pending'[d] = pending[d]
<1> DEFINE m == [kind |-> kind, to |-> to]
<1>1. m \in Message
  BY DEF Message
<1>2. m # None
  BY <1>1, CloudAssumption
<1>3. pending' = [pending EXCEPT ![c] = m]
  BY DEF Sends
<1>4. pending \in [Conn -> Message \cup {None}]
  BY DEF TypeInv, TypeOK
<1> HIDE DEF m
<1> QED BY <1>1, <1>2, <1>3, <1>4

\* A handler moves readPump on and leaves a message behind if it has to.
LEMMA HandlerType ==
    ASSUME TypeInv, NEW c \in Conn, NEW k, Reads(c, k), NEW at \in ReadAt, ReadTo(c, at),
           isRegistered' \in [Conn -> BOOLEAN], isLocal' \in [Conn -> BOOLEAN],
           \/ /\ UNCHANGED pending
              /\ at \notin {"register", "stopreg", "inbound"}
           \/ \E kind \in FrameKind \cup {"online"} : \E to \in Tos : Sends(c, kind, to)
    PROVE  TypeInv'
<1>1. /\ pending' \in [Conn -> Message \cup {None}]
      /\ at \in {"register", "stopreg", "inbound"} => pending'[c] # None
      /\ \A d \in Conn : d # c => pending'[d] = pending[d]
  BY SendsType DEF TypeInv, TypeOK
<1>2. HubTypeOK' /\ Busy'
  BY DEF Reads, TypeInv, TypeOK, HubTypeOK, Busy, hubVars
<1>3. /\ read' = [read EXCEPT ![c] = at] /\ read' \in [Conn -> ReadAt]
      /\ frames' \in [Conn -> Nat]
  BY DEF Reads, ReadTo, TypeInv, TypeOK
<1>4. HasMessage'
  BY <1>1, <1>3 DEF HasMessage, TypeInv, TypeOK
<1> QED BY <1>1, <1>2, <1>3, <1>4 DEF Reads, readRest, TypeInv, TypeOK, HasOld

LEMMA FrameType ==
    ASSUME TypeInv, NEW c \in Conn, ReadFrame(c) PROVE TypeInv'
<1> USE CloudAssumption DEF ReadAt, FrameKind, handlerRest, TypeInv, TypeOK, HubTypeOK
<1>1. CASE ReadRegister(c)
  <2>1. isLocal' \in [Conn -> BOOLEAN] /\ isRegistered' \in [Conn -> BOOLEAN]
    BY <1>1 DEF ReadRegister
  <2> QED BY <1>1, <2>1, HandlerType DEF ReadRegister
<1>2. ASSUME NEW to \in Tos, ReadOrdinary(c, to) PROVE TypeInv'
  BY <1>2, HandlerType DEF ReadOrdinary
<1>3. ASSUME NEW to \in Tos, ReadModStatus(c, to) PROVE TypeInv'
  BY <1>3, HandlerType DEF ReadModStatus
<1>4. CASE ReadOffline(c)
  BY <1>4, HandlerType DEF ReadOffline
<1>5. ASSUME NEW stat, ReadControl(c, stat) PROVE TypeInv'
  BY <1>5, HandlerType DEF ReadControl
<1>6. CASE ReadInk(c)
  BY <1>6, HandlerType DEF ReadInk
<1>7. CASE ReadChat(c)
  BY <1>7, HandlerType DEF ReadChat
<1> QED BY <1>1, <1>2, <1>3, <1>4, <1>5, <1>6, <1>7 DEF ReadFrame

LEMMA ReadType ==
    ASSUME TypeInv, NEW c \in Conn, ReadStep(c) \/ ReadError(c) PROVE TypeInv'
<1> USE DEF TypeInv, TypeOK, HasMessage, HasOld, ReadTo, pumpRest, readRest, ReadAt
<1>1. CASE ReadError(c)
  BY <1>1 DEF ReadError, hubVars, HubTypeOK, Busy
<1>2. CASE ReadRegisters(c)
  <2>1. HubTypeOK' /\ Busy'
    BY <1>2, AddType DEF ReadRegisters, HubTypeOK
  <2> QED BY <1>2, <2>1 DEF ReadRegisters
<1>3. CASE ReadStopsCountdown(c)
  BY <1>3 DEF ReadStopsCountdown, hubVars, HubTypeOK, Busy
<1>4. CASE ReadInbound(c)
  <2>1. frames[c] \in Nat /\ pending[c] \in Message
    BY <1>4 DEF ReadInbound
  <2>2. pending[c].to \in Tos
    BY <2>1 DEF Message
  <2>3. HubTypeOK' /\ Busy'
    BY <1>4, <2>1, <2>2, AcceptType DEF ReadInbound, HubTypeOK
  <2> QED BY <1>4, <2>3 DEF ReadInbound
<1>5. CASE ReadPersists(c)
  BY <1>5 DEF ReadPersists, hubVars, HubTypeOK, Busy
<1>6. CASE ReadNoticed(c)
  BY <1>6 DEF ReadNoticed, hubVars, HubTypeOK, Busy
<1>7. CASE ReadLogout(c)
  BY <1>7 DEF ReadLogout, hubVars, HubTypeOK, Busy
<1>8. CASE ReadUnregister(c)
  <2>1. HubTypeOK' /\ Busy'
    BY <1>8, UnlistType DEF ReadUnregister, HubTypeOK
  <2> QED BY <1>8, <2>1 DEF ReadUnregister
<1>9. CASE ReadExit(c)
  BY <1>9 DEF ReadExit, hubVars, HubTypeOK, Busy
<1>10. CASE ReadExitUnregister(c)
  <2>1. HubTypeOK' /\ Busy'
    BY <1>10, UnlistType DEF ReadExitUnregister, HubTypeOK
  <2> QED BY <1>10, <2>1 DEF ReadExitUnregister
<1>11. CASE ReadClose(c)
  BY <1>11 DEF ReadClose, hubVars, HubTypeOK, Busy
<1> QED BY <1>1, <1>2, <1>3, <1>4, <1>5, <1>6, <1>7, <1>8, <1>9, <1>10, <1>11 DEF ReadStep

LEMMA TypeStep ==
    ASSUME TypeInv, [Next]_vars PROVE TypeInv'
<1>1. CASE HubStep
  BY <1>1, DeliverType DEF HubStep, connVars, TypeInv, TypeOK, HubTypeOK, HasMessage, HasOld
<1>2. ASSUME NEW c \in Conn,
             Serve(c) \/ Countdown(c) \/ ReadFrame(c) \/ ReadError(c) \/ ReadStep(c)
               \/ WriteStep(c) \/ WriteTick(c)
      PROVE  TypeInv'
  BY <1>2, ServeType, CountdownType, FrameType, ReadType, WriteType
<1>3. CASE UNCHANGED vars
  BY <1>3 DEF vars, hubVars, connVars, TypeInv, TypeOK, HubTypeOK, Busy, HasMessage, HasOld
<1> QED BY <1>1, <1>2, <1>3 DEF Next

LEMMA TypeInit == Init => TypeInv
<1> SUFFICES ASSUME Init PROVE TypeInv
  OBVIOUS
<1>1. HubTypeOK /\ Busy
  BY EmptySeq DEF Init, HubInit, HubTypeOK, Busy
<1>2. HasMessage /\ HasOld
  BY DEF Init, HasMessage, HasOld
<1>3. TypeOK
  BY <1>1 DEF Init, TypeOK, ServeAt, CountdownAt, ReadAt, WriteAt
<1> QED BY <1>1, <1>2, <1>3 DEF TypeInv

\* Every variable keeps its type: the tables of the hub hold clients and
\* caches, the channels hold messages, each goroutine is at one of its places.
THEOREM TypeCorrect == Spec => []TypeOK
<1>1. Spec => []TypeInv
  BY TypeInit, TypeStep, PTL DEF Spec
<1>2. TypeInv => TypeOK
  BY DEF TypeInv
<1> QED BY <1>1, <1>2, PTL
(***************************************************************************)
(* The hub's tables.  Five safety invariants are proved together: each     *)
(* relies on who may be in the table at all, and on a login having come    *)
(* first.                                                                  *)
(***************************************************************************)

Served(c) == serve[c] = "done"

\* Nothing happens to a client before its login is through.
LoginFirst ==
    /\ \A c \in Conn : ~Served(c) => ~closed[c]
    /\ \A c \in Conn : Served(c) => clientSet[UnitOf[c]] # None
    /\ \A i \in Id : clients[i] # None => Served(clients[i])

Tables ==
    /\ LoginFirst
    /\ ListedIsReachable
    /\ StaleOnlyAcrossUnits
    /\ ClosedEntryIsRegistered
    /\ OrphanNeedsTwin
    /\ PanicNeedsTwinOrRegistration
    /\ SenderHasCache

\* The goroutines of a connection start after its login; a login forces out
\* only a connection that is logged in; a register request of readPump comes
\* from a registered client.
Goroutines ==
    /\ \A c \in Conn : ~Served(c) => countdown[c] = "off" /\ read[c] = "off"
    /\ \A c \in Conn : serve[c] \in {"forceWrite", "unregister"} => Served(old[c])
    /\ \A c \in Conn : read[c] = "register" => isRegistered[c]

SafeInv == TypeInv /\ Tables /\ Goroutines

\* A step that leaves the tables alone may end no login and may undo no
\* registration.
LEMMA TablesUntouched ==
    ASSUME SafeInv, UNCHANGED <<clients, clientSet, closed, crashed>>,
           \A c \in Conn : Served(c)' <=> Served(c),
           \A c \in Conn : isRegistered[c] => isRegistered'[c]
    PROVE  Tables'
<1> USE DEF SafeInv, Tables, TypeInv, TypeOK, HubTypeOK
<1>1. LoginFirst' /\ ListedIsReachable' /\ SenderHasCache'
  BY DEF LoginFirst, ListedIsReachable, SenderHasCache
<1>2. StaleOnlyAcrossUnits'
  BY DEF StaleOnlyAcrossUnits, Served, Twins
<1>3. ClosedEntryIsRegistered'
  BY DEF ClosedEntryIsRegistered
<1>4. OrphanNeedsTwin'
  BY DEF OrphanNeedsTwin, Served, Twins
<1>5. PanicNeedsTwinOrRegistration'
  BY DEF PanicNeedsTwinOrRegistration, Twins
<1> QED BY <1>1, <1>2, <1>3, <1>4, <1>5

\* A client is added by its login, or after it by its registration.
LEMMA AddTables ==
    ASSUME SafeInv, NEW c \in Conn, Add(c), closed[c] => isRegistered[c],
           serve' \in [Conn -> ServeAt], Served(c)',
           \A d \in Conn : d # c => (Served(d)' <=> Served(d)),
           isRegistered' = isRegistered
    PROVE  Tables'
<1> USE HubAssumption DEF SafeInv, Tables, TypeInv, TypeOK, HubTypeOK
<1> DEFINE i == IdOf[c]
           u == UnitOf[c]
           uc == IF clientSet[u] = None THEN EmptyCache ELSE clientSet[u]
           new == [f \in Field |-> IF f \in FieldsOf(c) THEN uc[f] \cup {i} ELSE uc[f]]
<1>1. /\ clients' = [clients EXCEPT ![i] = c]
      /\ clientSet' = [clientSet EXCEPT ![u] = new]
      /\ UNCHANGED <<closed, crashed>>
  BY DEF Add
<1>2. uc \in Cache /\ new \in Cache /\ new # None
  <2>1. uc \in Cache
    BY DEF Cache, EmptyCache
  <2>2. new \in Cache
    BY <2>1 DEF Cache
  <2>3. new # None
    BY <2>2 DEF Cache
  <2> QED BY <2>1, <2>2, <2>3
<1>3. new["All"] = uc["All"] \cup {i}
  BY DEF FieldsOf, Field
<1> HIDE DEF new
<1>4. LoginFirst'
  BY <1>1, <1>2 DEF LoginFirst, ListedIsReachable
<1>5. ListedIsReachable'
  BY <1>1, <1>2, <1>3 DEF ListedIsReachable
<1>6. StaleOnlyAcrossUnits'
  <2> SUFFICES ASSUME NEW v \in Unit, clientSet'[v] # None, NEW j \in clientSet'[v]["All"]
               PROVE  /\ \E d \in Conn : IdOf[d] = j /\ UnitOf[d] = v /\ Served(d)'
                      /\ clients'[j] = None =>
                            \E d, e \in Conn : Twins(d, e) /\ IdOf[d] = j /\ UnitOf[d] # UnitOf[e]
    BY DEF StaleOnlyAcrossUnits, Served
  <2>1. CASE v = u /\ j = i
    BY <2>1, <1>1
  <2>2. CASE ~(v = u /\ j = i)
    <3>1. clientSet[v] # None /\ j \in clientSet[v]["All"]
      BY <2>2, <1>1, <1>3 DEF EmptyCache, Field
    <3>2. j \in Id
      BY <3>1 DEF Cache, Field
    <3>3. clients'[j] = None => clients[j] = None
      BY <1>1, <3>2
    <3> QED BY <3>1, <3>3 DEF StaleOnlyAcrossUnits, Served, Twins
  <2> QED BY <2>1, <2>2
<1>7. ClosedEntryIsRegistered'
  BY <1>1 DEF ClosedEntryIsRegistered
<1>8. OrphanNeedsTwin'
  <2> SUFFICES ASSUME NEW d \in Conn, Served(d)', ~closed'[d], clients'[IdOf[d]] # d
               PROVE  \E e \in Conn : Twins(d, e)
    BY DEF OrphanNeedsTwin, Served
  <2>1. d # c
    BY <1>1
  <2>2. CASE IdOf[d] = i
    BY <2>1, <2>2 DEF Twins
  <2>3. CASE IdOf[d] # i
    BY <2>1, <2>3, <1>1 DEF OrphanNeedsTwin, Served
  <2> QED BY <2>2, <2>3
<1>9. PanicNeedsTwinOrRegistration' /\ SenderHasCache'
  BY <1>1 DEF PanicNeedsTwinOrRegistration, SenderHasCache, Twins
<1> QED BY <1>4, <1>5, <1>6, <1>7, <1>8, <1>9

\* A logged-in client is removed, on whoever's behalf.
LEMMA UnlistTables ==
    ASSUME SafeInv, NEW c \in Conn, Unlist(c), Served(c),
           \A d \in Conn : Served(d)' <=> Served(d),
           isRegistered' = isRegistered
    PROVE  Tables'
<1> USE HubAssumption DEF SafeInv, Tables, TypeInv, TypeOK, HubTypeOK
<1>1. CASE Exists(c) /\ closed[c]
  <2>1. crashed' = "closeClosed" /\ UNCHANGED <<clients, clientSet, closed>>
    BY <1>1 DEF Unlist, Crash
  <2>2. isRegistered[c] \/ \E d \in Conn : Twins(c, d)
    <3> DEFINE e == clients[IdOf[c]]
    <3>1. e \in Conn /\ IdOf[e] = IdOf[c]
      BY <1>1 DEF Exists, ListedIsReachable
    <3>2. CASE e = c
      BY <1>1, <3>2 DEF Exists, ClosedEntryIsRegistered
    <3>3. CASE e # c
      BY <3>1, <3>3 DEF Twins
    <3> QED BY <3>2, <3>3
  <2>3. PanicNeedsTwinOrRegistration' /\ SenderHasCache'
    BY <1>1, <2>1, <2>2 DEF PanicNeedsTwinOrRegistration, SenderHasCache, Twins
  <2>4. LoginFirst' /\ ListedIsReachable' /\ ClosedEntryIsRegistered'
    BY <2>1 DEF LoginFirst, ListedIsReachable, ClosedEntryIsRegistered
  <2>5. StaleOnlyAcrossUnits' /\ OrphanNeedsTwin'
    BY <2>1 DEF StaleOnlyAcrossUnits, OrphanNeedsTwin, Served, Twins
  <2> QED BY <2>3, <2>4, <2>5
<1>2. CASE ~(Exists(c) /\ closed[c])
  <2> DEFINE i == IdOf[c]
             u == UnitOf[c]
  <2>1. /\ clients' = [clients EXCEPT ![i] = None]
        /\ closed' = [closed EXCEPT ![c] = @ \/ Exists(c)]
        /\ clientSet' = Forget(c)
        /\ crashed' = crashed
    BY <1>2 DEF Unlist
  <2>2. clientSet[u] # None /\ clientSet[u] \in Cache
    BY DEF LoginFirst
  <2>3. /\ clientSet'[u] # None
        /\ clientSet'[u]["All"] = clientSet[u]["All"] \ {i}
        /\ \A v \in Unit : v # u => clientSet'[v] = clientSet[v]
    <3> DEFINE new == [f \in Field |-> IF f \in FieldsOf(c) \ {"Nds"}
                                         THEN clientSet[u][f] \ {i} ELSE clientSet[u][f]]
    <3>1. clientSet' = [clientSet EXCEPT ![u] = new]
      BY <2>1, <2>2 DEF Forget
    <3>2. new["All"] = clientSet[u]["All"] \ {i}
      BY DEF FieldsOf, Field
    <3>3. new \in Cache
      BY <2>2 DEF Cache
    <3>4. new # None
      BY <3>3 DEF Cache
    <3> HIDE DEF new
    <3> QED BY <3>1, <3>2, <3>4
  <2>4. LoginFirst'
    BY <2>1, <2>3 DEF LoginFirst
  <2>5. ListedIsReachable'
    <3> SUFFICES ASSUME NEW j \in Id, clients'[j] # None
                 PROVE  LET d == clients'[j]
                        IN  /\ IdOf[d] = j
                            /\ clientSet'[UnitOf[d]] # None
                            /\ j \in clientSet'[UnitOf[d]]["All"]
      BY DEF ListedIsReachable
    <3>1. j # i /\ clients'[j] = clients[j] /\ clients[j] \in Conn
      BY <2>1
    <3> QED BY <3>1, <2>3 DEF ListedIsReachable
  <2>6. StaleOnlyAcrossUnits'
    <3> SUFFICES ASSUME NEW v \in Unit, clientSet'[v] # None, NEW j \in clientSet'[v]["All"]
                 PROVE  /\ \E d \in Conn : IdOf[d] = j /\ UnitOf[d] = v /\ Served(d)'
                        /\ clients'[j] = None =>
                              \E d, e \in Conn : Twins(d, e) /\ IdOf[d] = j /\ UnitOf[d] # UnitOf[e]
      BY DEF StaleOnlyAcrossUnits, Served
    <3>1. /\ clientSet[v] # None /\ j \in clientSet[v]["All"]
          /\ v = u => j # i
      BY <2>2, <2>3
    <3>2. PICK d \in Conn : IdOf[d] = j /\ UnitOf[d] = v /\ Served(d)
      BY <3>1 DEF StaleOnlyAcrossUnits, Served
    <3>3. CASE j = i
      <4>1. Twins(d, c) /\ UnitOf[d] # UnitOf[c]
        BY <3>1, <3>2, <3>3 DEF Twins
      <4> QED BY <3>2, <4>1
    <3>4. CASE j # i
      <4>1. j \in Id /\ clients'[j] = clients[j]
        BY <2>1, <3>2, <3>4
      <4> QED BY <3>1, <3>2, <4>1 DEF StaleOnlyAcrossUnits, Twins
    <3> QED BY <3>3, <3>4
  <2>7. ClosedEntryIsRegistered'
    <3> SUFFICES ASSUME NEW j \in Id, clients'[j] # None, closed'[clients'[j]]
                 PROVE  isRegistered[clients'[j]]
      BY DEF ClosedEntryIsRegistered
    <3>1. j # i /\ clients'[j] = clients[j] /\ clients[j] \in Conn /\ clients[j] # c
      BY <2>1 DEF ListedIsReachable
    <3> QED BY <3>1, <2>1 DEF ClosedEntryIsRegistered
  <2>8. OrphanNeedsTwin'
    <3> SUFFICES ASSUME NEW d \in Conn, Served(d), ~closed'[d], clients'[IdOf[d]] # d
                 PROVE  \E e \in Conn : Twins(d, e)
      BY DEF OrphanNeedsTwin, Served
    <3>1. ~closed[d] /\ (d = c => clients[i] = None)
      BY <2>1 DEF Exists
    <3>2. CASE d # c /\ IdOf[d] = i
      BY <3>2 DEF Twins
    <3>3. CASE d # c /\ IdOf[d] # i
      BY <3>1, <3>3, <2>1 DEF OrphanNeedsTwin, Served
    <3>4. CASE d = c
      BY <3>1, <3>4 DEF OrphanNeedsTwin, Served
    <3> QED BY <3>2, <3>3, <3>4
  <2>9. PanicNeedsTwinOrRegistration' /\ SenderHasCache'
    BY <2>1 DEF PanicNeedsTwinOrRegistration, SenderHasCache, Twins, Unlist, Idle
  <2> QED BY <2>4, <2>5, <2>6, <2>7, <2>8, <2>9
<1> QED BY <1>1, <1>2

\* The field "to" selects the set of all ids only if it names none itself.
LEMMA AllNamesNobody ==
    ASSUME NEW to \in Tos, ChosenField(ParseFieldTo(to).groups) = "All"
    PROVE  ParseFieldTo(to).individuals = {}
<1> DEFINE groups == ParseFieldTo(to).groups
           known == {k \in DOMAIN groups : groups[k] \in GroupLetters}
           last == {k \in known : \A j \in known : j <= k}
           k == CHOOSE k \in last : TRUE
<1>1. last # {} /\ FieldOfGroup[groups[k]] = "All"
  BY DEF ChosenField
<1>2. k \in DOMAIN groups /\ groups[k] \in GroupLetters
  BY <1>1
<1>3. groups[k] = "A"
  BY <1>1, <1>2 DEF FieldOfGroup, GroupLetters
<1>4. CASE to # NoTo /\ ~(to.sep = "," \/ (to.sep = "none" /\ Range(to.head) \cap GroupLetters = {}))
           /\ "A" \notin Range(to.head)
  <2>1. groups = to.head
    BY <1>4 DEF ParseFieldTo
  <2>2. groups[k] \in Range(to.head)
    BY <1>2, <2>1 DEF Range
  <2> QED BY <1>3, <1>4, <2>2
<1>5. CASE to # NoTo /\ (to.sep = "," \/ (to.sep = "none" /\ Range(to.head) \cap GroupLetters = {}))
  <2>1. ParseFieldTo(to) = [groups |-> <<>>, individuals |-> Range(to.head)]
    BY <1>5, ZenonT(60) DEF ParseFieldTo, GroupLetters
  <2>2. groups = <<>>
    BY <2>1
  <2> QED BY <1>2, <2>2
<1>6. CASE to = NoTo
  BY <1>6 DEF ParseFieldTo
<1>7. CASE to # NoTo /\ to.sep # "," /\ "A" \in Range(to.head)
  BY <1>7 DEF ParseFieldTo, GroupLetters
<1> QED BY <1>4, <1>5, <1>6, <1>7

\* A message of a logged-in client is taken: no set of all ids changes, and
\* no cache comes or goes.
LEMMA AcceptTables ==
    ASSUME SafeInv, NEW c \in Conn, NEW n \in Nat, NEW kind, NEW to \in Tos,
           Accept([from |-> c, n |-> n], kind, to), Served(c),
           UNCHANGED <<serve, isRegistered>>
    PROVE  Tables'
<1> USE HubAssumption DEF SafeInv, Tables, TypeInv, TypeOK, HubTypeOK
<1> DEFINE p == [from |-> c, n |-> n]
           u == UnitOf[c]
<1>1. clientSet[u] # None /\ clientSet[u] \in Cache /\ crashed = "no"
  BY DEF LoginFirst, Accept, Idle
<1>2. /\ UNCHANGED <<clients, closed>>
      /\ crashed' \in {"no", "nilMap"}
      /\ \/ UNCHANGED clientSet
         \/ \E f \in Field, set \in SUBSET Id :
               /\ f = "All" => set = clientSet[u][f]
               /\ clientSet' = [clientSet EXCEPT ![u][f] = set]
  <2>1. CASE Audience(kind) = "to"
    <3> DEFINE ids == ParseFieldTo(to).individuals
               f == ChosenField(ParseFieldTo(to).groups)
               set == clientSet[u][f] \cup ids
    <3>1. BroadcastTo(p, u, to)
      BY <2>1 DEF Accept
    <3>2. CASE f = "nil"
      BY <3>1, <3>2, <1>1 DEF BroadcastTo, Broadcast, Crash
    <3>3. CASE f # "nil"
      <4>1. clientSet' = [clientSet EXCEPT ![u][f] = set] /\ Broadcast(p, set)
        BY <3>1, <3>3, <1>1 DEF BroadcastTo
      <4>2. f \in Field /\ ids \subseteq Id
        BY <3>3, ParsedType
      <4>3. set \in SUBSET Id
        BY <4>2, <1>1 DEF Cache
      <4>4. f = "All" => set = clientSet[u][f]
        BY AllNamesNobody
      <4> QED BY <4>1, <4>2, <4>3, <4>4, <1>1 DEF Broadcast
    <3> QED BY <3>2, <3>3
  <2>2. CASE Audience(kind) = "unit"
    BY <2>2, <1>1 DEF Accept, BroadcastAll, Broadcast
  <2>3. CASE Audience(kind) = "nobody"
    BY <2>3, <1>1 DEF Accept, Broadcast
  <2> QED BY <2>1, <2>2, <2>3 DEF Audience
<1> DEFINE SameAll == \A v \in Unit :
             /\ clientSet'[v] = None <=> clientSet[v] = None
             /\ clientSet[v] # None => clientSet'[v]["All"] = clientSet[v]["All"]
<1>3. SameAll
  <2>1. CASE UNCHANGED clientSet
    BY <2>1
  <2>2. ASSUME NEW f \in Field, NEW set \in SUBSET Id,
               f = "All" => set = clientSet[u][f],
               clientSet' = [clientSet EXCEPT ![u][f] = set]
        PROVE  SameAll
    <3> DEFINE new == [clientSet[u] EXCEPT ![f] = set]
    <3>1. clientSet' = [clientSet EXCEPT ![u] = new]
      BY <2>2
    <3>2. new \in Cache /\ new["All"] = clientSet[u]["All"]
      BY <2>2, <1>1 DEF Cache, Field
    <3>3. new # None
      BY <3>2 DEF Cache
    <3> HIDE DEF new
    <3> QED BY <3>1, <3>2, <3>3, <1>1
  <2> QED BY <1>2, <2>1, <2>2
<1>4. LoginFirst' /\ ListedIsReachable'
  <2>1. LoginFirst'
    BY <1>2, <1>3 DEF LoginFirst, Served
  <2>2. ListedIsReachable'
    BY <1>2, <1>3 DEF ListedIsReachable
  <2> QED BY <2>1, <2>2
<1>5. StaleOnlyAcrossUnits'
  BY <1>2, <1>3 DEF StaleOnlyAcrossUnits, Served, Twins
<1>6. ClosedEntryIsRegistered' /\ OrphanNeedsTwin'
  BY <1>2 DEF ClosedEntryIsRegistered, OrphanNeedsTwin, Twins
<1>7. PanicNeedsTwinOrRegistration' /\ SenderHasCache'
  BY <1>2 DEF PanicNeedsTwinOrRegistration, SenderHasCache
<1> QED BY <1>4, <1>5, <1>6, <1>7

\* A receiver is served.
LEMMA DeliverTables ==
    ASSUME SafeInv, Deliver, UNCHANGED <<serve, isRegistered>>
    PROVE  Tables'
<1> USE DEF SafeInv, Tables, TypeInv, TypeOK, HubTypeOK
<1> DEFINE c == clients[Head(todo)]
<1>1. UNCHANGED <<clients, clientSet, closed>>
  BY DEF Deliver
<1>2. CASE c # None /\ closed[c]
  <2>1. Head(todo) \in Id
    BY HeadTailProperties DEF Deliver, Busy
  <2>2. c \in Conn /\ isRegistered[c]
    BY <1>2, <2>1 DEF ClosedEntryIsRegistered
  <2>3. crashed' = "sendClosed"
    BY <1>2 DEF Deliver
  <2>4. PanicNeedsTwinOrRegistration' /\ SenderHasCache'
    BY <1>1, <1>2, <2>2, <2>3 DEF PanicNeedsTwinOrRegistration, SenderHasCache
  <2>5. LoginFirst' /\ ListedIsReachable' /\ ClosedEntryIsRegistered'
    BY <1>1 DEF LoginFirst, ListedIsReachable, ClosedEntryIsRegistered, Served
  <2>6. StaleOnlyAcrossUnits' /\ OrphanNeedsTwin'
    BY <1>1 DEF StaleOnlyAcrossUnits, OrphanNeedsTwin, Twins
  <2> QED BY <2>4, <2>5, <2>6
<1>3. CASE ~(c # None /\ closed[c])
  <2>1. crashed' = crashed
    BY <1>3 DEF Deliver
  <2> QED BY <1>1, <2>1, TablesUntouched DEF Served
<1> QED BY <1>2, <1>3

LEMMA ServeSafe ==
    ASSUME SafeInv, TypeInv', NEW c \in Conn, Serve(c) PROVE Tables' /\ Goroutines'
<1> USE DEF TypeInv, TypeOK, ServeTo, serveRest
<1>1. CASE ServeExists(c)
  <2>1. Tables'
    BY <1>1, TablesUntouched DEF ServeExists, hubVars, SafeInv, Served
  <2> QED BY <1>1, <2>1 DEF ServeExists, SafeInv, Goroutines, Served
<1>2. CASE ServeGet(c)
  <2>1. Tables'
    BY <1>2, TablesUntouched DEF ServeGet, hubVars, SafeInv, Served
  <2>2. Get(IdOf[c]) # None => Served(Get(IdOf[c]))
    BY HubAssumption DEF Get, SafeInv, Tables, LoginFirst
  <2> QED BY <1>2, <2>1, <2>2 DEF ServeGet, SafeInv, Goroutines, Served
<1>3. CASE ServeForced(c)
  <2>1. Tables'
    BY <1>3, TablesUntouched DEF ServeForced, hubVars, SafeInv, Served
  <2> QED BY <1>3, <2>1 DEF ServeForced, SafeInv, Goroutines, Served
<1>4. CASE ServeUnregister(c)
  <2>1. old[c] \in Conn /\ Served(old[c])
    BY <1>4 DEF ServeUnregister, SafeInv, HasOld, Goroutines
  <2>2. \A d \in Conn : Served(d)' <=> Served(d)
    BY <1>4 DEF ServeUnregister, Served, SafeInv
  <2>3. Tables'
    BY <1>4, <2>1, <2>2, UnlistTables DEF ServeUnregister
  <2> QED BY <1>4, <2>2, <2>3 DEF ServeUnregister, SafeInv, Goroutines, Served
<1>5. CASE ServeRegister(c)
  <2>1. ~Served(c) /\ ~closed[c]
    BY <1>5 DEF ServeRegister, Served, SafeInv, Tables, LoginFirst
  <2>2. Served(c)' /\ \A d \in Conn : d # c => (Served(d)' <=> Served(d))
    BY <1>5 DEF ServeRegister, Served, SafeInv
  <2>3. Tables'
    BY <1>5, <2>1, <2>2, AddTables DEF ServeRegister
  <2> QED BY <1>5, <2>2, <2>3 DEF ServeRegister, SafeInv, Goroutines, Served
<1> QED BY <1>1, <1>2, <1>3, <1>4, <1>5 DEF Serve

LEMMA CountdownSafe ==
    ASSUME SafeInv, TypeInv', NEW c \in Conn, Countdown(c) PROVE Tables' /\ Goroutines'
<1> USE DEF TypeInv, TypeOK, CountdownTo, countdownRest
<1>1. ASSUME UNCHANGED <<hubVars, countdownRest>>, countdown[c] # "off",
             \E to \in CountdownAt : CountdownTo(c, to)
      PROVE  Tables' /\ Goroutines'
  <2>1. Tables'
    BY <1>1, TablesUntouched DEF hubVars, Served
  <2> QED BY <1>1, <2>1 DEF SafeInv, Goroutines, Served
<1>2. CASE CountdownFires(c)
  BY <1>1, <1>2 DEF CountdownFires, CountdownAt
<1>3. CASE CountdownChecks(c)
  BY <1>1, <1>3 DEF CountdownChecks, CountdownAt
<1>4. CASE CountdownUnregister(c)
  <2>1. Served(c)
    BY <1>4 DEF CountdownUnregister, SafeInv, Goroutines
  <2>2. Tables'
    BY <1>4, <2>1, UnlistTables DEF CountdownUnregister, Served
  <2> QED BY <1>4, <2>1, <2>2 DEF CountdownUnregister, SafeInv, Goroutines, Served
<1>5. CASE CountdownStopped(c)
  BY <1>1, <1>5 DEF CountdownStopped, CountdownAt
<1> QED BY <1>2, <1>3, <1>4, <1>5 DEF Countdown

LEMMA WriteSafe ==
    ASSUME SafeInv, TypeInv', NEW c \in Conn, WriteStep(c) \/ WriteTick(c)
    PROVE  Tables' /\ Goroutines'
<1>1. UNCHANGED <<clients, clientSet, closed, crashed, serve, old, countdown, read, isRegistered>>
  BY DEF WriteStep, WriteTick, WriteTakes, WriteSeesClosed, WriteDone, WritePinged,
     WriteReturns, writeRest, hubVars
<1>2. Tables'
  BY <1>1, TablesUntouched DEF Served
<1> QED BY <1>1, <1>2 DEF SafeInv, Goroutines, Served

LEMMA FrameSafe ==
    ASSUME SafeInv, TypeInv', NEW c \in Conn, ReadFrame(c) PROVE Tables' /\ Goroutines'
<1> USE DEF handlerRest
<1>1. PICK k \in FrameKind : Reads(c, k)
  BY DEF ReadFrame, ReadRegister, ReadOffline, ReadInk, ReadChat, ReadOrdinary,
     ReadModStatus, ReadControl, FrameKind
<1>2. UNCHANGED <<clients, clientSet, closed, crashed, serve, old, countdown>>
  BY <1>1 DEF Reads, readRest, hubVars
<1>3. read[c] = "reading" /\ \E at \in ReadAt : ReadTo(c, at)
  BY <1>1 DEF Reads, ReadFrame, ReadRegister, ReadOffline, ReadInk, ReadChat, ReadOrdinary,
     ReadModStatus, ReadControl, ReadAt
<1>4. /\ isRegistered' \in [Conn -> BOOLEAN]
      /\ \A d \in Conn : isRegistered[d] => isRegistered'[d]
      /\ read'[c] = "register" => isRegistered'[c]
  <2>1. CASE ReadRegister(c)
    BY <2>1 DEF ReadRegister, SafeInv, TypeInv, TypeOK
  <2>2. CASE ~ReadRegister(c)
    <3>1. isRegistered' = isRegistered
      BY <2>2 DEF ReadFrame, ReadOffline, ReadInk, ReadChat, ReadOrdinary, ReadModStatus,
         ReadControl
    <3>2. read'[c] # "register"
      BY <2>2 DEF ReadFrame, ReadOffline, ReadInk, ReadChat, ReadOrdinary, ReadModStatus,
         ReadControl, ReadTo, SafeInv, TypeInv, TypeOK
    <3> QED BY <3>1, <3>2 DEF SafeInv, TypeInv, TypeOK
  <2> QED BY <2>1, <2>2
<1>5. Tables'
  BY <1>2, <1>4, TablesUntouched DEF Served
<1>6. Served(c)
  BY <1>3 DEF SafeInv, Goroutines
<1> QED BY <1>2, <1>3, <1>4, <1>5, <1>6 DEF ReadTo, SafeInv, TypeInv, TypeOK, Goroutines, Served

LEMMA ReadSafe ==
    ASSUME SafeInv, TypeInv', NEW c \in Conn, ReadStep(c) \/ ReadError(c)
    PROVE  Tables' /\ Goroutines'
<1>1. /\ read[c] # "off"
      /\ UNCHANGED <<serve, old, countdown, isRegistered>>
      /\ \E at \in ReadAt \ {"register"} : ReadTo(c, at)
  BY DEF ReadStep, ReadError, ReadRegisters, ReadStopsCountdown, ReadInbound, ReadPersists,
     ReadNoticed, ReadLogout, ReadUnregister, ReadExit, ReadExitUnregister, ReadClose,
     ReadAt, pumpRest, readRest
<1>2. Served(c) /\ \A d \in Conn : Served(d)' <=> Served(d)
  BY <1>1 DEF SafeInv, Goroutines, Served
<1>3. Goroutines'
  BY <1>1, <1>2 DEF SafeInv, TypeInv, TypeOK, Goroutines, Served, ReadTo
<1>4. ASSUME UNCHANGED hubVars PROVE Tables'
  BY <1>1, <1>2, <1>4, TablesUntouched DEF hubVars
<1>5. CASE ReadRegisters(c)
  <2>1. closed[c] => isRegistered[c]
    BY <1>5 DEF ReadRegisters, SafeInv, Goroutines
  <2>2. Add(c)
    BY <1>5 DEF ReadRegisters
  <2>3. serve' \in [Conn -> ServeAt]
    BY DEF TypeInv, TypeOK
  <2> QED BY <1>1, <1>2, <1>3, <2>1, <2>2, <2>3, AddTables
<1>6. CASE ReadInbound(c)
  <2>1. pending[c] \in Message /\ frames[c] \in Nat
    BY <1>6 DEF ReadInbound, SafeInv, TypeInv, TypeOK, HasMessage
  <2>2. pending[c].to \in Tos
    BY <2>1 DEF Message
  <2>3. Accept([from |-> c, n |-> frames[c]], pending[c].kind, pending[c].to)
    BY <1>6 DEF ReadInbound
  <2> QED BY <1>1, <1>2, <1>3, <2>1, <2>2, <2>3, AcceptTables
<1>7. CASE ReadUnregister(c) \/ ReadExitUnregister(c)
  <2>1. Unlist(c)
    BY <1>7 DEF ReadUnregister, ReadExitUnregister
  <2> QED BY <1>1, <1>2, <1>3, <2>1, UnlistTables
<1>8. CASE ReadError(c) \/ ReadStopsCountdown(c) \/ ReadPersists(c) \/ ReadNoticed(c)
             \/ ReadLogout(c) \/ ReadExit(c) \/ ReadClose(c)
  <2>1. UNCHANGED hubVars
    BY <1>8 DEF ReadError, ReadStopsCountdown, ReadPersists, ReadNoticed, ReadLogout,
       ReadExit, ReadClose
  <2> QED BY <1>3, <1>4, <2>1
<1> QED BY <1>5, <1>6, <1>7, <1>8 DEF ReadStep

LEMMA SafeInit == Init => SafeInv
<1> SUFFICES ASSUME Init PROVE SafeInv
  OBVIOUS
<1>1. Goroutines
  BY DEF Init, Goroutines, Served
<1>2. LoginFirst /\ ListedIsReachable /\ ClosedEntryIsRegistered
  BY DEF Init, HubInit, LoginFirst, ListedIsReachable, ClosedEntryIsRegistered, Served
<1>3. /\ StaleOnlyAcrossUnits /\ OrphanNeedsTwin
      /\ PanicNeedsTwinOrRegistration /\ SenderHasCache
  BY DEF Init, HubInit, StaleOnlyAcrossUnits, OrphanNeedsTwin,
     PanicNeedsTwinOrRegistration, SenderHasCache
<1> QED BY <1>1, <1>2, <1>3, TypeInit DEF SafeInv, Tables

LEMMA SafeStep ==
    ASSUME SafeInv, [Next]_vars PROVE SafeInv'
<1>1. TypeInv'
  BY TypeStep DEF SafeInv
<1>2. CASE HubStep
  <2>1. Tables'
    BY <1>2, DeliverTables DEF HubStep, connVars
  <2>2. Goroutines'
    BY <1>2 DEF HubStep, connVars, SafeInv, Goroutines, Served
  <2> QED BY <1>1, <2>1, <2>2 DEF SafeInv
<1>3. ASSUME NEW c \in Conn,
             Serve(c) \/ Countdown(c) \/ ReadFrame(c) \/ ReadError(c) \/ ReadStep(c)
               \/ WriteStep(c) \/ WriteTick(c)
      PROVE  SafeInv'
  BY <1>1, <1>3, ServeSafe, CountdownSafe, FrameSafe, ReadSafe, WriteSafe DEF SafeInv
<1>4. CASE UNCHANGED vars
  <2>1. Tables'
    BY <1>4, TablesUntouched DEF vars, hubVars, connVars, Served
  <2>2. Goroutines'
    BY <1>4 DEF vars, connVars, SafeInv, Goroutines, Served
  <2> QED BY <1>1, <2>1, <2>2 DEF SafeInv
<1> QED BY <1>2, <1>3, <1>4 DEF Next

LEMMA Safe == Spec => []SafeInv
  BY SafeInit, SafeStep, PTL DEF Spec

\* A listed client is in its unit's cache: a message to the unit reaches it.
THEOREM ListedIsAlwaysReachable == Spec => []ListedIsReachable
<1>1. SafeInv => ListedIsReachable
  BY DEF SafeInv, Tables
<1> QED BY <1>1, Safe, PTL

\* A cached id without a client has had connections in two units.
THEOREM CacheStaleOnlyAcrossUnits == Spec => []StaleOnlyAcrossUnits
<1>1. SafeInv => StaleOnlyAcrossUnits
  BY DEF SafeInv, Tables
<1> QED BY <1>1, Safe, PTL

\* Only a registration puts an evicted client back into the table.
THEOREM EvictedStaysOutUnlessRegistered == Spec => []ClosedEntryIsRegistered
<1>1. SafeInv => ClosedEntryIsRegistered
  BY DEF SafeInv, Tables
<1> QED BY <1>1, Safe, PTL

\* A connection leaves the table without being closed only for another one
\* with its id.
THEOREM OrphansHaveTwins == Spec => []OrphanNeedsTwin
<1>1. SafeInv => OrphanNeedsTwin
  BY DEF SafeInv, Tables
<1> QED BY <1>1, Safe, PTL

\* The two ways into a panic over a closed channel.
THEOREM PanicsExplained == Spec => []PanicNeedsTwinOrRegistration
<1>1. SafeInv => PanicNeedsTwinOrRegistration
  BY DEF SafeInv, Tables
<1> QED BY <1>1, Safe, PTL

\* The hub never dereferences the cache of a unit it has none for.
THEOREM SendersHaveCaches == Spec => []SenderHasCache
<1>1. SafeInv => SenderHasCache
  BY DEF SafeInv, Tables
<1> QED BY <1>1, Safe, PTL
=============================================================================
