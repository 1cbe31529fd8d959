---------------------------- MODULE BroadcastProofs ----------------------------
(***************************************************************************)
(* The cloud control server implements Broadcast, for every set of         *)
(* connections, ids and units and any channel capacity; and what waits for *)
(* a peer is in order, which needs no more of the server than that.        *)
(***************************************************************************)
EXTENDS CloudBroadcast, CloudProofs

(***************************************************************************)
(* Two facts make every step of the server one of Broadcast's: nobody is   *)
(* twice among the receivers still to be served, and a frame's message is  *)
(* handed to the hub before the next frame is read.                        *)
(***************************************************************************)
ReceiversAreDistinct == \A j, k \in DOMAIN todo : j # k => todo[j] # todo[k]

PendingIsOnItsWay ==
    \A c \in Conn : pending[c] # None =>
        read[c] \in {"register", "stopreg", "inbound", "logout", "unregister"}

MapInv == SafeInv /\ ReceiversAreDistinct /\ PendingIsOnItsWay

\* Serving the first of some distinct receivers takes it out of their set.
LEMMA TailOfDistinct ==
    ASSUME NEW S, NEW s \in Seq(S), s # <<>>,
           \A j, k \in DOMAIN s : j # k => s[j] # s[k]
    PROVE  /\ Head(s) \in Range(s)
           /\ Range(Tail(s)) = Range(s) \ {Head(s)}
           /\ \A j, k \in DOMAIN Tail(s) : j # k => Tail(s)[j] # Tail(s)[k]
           /\ Range(Tail(s)) = {} <=> Len(s) = 1
<1>1. /\ Tail(s) \in Seq(S) /\ Len(Tail(s)) = Len(s) - 1 /\ Head(s) = s[1]
      /\ \A i \in 1..Len(Tail(s)) : Tail(s)[i] = s[i + 1]
  BY HeadTailProperties
<1>2. Len(s) \in Nat \ {0} /\ DOMAIN s = 1..Len(s) /\ DOMAIN Tail(s) = 1..(Len(s) - 1)
  BY <1>1, EmptySeq, LenProperties
<1>3. Head(s) \in Range(s)
  BY <1>1, <1>2 DEF Range
<1>4. Range(Tail(s)) \subseteq Range(s) \ {Head(s)}
  <2> SUFFICES ASSUME NEW i \in 1..(Len(s) - 1)
               PROVE  Tail(s)[i] \in Range(s) \ {Head(s)}
    BY <1>2 DEF Range
  <2>1. Tail(s)[i] = s[i + 1] /\ i + 1 \in DOMAIN s /\ 1 \in DOMAIN s /\ i + 1 # 1
    BY <1>1, <1>2
  <2> QED BY <1>1, <2>1 DEF Range
<1>5. Range(s) \ {Head(s)} \subseteq Range(Tail(s))
  <2> SUFFICES ASSUME NEW i \in DOMAIN s, s[i] # Head(s)
               PROVE  s[i] \in Range(Tail(s))
    BY DEF Range
  <2>1. i - 1 \in DOMAIN Tail(s) /\ Tail(s)[i - 1] = s[i]
    BY <1>1, <1>2
  <2> QED BY <2>1 DEF Range
<1>6. ASSUME NEW j \in DOMAIN Tail(s), NEW k \in DOMAIN Tail(s), j # k
      PROVE  Tail(s)[j] # Tail(s)[k]
  <2>1. j + 1 \in DOMAIN s /\ k + 1 \in DOMAIN s /\ j + 1 # k + 1
    BY <1>2, <1>6
  <2> QED BY <1>1, <1>2, <2>1
<1>7. Range(Tail(s)) = {} <=> Len(s) = 1
  <2>1. Range(Tail(s)) = {} <=> DOMAIN Tail(s) = {}
    BY DEF Range
  <2> QED BY <1>2, <2>1
<1> QED BY <1>3, <1>4, <1>5, <1>6, <1>7

\* A new list of receivers holds each once.
LEMMA BroadcastMap ==
    ASSUME NEW p \in Packet, NEW set \in SUBSET Id, Broadcast(p, set)
    PROVE  /\ ReceiversAreDistinct'
           /\ Range(todo)' = set \ {IdOf[p.from]}
           /\ packet' = IF Range(todo)' = {} THEN None ELSE p
<1> DEFINE receivers == set \ {IdOf[p.from]}
           n == Cardinality(receivers)
<1>1. /\ todo' \in [1..n -> receivers]
      /\ \A a, b \in 1..n : todo'[a] = todo'[b] => a = b
      /\ \A r \in receivers : \E a \in 1..n : todo'[a] = r
  BY DEF Broadcast, Bijection, Injection, IsInjective, Surjection
<1>2. DOMAIN todo' = 1..n
  BY <1>1
<1>3. Range(todo)' = receivers
  <2>1. Range(todo)' = {todo'[a] : a \in 1..n}
    BY <1>2 DEF Range
  <2> HIDE DEF n, receivers
  <2> QED BY <1>1, <2>1
<1> QED BY <1>1, <1>2, <1>3 DEF Broadcast, ReceiversAreDistinct

\* The hub takes a message: it is between two of them, and starts on the
\* receivers, if there are any, the sender's id not among them.
LEMMA AcceptMap ==
    ASSUME MapInv, NEW c \in Conn, NEW n \in Nat, NEW kind, NEW to \in Tos,
           Accept([from |-> c, n |-> n], kind, to)
    PROVE  /\ packet = None /\ Range(todo) = {} /\ UNCHANGED <<outbound, closed>>
           /\ ReceiversAreDistinct'
           /\ Range(todo)' \subseteq Id \ {IdOf[c]}
           /\ packet' = IF Range(todo)' = {} THEN None ELSE [from |-> c, n |-> n]
<1> DEFINE p == [from |-> c, n |-> n]
<1> USE HubAssumption DEF MapInv, SafeInv, TypeInv, TypeOK, HubTypeOK
<1>1. p \in Packet /\ p.from = c
  BY DEF Packet
<1>2. packet = None /\ todo = <<>> /\ Range(todo) = {}
  BY DEF Accept, Idle, Busy, Range
<1>3. ASSUME NEW why, Crash(why)
      PROVE  /\ ReceiversAreDistinct' /\ Range(todo)' = {}
             /\ UNCHANGED <<packet, outbound, closed>>
  BY <1>2, <1>3 DEF Crash, ReceiversAreDistinct
<1>4. ASSUME NEW set \in SUBSET Id, Broadcast(p, set)
      PROVE  /\ ReceiversAreDistinct' /\ Range(todo)' \subseteq Id \ {IdOf[c]}
             /\ packet' = IF Range(todo)' = {} THEN None ELSE p
             /\ UNCHANGED <<outbound, closed>>
  <2>1. UNCHANGED <<outbound, closed>>
    BY <1>4 DEF Broadcast
  <2>2. /\ ReceiversAreDistinct' /\ Range(todo)' = set \ {IdOf[c]}
        /\ packet' = IF Range(todo)' = {} THEN None ELSE p
    BY <1>1, <1>4, BroadcastMap, Zenon
  <2> QED BY <2>1, <2>2
<1>5. (\E why : Crash(why)) \/ (\E set \in SUBSET Id : Broadcast(p, set))
  <2>1. CASE Audience(kind) = "to"
    <3> DEFINE parsed == ParseFieldTo(to)
               f == ChosenField(parsed.groups)
    <3>1. BroadcastTo(p, UnitOf[c], to)
      BY <1>1, <2>1 DEF Accept
    <3>2. parsed.individuals \subseteq Id /\ f \in Field \cup {"nil"}
      BY ParsedType
    <3>3. CASE f = "nil" \/ clientSet[UnitOf[c]] = None
      BY <3>1, <3>2, <3>3 DEF BroadcastTo
    <3>4. CASE f # "nil" /\ clientSet[UnitOf[c]] # None
      <4>1. Broadcast(p, clientSet[UnitOf[c]][f] \cup parsed.individuals)
        BY <3>1, <3>4 DEF BroadcastTo
      <4>2. clientSet[UnitOf[c]][f] \subseteq Id
        BY <3>2, <3>4 DEF Cache
      <4> QED BY <3>2, <4>1, <4>2
    <3> QED BY <3>3, <3>4
  <2>2. CASE Audience(kind) = "unit"
    <3>1. BroadcastAll(p, UnitOf[c])
      BY <1>1, <2>2 DEF Accept
    <3>2. clientSet[UnitOf[c]] # None => clientSet[UnitOf[c]]["All"] \in SUBSET Id
      BY DEF Cache, Field
    <3> QED BY <3>1, <3>2 DEF BroadcastAll
  <2>3. CASE Audience(kind) = "nobody"
    BY <2>3 DEF Accept
  <2> QED BY <2>1, <2>2, <2>3 DEF Audience
<1> QED BY <1>2, <1>3, <1>4, <1>5

\* The hub serves a receiver: the next one is reached or passed over, or the
\* panic over a closed channel changes nothing that the peers can see.
LEMMA DeliverMap ==
    ASSUME MapInv, Deliver, UNCHANGED <<frames, pending>>
    PROVE  /\ UNCHANGED B!broadcastVars \/ (\E i \in Id : B!Reach(i))
           /\ ReceiversAreDistinct'
<1> USE DEF MapInv, SafeInv, TypeInv, TypeOK, HubTypeOK
<1> DEFINE i == Head(todo)
           c == clients[i]
<1>1. packet # None /\ todo # <<>> /\ i \in Id
  BY HeadTailProperties DEF Deliver, Busy
<1>2. /\ i \in Range(todo) /\ Range(Tail(todo)) = Range(todo) \ {i}
      /\ \A j, k \in DOMAIN Tail(todo) : j # k => Tail(todo)[j] # Tail(todo)[k]
      /\ Range(Tail(todo)) = {} <=> Len(todo) = 1
  BY <1>1, TailOfDistinct DEF ReceiversAreDistinct
<1>3. UNCHANGED <<NextNumber, closed>>
  BY DEF NextNumber, Deliver
<1>4. ASSUME NextReceiver
      PROVE  /\ ReceiversAreDistinct' /\ Range(todo)' = Range(todo) \ {i}
             /\ packet' = IF Range(todo)' = {} THEN None ELSE packet
  BY <1>2, <1>4 DEF NextReceiver, ReceiversAreDistinct
<1>5. CASE c = None
  <2>1. NextReceiver /\ UNCHANGED outbound
    BY <1>5 DEF Deliver
  <2>2. B!Reach(i)
    BY <1>1, <1>2, <1>3, <1>4, <2>1 DEF B!Reach
  <2> QED BY <1>1, <1>4, <2>1, <2>2
<1>6. CASE c # None /\ closed[c]
  <2>1. UNCHANGED <<outbound, todo, packet>>
    BY <1>6 DEF Deliver
  <2> QED BY <1>3, <2>1 DEF B!broadcastVars, ReceiversAreDistinct
<1>7. CASE c # None /\ ~closed[c]
  <2>1. NextReceiver /\ outbound' = [outbound EXCEPT ![c] = Append(@, packet)]
    BY <1>7 DEF Deliver
  <2>2. c \in Conn /\ IdOf[c] = i
    BY <1>1, <1>7 DEF Tables, ListedIsReachable
  <2>3. B!Reach(i)
    BY <1>1, <1>2, <1>3, <1>4, <1>7, <2>1, <2>2 DEF B!Reach
  <2> QED BY <1>1, <1>4, <2>1, <2>3
<1> QED BY <1>5, <1>6, <1>7

\* A logout closes a channel between two messages, or nothing.
LEMMA UnlistMap ==
    ASSUME MapInv, NEW c \in Conn, Unlist(c), UNCHANGED <<frames, pending>>
    PROVE  /\ UNCHANGED B!broadcastVars \/ B!Close(c)
           /\ ReceiversAreDistinct'
<1> USE DEF MapInv, SafeInv, TypeInv, TypeOK, HubTypeOK
<1>1. packet = None /\ UNCHANGED <<NextNumber, packet, todo, outbound>>
  BY DEF Unlist, Idle, Crash, NextNumber
<1>2. ReceiversAreDistinct' /\ UNCHANGED Range(todo)
  BY <1>1 DEF ReceiversAreDistinct
<1>3. closed' = closed \/ (~closed[c] /\ closed' = [closed EXCEPT ![c] = TRUE])
  <2>1. CASE Exists(c) /\ ~closed[c]
    BY <2>1 DEF Unlist
  <2>2. CASE ~Exists(c)
    BY <2>2 DEF Unlist
  <2>3. CASE Exists(c) /\ closed[c]
    BY <2>3 DEF Unlist, Crash
  <2> QED BY <2>1, <2>2, <2>3
<1> QED BY <1>1, <1>2, <1>3 DEF B!Close, B!broadcastVars

\* A frame whose message is for the hub does not count yet, any other is spent.
LEMMA FrameMap ==
    ASSUME MapInv, NEW c \in Conn, ReadFrame(c)
    PROVE  /\ UNCHANGED B!broadcastVars \/ B!Discard(c)
           /\ ReceiversAreDistinct' /\ PendingIsOnItsWay'
<1> USE DEF MapInv, SafeInv, TypeInv, TypeOK
<1>1. PICK k \in FrameKind : Reads(c, k)
  BY DEF ReadFrame, ReadRegister, ReadOffline, ReadInk, ReadChat, ReadOrdinary,
     ReadModStatus, ReadControl, FrameKind
<1>2. /\ pending[c] = None /\ frames' = [frames EXCEPT ![c] = @ + 1]
      /\ UNCHANGED <<packet, todo, outbound, closed>>
  BY <1>1 DEF Reads, hubVars, PendingIsOnItsWay
<1>3. ReceiversAreDistinct' /\ UNCHANGED Range(todo)
  BY <1>2 DEF ReceiversAreDistinct
<1>4. CASE UNCHANGED pending
  <2>1. NextNumber' = [NextNumber EXCEPT ![c] = @ + 1]
    BY <1>2, <1>4 DEF NextNumber
  <2>2. \E at : ReadTo(c, at)
    BY DEF ReadFrame, ReadRegister, ReadOffline, ReadInk, ReadChat, ReadOrdinary,
       ReadModStatus, ReadControl
  <2>3. PendingIsOnItsWay'
    BY <1>2, <1>4, <2>2 DEF PendingIsOnItsWay, ReadTo
  <2> QED BY <1>2, <1>3, <2>1, <2>3 DEF B!Discard
<1>5. ASSUME NEW kind \in FrameKind \cup {"online"}, NEW to \in Tos, Sends(c, kind, to),
             NEW at \in {"register", "inbound", "logout"}, ReadTo(c, at)
      PROVE  UNCHANGED NextNumber /\ PendingIsOnItsWay'
  <2>1. pending'[c] # None /\ \A d \in Conn : d # c => pending'[d] = pending[d]
    BY <1>5, SendsType
  <2>2. UNCHANGED NextNumber
    BY <1>2, <2>1 DEF NextNumber
  <2>3. PendingIsOnItsWay'
    BY <1>5, <2>1 DEF PendingIsOnItsWay, ReadTo
  <2> QED BY <2>2, <2>3
<1>6. \/ UNCHANGED pending
      \/ \E kind \in FrameKind \cup {"online"}, to \in Tos,
            at \in {"register", "inbound", "logout"} : Sends(c, kind, to) /\ ReadTo(c, at)
  BY CloudAssumption DEF ReadFrame, ReadRegister, ReadOffline, ReadInk, ReadChat,
     ReadOrdinary, ReadModStatus, ReadControl, FrameKind
<1>7. CASE ~UNCHANGED pending
  <2>1. UNCHANGED NextNumber /\ PendingIsOnItsWay'
    BY <1>5, <1>6, <1>7
  <2> QED BY <1>2, <1>3, <2>1 DEF B!broadcastVars
<1> QED BY <1>4, <1>7

\* A message that is handed to the hub counts: it is published, or goes to
\* nobody, or the process ends over it.
LEMMA InboundMap ==
    ASSUME MapInv, NEW c \in Conn, ReadInbound(c)
    PROVE  /\ B!Discard(c) \/ B!Publish(c)
           /\ ReceiversAreDistinct' /\ PendingIsOnItsWay'
<1> USE DEF MapInv, SafeInv, TypeInv, TypeOK
<1>1. pending[c] \in Message /\ pending[c] # None /\ frames[c] \in Nat
  BY DEF ReadInbound, HasMessage
<1>2. pending[c].to \in Tos
  BY <1>1 DEF Message
<1> DEFINE p == [from |-> c, n |-> frames[c]]
<1>3. Accept(p, pending[c].kind, pending[c].to)
  BY DEF ReadInbound
<1>4. /\ packet = None /\ Range(todo) = {} /\ UNCHANGED <<outbound, closed>>
      /\ ReceiversAreDistinct'
      /\ Range(todo)' \subseteq Id \ {IdOf[c]}
      /\ packet' = IF Range(todo)' = {} THEN None ELSE p
  BY <1>1, <1>2, <1>3, AcceptMap
<1>5. NextNumber[c] = frames[c] /\ NextNumber' = [NextNumber EXCEPT ![c] = @ + 1]
  BY <1>1 DEF ReadInbound, pumpRest, NextNumber
<1>6. PendingIsOnItsWay'
  BY DEF ReadInbound, ReadTo, PendingIsOnItsWay
<1>7. CASE Range(todo)' = {}
  BY <1>4, <1>5, <1>6, <1>7 DEF B!Discard
<1>8. CASE Range(todo)' # {}
  BY <1>4, <1>5, <1>6, <1>8 DEF B!Publish
<1> QED BY <1>7, <1>8

\* What remains of the goroutines of a connection: they leave the messages
\* alone, or close a channel.
LEMMA ConnectionMap ==
    ASSUME MapInv, NEW c \in Conn,
           \/ Serve(c) \/ Countdown(c) \/ ReadError(c) \/ WriteTick(c)
           \/ ReadStep(c) /\ ~ReadInbound(c)
           \/ WriteStep(c) /\ ~WriteTakes(c)
    PROVE  /\ UNCHANGED B!broadcastVars \/ (\E d \in Conn : B!Close(d))
           /\ ReceiversAreDistinct' /\ PendingIsOnItsWay'
<1> USE DEF MapInv, SafeInv, TypeInv, TypeOK
<1>1. UNCHANGED <<frames, pending>>
  BY DEF Serve, ServeExists, ServeGet, ServeForced, ServeUnregister, ServeRegister, serveRest,
     Countdown, CountdownFires, CountdownChecks, CountdownUnregister, CountdownStopped,
     countdownRest, ReadError, ReadStep, ReadRegisters, ReadStopsCountdown, ReadPersists,
     ReadNoticed, ReadLogout, ReadUnregister, ReadExit, ReadExitUnregister, ReadClose,
     pumpRest, WriteTick, WriteStep, WriteSeesClosed, WriteDone, WritePinged, WriteReturns,
     writeRest
<1>2. PendingIsOnItsWay'
  <2>1. CASE ReadStep(c) \/ ReadError(c)
    BY <1>1, <2>1 DEF PendingIsOnItsWay, ReadTo, ReadError, ReadStep, ReadRegisters,
       ReadStopsCountdown, ReadPersists, ReadNoticed, ReadLogout, ReadUnregister, ReadExit,
       ReadExitUnregister, ReadClose, ReadInbound
  <2>2. CASE ServeRegister(c)
    BY <1>1, <2>2 DEF PendingIsOnItsWay, ServeRegister, Goroutines, Served
  <2>3. CASE UNCHANGED read
    BY <1>1, <2>3 DEF PendingIsOnItsWay
  <2> QED
    BY <2>1, <2>2, <2>3 DEF Serve, ServeExists, ServeGet, ServeForced, ServeUnregister,
       serveRest, Countdown, CountdownFires, CountdownChecks, CountdownUnregister,
       CountdownStopped, countdownRest, WriteTick, WriteStep, WriteSeesClosed, WriteDone,
       WritePinged, WriteReturns, writeRest
<1>3. ASSUME UNCHANGED <<packet, todo, outbound, closed>>
      PROVE  UNCHANGED B!broadcastVars /\ ReceiversAreDistinct'
  BY <1>1, <1>3 DEF B!broadcastVars, NextNumber, ReceiversAreDistinct
<1>4. \/ UNCHANGED <<packet, todo, outbound, closed>>
      \/ \E d \in Conn : Unlist(d)
  <2>1. CASE Serve(c)
    BY <2>1 DEF Serve, ServeExists, ServeGet, ServeForced, ServeUnregister, ServeRegister,
       Add, HasOld, hubVars
  <2>2. CASE Countdown(c)
    BY <2>2 DEF Countdown, CountdownFires, CountdownChecks, CountdownUnregister,
       CountdownStopped, hubVars
  <2>3. CASE ReadError(c) \/ (ReadStep(c) /\ ~ReadInbound(c))
    BY <2>3 DEF ReadError, ReadStep, ReadRegisters, ReadStopsCountdown, ReadPersists,
       ReadNoticed, ReadLogout, ReadUnregister, ReadExit, ReadExitUnregister, ReadClose,
       Add, hubVars
  <2>4. CASE WriteTick(c) \/ (WriteStep(c) /\ ~WriteTakes(c))
    BY <2>4 DEF WriteTick, WriteStep, WriteSeesClosed, WriteDone, WritePinged, WriteReturns,
       hubVars
  <2> QED BY <2>1, <2>2, <2>3, <2>4
<1> QED BY <1>1, <1>2, <1>3, <1>4, UnlistMap

LEMMA TakeMap ==
    ASSUME MapInv, NEW c \in Conn, WriteTakes(c)
    PROVE  B!Take(c) /\ ReceiversAreDistinct' /\ PendingIsOnItsWay'
<1>1. UNCHANGED <<NextNumber, packet, todo, closed, read, pending>>
  BY DEF WriteTakes, writeRest, NextNumber
<1>2. B!Take(c)
  BY <1>1 DEF WriteTakes, B!Take
<1> QED BY <1>1, <1>2 DEF MapInv, ReceiversAreDistinct, PendingIsOnItsWay

LEMMA MapInit == Init => MapInv /\ B!Init
<1> SUFFICES ASSUME Init PROVE MapInv /\ B!Init
  OBVIOUS
<1>1. NextNumber = [c \in Conn |-> 1] /\ Range(todo) = {}
  BY DEF Init, HubInit, NextNumber, Range
<1>2. ReceiversAreDistinct /\ PendingIsOnItsWay
  BY DEF Init, HubInit, ReceiversAreDistinct, PendingIsOnItsWay
<1> QED BY <1>1, <1>2, SafeInit DEF MapInv, Init, HubInit, B!Init

\* Every step of the server is a step of Broadcast or changes nothing there.
LEMMA MapStep ==
    ASSUME MapInv, [Next]_vars
    PROVE  MapInv' /\ [B!Next]_B!broadcastVars
<1>1. SafeInv'
  BY SafeStep DEF MapInv
<1>2. CASE HubStep
  <2>1. PendingIsOnItsWay'
    BY <1>2 DEF HubStep, connVars, PendingIsOnItsWay, MapInv
  <2>2. Deliver /\ UNCHANGED <<frames, pending>>
    BY <1>2 DEF HubStep, connVars
  <2>3. ReceiversAreDistinct' /\ (UNCHANGED B!broadcastVars \/ (\E i \in Id : B!Reach(i)))
    BY <2>2, DeliverMap
  <2> QED BY <1>1, <2>1, <2>3 DEF MapInv, B!Next
<1>3. ASSUME NEW c \in Conn, ReadFrame(c) PROVE MapInv' /\ [B!Next]_B!broadcastVars
  BY <1>1, <1>3, FrameMap DEF MapInv, B!Next
<1>4. ASSUME NEW c \in Conn, ReadInbound(c) PROVE MapInv' /\ [B!Next]_B!broadcastVars
  BY <1>1, <1>4, InboundMap DEF MapInv, B!Next
<1>5. ASSUME NEW c \in Conn, WriteTakes(c) PROVE MapInv' /\ [B!Next]_B!broadcastVars
  BY <1>1, <1>5, TakeMap DEF MapInv, B!Next
<1>6. ASSUME NEW c \in Conn,
             \/ Serve(c) \/ Countdown(c) \/ ReadError(c) \/ WriteTick(c)
             \/ ReadStep(c) /\ ~ReadInbound(c)
             \/ WriteStep(c) /\ ~WriteTakes(c)
      PROVE  MapInv' /\ [B!Next]_B!broadcastVars
  BY <1>1, <1>6, ConnectionMap DEF MapInv, B!Next
<1>7. CASE UNCHANGED vars
  BY <1>1, <1>7 DEF vars, hubVars, connVars, MapInv, ReceiversAreDistinct, PendingIsOnItsWay,
     B!broadcastVars, NextNumber
<1> QED BY <1>2, <1>3, <1>4, <1>5, <1>6, <1>7 DEF Next

\* The goroutines of all connections and the hub together do what Broadcast
\* promises the peers: one message at a time, to each receiver at most once and
\* never to its sender, in the order of each sender, and no channel is closed
\* in the middle of a message's way.
THEOREM ServerImplementsBroadcast == Spec => ImplementsBroadcast
  BY MapInit, MapStep, PTL DEF Spec, ImplementsBroadcast, B!Spec

(***************************************************************************)
(* OutboundInOrder follows from Broadcast alone.  The numbers in the        *)
(* channels are spent, and those of the message that is being sent out are  *)
(* higher than all before them, strictly so where it has still to arrive.   *)
(***************************************************************************)

NumbersAreSpent ==
    \A d \in Conn : \A k \in DOMAIN outbound[d] :
        outbound[d][k].n < NextNumber[outbound[d][k].from]

PacketIsTheLatest ==
    packet # None =>
        /\ packet.n < NextNumber[packet.from]
        /\ \A d \in Conn : \A k \in DOMAIN outbound[d] :
              outbound[d][k].from = packet.from =>
                  /\ outbound[d][k].n <= packet.n
                  /\ IdOf[d] \in Range(todo) => outbound[d][k].n < packet.n

OrderInv == OutboundInOrder /\ NumbersAreSpent /\ PacketIsTheLatest

\* The types Broadcast's steps rest on
BroadcastTypeOK ==
    /\ NextNumber \in [Conn -> Nat]
    /\ packet \in Packet \cup {None}
    /\ outbound \in [Conn -> Seq(Packet)]

LEMMA OrderStep ==
    ASSUME OrderInv, BroadcastTypeOK, BroadcastTypeOK', [B!Next]_B!broadcastVars
    PROVE  OrderInv'
<1> USE DEF OrderInv, OutboundInOrder, NumbersAreSpent, PacketIsTheLatest, BroadcastTypeOK
<1>p. \A q \in Packet : q.from \in Conn /\ q.n \in Nat
  BY DEF Packet
<1>t. \A d \in Conn : \A k \in DOMAIN outbound[d] : outbound[d][k] \in Packet
  OBVIOUS
<1>1. ASSUME NEW c \in Conn, B!Discard(c) PROVE OrderInv'
  <2>1. NextNumber' = [NextNumber EXCEPT ![c] = @ + 1]
    BY <1>1 DEF B!Discard
  <2>2. \A d \in Conn : NextNumber[d] \in Nat /\ NextNumber'[d] \in Nat /\ NextNumber[d] <= NextNumber'[d]
    BY <2>1
  <2>3. UNCHANGED <<packet, Range(todo), outbound>>
    BY <1>1 DEF B!Discard
  <2>4. OutboundInOrder'
    BY <2>3
  <2>5. NumbersAreSpent'
    BY <2>2, <2>3, <1>p, <1>t
  <2>6. PacketIsTheLatest'
    BY <2>2, <2>3, <1>p, <1>t
  <2> QED BY <2>4, <2>5, <2>6
<1>2. ASSUME NEW c \in Conn, B!Publish(c) PROVE OrderInv'
  <2>1. NextNumber' = [NextNumber EXCEPT ![c] = @ + 1] /\ UNCHANGED outbound
    BY <1>2 DEF B!Publish
  <2>2. packet' = [from |-> c, n |-> NextNumber[c]]
    BY <1>2 DEF B!Publish
  <2>3. \A d \in Conn : NextNumber[d] \in Nat /\ NextNumber'[d] \in Nat /\ NextNumber[d] <= NextNumber'[d]
    BY <2>1
  <2>4. OutboundInOrder'
    BY <2>1
  <2>5. NumbersAreSpent'
    BY <2>1, <2>3, <1>p, <1>t
  <2>6. PacketIsTheLatest'
    BY <2>1, <2>2, <2>3, <1>p, <1>t
  <2> QED BY <2>4, <2>5, <2>6
<1>3. ASSUME NEW c \in Conn, B!Take(c) PROVE OrderInv'
  <2>1. /\ outbound[c] # <<>> /\ outbound' = [outbound EXCEPT ![c] = Tail(@)]
        /\ UNCHANGED <<NextNumber, packet, Range(todo)>>
    BY <1>3 DEF B!Take
  <2>2. /\ Len(Tail(outbound[c])) = Len(outbound[c]) - 1 /\ Tail(outbound[c]) \in Seq(Packet)
        /\ \A k \in 1..Len(Tail(outbound[c])) : Tail(outbound[c])[k] = outbound[c][k + 1]
    BY <2>1, HeadTailProperties
  <2>3. \A d \in Conn : \E shift \in {0, 1} : \A k \in DOMAIN outbound'[d] :
            k + shift \in DOMAIN outbound[d] /\ outbound'[d][k] = outbound[d][k + shift]
    <3> SUFFICES ASSUME NEW d \in Conn
                 PROVE  \E shift \in {0, 1} : \A k \in DOMAIN outbound'[d] :
                            /\ k + shift \in DOMAIN outbound[d]
                            /\ outbound'[d][k] = outbound[d][k + shift]
      OBVIOUS
    <3>1. CASE d = c
      BY <2>1, <2>2, <3>1
    <3>2. CASE d # c
      <4>1. outbound'[d] = outbound[d] /\ \A k \in DOMAIN outbound[d] : k + 0 = k
        BY <2>1, <3>2
      <4> QED BY <4>1
    <3> QED BY <3>1, <3>2
  <2>4. OutboundInOrder'
    <3> SUFFICES ASSUME NEW d \in Conn, NEW j \in DOMAIN outbound'[d], NEW k \in DOMAIN outbound'[d],
                        j < k, outbound'[d][j].from = outbound'[d][k].from
                 PROVE  outbound'[d][j].n < outbound'[d][k].n
      OBVIOUS
    <3>1. PICK shift \in {0, 1} : \A i \in DOMAIN outbound'[d] :
              i + shift \in DOMAIN outbound[d] /\ outbound'[d][i] = outbound[d][i + shift]
      BY <2>3
    <3>2. j \in Int /\ k \in Int /\ j + shift < k + shift
      OBVIOUS
    <3> QED BY <3>1, <3>2
  <2>5. NumbersAreSpent'
    BY <2>1, <2>3
  <2>6. PacketIsTheLatest'
    BY <2>1, <2>3
  <2> QED BY <2>4, <2>5, <2>6
<1>4. ASSUME NEW c \in Conn, B!Close(c) PROVE OrderInv'
  BY <1>4 DEF B!Close
<1>5. ASSUME NEW i \in Id, B!Reach(i) PROVE OrderInv'
  <2>1. /\ packet # None /\ i \in Range(todo) /\ Range(todo)' = Range(todo) \ {i}
        /\ packet' \in {None, packet} /\ UNCHANGED NextNumber
    BY <1>5 DEF B!Reach
  <2>2. CASE UNCHANGED outbound
    BY <2>1, <2>2
  <2>3. ASSUME NEW d \in Conn, IdOf[d] = i, outbound' = [outbound EXCEPT ![d] = Append(@, packet)]
        PROVE  OrderInv'
    <3> DEFINE s == outbound[d]
               t == Append(s, packet)
    <3>1. /\ s \in Seq(Packet) /\ Len(t) = Len(s) + 1 /\ t[Len(s) + 1] = packet
          /\ \A k \in 1..Len(s) : t[k] = s[k]
          /\ DOMAIN s = 1..Len(s) /\ DOMAIN t = 1..(Len(s) + 1) /\ Len(s) \in Nat
      BY <2>1, AppendProperties
    <3>2. outbound'[d] = t /\ \A e \in Conn : e # d => outbound'[e] = outbound[e]
      BY <2>3
    <3>3. \A k \in DOMAIN s : s[k].from = packet.from => s[k].n < packet.n
      BY <2>1, <2>3
    <3>4. packet.from \in Conn /\ packet.n \in Nat /\ packet.n < NextNumber[packet.from]
      BY <2>1, <1>p
    <3> HIDE DEF t
    <3>5. OutboundInOrder'
      <4> SUFFICES ASSUME NEW e \in Conn, NEW j \in DOMAIN outbound'[e], NEW k \in DOMAIN outbound'[e],
                          j < k, outbound'[e][j].from = outbound'[e][k].from
                   PROVE  outbound'[e][j].n < outbound'[e][k].n
        OBVIOUS
      <4>1. CASE e # d
        BY <3>2, <4>1
      <4>2. CASE e = d
        <5>1. j \in 1..Len(s) /\ (k \in 1..Len(s) \/ k = Len(s) + 1)
          BY <3>1, <3>2, <4>2
        <5> QED BY <3>1, <3>2, <3>3, <4>2, <5>1
      <4> QED BY <4>1, <4>2
    <3>6. NumbersAreSpent'
      <4> SUFFICES ASSUME NEW e \in Conn, NEW k \in DOMAIN outbound'[e]
                   PROVE  outbound'[e][k].n < NextNumber[outbound'[e][k].from]
        BY <2>1
      <4>1. CASE e # d
        BY <3>2, <4>1
      <4>2. CASE e = d
        <5>1. k \in 1..Len(s) \/ k = Len(s) + 1
          BY <3>1, <3>2, <4>2
        <5>2. outbound'[e][k] = IF k \in 1..Len(s) THEN outbound[d][k] ELSE packet
          BY <3>1, <3>2, <4>2, <5>1
        <5> QED BY <3>1, <3>4, <5>1, <5>2
      <4> QED BY <4>1, <4>2
    <3>7. PacketIsTheLatest'
      <4> SUFFICES ASSUME packet' = packet, NEW e \in Conn, NEW k \in DOMAIN outbound'[e],
                          outbound'[e][k].from = packet.from
                   PROVE  /\ outbound'[e][k].n <= packet.n
                          /\ IdOf[e] \in Range(todo)' => outbound'[e][k].n < packet.n
        BY <2>1, <3>4
      <4>1. CASE e # d
        BY <2>1, <3>2, <4>1
      <4>2. CASE e = d
        BY <2>1, <2>3, <3>1, <3>2, <3>3, <3>4, <4>2
      <4> QED BY <4>1, <4>2
    <3> QED BY <3>5, <3>6, <3>7
  <2> QED BY <1>5, <2>2, <2>3 DEF B!Reach
<1>6. CASE UNCHANGED B!broadcastVars
  BY <1>6 DEF B!broadcastVars
<1> QED BY <1>1, <1>2, <1>3, <1>4, <1>5, <1>6 DEF B!Next

\* What waits for one peer is in the order in which each sender wrote it, and
\* nothing waits twice, whatever is logged in, out or registered meanwhile.
THEOREM OutboundIsInOrder == Spec => []OutboundInOrder
<1>1. MapInv => BroadcastTypeOK
  BY DEF MapInv, SafeInv, TypeInv, TypeOK, HubTypeOK, BroadcastTypeOK, NextNumber
<1>2. Init => OrderInv
  BY HubAssumption DEF Init, HubInit, OrderInv, OutboundInOrder, NumbersAreSpent, PacketIsTheLatest
<1>3. OrderInv /\ MapInv /\ [Next]_vars => OrderInv' /\ MapInv'
  <2>1. MapInv' => BroadcastTypeOK'
    BY DEF MapInv, SafeInv, TypeInv, TypeOK, HubTypeOK, BroadcastTypeOK, NextNumber
  <2> QED BY <1>1, <2>1, MapStep, OrderStep
<1>4. OrderInv => OutboundInOrder
  BY DEF OrderInv
<1> QED BY <1>2, <1>3, <1>4, MapInit, PTL DEF Spec
=============================================================================
