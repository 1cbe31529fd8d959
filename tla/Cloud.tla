-------------------------------- MODULE Cloud --------------------------------
(***************************************************************************)
(* The cloud control server: the hub (module Hub) and, per websocket       *)
(* connection, the goroutines of src/ndscloud/handler.go and client.go:    *)
(*                                                                         *)
(*     serve      ServeWs: forced login, then it starts the other three    *)
(*     countdown  evicts a connection that does not register in time       *)
(*     read       readPump: one frame after the other through process      *)
(*     write      writePump: from the outbound channel to the websocket    *)
(*                                                                         *)
(* A send on one of the hub's unbuffered channels is a step of the sender  *)
(* and the hub together.  WriteMessage takes time (up to writeWait), so it *)
(* has a beginning and an end.  A panic of the hub ends the process.       *)
(***************************************************************************)
EXTENDS Hub

CONSTANTS
    Kinds,    \* the kinds of frames the peers send in this instance
    Tos,      \* the "to" fields they use
    Events    \* what else happens to each connection in this instance:
              \* "timeout" (ten seconds pass), "drop" (the peer goes away),
              \* "ping" (the ticker of writePump fires)

FrameKind == {"register", "ordinary", "modstatus", "offline", "control",
              "ink", "chat"}

\* What a readPump hands to the hub.
Message == [kind : FrameKind \cup {"online"}, to : Tos]

ASSUME CloudAssumption ==
    /\ NoTo \in Tos
    /\ \A to \in Tos :
          /\ to.tail \subseteq Id
          /\ Range(to.head) \subseteq Id \cup GroupLetters
          /\ to.sep = "," => Range(to.head) \subseteq Id
    /\ None \notin Message

VARIABLES
    serve,       \* where ServeWs is
    old,         \* forceLogin's loginClient, while it is in use
    countdown,   \* where the registration countdown is
    read,        \* where readPump is
    frames,      \* how many frames it has read
    pending,     \* the message it is about to send to the hub, or None
    write,       \* where writePump is
    open,        \* the websocket has not been closed by the server
    redis,       \* the client's redis connection has not been closed
    isRegistered,
    stopreg      \* Client.stopreg was closed

connVars == <<serve, old, countdown, read, frames, pending, write, open,
              redis, isRegistered, stopreg, isLocal>>
vars == <<hubVars, connVars>>

ServeAt == {"start", "get", "forceWrite", "unregister", "register", "done",
            "panicked"}
CountdownAt == {"off", "waiting", "check", "unregister", "done"}
ReadAt == {"off", "reading", "register", "stopreg", "inbound", "persist",
           "notice", "noticeLogout", "logout", "unregister", "exit",
           "exitUnregister", "close", "done"}
WriteAt == {"off", "idle", "writing", "pinging", "closing", "done"}

TypeOK ==
    /\ HubTypeOK
    /\ serve \in [Conn -> ServeAt]
    /\ old \in [Conn -> Conn \cup {None}]
    /\ countdown \in [Conn -> CountdownAt]
    /\ read \in [Conn -> ReadAt]
    /\ frames \in [Conn -> Nat]
    /\ pending \in [Conn -> Message \cup {None}]
    /\ write \in [Conn -> WriteAt]
    /\ open \in [Conn -> BOOLEAN]
    /\ redis \in [Conn -> BOOLEAN]
    /\ isRegistered \in [Conn -> BOOLEAN]
    /\ stopreg \in [Conn -> BOOLEAN]

Init ==
    /\ HubInit
    /\ serve = [c \in Conn |-> "start"]
    /\ old = [c \in Conn |-> None]
    /\ countdown = [c \in Conn |-> "off"]
    /\ read = [c \in Conn |-> "off"]
    /\ frames = [c \in Conn |-> 0]
    /\ pending = [c \in Conn |-> None]
    /\ write = [c \in Conn |-> "off"]
    /\ open = [c \in Conn |-> TRUE]
    /\ redis = [c \in Conn |-> TRUE]
    /\ isRegistered = [c \in Conn |-> FALSE]
    /\ stopreg = [c \in Conn |-> FALSE]
    /\ isLocal \in {f \in [Conn -> BOOLEAN] :
                        \A c \in Conn : f[c] => KindOf[c] = "device"}

Running == crashed = "no"

(***************************************************************************)
(* serve: forceLogin, and then the three goroutines are started            *)
(***************************************************************************)
ServeTo(c, to) == serve' = [serve EXCEPT ![c] = to]

serveRest == <<countdown, read, frames, pending, write, open, redis,
               isRegistered, stopreg, isLocal>>

\* if c.hub.exists(c)
ServeExists(c) ==
    /\ Running /\ serve[c] = "start"
    /\ ServeTo(c, IF Exists(c) THEN "get" ELSE "register")
    /\ UNCHANGED <<hubVars, old, serveRest>>

\* loginClient := c.hub.get(c.id).  It may be gone by now: the dereference of
\* nil panics, and the HTTP server's recovery drops this connection's login.
ServeGet(c) ==
    /\ Running /\ serve[c] = "get"
    /\ old' = [old EXCEPT ![c] = Get(IdOf[c])]
    /\ ServeTo(c, IF Get(IdOf[c]) = None THEN "panicked" ELSE "forceWrite")
    /\ UNCHANGED <<hubVars, serveRest>>

\* "forced logout" has been written to the old connection.
ServeForced(c) ==
    /\ Running /\ serve[c] = "forceWrite"
    /\ ServeTo(c, "unregister")
    /\ UNCHANGED <<hubVars, old, serveRest>>

\* c.hub.unregister <- loginClient
ServeUnregister(c) ==
    /\ serve[c] = "unregister"
    /\ Unlist(old[c])
    /\ ServeTo(c, "register")
    /\ old' = [old EXCEPT ![c] = None]
    /\ UNCHANGED serveRest

\* c.hub.register <- c, and go countdown, readPump, writePump
ServeRegister(c) ==
    /\ serve[c] = "register"
    /\ Add(c)
    /\ ServeTo(c, "done")
    /\ countdown' = [countdown EXCEPT ![c] = "waiting"]
    /\ read' = [read EXCEPT ![c] = "reading"]
    /\ write' = [write EXCEPT ![c] = "idle"]
    /\ UNCHANGED <<old, frames, pending, open, redis, isRegistered, stopreg,
                   isLocal>>

Serve(c) ==
    \/ ServeExists(c) \/ ServeGet(c) \/ ServeForced(c)
    \/ ServeUnregister(c) \/ ServeRegister(c)

(***************************************************************************)
(* countdown: ten seconds to register                                      *)
(***************************************************************************)
CountdownTo(c, to) == countdown' = [countdown EXCEPT ![c] = to]

countdownRest == <<serve, old, read, frames, pending, write, open, redis,
                   isRegistered, stopreg, isLocal>>

\* case <-tc, and the first half of the test: client == hub.get(client.id)
CountdownFires(c) ==
    /\ Running /\ countdown[c] = "waiting" /\ "timeout" \in Events[c]
    /\ CountdownTo(c, IF Get(IdOf[c]) = c THEN "check" ELSE "done")
    /\ UNCHANGED <<hubVars, countdownRest>>

\* Mutant: the test of isRegistered is the wrong way round.
CountdownChecksInverted(c) ==
    /\ Running /\ countdown[c] = "check"
    /\ CountdownTo(c, IF isRegistered[c] THEN "unregister" ELSE "done")
    /\ UNCHANGED <<hubVars, countdownRest>>

\* The second half, !client.isRegistered.  No lock orders this read and the
\* write in process: either may come first, whatever the hub has done.
CountdownChecks(c) ==
    /\ Running /\ countdown[c] = "check"
    /\ CountdownTo(c, IF isRegistered[c] THEN "done" ELSE "unregister")
    /\ UNCHANGED <<hubVars, countdownRest>>

CountdownUnregister(c) ==
    /\ countdown[c] = "unregister"
    /\ Unlist(c)
    /\ CountdownTo(c, "done")
    /\ UNCHANGED countdownRest

\* case <-client.stopreg
CountdownStopped(c) ==
    /\ Running /\ countdown[c] = "waiting" /\ stopreg[c]
    /\ CountdownTo(c, "done")
    /\ UNCHANGED <<hubVars, countdownRest>>

Countdown(c) ==
    \/ CountdownFires(c) \/ CountdownChecks(c)
    \/ CountdownUnregister(c) \/ CountdownStopped(c)

(***************************************************************************)
(* read: readPump and the message handlers of process                      *)
(***************************************************************************)
ReadTo(c, to) == read' = [read EXCEPT ![c] = to]

\* What every handler leaves to the other goroutines.
readRest == <<serve, old, countdown, write>>

\* A frame of this kind comes out of ReadMessage.  Frames that had arrived
\* can still be read after the server closed the websocket.
Reads(c, kind) ==
    /\ Running /\ read[c] = "reading"
    /\ kind \in Kinds
    /\ frames[c] < MaxFrames[c]
    /\ frames' = [frames EXCEPT ![c] = @ + 1]
    /\ UNCHANGED <<hubVars, readRest, open, redis, stopreg>>

\* Mutant: the parsed field "to" is handed to the hub.
SendsParsed(c, kind, to) ==
    pending' = [pending EXCEPT ![c] = [kind |-> kind, to |-> ParseFieldTo(to)]]

\* message.Sender = c.id, message.Unit = c.unitId, hub.inbound <- message
Sends(c, kind, to) == pending' = [pending EXCEPT ![c] = [kind |-> kind, to |-> to]]

\* A redis command can always fail, and always does once logout has closed
\* the connection: it succeeds only where redis[c] is a conjunct.

\* Mutant: c.isRegistered = true is missing.
ReadRegisterUnmarked(c) ==
    /\ Reads(c, "register")
    /\ ~isRegistered[c]
    /\ Sends(c, "online", NoTo)
    /\ ReadTo(c, "register")
    /\ UNCHANGED <<isRegistered, isLocal>>

\* RegMsg, first registration.  A device states its Dt again.
ReadRegister(c) ==
    /\ Reads(c, "register")
    /\ ~isRegistered[c]
    /\ isRegistered' = [isRegistered EXCEPT ![c] = TRUE]
    /\ \E dt1 \in IF KindOf[c] = "device" THEN BOOLEAN ELSE {FALSE} :
           isLocal' = [isLocal EXCEPT ![c] = dt1]
    /\ Sends(c, "online", NoTo)
    /\ ReadTo(c, "register")

handlerRest == <<isRegistered, isLocal>>

\* OrdinaryMsg
ReadOrdinary(c, to) ==
    /\ Reads(c, "ordinary")
    /\ \/ to = NoTo /\ ReadTo(c, "notice") /\ UNCHANGED pending
       \/ to # NoTo /\ ReadTo(c, "inbound") /\ Sends(c, "ordinary", to)
    /\ UNCHANGED handlerRest

\* ModStatusMsg: RPUSH to the history, HGET and HSET of the module's status,
\* then the broadcast.  The status itself is not part of this module.
ReadModStatus(c, to) ==
    /\ Reads(c, "modstatus")
    /\ \/ to = NoTo /\ ReadTo(c, "notice") /\ UNCHANGED pending
       \/ /\ to # NoTo
          /\ \/ ReadTo(c, "noticeLogout") /\ UNCHANGED pending
             \/ redis[c] /\ ReadTo(c, "logout") /\ UNCHANGED pending
             \/ redis[c] /\ ReadTo(c, "notice") /\ UNCHANGED pending
             \/ redis[c] /\ ReadTo(c, "inbound") /\ Sends(c, "modstatus", to)
    /\ UNCHANGED handlerRest

\* UsrOfflineMsg, DevOfflineMsg: its own id logs this connection out, and the
\* message is broadcast in either case.
ReadOffline(c) ==
    /\ Reads(c, "offline")
    /\ \E step \in {"logout", "inbound"} : ReadTo(c, step)
    /\ Sends(c, "offline", NoTo)
    /\ UNCHANGED handlerRest

\* UnitControlMsg: the start of the unit is broadcast once it is stored, the
\* end logs the sender out, stored or not, and other values are broadcast.
ReadControl(c, stat) ==
    /\ Reads(c, "control")
    /\ \/ /\ stat = "other" \/ (stat = "start" /\ redis[c])
          /\ ReadTo(c, "inbound") /\ Sends(c, "control", NoTo)
       \/ /\ stat \in {"start", "end"}
          /\ ReadTo(c, "logout") /\ UNCHANGED pending
    /\ UNCHANGED handlerRest

\* PullInkMsg, EndPullInkMsg
ReadInk(c) ==
    /\ Reads(c, "ink")
    /\ ReadTo(c, "inbound") /\ Sends(c, "ink", NoTo)
    /\ UNCHANGED handlerRest

\* ChatTextMsg: a text over 100 bytes is refused, another broadcast and then
\* stored.
ReadChat(c) ==
    /\ Reads(c, "chat")
    /\ \/ ReadTo(c, "notice") /\ UNCHANGED pending
       \/ ReadTo(c, "inbound") /\ Sends(c, "chat", NoTo)
    /\ UNCHANGED handlerRest

\* Mutant: a websocket closed by writePump goes unnoticed.
ReadErrorOfPeer(c) ==
    /\ Running /\ read[c] = "reading" /\ "drop" \in Events[c]
    /\ ReadTo(c, "exit")
    /\ UNCHANGED <<hubVars, readRest, frames, pending, open, redis,
                   isRegistered, stopreg, isLocal>>

\* ReadMessage fails: the peer went away, or the websocket was closed here.
ReadError(c) ==
    /\ Running /\ read[c] = "reading"
    /\ "drop" \in Events[c] \/ ~open[c]
    /\ ReadTo(c, "exit")
    /\ UNCHANGED <<hubVars, readRest, frames, pending, open, redis,
                   isRegistered, stopreg, isLocal>>

pumpRest == <<readRest, frames, isRegistered, isLocal>>

\* c.hub.register <- c
ReadRegisters(c) ==
    /\ read[c] = "register"
    /\ Add(c)
    /\ ReadTo(c, "stopreg")
    /\ UNCHANGED <<pumpRest, pending, open, redis, stopreg>>

\* close(c.stopreg)
ReadStopsCountdown(c) ==
    /\ Running /\ read[c] = "stopreg"
    /\ stopreg' = [stopreg EXCEPT ![c] = TRUE]
    /\ ReadTo(c, "inbound")
    /\ UNCHANGED <<hubVars, pumpRest, pending, open, redis>>

\* c.hub.inbound <- message
ReadInbound(c) ==
    /\ read[c] = "inbound"
    /\ Accept([from |-> c, n |-> frames[c]], pending[c].kind, pending[c].to)
    /\ pending' = [pending EXCEPT ![c] = None]
    /\ ReadTo(c, IF pending[c].kind = "chat" THEN "persist" ELSE "reading")
    /\ UNCHANGED <<pumpRest, open, redis, stopreg>>

\* RPUSH of a chat text that has been broadcast
ReadPersists(c) ==
    /\ Running /\ read[c] = "persist"
    /\ \/ redis[c] /\ ReadTo(c, "reading")
       \/ ReadTo(c, "notice")
    /\ UNCHANGED <<hubVars, pumpRest, pending, open, redis, stopreg>>

\* notice has written its text; one of its calls is followed by logout.
ReadNoticed(c) ==
    /\ Running
    /\ \/ read[c] = "notice" /\ ReadTo(c, "reading")
       \/ read[c] = "noticeLogout" /\ ReadTo(c, "logout")
    /\ UNCHANGED <<hubVars, pumpRest, pending, open, redis, stopreg>>

\* logout has written its text and closes the redis connection.
ReadLogout(c) ==
    /\ Running /\ read[c] = "logout"
    /\ redis' = [redis EXCEPT ![c] = FALSE]
    /\ ReadTo(c, "unregister")
    /\ UNCHANGED <<hubVars, pumpRest, pending, open, stopreg>>

\* c.hub.unregister <- c, in logout.  The websocket stays open and readPump
\* goes on: with the broadcast of an offline message, or the next frame.
ReadUnregister(c) ==
    /\ read[c] = "unregister"
    /\ Unlist(c)
    /\ ReadTo(c, IF pending[c] = None THEN "reading" ELSE "inbound")
    /\ UNCHANGED <<pumpRest, pending, open, redis, stopreg>>

\* The deferred function: if c == c.hub.get(c.id)
ReadExit(c) ==
    /\ Running /\ read[c] = "exit"
    /\ ReadTo(c, IF Get(IdOf[c]) = c THEN "exitUnregister" ELSE "close")
    /\ UNCHANGED <<hubVars, pumpRest, pending, open, redis, stopreg>>

\* c.hub.unregister <- c
ReadExitUnregister(c) ==
    /\ read[c] = "exitUnregister"
    /\ Unlist(c)
    /\ ReadTo(c, "close")
    /\ UNCHANGED <<pumpRest, pending, open, redis, stopreg>>

\* c.conn.Close()
ReadClose(c) ==
    /\ Running /\ read[c] = "close"
    /\ open' = [open EXCEPT ![c] = FALSE]
    /\ ReadTo(c, "done")
    /\ UNCHANGED <<hubVars, pumpRest, pending, redis, stopreg>>

\* The peer's part: it sends a frame.
ReadFrame(c) ==
    \/ ReadRegister(c) \/ ReadOffline(c) \/ ReadInk(c) \/ ReadChat(c)
    \/ \E to \in Tos : ReadOrdinary(c, to) \/ ReadModStatus(c, to)
    \/ \E stat \in {"start", "end", "other"} : ReadControl(c, stat)

\* The goroutine's own steps.
ReadStep(c) ==
    \/ ReadRegisters(c) \/ ReadStopsCountdown(c) \/ ReadInbound(c)
    \/ ReadPersists(c) \/ ReadNoticed(c) \/ ReadLogout(c)
    \/ ReadUnregister(c) \/ ReadExit(c) \/ ReadExitUnregister(c)
    \/ ReadClose(c)

(***************************************************************************)
(* write: writePump                                                        *)
(***************************************************************************)
WriteTo(c, to) == write' = [write EXCEPT ![c] = to]

writeRest == <<serve, old, countdown, read, frames, pending, redis,
               isRegistered, stopreg, isLocal>>

\* Mutant: nothing is taken before the client has registered.
WriteTakesRegistered(c) ==
    /\ Running /\ write[c] = "idle" /\ outbound[c] # <<>> /\ isRegistered[c]
    /\ outbound' = [outbound EXCEPT ![c] = Tail(@)]
    /\ WriteTo(c, "writing")
    /\ UNCHANGED <<clients, clientSet, closed, todo, packet, crashed, open,
                   writeRest>>

\* case message, ok := <-c.outbound, with a message
WriteTakes(c) ==
    /\ Running /\ write[c] = "idle" /\ outbound[c] # <<>>
    /\ outbound' = [outbound EXCEPT ![c] = Tail(@)]
    /\ WriteTo(c, "writing")
    /\ UNCHANGED <<clients, clientSet, closed, todo, packet, crashed, open,
                   writeRest>>

\* The same case, once the channel is closed and drained.
WriteSeesClosed(c) ==
    /\ Running /\ write[c] = "idle" /\ outbound[c] = <<>> /\ closed[c]
    /\ WriteTo(c, "closing")
    /\ UNCHANGED <<hubVars, open, writeRest>>

\* case <-ticker.C
WriteTick(c) ==
    /\ Running /\ write[c] = "idle" /\ "ping" \in Events[c]
    /\ WriteTo(c, "pinging")
    /\ UNCHANGED <<hubVars, open, writeRest>>

\* A message was written; whether that failed is not looked at.
WriteDone(c) ==
    /\ Running /\ write[c] = "writing"
    /\ WriteTo(c, "idle")
    /\ UNCHANGED <<hubVars, open, writeRest>>

WritePinged(c) ==
    /\ Running /\ write[c] = "pinging" /\ open[c]
    /\ WriteTo(c, "idle")
    /\ UNCHANGED <<hubVars, open, writeRest>>

\* Mutant: the deferred conn.Close() is missing.
WriteReturnsOpen(c) ==
    /\ Running /\ write[c] \in {"closing", "pinging"}
    /\ WriteTo(c, "done")
    /\ UNCHANGED <<hubVars, open, writeRest>>

\* The close frame was written, or a ping failed: the deferred conn.Close().
WriteReturns(c) ==
    /\ Running /\ write[c] \in {"closing", "pinging"}
    /\ WriteTo(c, "done")
    /\ open' = [open EXCEPT ![c] = FALSE]
    /\ UNCHANGED <<hubVars, writeRest>>

WriteStep(c) ==
    \/ WriteTakes(c) \/ WriteSeesClosed(c) \/ WriteDone(c)
    \/ WritePinged(c) \/ WriteReturns(c)

HubStep == Deliver /\ UNCHANGED connVars

Next ==
    \/ HubStep
    \/ \E c \in Conn :
          \/ Serve(c) \/ Countdown(c)
          \/ ReadFrame(c) \/ ReadError(c) \/ ReadStep(c)
          \/ WriteStep(c) \/ WriteTick(c)

Spec == Init /\ [][Next]_vars

(***************************************************************************)
(* Fairness.  Goroutines that can run do run.  Run's select picks at random*)
(* among the channels that have a sender, and the senders of one channel   *)
(* queue up in order: a send that is possible again and again succeeds.    *)
(* The select of writePump likewise serves a ready outbound channel, even  *)
(* if its ticker fires as well.  Timers expire and a read from a closed    *)
(* websocket fails.  What the peers do is not fair.                        *)
(***************************************************************************)
Fairness ==
    /\ WF_vars(HubStep)
    /\ \A c \in Conn :
          /\ SF_vars(Serve(c))
          /\ SF_vars(Countdown(c))
          /\ SF_vars(ReadStep(c) \/ (~open[c] /\ ReadError(c)))
          /\ SF_vars(WriteTakes(c) \/ WriteSeesClosed(c))
          /\ WF_vars(WriteDone(c) \/ WritePinged(c) \/ WriteReturns(c))

FairSpec == Spec /\ Fairness

(***************************************************************************)
(* Properties                                                              *)
(***************************************************************************)

Twins(c, d) == c # d /\ IdOf[c] = IdOf[d]

\* Every client the table holds is found by a message to all of its unit:
\* Hub.add and Hub.remove change the table and the caches together, whatever
\* the order in which logins, logouts, time-outs and registrations reach Run.
ListedIsReachable ==
    \A i \in Id : clients[i] # None =>
        LET c == clients[i]
        IN  /\ IdOf[c] = i
            /\ clientSet[UnitOf[c]] # None
            /\ i \in clientSet[UnitOf[c]]["All"]

\* An id that a unit's cache holds but the table does not belongs to somebody
\* who logged in to two units: Hub.remove clears the cache of the unit of the
\* client it is given only.
StaleOnlyAcrossUnits ==
    \A u \in Unit : clientSet[u] # None => \A i \in clientSet[u]["All"] :
        /\ \E c \in Conn : IdOf[c] = i /\ UnitOf[c] = u /\ serve[c] = "done"
        /\ clients[i] = None =>
               \E c, d \in Conn : Twins(c, d) /\ IdOf[c] = i /\ UnitOf[c] # UnitOf[d]

\* The table holds a client whose channel is closed only if that client has
\* registered: an eviction takes the entry out, and only the register request
\* of RegMsg can put it back.
ClosedEntryIsRegistered ==
    \A i \in Id : clients[i] # None /\ closed[clients[i]] => isRegistered[clients[i]]

\* A connection that has logged in, is not in the table and was not told to
\* end (its channel is open) has lost its entry to another with the same id.
OrphanNeedsTwin ==
    \A c \in Conn : serve[c] = "done" /\ ~closed[c] /\ clients[IdOf[c]] # c =>
        \E d \in Conn : Twins(c, d)

\* The hub panics on a closed channel only over a client that registered
\* after its eviction, or over an id that has had two connections.
PanicNeedsTwinOrRegistration ==
    crashed \in {"closeClosed", "sendClosed"} =>
        \E c \in Conn : closed[c] /\ (isRegistered[c] \/ \E d \in Conn : Twins(c, d))

\* A message never meets a unit without a cache: its sender's login made one
\* and nothing deletes it (removebyunitid has no caller).
SenderHasCache == crashed # "nilCache"

\* What waits for one peer is in the order in which each sender wrote it, and
\* nothing waits twice.
OutboundInOrder ==
    \A c \in Conn : \A j, k \in DOMAIN outbound[c] :
        j < k /\ outbound[c][j].from = outbound[c][k].from =>
            outbound[c][j].n < outbound[c][k].n

\* The hub waits for room in the channel of a client whose writePump has
\* returned: nobody will ever make any.
HubStuck ==
    /\ Running /\ packet # None
    /\ LET c == clients[Head(todo)]
       IN c # None /\ write[c] = "done" /\ Len(outbound[c]) = Cap

\* The hub gets to the end of a broadcast, or it is stuck as above, or the
\* process has crashed: a slow peer delays everybody, and only a writePump
\* that left a listed client stops everybody.
BroadcastEnds == packet # None ~> (packet = None \/ HubStuck \/ ~Running)

\* Closing a client's channel ends its websocket: writePump drains what is
\* buffered, sees the end and closes.
EvictedIsDisconnected == \A c \in Conn : closed[c] ~> (~open[c] \/ ~Running)

\* Once the websocket is closed, whoever closed it, readPump ends, unless the
\* hub no longer takes its requests.
ReadPumpEnds ==
    \A c \in Conn : ~open[c] ~> (read[c] = "done" \/ HubStuck \/ ~Running)

\* A connection that logs in and stays silent is evicted, as long as no other
\* connection has its id.
SilentIsEvicted ==
    \A c \in Conn : serve[c] = "done" ~>
        \/ isRegistered[c] \/ closed[c] \/ HubStuck \/ ~Running
        \/ \E d \in Conn : Twins(c, d)

(***************************************************************************)
(* What comments of the code say, and the code does not keep               *)
(***************************************************************************)

\* hub.go:17, "Hub maintains the set of active clients and broadcast messages
\* to the clients": no client of the table has its channel closed.
ClientsAreActive ==
    \A i \in Id : clients[i] # None => ~closed[clients[i]]

\* client.go:169, "Forced login. Force other terminals to disconnect.": of two
\* logged-in connections with one id, one has been told to disconnect.
ForcedLogin ==
    \A c, d \in Conn :
        Twins(c, d) /\ serve[c] = "done" /\ serve[d] = "done" =>
            closed[c] \/ closed[d] \/ ~open[c] \/ ~open[d]
              \/ read[c] \notin {"off", "reading"} \/ read[d] \notin {"off", "reading"}

\* The goroutines that are writing to the websocket of c.
Writers(c) ==
    (IF write[c] \in {"writing", "pinging", "closing"} THEN {<<"writePump", c>>} ELSE {})
    \cup (IF read[c] \in {"notice", "noticeLogout", "logout"} THEN {<<"readPump", c>>} ELSE {})
    \cup {<<"serve", d>> : d \in {d \in Conn : serve[d] = "forceWrite" /\ old[d] = c}}

\* client.go:253, "The application ensures that there is at most one writer to
\* a connection by executing all writes from this goroutine."
OneWriter == \A c \in Conn : Cardinality(Writers(c)) <= 1

\* hub.go:185 and message.go:197: the ids named in the field "to" are
\* individuals whom the message goes to; naming them does not stop the hub.
IndividualsAreServed == crashed # "nilMap"
=============================================================================
