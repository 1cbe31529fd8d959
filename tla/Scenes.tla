-------------------------------- MODULE Scenes --------------------------------
(***************************************************************************)
(* What the connections of one unit keep in redis: the id of the current   *)
(* scene, a record per scene, and per scene the state of the teaching      *)
(* module, the history of its instructions and the chat.                   *)
(* src/ndscloud/client.go (NewClient), processor.go, redis.go.             *)
(*                                                                         *)
(* Every redis command is a step: the handlers read, compute and write     *)
(* back, and other connections do the same in between.  Each connection    *)
(* keeps the scene id it read when it was made.                            *)
(***************************************************************************)
EXTENDS Integers, Sequences, FiniteSets, SequencesExt

CONSTANTS
    Conn,       \* the connections to the unit
    Plans,      \* bound: the frames the peers send, in each instance
    Mod,        \* teaching modules
    NoMod,      \* the empty "mod"
    Field,      \* what a module's state consists of, "nm" apart
    Name,       \* what "nm" may be: the name of a courseware or page
    None,       \* nil; a redis key or hash entry that is not there
    NotMap,     \* a "msg" that is no JSON object
    MaxScene,   \* bound: the highest scene id
    MaxFailures \* bound: how many redis commands fail

SceneNo == 0..MaxScene

\* What a module's status is kept under: the empty "mod" has one as well.
ModKey == Mod \cup {NoMod}

\* The frames that touch redis.
Frame ==
    [op : {"start", "end", "chat"}] \cup
    [op : {"status"}, mod : ModKey, nm : Name \cup {None}, fields : SUBSET Field]
      \cup [op : {"status"}, mod : ModKey, nm : {NotMap}, fields : {{}}]

ASSUME ScenesAssumption ==
    /\ \A p \in Plans : DOMAIN p \subseteq Conn /\ \A c \in DOMAIN p : p[c] \in Seq(Frame)
    /\ MaxScene \in Nat \ {0} /\ MaxFailures \in Nat
    /\ None \notin Name \cup Conn /\ NotMap \notin Name \cup {None}
    /\ NoMod \notin Mod

\* A stored value is known by the frame it came with.
FrameId == [from : Conn, n : Nat]

\* The "msg" of a module's state.
Msg == [nm : Name \cup {None}, val : [Field -> FrameId \cup {None}]]

VARIABLES
    plan,     \* the connections of this instance, and what their peers send
    sceneId,  \* redis: nc:unit:scene:id, 0 where the key is not there
    scene,    \* redis: nc:unit:scene, whether start_time and end_time are set
    status,   \* redis: nc:ins:mod, the state of each module
    hist,     \* redis: nc:ins:mod:his, the instructions to each module
    chat,     \* redis: nc:chat:his
    at,       \* where each connection is
    found,    \* the scene id NewClient got
    sent,     \* how many frames it has handled
    curmod,   \* Client.unitInfo.Curmod
    got,      \* what it has read: a scene record or a module's state
    failures, \* how many commands have failed
    raced,    \* auxiliary: modules of scenes, two updates of which overlapped
    restarted \* auxiliary: the scenes that were started anew after their end

redisVars == <<sceneId, scene, status, hist, chat>>
auxVars == <<raced, restarted>>
connVars == <<at, found, sent, curmod, got, failures, auxVars>>
sceneVars == <<plan, redisVars, connVars>>

SceneRecord == [start : BOOLEAN, end : BOOLEAN]
NoRecord == [start |-> FALSE, end |-> FALSE]

ConnAt == {"off", "setId", "on", "hget", "hset", "endSet", "endIncr", "ended",
           "incrFailed", "out"}

ScenesTypeOK ==
    /\ plan \in Plans
    /\ sceneId \in SceneNo
    /\ scene \in [SceneNo -> SceneRecord]
    /\ status \in [SceneNo -> [ModKey -> Msg \cup {NotMap, None}]]
    /\ hist \in [SceneNo -> [ModKey -> Seq(FrameId)]]
    /\ chat \in [SceneNo -> Seq(FrameId)]
    /\ at \in [Conn -> ConnAt]
    /\ found \in [Conn -> SceneNo]
    /\ sent \in [Conn -> Nat]
    /\ curmod \in [Conn -> ModKey]
    /\ got \in [Conn -> SceneRecord \cup Msg \cup {NotMap, None}]
    /\ failures \in 0..MaxFailures
    /\ raced \subseteq SceneNo \X ModKey /\ restarted \subseteq SceneNo

ScenesInit ==
    /\ plan \in Plans
    /\ sceneId = 0
    /\ scene = [s \in SceneNo |-> NoRecord]
    /\ status = [s \in SceneNo |-> [m \in ModKey |-> None]]
    /\ hist = [s \in SceneNo |-> [m \in ModKey |-> <<>>]]
    /\ chat = [s \in SceneNo |-> <<>>]
    /\ at = [c \in Conn |-> "off"]
    /\ found = [c \in Conn |-> 0] /\ sent = [c \in Conn |-> 0]
    /\ curmod = [c \in Conn |-> NoMod] /\ got = [c \in Conn |-> None]
    /\ failures = 0 /\ raced = {} /\ restarted = {}

\* Client.unitInfo.SceneId
Mine(c) == IF found[c] = 0 THEN 1 ELSE found[c]

Goes(c, place) == at' = [at EXCEPT ![c] = place]

(***************************************************************************)
(* NewClient                                                               *)
(***************************************************************************)

\* GET of the scene id
Connect(c) ==
    /\ c \in DOMAIN plan /\ at[c] = "off"
    /\ found' = [found EXCEPT ![c] = sceneId]
    /\ Goes(c, IF sceneId = 0 THEN "setId" ELSE "on")
    /\ UNCHANGED <<plan, redisVars, sent, curmod, got, failures, auxVars>>

\* SET of the scene id to 1, where there was none
SetSceneId(c) ==
    /\ at[c] = "setId"
    /\ sceneId' = 1
    /\ Goes(c, "on")
    /\ UNCHANGED <<plan, scene, status, hist, chat, found, sent, curmod, got, failures, auxVars>>

(***************************************************************************)
(* process                                                                 *)
(***************************************************************************)

\* The peer's next frame is of this kind and readPump has taken it.
Takes(c, op) ==
    /\ at[c] = "on" /\ sent[c] < Len(plan[c]) /\ plan[c][sent[c] + 1].op = op
    /\ sent' = [sent EXCEPT ![c] = @ + 1]

Current(c) == plan[c][sent[c]]
Id(c) == [from |-> c, n |-> sent[c]]

\* UnitControlMsg, stat "1": SET of the scene's record, made anew
StartUnit(c) ==
    /\ Takes(c, "start")
    /\ scene' = [scene EXCEPT ![Mine(c)] = [start |-> TRUE, end |-> FALSE]]
    /\ restarted' = restarted \cup {s \in {Mine(c)} : scene[s].end}
    /\ UNCHANGED <<plan, sceneId, status, hist, chat, at, found, curmod, got, failures, raced>>

\* UnitControlMsg, stat "2": GET of the record
EndUnit(c) ==
    /\ Takes(c, "end")
    /\ got' = [got EXCEPT ![c] = scene[Mine(c)]]
    /\ Goes(c, "endSet")
    /\ UNCHANGED <<plan, redisVars, found, curmod, failures, auxVars>>

\* Mutant: SET is missing.
EndSetForgets(c) ==
    /\ at[c] = "endSet"
    /\ got' = [got EXCEPT ![c] = None]
    /\ Goes(c, "endIncr")
    /\ UNCHANGED <<plan, redisVars, found, sent, curmod, failures, auxVars>>

\* SET of the record with end_time
EndSet(c) ==
    /\ at[c] = "endSet"
    /\ scene' = [scene EXCEPT ![Mine(c)] = [start |-> got[c].start, end |-> TRUE]]
    /\ got' = [got EXCEPT ![c] = None]
    /\ Goes(c, "endIncr")
    /\ UNCHANGED <<plan, sceneId, status, hist, chat, found, sent, curmod, failures, auxVars>>

\* Mutant: the new id follows from the client's own, and not by INCR.
EndIncrOwn(c) ==
    /\ at[c] = "endIncr" /\ sceneId < MaxScene
    /\ sceneId' = Mine(c) + 1
    /\ Goes(c, "ended")
    /\ UNCHANGED <<plan, scene, status, hist, chat, found, sent, curmod, got, failures, auxVars>>

\* Mutant: INCR is missing.
EndIncrForgets(c) ==
    /\ at[c] = "endIncr"
    /\ Goes(c, "ended")
    /\ UNCHANGED <<plan, redisVars, found, sent, curmod, got, failures, auxVars>>

\* INCR of the scene id, and logout
EndIncr(c) ==
    /\ at[c] = "endIncr" /\ sceneId < MaxScene
    /\ sceneId' = sceneId + 1
    /\ Goes(c, "ended")
    /\ UNCHANGED <<plan, scene, status, hist, chat, found, sent, curmod, got, failures, auxVars>>

\* ChatTextMsg: RPUSH, after the broadcast
Chat(c) ==
    /\ Takes(c, "chat")
    /\ chat' = [chat EXCEPT ![Mine(c)] = Append(@, [from |-> c, n |-> sent[c] + 1])]
    /\ UNCHANGED <<plan, sceneId, scene, status, hist, at, found, curmod, got, failures, auxVars>>

\* Another connection is between the RPUSH and the HSET of the same module.
Overlap(c, mod) ==
    IF \E d \in Conn \ {c} :
           at[d] \in {"hget", "hset"} /\ Mine(d) = Mine(c) /\ curmod[d] = mod
      THEN {<<Mine(c), mod>>} ELSE {}

\* ModStatusMsg: the module the frame names becomes the client's current one;
\* RPUSH to its history.
PushStatus(c) ==
    /\ Takes(c, "status")
    /\ LET named == plan[c][sent[c] + 1].mod
           mod   == IF named = NoMod THEN curmod[c] ELSE named
       IN  /\ curmod' = [curmod EXCEPT ![c] = mod]
           /\ hist' = [hist EXCEPT ![Mine(c)][mod] =
                          Append(@, [from |-> c, n |-> sent[c] + 1])]
           /\ raced' = raced \cup Overlap(c, mod)
    /\ Goes(c, "hget")
    /\ UNCHANGED <<plan, sceneId, scene, status, chat, found, got, failures, restarted>>

\* A frame's own "msg", all of whose values come with it
MsgOf(m, id) ==
    IF m.nm = NotMap THEN NotMap
    ELSE [nm |-> m.nm, val |-> [f \in Field |-> IF f \in m.fields THEN id ELSE None]]

\* A frame that changes nothing: it cannot be the first, or is no object.
Discarded(m, cur) ==
    (cur = None /\ m.mod = NoMod) \/ (cur # None /\ m.nm = NotMap)

\* The first frame is stored as it is; another "nm" begins a new state; the
\* fields of any other frame are put over those that are there.
Merge(cur, m, id) ==
    IF cur \in {None, NotMap} THEN MsgOf(m, id)
    ELSE IF m.nm # None /\ m.nm # cur.nm THEN MsgOf(m, id)
    ELSE [cur EXCEPT !.val = [f \in Field |-> IF f \in m.fields THEN id ELSE @[f]]]

\* HGET of the module's state
GetStatus(c) ==
    /\ at[c] = "hget"
    /\ LET cur == status[Mine(c)][curmod[c]]
       IN  IF Discarded(Current(c), cur)
             THEN Goes(c, "on") /\ UNCHANGED got
             ELSE Goes(c, "hset") /\ got' = [got EXCEPT ![c] = cur]
    /\ UNCHANGED <<plan, redisVars, found, sent, curmod, failures, auxVars>>

\* Mutant: the frame is stored alone, not put together with what was read.
SetStatusAlone(c) ==
    /\ at[c] = "hset"
    /\ status' = [status EXCEPT ![Mine(c)][curmod[c]] = MsgOf(Current(c), Id(c))]
    /\ got' = [got EXCEPT ![c] = None]
    /\ Goes(c, "on")
    /\ UNCHANGED <<plan, sceneId, scene, hist, chat, found, sent, curmod, failures, auxVars>>

\* HSET of what was read and the frame put together; then the broadcast
SetStatus(c) ==
    /\ at[c] = "hset"
    /\ status' = [status EXCEPT ![Mine(c)][curmod[c]] = Merge(got[c], Current(c), Id(c))]
    /\ got' = [got EXCEPT ![c] = None]
    /\ Goes(c, "on")
    /\ UNCHANGED <<plan, sceneId, scene, hist, chat, found, sent, curmod, failures, auxVars>>

\* The commands a client is logged out for when they fail.
AtCommand == {"setId", "hget", "hset", "endSet", "endIncr"}

\* A redis command fails, not the first of a frame: the client is logged out
\* or not made, and what was written before stays.
CommandFails(c) ==
    /\ failures < MaxFailures /\ failures' = failures + 1
    /\ at[c] \in AtCommand
    /\ got' = [got EXCEPT ![c] = None]
    /\ Goes(c, IF at[c] = "endIncr" THEN "incrFailed" ELSE "out")
    /\ UNCHANGED <<plan, redisVars, found, sent, curmod, auxVars>>

\* The first command of a frame fails: a chat message is lost, and any other
\* frame logs the client out.
FrameFails(c) ==
    /\ failures < MaxFailures /\ failures' = failures + 1
    /\ \E op \in {"start", "end", "chat", "status"} :
          /\ Takes(c, op)
          /\ Goes(c, IF op = "chat" THEN "on" ELSE "out")
    /\ UNCHANGED <<plan, redisVars, found, curmod, got, auxVars>>

Process(c) ==
    \/ StartUnit(c) \/ EndUnit(c) \/ EndSet(c) \/ EndIncr(c) \/ Chat(c)
    \/ PushStatus(c) \/ GetStatus(c) \/ SetStatus(c)

ScenesNext(c) == Connect(c) \/ SetSceneId(c) \/ Process(c)
                     \/ CommandFails(c) \/ FrameFails(c)

(***************************************************************************)
(* Properties                                                              *)
(***************************************************************************)

\* Two clients that both found no scene id: either may set it to 1 at any time.
FirstRace == \E c, d \in Conn : c # d /\ found[c] = 0 /\ found[d] = 0 /\
                 at[c] # "off" /\ at[d] # "off"

\* Two clients of one and the same scene before s that both ended it.
EndedTwice(s) == \E c, d \in Conn :
    /\ c # d /\ Mine(c) = Mine(d) /\ Mine(c) < s
    /\ at[c] \in {"endIncr", "ended", "incrFailed"}
    /\ at[d] \in {"endIncr", "ended", "incrFailed"}

\* The current scene, in which the next session's clients will work, is not one
\* that has ended; but an INCR that is outstanding or has failed after SET of
\* end_time, or the race of two first clients, leaves them in an ended scene.
CurrentSceneIsOpen ==
    scene[sceneId].end =>
        \/ \E c \in Conn : at[c] \in {"endIncr", "incrFailed"} /\ Mine(c) = sceneId
        \/ FirstRace

\* The unit passes a scene only when somebody has ended it; where it was not,
\* an earlier scene was ended by two clients, each of which counted the id up.
\* A start that comes late makes a scene that has ended one that has not.
PassedScenesWereEnded ==
    \A s \in 1..(sceneId - 1) : scene[s].end \/ s \in restarted \/ EndedTwice(s)

\* A client that found no scene id is about to set it to 1, though another one
\* that had found none has gone on since.
LateFirst == \E c, d \in Conn :
    c # d /\ at[c] = "setId" /\ found[d] = 0 /\ at[d] \notin {"off", "setId"}

\* The unit goes back to an earlier scene, whose records, states and chat the
\* next clients would then write over, only where two clients that both found
\* no scene set the first one, and the later of them after a scene had ended.
SceneFallsBackOnlyLate == [][sceneId' < sceneId => LateFirst]_sceneVars

\* The state of a module after one more of the instructions that peers send
After(peers, cur, id) ==
    LET frame == peers[id.from][id.n]
    IN  IF Discarded(frame, cur) THEN cur ELSE Merge(cur, frame, id)

\* The instructions of a history in their order, one after the other
Replayed(peers, h) == FoldLeft(LAMBDA cur, id : After(peers, cur, id), None, h)

Replay(s, mod) == Replayed(plan, hist[s][mod])

\* What a late-comer gets as a module's state is what the others have seen
\* happen, the history of instructions, unless two connections of the scene
\* updated the state at the same time or a command failed between the history
\* and the state.
HistoryGivesStatus ==
    \A s \in SceneNo, mod \in ModKey :
        \/ <<s, mod>> \in raced \/ failures > 0
        \/ \E c \in Conn : Mine(c) = s /\ curmod[c] = mod /\ at[c] \in {"hget", "hset"}
        \/ status[s][mod] = Replay(s, mod)
=============================================================================
