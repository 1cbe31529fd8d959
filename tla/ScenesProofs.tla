----------------------------- MODULE ScenesProofs -----------------------------
(***************************************************************************)
(* Theorems about the scenes of a unit (module Scenes) and the job that     *)
(* ends them (EndUnit), for any connections, frames, scenes and failures:   *)
(* the id of the current scene, what it passes, whom the job ends, and what *)
(* a late-comer is given as the state of a module.                         *)
(***************************************************************************)
EXTENDS UnitsProofs

(***************************************************************************)
(* What a step of a connection does to the scenes                          *)
(***************************************************************************)

\* A client that has set end_time
Over(c) == at[c] \in {"endIncr", "ended", "incrFailed"}

\* A connection goes on and leaves the scenes alone.
Passes(c) ==
    /\ UNCHANGED <<found, sceneId, scene, restarted>>
    /\ \E p \in {"on", "hget", "hset", "endSet", "out", "incrFailed"} :
          /\ at' = [at EXCEPT ![c] = p]
          /\ at[c] \notin {"ended", "incrFailed", "out"}
          /\ at[c] \in {"off", "setId"} => p = "out"
          /\ (at[c] = "endIncr") = (p = "incrFailed")

\* Whatever a step does to the scenes and to who is at which
Moves(c) ==
    \/ Connect(c) \/ SetSceneId(c) \/ EndSet(c) \/ EndIncr(c) \/ StartUnit(c) \/ Passes(c)

LEMMA Moving ==
    ASSUME ScenesInv, NEW c \in Conn, ScenesNext(c) \/ FrameLost(c) PROVE Moves(c)
<1> USE DEF redisVars, auxVars, Goes
<1>1. at \in [Conn -> ConnAt]
  BY DEF ScenesInv, ScenesTypeOK
<1>2. CASE FrameLost(c)
  <2>1. /\ UNCHANGED <<found, sceneId, scene, restarted>> /\ at' = [at EXCEPT ![c] = "out"]
        /\ at[c] \in {"off", "on"}
    BY <1>2 DEF FrameLost
  <2> QED BY <2>1 DEF Moves, Passes
<1>3. CASE Chat(c)
  <2>1. /\ UNCHANGED <<found, sceneId, scene, restarted>> /\ at' = at /\ at[c] = "on"
    BY <1>3, Zenon DEF Chat, Takes
  <2>2. at' = [at EXCEPT ![c] = "on"]
    BY <1>1, <2>1
  <2> QED BY <2>1, <2>2 DEF Moves, Passes
<1>4. CASE EndUnit(c) \/ PushStatus(c) \/ GetStatus(c) \/ SetStatus(c) \/ FrameFails(c)
  <2>1. /\ UNCHANGED <<found, sceneId, scene, restarted>>
        /\ at[c] \in {"on", "hget", "hset"}
        /\ \E p \in {"on", "hget", "hset", "endSet", "out"} : at' = [at EXCEPT ![c] = p]
    BY <1>4 DEF EndUnit, PushStatus, GetStatus, SetStatus, FrameFails, Takes
  <2> QED BY <2>1 DEF Moves, Passes
<1>5. CASE CommandFails(c)
  <2>1. /\ UNCHANGED <<found, sceneId, scene, restarted>> /\ at[c] \in AtCommand
        /\ at' = [at EXCEPT ![c] = IF at[c] = "endIncr" THEN "incrFailed" ELSE "out"]
    BY <1>5 DEF CommandFails
  <2> QED BY <2>1 DEF Moves, Passes, AtCommand
<1> QED BY <1>2, <1>3, <1>4, <1>5 DEF Moves, ScenesNext, Process

\* Other connections stay where they are; one that has read the scene id keeps
\* it, and one that has set end_time has set it.
LEMMA Staying ==
    ASSUME ScenesTypeOK, NEW c \in Conn, Moves(c)
    PROVE  /\ \A d \in Conn : at[d] # "off" => at'[d] # "off" /\ found'[d] = found[d]
           /\ \A d \in Conn : Over(d) => Over(d)'
           /\ \A d \in Conn : at[d] = "ended" => at'[d] = "ended"
           /\ \A d \in Conn \ {c} : at'[d] = at[d] /\ found'[d] = found[d]
           /\ at' \in [Conn -> ConnAt]
<1> USE DEF redisVars, auxVars, Goes, ConnAt
<1>1. at \in [Conn -> ConnAt] /\ found \in [Conn -> SceneNo]
  BY DEF ScenesTypeOK
<1>2. CASE Connect(c)
  BY <1>1, <1>2 DEF Connect, Over
<1>3. CASE SetSceneId(c) \/ EndSet(c) \/ EndIncr(c)
  BY <1>1, <1>3 DEF SetSceneId, EndSet, EndIncr, Over
<1>4. CASE StartUnit(c)
  BY <1>1, <1>4 DEF StartUnit, Over
<1>5. CASE Passes(c)
  BY <1>1, <1>5 DEF Passes, Over
<1> QED BY <1>2, <1>3, <1>4, <1>5 DEF Moves

\* What clients have once done to each other stays done.
LEMMA Lasting ==
    ASSUME ScenesTypeOK, NEW c \in Conn, Moves(c)
    PROVE  (FirstRace => FirstRace') /\ \A s \in SceneNo : EndedTwice(s) => EndedTwice(s)'
<1>1. FirstRace => FirstRace'
  <2> SUFFICES ASSUME FirstRace PROVE FirstRace'
    OBVIOUS
  <2>1. PICK d, e \in Conn : d # e /\ found[d] = 0 /\ found[e] = 0 /\ at[d] # "off" /\ at[e] # "off"
    BY DEF FirstRace
  <2>2. found'[d] = 0 /\ found'[e] = 0 /\ at'[d] # "off" /\ at'[e] # "off"
    BY <2>1, Staying
  <2> QED BY <2>1, <2>2 DEF FirstRace
<1>2. ASSUME NEW s \in SceneNo, EndedTwice(s) PROVE EndedTwice(s)'
  <2>1. PICK d, e \in Conn : d # e /\ Mine(d) = Mine(e) /\ Mine(d) < s /\ Over(d) /\ Over(e)
    BY <1>2 DEF EndedTwice, Over
  <2>2. at[d] # "off" /\ at[e] # "off"
    BY <2>1 DEF Over
  <2>3. Over(d)' /\ Over(e)' /\ found'[d] = found[d] /\ found'[e] = found[e]
    BY <2>1, <2>2, Staying
  <2>4. Mine(d)' = Mine(d) /\ Mine(e)' = Mine(e)
    BY <2>3 DEF Mine
  <2> QED BY <2>1, <2>3, <2>4 DEF EndedTwice, Over
<1> QED BY <1>1, <1>2

(***************************************************************************)
(* The current scene                                                       *)
(***************************************************************************)

\* Nobody is at a scene after the current one, and none of those has ended; a
\* client that is about to set the first id is alone.
Reached ==
    /\ \A s \in SceneNo : s > sceneId => ~scene[s].end
    /\ \A c \in Conn : at[c] \notin {"off", "setId", "out"} => Mine(c) <= sceneId
    /\ \A c \in Conn : at[c] = "setId" => sceneId = 0

ReachedInv ==
    /\ \A c \in Conn : at[c] \in {"off", "setId"} => found[c] = 0
    /\ ~FirstRace => Reached

LEMMA ReachedStep ==
    ASSUME ScenesTypeOK, ReachedInv, NEW c \in Conn, Moves(c) PROVE ReachedInv'
<1> USE DEF redisVars, auxVars, Goes
<1>1. /\ at \in [Conn -> ConnAt] /\ found \in [Conn -> SceneNo] /\ sceneId \in SceneNo
      /\ scene \in [SceneNo -> SceneRecord] /\ Mine(c) \in SceneNo /\ Mine(c) # 0
      /\ at' \in [Conn -> ConnAt]
  BY MineType, Staying DEF ScenesTypeOK
<1>n. sceneId \in Nat
  BY <1>1, ScenesAssumption DEF SceneNo
<1>m. \A d \in Conn : Mine(d) \in Nat /\ Mine(d) >= 1
  <2> TAKE d \in Conn
  <2>1. Mine(d) \in SceneNo /\ Mine(d) # 0
    BY MineType
  <2> QED BY <2>1, ScenesAssumption DEF SceneNo
<1>o. \A d \in Conn \ {c} : at'[d] = at[d] /\ found'[d] = found[d] /\ Mine(d)' = Mine(d)
  BY Staying DEF Mine
<1>2. \A d \in Conn : at'[d] \in {"off", "setId"} => found'[d] = 0
  <2>1. at'[c] \in {"off", "setId"} => found'[c] = 0
    BY <1>1 DEF ReachedInv, Moves, Connect, SetSceneId, EndSet, EndIncr, StartUnit, Takes, Passes
  <2> QED BY <1>o, <2>1 DEF ReachedInv
<1>3. ASSUME ~FirstRace' PROVE Reached'
  <2>1. Reached
    BY <1>3, Lasting DEF ReachedInv
  <2>2. CASE Connect(c)
    <3>1. /\ at[c] = "off" /\ found'[c] = sceneId /\ UNCHANGED <<sceneId, scene>>
          /\ at'[c] = (IF sceneId = 0 THEN "setId" ELSE "on")
      BY <1>1, <2>2 DEF Connect
    <3>2. at'[c] = "on" => Mine(c)' <= sceneId
      BY <1>1, <1>n, <3>1 DEF Mine
    <3> QED BY <1>o, <2>1, <3>1, <3>2 DEF Reached
  <2>3. CASE SetSceneId(c)
    <3>1. /\ at[c] = "setId" /\ sceneId' = 1 /\ at'[c] = "on" /\ UNCHANGED <<scene, found>>
      BY <1>1, <2>3 DEF SetSceneId
    <3>2. sceneId = 0 /\ Mine(c)' = 1 /\ found[c] = 0
      BY <2>1, <3>1 DEF Reached, ReachedInv, Mine
    <3>3. \A d \in Conn \ {c} : at'[d] # "setId"
      <4> SUFFICES ASSUME NEW d \in Conn \ {c}, at'[d] = "setId" PROVE FALSE
        OBVIOUS
      <4>1. found'[d] = 0 /\ found'[c] = 0 /\ at'[c] # "off" /\ at'[d] # "off"
        BY <1>2, <3>1, <3>2
      <4> QED BY <1>3, <4>1 DEF FirstRace
    <3>4. \A d \in Conn \ {c} : at'[d] \in {"off", "setId", "out"}
      BY <1>m, <1>o, <2>1, <3>2 DEF Reached
    <3>5. \A s \in SceneNo : s > 1 => s > 0
      BY DEF SceneNo
    <3> QED BY <2>1, <3>1, <3>2, <3>3, <3>4, <3>5 DEF Reached
  <2>4. CASE EndSet(c)
    <3>1. /\ at[c] = "endSet" /\ UNCHANGED <<sceneId, found>> /\ at'[c] = "endIncr"
          /\ scene' = [scene EXCEPT ![Mine(c)] = [start |-> got[c].start, end |-> TRUE]]
      BY <1>1, <2>4 DEF EndSet
    <3>2. Mine(c) <= sceneId /\ Mine(c)' = Mine(c)
      BY <2>1, <3>1 DEF Reached, Mine
    <3>3. \A s \in SceneNo : s > sceneId => scene'[s] = scene[s]
      BY <1>1, <1>m, <1>n, <3>1, <3>2 DEF SceneNo
    <3> QED BY <1>o, <2>1, <3>1, <3>2, <3>3 DEF Reached
  <2>5. CASE EndIncr(c)
    <3>1. /\ at[c] = "endIncr" /\ UNCHANGED <<scene, found>> /\ at'[c] = "ended"
          /\ sceneId' = sceneId + 1
      BY <1>1, <2>5 DEF EndIncr
    <3>2. Mine(c) <= sceneId /\ Mine(c)' = Mine(c)
      BY <2>1, <3>1 DEF Reached, Mine
    <3>3. \A d \in Conn : at[d] # "setId"
      BY <1>1, <1>m, <1>n, <2>1, <3>2 DEF Reached
    <3>4. \A d \in Conn : Mine(d) <= sceneId => Mine(d) <= sceneId + 1
      BY <1>1, <1>m, <1>n
    <3>5. \A s \in SceneNo : s > sceneId + 1 => s > sceneId
      BY <1>1, <1>n DEF SceneNo
    <3> QED BY <1>1, <1>m, <1>n, <1>o, <2>1, <3>1, <3>2, <3>3, <3>4, <3>5 DEF Reached
  <2>6. CASE StartUnit(c)
    <3>1. /\ UNCHANGED <<sceneId, found, at>>
          /\ scene' = [scene EXCEPT ![Mine(c)] = [start |-> TRUE, end |-> FALSE]]
      BY <2>6 DEF StartUnit
    <3>2. \A d \in Conn : Mine(d)' = Mine(d)
      BY <3>1 DEF Mine
    <3>3. \A s \in SceneNo : scene'[s].end => scene[s].end
      BY <1>1, <3>1
    <3> QED BY <2>1, <3>1, <3>2, <3>3 DEF Reached
  <2>7. CASE Passes(c)
    <3>1. UNCHANGED <<sceneId, found, scene>>
      BY <2>7 DEF Passes
    <3>2. /\ at'[c] # "out" => at[c] \notin {"off", "setId", "out"}
          /\ at'[c] # "setId" /\ Mine(c)' = Mine(c)
      BY <1>1, <2>7 DEF Passes, Mine
    <3> QED BY <1>o, <2>1, <3>1, <3>2 DEF Reached
  <2> QED BY <2>2, <2>3, <2>4, <2>5, <2>6, <2>7 DEF Moves
<1> QED BY <1>2, <1>3 DEF ReachedInv

LEMMA OpenStep ==
    ASSUME ScenesTypeOK, ReachedInv, CurrentSceneIsOpen, NEW c \in Conn, Moves(c)
    PROVE  CurrentSceneIsOpen'
<1> USE DEF redisVars, auxVars, Goes
<1> SUFFICES ASSUME scene'[sceneId'].end, ~FirstRace'
             PROVE  \E d \in Conn : at'[d] \in {"endIncr", "incrFailed"} /\ Mine(d)' = sceneId'
  BY DEF CurrentSceneIsOpen
<1>1. /\ at \in [Conn -> ConnAt] /\ found \in [Conn -> SceneNo] /\ sceneId \in SceneNo
      /\ scene \in [SceneNo -> SceneRecord] /\ Mine(c) \in SceneNo /\ at' \in [Conn -> ConnAt]
  BY MineType, Staying DEF ScenesTypeOK
<1>n. sceneId \in Nat /\ MaxScene \in Nat \ {0}
  BY <1>1, ScenesAssumption DEF SceneNo
<1>r. Reached /\ ~FirstRace
  BY Lasting DEF ReachedInv
<1>o. \A d \in Conn \ {c} : at'[d] = at[d] /\ found'[d] = found[d] /\ Mine(d)' = Mine(d)
  BY Staying DEF Mine
\* The scene had ended before, and whoever has to count it up still has to.
<1>2. ASSUME scene[sceneId].end, sceneId' = sceneId,
             at[c] \in {"endIncr", "incrFailed"} =>
                 at'[c] \in {"endIncr", "incrFailed"} /\ found'[c] = found[c]
      PROVE  \E d \in Conn : at'[d] \in {"endIncr", "incrFailed"} /\ Mine(d)' = sceneId'
  <2>1. PICK d \in Conn : at[d] \in {"endIncr", "incrFailed"} /\ Mine(d) = sceneId
    BY <1>2, <1>r DEF CurrentSceneIsOpen
  <2>2. at'[d] \in {"endIncr", "incrFailed"} /\ Mine(d)' = Mine(d)
    BY <1>2, <1>o, <2>1 DEF Mine
  <2> QED BY <1>2, <2>1, <2>2
<1>3. CASE Connect(c) \/ Passes(c)
  BY <1>1, <1>2, <1>3 DEF Connect, Passes
<1>4. CASE SetSceneId(c)
  <2>1. at[c] = "setId" /\ sceneId' = 1 /\ scene' = scene
    BY <1>4 DEF SetSceneId
  <2>2. sceneId = 0 /\ 1 \in SceneNo
    BY <1>n, <1>r, <2>1 DEF Reached, SceneNo
  <2>3. ~scene[1].end
    BY <1>r, <2>2 DEF Reached
  <2> QED BY <2>1, <2>3
<1>5. CASE EndSet(c)
  <2>1. /\ at[c] = "endSet" /\ UNCHANGED <<sceneId, found>> /\ at'[c] = "endIncr"
        /\ scene' = [scene EXCEPT ![Mine(c)] = [start |-> got[c].start, end |-> TRUE]]
    BY <1>1, <1>5 DEF EndSet
  <2>2. CASE Mine(c) = sceneId
    BY <2>1, <2>2 DEF Mine
  <2>3. CASE Mine(c) # sceneId
    <3>1. scene[sceneId].end
      BY <1>1, <2>1, <2>3
    <3> QED BY <1>2, <2>1, <3>1
  <2> QED BY <2>2, <2>3
<1>6. CASE EndIncr(c)
  <2>1. sceneId' = sceneId + 1 /\ scene' = scene /\ sceneId < MaxScene
    BY <1>6 DEF EndIncr
  <2>2. sceneId + 1 \in SceneNo /\ sceneId + 1 > sceneId
    BY <1>1, <1>n, <2>1 DEF SceneNo
  <2>3. ~scene[sceneId + 1].end
    BY <1>r, <2>2 DEF Reached
  <2> QED BY <2>1, <2>3
<1>7. CASE StartUnit(c)
  <2>1. /\ UNCHANGED <<sceneId, found, at>>
        /\ scene' = [scene EXCEPT ![Mine(c)] = [start |-> TRUE, end |-> FALSE]]
    BY <1>7 DEF StartUnit
  <2>2. scene[sceneId].end
    BY <1>1, <2>1
  <2> QED BY <1>2, <2>1, <2>2
<1> QED BY <1>3, <1>4, <1>5, <1>6, <1>7 DEF Moves

(***************************************************************************)
(* The scenes before it                                                    *)
(***************************************************************************)

\* A client that has set end_time has ended its scene, unless it was started
\* anew; a scene before the current one, or before one a client is at, was
\* counted up by a client that ended it, or by one too many of an earlier one.
PassedInv ==
    /\ \A c \in Conn : Over(c) => scene[Mine(c)].end \/ Mine(c) \in restarted
    /\ \A s \in SceneNo \ {0} :
          s < sceneId \/ (\E c \in Conn : at[c] # "off" /\ s < Mine(c)) =>
              EndedTwice(s) \/ \E c \in Conn : at[c] = "ended" /\ Mine(c) = s

LEMMA EndsStep ==
    ASSUME ScenesTypeOK, PassedInv, NEW c \in Conn, Moves(c), NEW d \in Conn, Over(d)'
    PROVE  scene'[Mine(d)'].end \/ Mine(d)' \in restarted'
<1> USE DEF redisVars, auxVars, Goes
<1>1. /\ at \in [Conn -> ConnAt] /\ found \in [Conn -> SceneNo]
      /\ scene \in [SceneNo -> SceneRecord] /\ Mine(c) \in SceneNo /\ Mine(d) \in SceneNo
  BY MineType DEF ScenesTypeOK
<1>o. c # d => Over(d) /\ Mine(d)' = Mine(d)
  BY Staying DEF Mine, Over
\* Scenes are not undone but by StartUnit, which makes a note of it.
<1>2. ASSUME NEW s \in SceneNo, scene[s].end \/ s \in restarted
      PROVE  scene'[s].end \/ s \in restarted'
  <2>1. CASE StartUnit(c)
    BY <1>1, <1>2, <2>1 DEF StartUnit
  <2>2. CASE EndSet(c)
    BY <1>1, <1>2, <2>2 DEF EndSet
  <2>3. CASE Connect(c) \/ SetSceneId(c) \/ EndIncr(c) \/ Passes(c)
    BY <1>2, <2>3 DEF Connect, SetSceneId, EndIncr, Passes
  <2> QED BY <2>1, <2>2, <2>3 DEF Moves
<1>3. CASE Over(d) /\ Mine(d)' = Mine(d)
  BY <1>1, <1>2, <1>3 DEF PassedInv
<1>4. CASE c = d
  <2>1. CASE EndSet(c)
    BY <1>1, <1>4, <2>1 DEF EndSet, Mine
  <2>2. CASE Connect(c) \/ SetSceneId(c)
    BY <1>1, <1>4, <2>2 DEF Connect, SetSceneId, Over
  <2>3. CASE EndIncr(c) \/ StartUnit(c) \/ Passes(c)
    <3>1. Over(d) /\ found' = found
      BY <1>1, <1>4, <2>3 DEF EndIncr, StartUnit, Passes, Over
    <3> QED BY <1>3, <3>1 DEF Mine
  <2> QED BY <2>1, <2>2, <2>3 DEF Moves
<1> QED BY <1>3, <1>4, <1>o

LEMMA PassedStep ==
    ASSUME ScenesTypeOK, ReachedInv, PassedInv, NEW c \in Conn, Moves(c) PROVE PassedInv'
<1> USE DEF redisVars, auxVars, Goes
<1> DEFINE Gone(s) == EndedTwice(s) \/ \E d \in Conn : at[d] = "ended" /\ Mine(d) = s
<1>1. /\ at \in [Conn -> ConnAt] /\ found \in [Conn -> SceneNo] /\ sceneId \in SceneNo
  BY DEF ScenesTypeOK
<1>n. sceneId \in Nat
  BY <1>1, ScenesAssumption DEF SceneNo
<1>m. \A d \in Conn : Mine(d) \in Nat /\ Mine(d) \in SceneNo \ {0}
  <2> TAKE d \in Conn
  <2>1. Mine(d) \in SceneNo /\ Mine(d) # 0
    BY MineType
  <2> QED BY <2>1, ScenesAssumption DEF SceneNo
<1>2. ASSUME NEW s \in SceneNo, Gone(s) PROVE Gone(s)'
  <2>1. CASE EndedTwice(s)
    BY <2>1, Lasting
  <2>2. CASE \E d \in Conn : at[d] = "ended" /\ Mine(d) = s
    <3>1. PICK d \in Conn : at[d] = "ended" /\ Mine(d) = s
      BY <2>2
    <3>2. at'[d] = "ended" /\ Mine(d)' = s
      BY <3>1, Staying DEF Mine
    <3> QED BY <3>2
  <2> QED BY <1>2, <2>1, <2>2
<1>3. \A s \in SceneNo \ {0} :
         s < sceneId \/ (\E d \in Conn : at[d] # "off" /\ s < Mine(d)) => Gone(s)
  BY DEF PassedInv
<1> HIDE DEF Gone
<1>4. ASSUME NEW s \in SceneNo \ {0}, s < sceneId' \/ \E d \in Conn : at'[d] # "off" /\ s < Mine(d)'
      PROVE  Gone(s)'
  <2>s. s \in Nat /\ s # 0
    BY ScenesAssumption DEF SceneNo
  \* Who was there before is at the same scene.
  <2>1. ASSUME NEW d \in Conn, at[d] # "off", s < Mine(d)' PROVE Gone(s)'
    <3>1. Mine(d)' = Mine(d)
      BY <2>1, Staying DEF Mine
    <3> QED BY <1>2, <1>3, <2>1, <3>1
  <2>2. ASSUME NEW d \in Conn, at[d] = "off", at'[d] # "off", s < Mine(d)' PROVE Gone(s)'
    <3>1. d = c
      BY <2>2, Staying
    <3>2. CASE Connect(c)
      <4>1. found'[d] = sceneId
        BY <1>1, <3>1, <3>2 DEF Connect
      <4>2. s < sceneId
        BY <1>n, <2>2, <2>s, <4>1 DEF Mine
      <4> QED BY <1>2, <1>3, <4>2
    <3>3. CASE ~Connect(c)
      <4>1. found' = found
        BY <3>3 DEF Moves, SetSceneId, EndSet, EndIncr, StartUnit, Passes
      <4>2. Mine(d)' = 1
        BY <2>2, <4>1 DEF ReachedInv, Mine
      <4> QED BY <2>2, <2>s, <4>2
    <3> QED BY <3>2, <3>3
  <2>3. ASSUME s < sceneId' PROVE Gone(s)'
    <3>1. CASE s < sceneId
      BY <1>2, <1>3, <3>1
    <3>2. CASE ~(s < sceneId)
      <4>1. EndIncr(c)
        <5>1. SetSceneId(c) => sceneId' = 1
          BY DEF SetSceneId
        <5>2. SetSceneId(c) \/ EndIncr(c) \/ sceneId' = sceneId
          BY DEF Moves, Connect, EndSet, StartUnit, Passes
        <5> QED BY <2>3, <2>s, <3>2, <5>1, <5>2
      <4>2. /\ s = sceneId /\ at[c] = "endIncr" /\ at'[c] = "ended" /\ found' = found
        BY <1>1, <1>n, <2>3, <2>s, <3>2, <4>1 DEF EndIncr
      <4>3. CASE Mine(c) = s
        BY <4>2, <4>3 DEF Gone, Mine
      <4>4. CASE s < Mine(c)
        BY <1>2, <1>3, <4>2, <4>4
      <4>5. CASE Mine(c) < s
        <5>1. Gone(Mine(c))
          BY <1>3, <1>m, <4>2, <4>5
        <5>2. EndedTwice(s)
          <6>1. CASE EndedTwice(Mine(c))
            <7>1. PICK d, e \in Conn : d # e /\ Mine(d) = Mine(e) /\ Mine(d) < Mine(c) /\ Over(d) /\ Over(e)
              BY <6>1 DEF EndedTwice, Over
            <7>2. Mine(d) < s
              BY <1>m, <2>s, <4>5, <7>1
            <7> QED BY <7>1, <7>2 DEF EndedTwice, Over
          <6>2. ASSUME NEW d \in Conn, at[d] = "ended", Mine(d) = Mine(c) PROVE EndedTwice(s)
            BY <4>2, <4>5, <6>2 DEF EndedTwice
          <6> QED BY <5>1, <6>1, <6>2 DEF Gone
        <5>3. Gone(s)
          BY <5>2 DEF Gone
        <5> QED BY <1>2, <5>3
      <4> QED BY <1>m, <2>s, <4>3, <4>4, <4>5
    <3> QED BY <3>1, <3>2
  <2> QED BY <1>4, <2>1, <2>2, <2>3
<1>5. \A d \in Conn : Over(d)' => scene'[Mine(d)'].end \/ Mine(d)' \in restarted'
  BY EndsStep
<1> QED BY <1>4, <1>5 DEF PassedInv, Gone

(***************************************************************************)
(* The theorems about scenes                                               *)
(***************************************************************************)
placeVars == <<at, found, sceneId, scene, restarted>>

LEMMA WhoMoves ==
    ASSUME TypeInv, [Next]_unitVars
    PROVE  (\E c \in Conn : ScenesNext(c) /\ Connected(c) /\ UNCHANGED jobVars)
               \/ (\E j \in JobConn : FrameLost(j)) \/ UNCHANGED placeVars
BY DEF Next, Serves, Asks, Platform, LocalControl, Job, Cleans, unitVars, sceneVars, redisVars,
       connVars, auxVars, placeVars

LEMMA MovesOrStays ==
    ASSUME TypeInv, [Next]_unitVars
    PROVE  ScenesTypeOK /\ ((\E c \in Conn : Moves(c)) \/ UNCHANGED placeVars)
BY WhoMoves, Moving, EndUnitAssumption DEF TypeInv, ScenesInv

LEMMA ReachedKept == Spec => []ReachedInv
<1>1. Init => ReachedInv
  <2> SUFFICES ASSUME Init PROVE ReachedInv
    OBVIOUS
  <2>1. /\ \A c \in Conn : at[c] = "off" /\ found[c] = 0
        /\ \A s \in SceneNo : ~scene[s].end
    BY DEF Init, ScenesInit, NoRecord
  <2> QED BY <2>1 DEF ReachedInv, Reached
<1>2. TypeInv /\ ReachedInv /\ [Next]_unitVars => ReachedInv'
  <2> SUFFICES ASSUME TypeInv, ReachedInv, [Next]_unitVars PROVE ReachedInv'
    OBVIOUS
  <2>1. CASE UNCHANGED placeVars
    BY <2>1 DEF placeVars, ReachedInv, Reached, FirstRace, Mine
  <2> QED BY <2>1, MovesOrStays, ReachedStep
<1> QED BY <1>1, <1>2, TypesKept, PTL DEF Spec

\* However clients connect, start and end, the scene in which the next session
\* will work has not ended, but for an INCR that is outstanding or has failed,
\* and the race of two clients that found no id (processor.go, UnitControlMsg;
\* client.go, NewClient).
THEOREM CurrentSceneStaysOpen == Spec => []CurrentSceneIsOpen
<1>1. Init => CurrentSceneIsOpen
  <2> SUFFICES ASSUME Init PROVE ~scene[sceneId].end
    BY DEF CurrentSceneIsOpen
  <2>1. sceneId = 0 /\ 0 \in SceneNo /\ scene = [s \in SceneNo |-> NoRecord]
    BY ScenesAssumption DEF Init, ScenesInit, SceneNo
  <2> QED BY <2>1 DEF NoRecord
<1>2. TypeInv /\ ReachedInv /\ CurrentSceneIsOpen /\ [Next]_unitVars => CurrentSceneIsOpen'
  <2> SUFFICES ASSUME TypeInv, ReachedInv, CurrentSceneIsOpen, [Next]_unitVars
               PROVE  CurrentSceneIsOpen'
    OBVIOUS
  <2>1. CASE UNCHANGED placeVars
    BY <2>1 DEF placeVars, CurrentSceneIsOpen, FirstRace, Mine
  <2> QED BY <2>1, MovesOrStays, OpenStep
<1> QED BY <1>1, <1>2, TypesKept, ReachedKept, PTL DEF Spec

LEMMA PassedKept == Spec => []PassedInv
<1>1. Init => PassedInv
  <2> SUFFICES ASSUME Init PROVE PassedInv
    OBVIOUS
  <2>1. sceneId = 0 /\ \A c \in Conn : at[c] = "off"
    BY DEF Init, ScenesInit
  <2>2. \A s \in SceneNo : ~(s < sceneId)
    BY <2>1 DEF SceneNo
  <2> QED BY <2>1, <2>2 DEF PassedInv, Over
<1>2. TypeInv /\ ReachedInv /\ PassedInv /\ [Next]_unitVars => PassedInv'
  <2> SUFFICES ASSUME TypeInv, ReachedInv, PassedInv, [Next]_unitVars PROVE PassedInv'
    OBVIOUS
  <2>1. CASE UNCHANGED placeVars
    <3>1. \A c \in Conn : Mine(c)' = Mine(c) /\ Over(c)' = Over(c)
      BY <2>1 DEF placeVars, Mine, Over
    <3>2. \A s \in SceneNo : EndedTwice(s)' = EndedTwice(s)
      BY <2>1 DEF placeVars, Mine, EndedTwice
    <3> QED BY <2>1, <3>1, <3>2 DEF placeVars, PassedInv
  <2> QED BY <2>1, MovesOrStays, PassedStep
<1> QED BY <1>1, <1>2, TypesKept, ReachedKept, PTL DEF Spec

LEMMA PassedIsEnded == TypeInv /\ PassedInv => PassedScenesWereEnded
<1> SUFFICES ASSUME TypeInv, PassedInv, NEW s \in 1..(sceneId - 1)
             PROVE  scene[s].end \/ s \in restarted \/ EndedTwice(s)
  BY DEF PassedScenesWereEnded
<1>1. sceneId \in SceneNo
  BY DEF TypeInv, ScenesInv, ScenesTypeOK
<1>2. s \in SceneNo \ {0} /\ s < sceneId
  BY <1>1, ScenesAssumption DEF SceneNo
<1> QED BY <1>2 DEF PassedInv, Over

\* A unit never passes a scene that nobody ended, unless an earlier one was
\* ended by two clients, each of which counted the id up (processor.go,
\* UnitControlMsg).
THEOREM PassedScenesHaveEnded == Spec => []PassedScenesWereEnded
BY PassedIsEnded, PassedKept, TypesKept, PTL

\* A scene id is there because some client that found none has set it, and who
\* is connected has one.
SetBefore ==
    /\ \A c \in Conn : at[c] \notin {"off", "setId", "out"} => sceneId # 0
    /\ sceneId # 0 => \E d \in Conn : found[d] = 0 /\ at[d] \notin {"off", "setId"}

LEMMA SetBeforeStep ==
    ASSUME ScenesTypeOK, ReachedInv, SetBefore, NEW c \in Conn, Moves(c) PROVE SetBefore'
<1> USE DEF redisVars, auxVars, Goes
<1>1. /\ at \in [Conn -> ConnAt] /\ found \in [Conn -> SceneNo] /\ sceneId \in Nat
      /\ at' \in [Conn -> ConnAt]
  <2>1. sceneId \in SceneNo
    BY DEF ScenesTypeOK
  <2>2. sceneId \in Nat
    BY <2>1, ScenesAssumption DEF SceneNo
  <2> QED BY <2>2, Staying DEF ScenesTypeOK
<1>2. \A d \in Conn \ {c} : at'[d] = at[d] /\ found'[d] = found[d]
  BY Staying
<1>3. CASE SetSceneId(c)
  <2>1. sceneId' = 1 /\ at'[c] = "on" /\ found'[c] = found[c] /\ found[c] = 0
    BY <1>1, <1>3 DEF SetSceneId, ReachedInv
  <2> QED BY <2>1 DEF SetBefore
<1>4. CASE ~SetSceneId(c)
  <2>1. sceneId # 0 => sceneId' # 0
    BY <1>1, <1>4 DEF Moves, Connect, EndSet, EndIncr, StartUnit, Passes
  <2>2. /\ sceneId' # 0 => sceneId # 0
        /\ at'[c] \notin {"off", "setId", "out"} => sceneId' # 0
    BY <1>1, <1>4, <2>1 DEF SetBefore, Moves, Connect, EndSet, EndIncr, StartUnit, Passes, Takes
  <2>3. at[c] \notin {"off", "setId"} => at'[c] \notin {"off", "setId"} /\ found'[c] = found[c]
    BY <1>1, <1>4 DEF Moves, Connect, EndSet, EndIncr, StartUnit, Passes
  <2> QED BY <1>2, <2>1, <2>2, <2>3 DEF SetBefore
<1> QED BY <1>3, <1>4

LEMMA SetBeforeKept == Spec => []SetBefore
<1>1. Init => SetBefore
  BY DEF Init, ScenesInit, SetBefore
<1>2. TypeInv /\ ReachedInv /\ SetBefore /\ [Next]_unitVars => SetBefore'
  <2> SUFFICES ASSUME TypeInv, ReachedInv, SetBefore, [Next]_unitVars PROVE SetBefore'
    OBVIOUS
  <2>1. CASE UNCHANGED placeVars
    BY <2>1 DEF placeVars, SetBefore
  <2> QED BY <2>1, MovesOrStays, SetBeforeStep
<1> QED BY <1>1, <1>2, TypesKept, ReachedKept, PTL DEF Spec

\* A unit never goes back to an earlier scene, except by a client that found no
\* scene and sets the first one after another client that found none has done
\* so already: GET and SET are two commands (client.go, NewClient).
THEOREM SceneFallsBackOnlyByLateFirst == Spec => SceneFallsBackOnlyLate
<1>1. TypeInv /\ SetBefore /\ [Next]_unitVars => [sceneId' < sceneId => LateFirst]_sceneVars
  <2> SUFFICES ASSUME TypeInv, SetBefore, [Next]_unitVars, sceneId' < sceneId
               PROVE  LateFirst
    OBVIOUS
  <2>1. sceneId \in Nat
    <3>1. sceneId \in SceneNo
      BY DEF TypeInv, ScenesInv, ScenesTypeOK
    <3> QED BY <3>1, ScenesAssumption DEF SceneNo
  <2>2. PICK c \in Conn : Moves(c)
    BY <2>1, MovesOrStays DEF placeVars
  <2>3. SetSceneId(c)
    <3>1. EndIncr(c) => sceneId' = sceneId + 1
      BY DEF EndIncr
    <3>2. SetSceneId(c) \/ EndIncr(c) \/ sceneId' = sceneId
      BY <2>2 DEF Moves, Connect, EndSet, StartUnit, Passes, redisVars
    <3> QED BY <2>1, <3>1, <3>2
  <2>4. at[c] = "setId" /\ sceneId # 0
    BY <2>1, <2>3 DEF SetSceneId
  <2>5. PICK d \in Conn : found[d] = 0 /\ at[d] \notin {"off", "setId"}
    BY <2>4 DEF SetBefore
  <2>6. c # d
    BY <2>4, <2>5
  <2> QED BY <2>4, <2>5, <2>6 DEF LateFirst
<1> QED BY <1>1, TypesKept, SetBeforeKept, PTL DEF Spec, SceneFallsBackOnlyLate

(***************************************************************************)
(* The job that ends units                                                 *)
(***************************************************************************)

\* A key was set for a scene that was the current one; all the job goes by are
\* such keys, and its connections are there once it has dialled them.
KeyInv ==
    /\ \A s \in SceneNo : runKey[s] # "none" => s # 0 /\ (s <= sceneId \/ FirstRace)
    /\ \A s \in scanned \cup monitored \cup todo : runKey[s] # "none"
    /\ monitor \in {"get", "ttl", "token", "dial"} => runKey[cur] # "none"
    /\ \A j \in JobConn : IF target[j] = None THEN at[j] = "off" ELSE runKey[target[j]] # "none"

LEMMA KeysStayKnown ==
    ASSUME EndUnitTypeOK, JobAlone \/ JobAndToken \/ UNCHANGED jobVars
    PROVE  \A s \in SceneNo : /\ runKey[s] # "none" => runKey'[s] # "none"
                              /\ runKey[s] = "gone" => runKey'[s] = "gone"
<1> USE DEF JobExits, jobVars, busVars
<1>1. runKey \in [SceneNo -> {"none", "set", "gone"}] /\ RunScenes \subseteq SceneNo
  BY EndUnitAssumption DEF EndUnitTypeOK
<1>2. ASSUME NEW s \in RunScenes, RunBegins(s) \/ RunExpires(s)
      PROVE  \A t \in SceneNo : /\ runKey[t] # "none" => runKey'[t] # "none"
                                /\ runKey[t] = "gone" => runKey'[t] = "gone"
  BY <1>1, <1>2 DEF RunBegins, RunExpires
<1>3. (\E s \in RunScenes : RunBegins(s) \/ RunExpires(s)) \/ runKey' = runKey
  BY DEF JobAlone, JobAndToken, JobStarts, Scan, Add, AddIsFatal, Kill, KillEnds, Monitor, Tick,
         NextUnit, GetScene, CheckTtl, Dial, RedisBreaks, GetToken, DialFails
<1> QED BY <1>2, <1>3

\* What the job goes by, it has from the keys of a scan.
LEMMA JobGoesByKeys ==
    ASSUME EndUnitTypeOK, MonitorInv, KeyInv, JobAlone \/ JobAndToken
    PROVE  /\ \A s \in scanned' \cup monitored' \cup todo' : runKey'[s] # "none"
           /\ monitor' \in {"get", "ttl", "token", "dial"} => runKey'[cur'] # "none"
<1> USE DEF JobExits, busVars, MonitorAt, MonitorGoes
<1>1. /\ scanned \subseteq SceneNo /\ monitored \subseteq SceneNo /\ todo \subseteq SceneNo
      /\ \A s \in scanned \cup monitored \cup todo : runKey[s] # "none"
      /\ monitor \in {"get", "ttl", "token", "dial"} => runKey[cur] # "none"
  BY DEF EndUnitTypeOK, KeyInv
<1>2. ASSUME NEW s \in RunScenes, RunBegins(s) \/ RunExpires(s)
      PROVE  UNCHANGED <<scanned, monitored, todo, monitor, cur>>
  BY <1>2 DEF RunBegins, RunExpires
<1>3. CASE \E s \in RunScenes : RunBegins(s) \/ RunExpires(s)
  <2>1. UNCHANGED <<scanned, monitored, todo, monitor, cur>>
    BY <1>2, <1>3
  <2>2. \A s \in SceneNo : runKey[s] # "none" => runKey'[s] # "none"
    BY <1>3, KeysStayKnown DEF JobAlone
  <2>3. monitor \in {"get", "ttl", "token", "dial"} => runKey'[cur] # "none"
    BY <1>1, <2>2 DEF MonitorInv
  <2> QED BY <1>1, <2>1, <2>2, <2>3
<1>4. CASE JobStarts \/ Kill \/ KillEnds \/ RedisBreaks \/ GetToken \/ DialFails
  BY <1>1, <1>4 DEF JobStarts, Kill, KillEnds, RedisBreaks, GetToken, DialFails
<1>5. CASE Scan
  BY <1>1, <1>5 DEF Scan
<1>6. ASSUME NEW s \in SceneNo, Add(s) \/ AddIsFatal(s)
      PROVE  /\ \A t \in scanned' \cup monitored' \cup todo' : runKey'[t] # "none"
             /\ monitor' \in {"get", "ttl", "token", "dial"} => runKey'[cur'] # "none"
  <2>1. CASE AddIsFatal(s)
    BY <2>1 DEF AddIsFatal
  <2>2. CASE Add(s)
    <3>1. /\ scanned' \subseteq scanned /\ monitored' = monitored \cup {s}
          /\ todo' \subseteq todo \cup {s} /\ s \in scanned
          /\ UNCHANGED <<runKey, monitor, cur>>
      BY <2>2 DEF Add
    <3> QED BY <1>1, <3>1
  <2> QED BY <1>6, <2>1, <2>2
<1>7. CASE Tick \/ NextUnit \/ GetScene \/ CheckTtl \/ \E j \in JobConn : Dial(j)
  BY <1>1, <1>7 DEF Tick, NextUnit, GetScene, CheckTtl, Dial
<1> QED BY <1>3, <1>4, <1>5, <1>6, <1>7 DEF JobAlone, JobAndToken, Monitor

LEMMA JobKeepsKeys ==
    ASSUME ScenesTypeOK, EndUnitTypeOK, MonitorInv, KeyInv, JobAlone \/ JobAndToken,
           UNCHANGED <<at, found, sceneId, scene>>
    PROVE  KeyInv'
<1> USE DEF JobExits, busVars, MonitorAt, MonitorGoes
<1>1. /\ runKey \in [SceneNo -> {"none", "set", "gone"}] /\ RunScenes \subseteq SceneNo \ {0}
      /\ target \in [Conn -> SceneNo \cup {None}] /\ JobConn \subseteq Conn
      /\ sceneId \in Nat
  <2>1. sceneId \in SceneNo
    BY DEF ScenesTypeOK
  <2>2. sceneId \in Nat
    BY <2>1, ScenesAssumption DEF SceneNo
  <2> QED BY <2>2, EndUnitAssumption DEF EndUnitTypeOK
<1>f. FirstRace' = FirstRace
  BY DEF FirstRace
<1>2. ASSUME NEW s \in SceneNo, runKey'[s] # "none" PROVE s # 0 /\ (s <= sceneId \/ FirstRace)
  <2>1. CASE runKey[s] # "none"
    BY <2>1 DEF KeyInv
  <2>2. CASE runKey[s] = "none"
    <3>1. PICK t \in RunScenes : RunBegins(t) \/ RunExpires(t)
      BY <1>2, <2>2 DEF JobAlone, JobAndToken, JobStarts, Scan, Add, AddIsFatal, Kill, KillEnds,
         Monitor, Tick, NextUnit, GetScene, CheckTtl, Dial, RedisBreaks, GetToken, DialFails
    <3>2. s = t /\ RunBegins(t)
      BY <1>1, <1>2, <2>2, <3>1 DEF RunBegins, RunExpires
    <3> QED BY <1>1, <3>2 DEF RunBegins
  <2> QED BY <2>1, <2>2
<1>3. ASSUME NEW j \in JobConn
      PROVE  IF target'[j] = None THEN at[j] = "off" ELSE runKey'[target'[j]] # "none"
  <2>1. CASE UNCHANGED target
    <3>1. target[j] # None => target[j] \in SceneNo /\ runKey[target[j]] # "none"
      BY <1>1 DEF KeyInv
    <3>2. target[j] = None => at[j] = "off"
      BY DEF KeyInv
    <3> QED BY <2>1, <3>1, <3>2, KeysStayKnown
  <2>2. ASSUME NEW k \in JobConn, Dial(k)
        PROVE  IF target'[j] = None THEN at[j] = "off" ELSE runKey'[target'[j]] # "none"
    <3>1. /\ monitor = "dial" /\ target[k] = None /\ runKey' = runKey
          /\ target' = [target EXCEPT ![k] = cur]
      BY <2>2 DEF Dial
    <3>2. runKey[cur] # "none" /\ at[k] = "off"
      BY <3>1 DEF KeyInv
    <3> QED BY <1>1, <3>1, <3>2 DEF KeyInv
  <2>3. UNCHANGED target \/ \E k \in JobConn : Dial(k)
    BY DEF JobAlone, JobAndToken, RunBegins, RunExpires, JobStarts, Scan, Add, AddIsFatal, Kill,
       KillEnds, Monitor, Tick, NextUnit, GetScene, CheckTtl, RedisBreaks, GetToken, DialFails
  <2> QED BY <2>1, <2>2, <2>3
<1>4. /\ \A s \in scanned' \cup monitored' \cup todo' : runKey'[s] # "none"
      /\ monitor' \in {"get", "ttl", "token", "dial"} => runKey'[cur'] # "none"
  BY JobGoesByKeys
<1> QED BY <1>f, <1>2, <1>3, <1>4 DEF KeyInv

LEMMA ServingKeepsKeys ==
    ASSUME ScenesTypeOK, ReachedInv, KeyInv, NEW c \in Conn, Moves(c), Connected(c),
           UNCHANGED jobVars
    PROVE  KeyInv'
<1> USE DEF redisVars, auxVars, Goes
<1>1. UNCHANGED <<runKey, scanned, monitored, todo, monitor, cur, target>>
  BY DEF jobVars
<1>2. ASSUME NEW s \in SceneNo, runKey[s] # "none" PROVE s # 0 /\ (s <= sceneId' \/ FirstRace')
  <2>1. s # 0 /\ (s <= sceneId \/ FirstRace) /\ s \in Nat
    BY <1>2, ScenesAssumption DEF KeyInv, SceneNo
  <2>2. CASE FirstRace
    BY <2>1, <2>2, Lasting
  <2>3. CASE ~FirstRace
    <3>1. sceneId \in Nat
      <4>1. sceneId \in SceneNo
        BY DEF ScenesTypeOK
      <4> QED BY <4>1, ScenesAssumption DEF SceneNo
    <3>2. SetSceneId(c) => sceneId = 0
      BY <2>3 DEF SetSceneId, ReachedInv, Reached
    <3>3. EndIncr(c) => sceneId' = sceneId + 1
      BY DEF EndIncr
    <3>4. SetSceneId(c) \/ EndIncr(c) \/ sceneId' = sceneId
      BY DEF Moves, Connect, EndSet, StartUnit, Passes
    <3> QED BY <2>1, <2>3, <3>1, <3>2, <3>3, <3>4
  <2> QED BY <2>2, <2>3
<1>3. ASSUME NEW j \in JobConn
      PROVE  IF target[j] = None THEN at'[j] = "off" ELSE runKey[target[j]] # "none"
  <2>1. target[j] = None => j # c /\ j \in Conn /\ at[j] = "off"
    BY EndUnitAssumption DEF Connected, KeyInv
  <2>2. target[j] = None => at'[j] = "off"
    BY <2>1, Staying
  <2> QED BY <2>2 DEF KeyInv
<1> QED BY <1>1, <1>2, <1>3 DEF KeyInv

LEMMA JobScenesStep ==
    ASSUME TypeInv, ReachedInv, PassedInv, KeyInv, JobEndsItsScene, NEW c \in Conn, Moves(c),
           UNCHANGED jobVars
    PROVE  JobEndsItsScene'
<1> USE DEF redisVars, auxVars, Goes
<1>0. ScenesTypeOK /\ EndUnitTypeOK
  BY DEF TypeInv, ScenesInv
<1>1. /\ at \in [Conn -> ConnAt] /\ found \in [Conn -> SceneNo] /\ sceneId \in SceneNo
      /\ scene \in [SceneNo -> SceneRecord] /\ Mine(c) \in SceneNo /\ target' = target
      /\ target \in [Conn -> SceneNo \cup {None}] /\ JobConn \subseteq Conn
  BY <1>0, MineType, EndUnitAssumption DEF ScenesTypeOK, EndUnitTypeOK, jobVars
<1> DEFINE Done(t) == scene[t].end \/ t \in restarted \/ EndedTwice(t) \/ FirstRace
<1>2. ASSUME NEW t \in SceneNo, Done(t) PROVE Done(t)'
  <2>1. CASE EndedTwice(t) \/ FirstRace
    BY <1>0, <2>1, Lasting
  <2>2. CASE scene[t].end \/ t \in restarted
    <3>1. CASE StartUnit(c)
      BY <1>1, <2>2, <3>1 DEF StartUnit
    <3>2. CASE EndSet(c)
      BY <1>1, <2>2, <3>2 DEF EndSet
    <3>3. CASE Connect(c) \/ SetSceneId(c) \/ EndIncr(c) \/ Passes(c)
      BY <2>2, <3>3 DEF Connect, SetSceneId, EndIncr, Passes
    <3> QED BY <3>1, <3>2, <3>3 DEF Moves
  <2> QED BY <1>2, <2>1, <2>2
<1>3. ASSUME NEW j \in JobConn, target[j] # None, at'[j] \notin {"off", "out"}
      PROVE  Mine(j)' = target[j] \/ Done(target[j])'
  <2>1. target[j] \in SceneNo /\ runKey[target[j]] # "none" /\ j \in Conn
    BY <1>1, <1>3 DEF KeyInv
  <2>2. CASE at[j] \notin {"off", "out"}
    <3>1. Mine(j)' = Mine(j)
      BY <1>0, <2>1, <2>2, Staying DEF Mine
    <3> QED BY <1>1, <1>2, <1>3, <2>1, <2>2, <3>1 DEF JobEndsItsScene
  <2>3. CASE at[j] = "out"
    <3>1. at'[j] = "out"
      BY <1>0, <1>1, <2>1, <2>3, Staying DEF Moves, Connect, SetSceneId, EndSet, EndIncr,
                                             StartUnit, Takes, Passes
    <3> QED BY <1>3, <3>1
  \* It reads the id of the current scene, which is its own or a later one.
  <2>4. CASE at[j] = "off"
    <3>1. c = j
      BY <1>0, <1>3, <2>1, <2>4, Staying
    <3>2. Connect(j)
      BY <1>1, <1>3, <2>1, <2>4, <3>1 DEF Moves, SetSceneId, EndSet, EndIncr, StartUnit, Takes,
                                          Passes
    <3>3. found'[j] = sceneId
      BY <1>1, <2>1, <3>2 DEF Connect
    <3>4. target[j] # 0 /\ (target[j] <= sceneId \/ FirstRace)
      BY <2>1 DEF KeyInv
    <3>5. sceneId \in Nat /\ target[j] \in Nat
      BY <1>1, <2>1, ScenesAssumption DEF SceneNo
    <3>6. CASE FirstRace
      BY <1>1, <1>2, <2>1, <3>6
    <3>7. CASE target[j] = sceneId
      BY <3>3, <3>4, <3>7 DEF Mine
    <3>8. CASE target[j] < sceneId
      <4>1. target[j] \in 1..(sceneId - 1)
        BY <3>4, <3>5, <3>8
      <4>2. Done(target[j])
        BY <4>1, PassedIsEnded DEF PassedScenesWereEnded
      <4> QED BY <1>1, <1>2, <2>1, <4>2
    <3> QED BY <3>4, <3>5, <3>6, <3>7, <3>8
  <2> QED BY <2>2, <2>3, <2>4
<1> QED BY <1>1, <1>3 DEF JobEndsItsScene

LEMMA KeysKept == Spec => [](KeyInv /\ JobEndsItsScene)
<1>1. Init => KeyInv /\ JobEndsItsScene
  <2> SUFFICES ASSUME Init PROVE KeyInv /\ JobEndsItsScene
    OBVIOUS
  <2>1. /\ runKey = [s \in SceneNo |-> "none"] /\ scanned = {} /\ monitored = {} /\ todo = {}
        /\ monitor = "select" /\ target = [c \in Conn |-> None] /\ JobConn \subseteq Conn
        /\ at = [c \in Conn |-> "off"]
    BY EndUnitAssumption DEF Init, EndUnitInit, ScenesInit
  <2> QED BY <2>1 DEF KeyInv, JobEndsItsScene
<1>2. TypeInv /\ ReachedInv /\ PassedInv /\ KeyInv /\ JobEndsItsScene /\ [Next]_unitVars
         => KeyInv' /\ JobEndsItsScene'
  <2> SUFFICES ASSUME TypeInv, ReachedInv, PassedInv, KeyInv, JobEndsItsScene, [Next]_unitVars
               PROVE  KeyInv' /\ JobEndsItsScene'
    OBVIOUS
  <2>0. ScenesInv /\ ScenesTypeOK /\ EndUnitTypeOK /\ MonitorInv
    BY DEF TypeInv, ScenesInv
  <2>1. ASSUME NEW c \in Conn, Moves(c), Connected(c), UNCHANGED jobVars
        PROVE  KeyInv' /\ JobEndsItsScene'
    BY <2>0, <2>1, ServingKeepsKeys, JobScenesStep
  <2>2. ASSUME JobAlone \/ JobAndToken, UNCHANGED placeVars PROVE KeyInv' /\ JobEndsItsScene'
    <3>1. UNCHANGED <<at, found, sceneId, scene, restarted>>
      BY <2>2 DEF placeVars
    <3>2. KeyInv'
      BY <2>0, <2>2, <3>1, JobKeepsKeys
    <3>3. ASSUME NEW j \in JobConn, target'[j] # None, at[j] \notin {"off", "out"}
          PROVE  target'[j] = target[j] /\ target[j] # None
      <4>1. target[j] # None
        BY <3>3 DEF KeyInv
      <4>2. target \in [Conn -> SceneNo \cup {None}] /\ j \in Conn
        BY <2>0, EndUnitAssumption DEF EndUnitTypeOK
      <4>3. UNCHANGED target \/ \E k \in JobConn : Dial(k)
        BY <2>2 DEF JobAlone, JobAndToken, RunBegins, RunExpires, JobStarts, Scan, Add, AddIsFatal,
             Kill, KillEnds, Monitor, Tick, NextUnit, GetScene, CheckTtl, RedisBreaks, GetToken,
             DialFails, JobExits
      <4> QED BY <4>1, <4>2, <4>3 DEF Dial
    <3>4. JobEndsItsScene'
      BY <3>1, <3>3 DEF JobEndsItsScene, Mine, EndedTwice, FirstRace
    <3> QED BY <3>2, <3>4
  <2>3. CASE UNCHANGED <<placeVars, jobVars>>
    BY <2>3 DEF placeVars, jobVars, KeyInv, JobEndsItsScene, Mine, EndedTwice, FirstRace
  <2>4. ASSUME NEW c \in Conn, Serves(c) PROVE KeyInv' /\ JobEndsItsScene'
    BY <2>0, <2>1, <2>4, Moving DEF Serves
  <2>5. ASSUME NEW j \in JobConn, FrameLost(j) PROVE KeyInv' /\ JobEndsItsScene'
    <3>1. j \in Conn /\ Connected(j) /\ UNCHANGED jobVars
      BY <2>5, EndUnitAssumption DEF FrameLost, Connected, jobVars
    <3> QED BY <2>0, <2>1, <2>5, <3>1, Moving
  <2>6. CASE Job
    <3>1. \/ JobAlone /\ UNCHANGED sceneVars
          \/ JobAndToken /\ UNCHANGED <<plan, redisVars, at, found, sent, curmod, got, auxVars>>
          \/ \E j \in JobConn : FrameLost(j)
      BY <2>6 DEF Job
    <3> QED BY <2>2, <2>5, <3>1 DEF sceneVars, redisVars, connVars, auxVars, placeVars
  <2>7. CASE Asks \/ Platform \/ LocalControl \/ Cleans \/ UNCHANGED unitVars
    BY <2>3, <2>7 DEF Asks, Platform, LocalControl, Cleans, unitVars, sceneVars, redisVars,
                      connVars, auxVars, placeVars
  <2> QED BY <2>4, <2>6, <2>7 DEF Next
<1> QED BY <1>1, <1>2, TypesKept, ReachedKept, PassedKept, PTL DEF Spec

\* The job's frame ends the scene whose time was up, or one after it only where
\* that scene is over already; the exceptions are those of the property
\* (endunit_countdown.go, monitor and endUnit; client.go, NewClient).
THEOREM JobEndsTheRightScene == Spec => []JobEndsItsScene
BY KeysKept, PTL

\* What monitor knows of the scene it is at
WatchInv ==
    /\ monitor \in {"ttl", "token", "dial"} => broken \/ (isEndCloud <=> ended)
    /\ monitor \in {"token", "dial"} => broken \/ runKey[cur] = "gone"
    /\ monitor = "dial" => ~isEndCloud

LEMMA WatchStep ==
    ASSUME EndUnitTypeOK, MonitorInv, WatchInv, JobAlone \/ JobAndToken PROVE WatchInv'
<1> USE DEF MonitorAt, MonitorGoes, busVars
<1>b. isEndCloud \in BOOLEAN /\ broken \in BOOLEAN /\ ended \in BOOLEAN
  BY Zenon DEF EndUnitTypeOK
<1>1. CASE monitor' = "select"
  BY <1>1 DEF WatchInv
<1>2. ASSUME UNCHANGED <<monitor, cur, isEndCloud, broken, ended>> PROVE WatchInv'
  <2>1. monitor \in {"token", "dial"} => broken \/ runKey'[cur] = "gone"
    BY KeysStayKnown DEF WatchInv, MonitorInv
  <2> QED BY <1>2, <2>1, Zenon DEF WatchInv
<1>3. CASE RedisBreaks
  <2>1. broken' /\ UNCHANGED <<monitor, isEndCloud>>
    BY <1>3, Zenon DEF RedisBreaks
  <2> QED BY <2>1, Zenon DEF WatchInv
<1>4. CASE NextUnit
  BY <1>4 DEF NextUnit, WatchInv
<1>5. CASE GetScene
  <2>1. monitor' = "ttl"
    BY <1>5 DEF GetScene
  <2>2. broken' \/ (isEndCloud' <=> ended')
    BY <1>5, <1>b, Zenon DEF GetScene
  <2> QED BY <2>1, <2>2 DEF WatchInv
<1>6. CASE CheckTtl
  <2>1. monitor = "ttl" /\ UNCHANGED <<isEndCloud, broken, ended>>
    BY <1>6, Zenon DEF CheckTtl
  <2>2. monitor' = "range" \/ (monitor' = "token" /\ (broken \/ runKey'[cur'] = "gone"))
    BY <1>6 DEF CheckTtl
  <2> QED BY <2>1, <2>2, Zenon DEF WatchInv
<1>7. CASE GetToken
  <2>1. monitor = "token" /\ UNCHANGED <<isEndCloud, broken, ended>>
    BY <1>7, Zenon DEF GetToken
  <2>2. /\ runKey' = runKey /\ cur' = cur
        /\ monitor' \in {"range", "hung"} \/ (monitor' = "dial" /\ ~isEndCloud)
    BY <1>7 DEF GetToken
  <2>3. monitor' \in {"range", "hung"} => monitor' \notin {"token", "dial"}
    OBVIOUS
  <2> QED BY <2>1, <2>2, <2>3, Zenon DEF WatchInv
<1>8. CASE \E j \in JobConn : Dial(j)
  BY <1>8 DEF Dial, WatchInv
<1>9. CASE Tick
  BY <1>9 DEF Tick, WatchInv
<1>10. CASE KillEnds \/ DialFails \/ \E s \in SceneNo : AddIsFatal(s)
  BY <1>1, <1>10 DEF KillEnds, DialFails, AddIsFatal, JobExits
<1>11. CASE (\E s \in RunScenes : RunBegins(s) \/ RunExpires(s)) \/ JobStarts \/ Scan \/ Kill
              \/ \E s \in SceneNo : Add(s)
  <2>1. UNCHANGED <<monitor, cur, isEndCloud, broken, ended>>
    BY <1>11, Zenon DEF RunBegins, RunExpires, JobStarts, Scan, Kill, Add
  <2> QED BY <1>2, <2>1
<1> QED BY <1>3, <1>4, <1>5, <1>6, <1>7, <1>8, <1>9, <1>10, <1>11 DEF JobAlone, JobAndToken, Monitor

\* Only a scene is ended whose key has gone and that had not ended when the job
\* looked at it, as long as monitor's redis connection works: with a broken
\* one, GET and TTL of every unit fail, and each counts as one whose time is up
\* (endunit_countdown.go, monitor).
THEOREM OnlyExpiredScenesAreEnded == Spec => OnlyExpiredAreEnded
<1>1. Init => WatchInv
  BY DEF Init, EndUnitInit, WatchInv
<1>2. TypeInv /\ WatchInv /\ [Next]_unitVars => WatchInv'
  <2> SUFFICES ASSUME TypeInv, WatchInv, [Next]_unitVars PROVE WatchInv'
    OBVIOUS
  <2>1. CASE UNCHANGED jobVars
    BY <2>1, Zenon DEF jobVars, WatchInv
  <2>2. JobAlone \/ JobAndToken \/ UNCHANGED jobVars
    BY DEF Next, Serves, Asks, Platform, LocalControl, Job, FrameLost, Cleans, unitVars
  <2> QED BY <2>1, <2>2, WatchStep DEF TypeInv
<1>3. TypeInv /\ WatchInv /\ [Next]_unitVars =>
         [\A j \in JobConn : target[j] = None /\ target'[j] # None =>
             (runKey[target'[j]] = "gone" /\ ~ended) \/ broken]_jobVars
  <2> SUFFICES ASSUME TypeInv, WatchInv, [Next]_unitVars,
                      NEW j \in JobConn, target[j] = None, target'[j] # None
               PROVE  (runKey[target'[j]] = "gone" /\ ~ended) \/ broken
    OBVIOUS
  <2>1. target \in [Conn -> SceneNo \cup {None}] /\ j \in Conn
    BY EndUnitAssumption DEF TypeInv, EndUnitTypeOK
  <2>2. JobAlone \/ JobAndToken
    BY DEF Next, Serves, Asks, Platform, LocalControl, Job, FrameLost, Cleans, unitVars, jobVars
  <2>3. \E k \in JobConn : Dial(k)
    BY <2>2 DEF JobAlone, JobAndToken, RunBegins, RunExpires, JobStarts, Scan, Add, AddIsFatal, Kill,
       KillEnds, Monitor, Tick, NextUnit, GetScene, CheckTtl, RedisBreaks, GetToken, DialFails, JobExits
  <2>4. monitor = "dial" /\ target'[j] = cur
    BY <2>1, <2>3 DEF Dial, MonitorAt
  <2>5. ~isEndCloud /\ (broken \/ runKey[cur] = "gone") /\ (broken \/ (isEndCloud <=> ended))
    BY <2>4 DEF WatchInv
  <2> QED BY <2>4, <2>5, Zenon
<1> QED BY <1>1, <1>2, <1>3, TypesKept, PTL DEF Spec, OnlyExpiredAreEnded

(***************************************************************************)
(* The state of a module and the history of its instructions               *)
(***************************************************************************)

\* The instructions to modules among what the peers send
Told(peers) ==
    {id \in FrameId : /\ id.from \in DOMAIN peers /\ id.n \in 1..Len(peers[id.from])
                      /\ peers[id.from][id.n].op = "status"}

State == Msg \cup {NotMap, None}

LEMMA AfterType ==
    ASSUME NEW peers \in Plans, NEW id \in Told(peers), NEW old \in State
    PROVE  After(peers, old, id) \in State
<1> DEFINE frame == peers[id.from][id.n]
<1>1. id \in FrameId /\ id.from \in DOMAIN peers /\ id.n \in 1..Len(peers[id.from]) /\ frame.op = "status"
  BY DEF Told
<1>2. peers[id.from] \in Seq(Frame)
  BY <1>1, ScenesAssumption
<1>3. frame \in Frame
  BY <1>1, <1>2, ElementOfSeq
<1>4. frame.nm \in Name \cup {None, NotMap}
  BY <1>1, <1>3 DEF Frame
<1> HIDE DEF frame
<1>5. Merge(old, frame, id) \in Msg \cup {NotMap}
  BY <1>1, <1>4, MergeType DEF State
<1> QED BY <1>5 DEF After, State, frame

\* g is what becomes of the state by the instructions at each set of places of
\* a history.
Taken(g, peers, h) ==
    \A s \in SUBSET (1..Len(h)) :
       g[s] = IF s = {} THEN None ELSE After(peers, g[s \ {Max(s)}], h[Max(s)])

LEMMA MaxIn ==
    ASSUME NEW n \in Nat, NEW s \in SUBSET (1..n), s # {}
    PROVE  Max(s) \in s
<1> DEFINE Above(k) == \A x \in s : x <= k
           Some == {k \in Nat : Above(k) => \E y \in s : \A x \in s : y >= x}
<1>1. 0 \in Some
  <2>1. PICK x \in s : x \in 1..n
    OBVIOUS
  <2>2. ~(x <= 0)
    BY <2>1
  <2> QED BY <2>2
<1>2. ASSUME NEW k \in Nat, k \in Some PROVE k + 1 \in Some
  <2> SUFFICES ASSUME Above(k + 1) PROVE \E y \in s : \A x \in s : y >= x
    OBVIOUS
  <2>1. CASE k + 1 \in s
    BY <2>1
  <2>2. CASE k + 1 \notin s
    <3>1. Above(k)
      BY <2>2
    <3> QED BY <1>2, <3>1
  <2> QED BY <2>1, <2>2
<1> HIDE DEF Some
<1>3. n \in Some
  BY <1>1, <1>2, FromNumberToNumber
<1>4. \E y \in s : \A x \in s : y >= x
  BY <1>3 DEF Some
<1> QED BY <1>4 DEF Max

LEMMA ReplayTaken ==
    ASSUME NEW peers \in Plans, NEW h \in Seq(Told(peers))
    PROVE  \E g : Taken(g, peers, h) /\ Replayed(peers, h) = g[1..Len(h)]
<1> DEFINE S == 1..Len(h)
           Step(g) == [s \in SUBSET S |-> IF s = {} THEN None
                                          ELSE After(peers, g[s \ {Max(s)}], h[Max(s)])]
           F == [p \in S \X State |-> After(peers, p[2], h[p[1]])]
           C == [s \in SUBSET S |-> Max(s)]
<1>1. Len(h) \in Nat /\ IsFiniteSet(S) /\ DOMAIN h = S /\ \A i \in S : h[i] \in Told(peers)
  BY FS_Interval
<1>2. \A s \in SUBSET S : s # {} => C[s] \in s
  BY <1>1, MaxIn
<1>3. F \in [S \X State -> State]
  <2>1. ASSUME NEW p \in S \X State PROVE After(peers, p[2], h[p[1]]) \in State
    <3>1. h[p[1]] \in Told(peers) /\ p[2] \in State
      BY <1>1
    <3> QED BY <3>1, AfterType
  <2> QED BY <2>1
<1>4. PICK g \in [SUBSET S -> State] : FoldsAll(g, S, None, F, C)
  <2>1. None \in State
    BY DEF State
  <2> HIDE DEF F, C, S, State
  <2> QED BY <1>1, <1>2, <1>3, <2>1, FoldExists
<1>5. ASSUME NEW f \in [SUBSET S -> State], FoldsAll(f, S, None, F, C) PROVE Taken(f, peers, h)
  <2>1. ASSUME NEW s \in SUBSET S, s # {}
        PROVE  F[<<C[s], f[s \ {C[s]}]>>] = After(peers, f[s \ {Max(s)}], h[Max(s)])
    <3>1. C[s] = Max(s) /\ Max(s) \in S
      BY <1>2, <2>1
    <3>2. f[s \ {Max(s)}] \in State
      BY <2>1
    <3> QED BY <3>1, <3>2
  <2> QED BY <1>5, <2>1 DEF FoldsAll, Taken
<1>6. g = Step(g)
  BY <1>4, <1>5 DEF Taken
<1>7. Replayed(peers, h) = (CHOOSE f : f = Step(f))[S]
  BY <1>1 DEF Replayed, FoldLeft, MapThenFoldSet
<1> DEFINE G == CHOOSE f : f = Step(f)
<1>8. G = Step(G)
  BY <1>6
<1> HIDE DEF G
<1>9. Taken(G, peers, h)
  BY <1>8 DEF Taken
<1> QED BY <1>7, <1>9 DEF G

\* One more instruction is one more step of the replay.
LEMMA ReplayAppend ==
    ASSUME NEW peers \in Plans, NEW h \in Seq(Told(peers)), NEW id \in Told(peers)
    PROVE  Replayed(peers, Append(h, id)) = After(peers, Replayed(peers, h), id)
<1> DEFINE n == Len(h)
           k == Append(h, id)
<1>1. /\ n \in Nat /\ k \in Seq(Told(peers)) /\ Len(k) = n + 1 /\ k[n + 1] = id
      /\ \A i \in 1..n : k[i] = h[i]
  BY AppendProperties
<1>2. PICK f : Taken(f, peers, h) /\ Replayed(peers, h) = f[1..n]
  BY ReplayTaken
<1> HIDE DEF k
<1>3. PICK g : Taken(g, peers, k) /\ Replayed(peers, k) = g[1 .. (n + 1)]
  BY <1>1, ReplayTaken
<1> HIDE DEF n
<1>m. \A m \in Nat : /\ 1 .. (m + 1) # {} /\ (1 .. (m + 1)) \ {m + 1} = 1..m
                     /\ Max(1 .. (m + 1)) = m + 1
  <2> TAKE m \in Nat
  <2>1. 1 .. (m + 1) # {} /\ (1 .. (m + 1)) \ {m + 1} = 1..m
    <3>1. m + 1 \in 1 .. (m + 1)
      OBVIOUS
    <3>2. \A x : x \in (1 .. (m + 1)) \ {m + 1} <=> x \in 1..m
      OBVIOUS
    <3> QED BY <3>1, <3>2
  <2>2. Max(1 .. (m + 1)) \in 1 .. (m + 1) /\ \A x \in 1 .. (m + 1) : Max(1 .. (m + 1)) >= x
    <3>1. \E y \in 1 .. (m + 1) : \A x \in 1 .. (m + 1) : y >= x
      OBVIOUS
    <3> QED BY <3>1 DEF Max
  <2>3. Max(1 .. (m + 1)) = m + 1
    BY <2>2
  <2> QED BY <2>1, <2>3
<1>4. \A m \in Nat : m + 1 <= n + 1 =>
          g[1 .. (m + 1)] = After(peers, g[1..m], k[m + 1])
  <2> SUFFICES ASSUME NEW m \in Nat, m + 1 <= n + 1
               PROVE  g[1 .. (m + 1)] = After(peers, g[1..m], k[m + 1])
    OBVIOUS
  <2>1. m + 1 \in Nat /\ n + 1 \in Nat /\ Len(k) = n + 1
    BY <1>1
  <2>2. 1 .. (m + 1) \in SUBSET (1..Len(k))
    BY <2>1
  <2> QED BY <1>3, <1>m, <2>2 DEF Taken
<1>5. \A m \in Nat : m + 1 <= n =>
          f[1 .. (m + 1)] = After(peers, f[1..m], h[m + 1])
  <2> SUFFICES ASSUME NEW m \in Nat, m + 1 <= n
               PROVE  f[1 .. (m + 1)] = After(peers, f[1..m], h[m + 1])
    OBVIOUS
  <2>1. 1 .. (m + 1) \in SUBSET (1..Len(h))
    <3>1. 1 .. (m + 1) \in SUBSET (1..n)
      BY <1>1
    <3> QED BY <3>1 DEF n
  <2> QED BY <1>2, <1>m, <2>1 DEF Taken
<1> DEFINE Same == {m \in Nat : m <= n => f[1..m] = g[1..m]}
<1>6. 0 \in Same
  <2>1. 1..0 = {} /\ {} \in SUBSET (1..Len(h)) /\ {} \in SUBSET (1..Len(k))
    OBVIOUS
  <2>2. f[{}] = None /\ g[{}] = None
    BY <1>2, <1>3, <2>1 DEF Taken
  <2> QED BY <2>1, <2>2
<1>7. ASSUME NEW m \in Nat, m \in Same PROVE m + 1 \in Same
  <2> SUFFICES ASSUME m + 1 <= n PROVE f[1 .. (m + 1)] = g[1 .. (m + 1)]
    OBVIOUS
  <2>1. f[1..m] = g[1..m] /\ k[m + 1] = h[m + 1] /\ m + 1 <= n + 1
    BY <1>1, <1>7
  <2> QED BY <1>4, <1>5, <2>1
<1> HIDE DEF Same
<1>8. n \in Same
  BY <1>1, <1>6, <1>7, FromNumberToNumber
<1>9. f[1..n] = g[1..n] /\ g[1 .. (n + 1)] = After(peers, g[1..n], id)
  BY <1>1, <1>4, <1>8 DEF Same
<1> QED BY <1>2, <1>3, <1>9 DEF k

LEMMA ReplayNone == ASSUME NEW peers \in Plans PROVE Replayed(peers, <<>>) = None
<1>1. <<>> \in Seq(Told(peers)) /\ Len(<<>>) = 0 /\ 1..0 = {}
  OBVIOUS
<1>2. PICK g : Taken(g, peers, <<>>) /\ Replayed(peers, <<>>) = g[1..Len(<<>>)]
  BY <1>1, ReplayTaken
<1>3. {} \in SUBSET (1..Len(<<>>)) /\ 1..Len(<<>>) = {}
  BY <1>1
<1> QED BY <1>2, <1>3 DEF Taken

\* The connection is between the RPUSH and the HSET of this module.
Updating(c, s, mod) == at[c] \in {"hget", "hset"} /\ Mine(c) = s /\ curmod[c] = mod

\* The state is what the history gives, or will be when the only connection
\* that updates it has put its own instruction to what it has read.
Kept(s, mod) ==
    /\ \A c, d \in Conn : Updating(c, s, mod) /\ Updating(d, s, mod) => c = d
    /\ (\A c \in Conn : ~Updating(c, s, mod)) => status[s][mod] = Replay(s, mod)
    /\ \A c \in Conn : Updating(c, s, mod) =>
          /\ After(plan, status[s][mod], Id(c)) = Replay(s, mod)
          /\ at[c] = "hset" => got[c] = status[s][mod] /\ ~Discarded(Current(c), got[c])

StatusInv ==
    /\ \A s \in SceneNo : \A mod \in ModKey : hist[s][mod] \in Seq(Told(plan))
    /\ failures = 0 =>
          \A s \in SceneNo : \A mod \in ModKey : <<s, mod>> \in raced \/ Kept(s, mod)

\* The step is not about this module.
Undisturbed(s, mod) ==
    /\ plan' = plan /\ status'[s][mod] = status[s][mod] /\ hist'[s][mod] = hist[s][mod]
    /\ \A c \in Conn :
          IF Updating(c, s, mod)
            THEN Updating(c, s, mod)' /\ at'[c] = at[c] /\ sent'[c] = sent[c] /\ got'[c] = got[c]
            ELSE ~Updating(c, s, mod)'

LEMMA KeptStays ==
    ASSUME NEW s, NEW mod, Undisturbed(s, mod), Kept(s, mod) PROVE Kept(s, mod)'
<1>1. Replay(s, mod)' = Replay(s, mod)
  BY DEF Replay, Undisturbed
<1>2. \A c \in Conn : Updating(c, s, mod)' <=> Updating(c, s, mod)
  BY DEF Undisturbed
<1>3. \A c \in Conn : Updating(c, s, mod) => Id(c)' = Id(c) /\ Current(c)' = Current(c)
  BY DEF Undisturbed, Id, Current
<1>4. ASSUME NEW c \in Conn, Updating(c, s, mod)
      PROVE  /\ After(plan, status[s][mod], Id(c))' = Replay(s, mod)
             /\ at'[c] = "hset" => got'[c] = status'[s][mod] /\ ~Discarded(Current(c)', got'[c])
  BY <1>3, <1>4 DEF Kept, Undisturbed
<1> QED BY <1>1, <1>2, <1>4 DEF Kept, Undisturbed

LEMMA PushKeepsStatus ==
    ASSUME ScenesInv, StatusInv, NEW c \in Conn, PushStatus(c) PROVE StatusInv'
<1> USE DEF redisVars, auxVars, Goes
<1>1. /\ at \in [Conn -> ConnAt] /\ found \in [Conn -> SceneNo] /\ plan \in Plans
      /\ curmod \in [Conn -> ModKey] /\ hist \in [SceneNo -> [ModKey -> Seq(FrameId)]]
      /\ Mine(c) \in SceneNo
  BY MineType DEF ScenesInv, ScenesTypeOK
<1>2. /\ c \in DOMAIN plan /\ sent[c] + 1 \in 1..Len(plan[c]) /\ sent'[c] = sent[c] + 1
      /\ plan[c][sent[c] + 1].op = "status" /\ at[c] = "on"
      /\ [from |-> c, n |-> sent[c] + 1] \in FrameId
  BY TakesType DEF PushStatus
<1>3. PICK mod \in ModKey, s \in SceneNo, id \in FrameId :
         /\ s = Mine(c) /\ id = [from |-> c, n |-> sent[c] + 1]
         /\ curmod' = [curmod EXCEPT ![c] = mod] /\ raced' = raced \cup Overlap(c, mod)
         /\ hist' = [hist EXCEPT ![s][mod] = Append(@, id)]
  <2> DEFINE given == plan[c][sent[c] + 1].mod
             mod == IF given = NoMod THEN curmod[c] ELSE given
  <2>1. mod \in ModKey
    BY <1>1, <1>2, FrameType DEF ScenesInv
  <2>2. /\ curmod' = [curmod EXCEPT ![c] = mod] /\ raced' = raced \cup Overlap(c, mod)
        /\ hist' = [hist EXCEPT ![Mine(c)][mod] = Append(@, [from |-> c, n |-> sent[c] + 1])]
    BY DEF PushStatus
  <2> HIDE DEF mod
  <2> QED BY <1>1, <1>2, <2>1, <2>2
<1>4. id \in Told(plan)
  BY <1>2, <1>3 DEF Told
<1>5. at' = [at EXCEPT ![c] = "hget"] /\ UNCHANGED <<plan, status, found, got, failures>>
  BY DEF PushStatus
<1>6. Id(c)' = id
  BY <1>2, <1>3 DEF Id
<1>7. \A d \in Conn \ {c} : /\ at'[d] = at[d] /\ sent'[d] = sent[d] /\ got'[d] = got[d]
                            /\ found'[d] = found[d] /\ curmod'[d] = curmod[d]
  <2>1. ScenesNext(c)
    BY DEF ScenesNext, Process
  <2> QED BY <2>1, OthersStay DEF ScenesInv
<1>8. \A t \in SceneNo : \A o \in ModKey : \A d \in Conn \ {c} :
          Updating(d, t, o)' <=> Updating(d, t, o)
  BY <1>7 DEF Updating, Mine
<1>9. /\ hist'[s][mod] = Append(hist[s][mod], id) /\ hist[s][mod] \in Seq(Told(plan))
      /\ \A t \in SceneNo : \A o \in ModKey : <<t, o>> # <<s, mod>> => hist'[t][o] = hist[t][o]
  BY <1>1, <1>3 DEF StatusInv
<1>10. ASSUME NEW t \in SceneNo, NEW o \in ModKey PROVE hist'[t][o] \in Seq(Told(plan)')
  <2>1. Append(hist[s][mod], id) \in Seq(Told(plan))
    BY <1>4, <1>9, AppendProperties
  <2>2. Told(plan)' = Told(plan)
    BY <1>5
  <2>3. CASE <<t, o>> # <<s, mod>>
    BY <1>9, <2>2, <2>3 DEF StatusInv
  <2>4. CASE t = s /\ o = mod
    BY <1>9, <2>1, <2>2, <2>4
  <2> QED BY <2>3, <2>4
<1>11. \A t \in SceneNo : \A o \in ModKey :
          ~Updating(c, t, o) /\ (Updating(c, t, o)' <=> t = s /\ o = mod)
  BY <1>1, <1>2, <1>3, <1>5 DEF Updating, Mine
<1>12. ASSUME NEW t \in SceneNo, NEW o \in ModKey, <<t, o>> # <<s, mod>>, Kept(t, o)
       PROVE  Kept(t, o)'
  <2>1. \A d \in Conn : ~Updating(d, t, o) => ~Updating(d, t, o)'
    BY <1>8, <1>11, <1>12
  <2>2. \A d \in Conn : Updating(d, t, o) =>
            Updating(d, t, o)' /\ at'[d] = at[d] /\ sent'[d] = sent[d] /\ got'[d] = got[d]
    BY <1>7, <1>8, <1>11
  <2>3. Undisturbed(t, o)
    BY <1>5, <1>9, <1>12, <2>1, <2>2 DEF Undisturbed
  <2> QED BY <1>12, <2>3, KeptStays
<1>13. ASSUME Overlap(c, mod) = {}, Kept(s, mod) PROVE Kept(s, mod)'
  <2>1. \A d \in Conn \ {c} : ~Updating(d, s, mod)
    BY <1>3, <1>13 DEF Overlap, Updating
  <2>2. \A d \in Conn : ~Updating(d, s, mod)
    BY <1>11, <2>1
  <2>3. \A d \in Conn : Updating(d, s, mod)' <=> d = c
    BY <1>8, <1>11, <2>1
  <2>4. status[s][mod] = Replay(s, mod)
    BY <1>13, <2>2 DEF Kept
  <2>5. Replay(s, mod)' = After(plan, Replay(s, mod), id)
    <3>1. Replay(s, mod)' = Replayed(plan, Append(hist[s][mod], id))
      BY <1>5, <1>9 DEF Replay
    <3> QED BY <1>1, <1>4, <1>9, <3>1, ReplayAppend DEF Replay
  <2>6. After(plan, status[s][mod], Id(c))' = Replay(s, mod)'
    BY <1>5, <1>6, <2>4, <2>5
  <2>7. at'[c] # "hset"
    BY <1>1, <1>5
  <2> QED BY <2>3, <2>6, <2>7 DEF Kept
<1>14. ASSUME failures' = 0, NEW t \in SceneNo, NEW o \in ModKey
       PROVE  <<t, o>> \in raced' \/ Kept(t, o)'
  <2>1. <<t, o>> \in raced \/ Kept(t, o)
    BY <1>5, <1>14 DEF StatusInv
  <2>2. CASE <<t, o>> # <<s, mod>>
    BY <1>3, <1>12, <2>1, <2>2
  <2>3. CASE t = s /\ o = mod
    <3>1. Overlap(c, mod) = {} \/ <<s, mod>> \in Overlap(c, mod)
      BY <1>3 DEF Overlap
    <3> QED BY <1>3, <1>13, <2>1, <2>3, <3>1
  <2> QED BY <2>2, <2>3
<1> QED BY <1>10, <1>14 DEF StatusInv

LEMMA GetKeepsStatus ==
    ASSUME ScenesInv, StatusInv, NEW c \in Conn, GetStatus(c) PROVE StatusInv'
<1> USE DEF redisVars, auxVars, Goes
<1>1. /\ at \in [Conn -> ConnAt] /\ curmod \in [Conn -> ModKey] /\ Mine(c) \in SceneNo
      /\ got \in [Conn -> SceneRecord \cup Msg \cup {NotMap, None}]
  BY MineType DEF ScenesInv, ScenesTypeOK
<1>2. PICK s \in SceneNo, mod \in ModKey : s = Mine(c) /\ mod = curmod[c]
  BY <1>1
<1>3. /\ at[c] = "hget" /\ UNCHANGED <<plan, status, hist, found, sent, curmod, failures, raced>>
      /\ \/ /\ Discarded(Current(c), status[s][mod])
            /\ at' = [at EXCEPT ![c] = "on"] /\ got' = got
         \/ /\ ~Discarded(Current(c), status[s][mod])
            /\ at' = [at EXCEPT ![c] = "hset"] /\ got' = [got EXCEPT ![c] = status[s][mod]]
  BY <1>2 DEF GetStatus
<1>4. \A d \in Conn \ {c} : at'[d] = at[d] /\ got'[d] = got[d]
  BY <1>1, <1>3
<1>5. \A t \in SceneNo : \A o \in ModKey : \A d \in Conn \ {c} :
          Updating(d, t, o)' <=> Updating(d, t, o)
  BY <1>3, <1>4 DEF Updating, Mine
<1>6. \A t \in SceneNo : \A o \in ModKey :
          /\ Updating(c, t, o) <=> t = s /\ o = mod
          /\ Updating(c, t, o)' <=> t = s /\ o = mod /\ at'[c] = "hset"
  BY <1>1, <1>2, <1>3 DEF Updating, Mine
<1>7. ASSUME NEW t \in SceneNo, NEW o \in ModKey, <<t, o>> # <<s, mod>>, Kept(t, o)
      PROVE  Kept(t, o)'
  <2>1. Undisturbed(t, o)
    BY <1>3, <1>4, <1>5, <1>6, <1>7 DEF Undisturbed
  <2> QED BY <1>7, <2>1, KeptStays
<1>8. Id(c)' = Id(c) /\ Current(c)' = Current(c) /\ Replay(s, mod)' = Replay(s, mod)
  BY <1>3 DEF Id, Current, Replay
<1>9. ASSUME Kept(s, mod) PROVE Kept(s, mod)'
  <2>1. Updating(c, s, mod)
    BY <1>6
  <2>2. \A d \in Conn \ {c} : ~Updating(d, s, mod)'
    BY <1>5, <1>9, <2>1 DEF Kept
  <2>3. After(plan, status[s][mod], Id(c)) = Replay(s, mod)
    BY <1>9, <2>1 DEF Kept
  <2>4. CASE at'[c] = "on"
    <3>1. Discarded(Current(c), status[s][mod])
      BY <1>1, <1>3, <2>4
    <3>2. status[s][mod] = Replay(s, mod)
      BY <2>3, <3>1 DEF After, Current, Id
    <3>3. \A d \in Conn : ~Updating(d, s, mod)'
      BY <1>6, <2>2, <2>4
    <3> QED BY <1>3, <1>8, <3>2, <3>3 DEF Kept
  <2>5. CASE at'[c] = "hset"
    <3>1. got'[c] = status[s][mod] /\ ~Discarded(Current(c), status[s][mod])
      BY <1>1, <1>3, <2>5
    <3>2. \A d \in Conn : Updating(d, s, mod)' => d = c
      BY <2>2
    <3>3. Updating(c, s, mod)'
      BY <1>6, <2>5
    <3>4. After(plan, status[s][mod], Id(c))' = Replay(s, mod)'
      BY <1>3, <1>8, <2>3
    <3>5. got'[c] = status'[s][mod] /\ ~Discarded(Current(c)', got'[c])
      BY <1>3, <1>8, <3>1
    <3> QED BY <3>2, <3>3, <3>4, <3>5 DEF Kept
  <2> QED BY <1>1, <1>3, <2>4, <2>5
<1> QED BY <1>3, <1>7, <1>9 DEF StatusInv

LEMMA SetKeepsStatus ==
    ASSUME ScenesInv, StatusInv, NEW c \in Conn, SetStatus(c) PROVE StatusInv'
<1> USE DEF redisVars, auxVars, Goes
<1>1. /\ at \in [Conn -> ConnAt] /\ curmod \in [Conn -> ModKey] /\ Mine(c) \in SceneNo
      /\ got \in [Conn -> SceneRecord \cup Msg \cup {NotMap, None}]
      /\ status \in [SceneNo -> [ModKey -> Msg \cup {NotMap, None}]]
  BY MineType DEF ScenesInv, ScenesTypeOK
<1>2. PICK s \in SceneNo, mod \in ModKey : s = Mine(c) /\ mod = curmod[c]
  BY <1>1
<1>3. /\ at[c] = "hset" /\ UNCHANGED <<plan, hist, found, sent, curmod, failures, raced>>
      /\ at' = [at EXCEPT ![c] = "on"] /\ got' = [got EXCEPT ![c] = None]
      /\ status' = [status EXCEPT ![s][mod] = Merge(got[c], Current(c), Id(c))]
  BY <1>2 DEF SetStatus
<1>4. \A d \in Conn \ {c} : at'[d] = at[d] /\ got'[d] = got[d]
  BY <1>1, <1>3
<1>5. \A t \in SceneNo : \A o \in ModKey : \A d \in Conn \ {c} :
          Updating(d, t, o)' <=> Updating(d, t, o)
  BY <1>3, <1>4 DEF Updating, Mine
<1>6. \A t \in SceneNo : \A o \in ModKey :
          (Updating(c, t, o) <=> t = s /\ o = mod) /\ ~Updating(c, t, o)'
  BY <1>1, <1>2, <1>3 DEF Updating, Mine
<1>7. /\ status'[s][mod] = Merge(got[c], Current(c), Id(c))
      /\ \A t \in SceneNo : \A o \in ModKey : <<t, o>> # <<s, mod>> => status'[t][o] = status[t][o]
  BY <1>1, <1>3
<1>8. ASSUME NEW t \in SceneNo, NEW o \in ModKey, <<t, o>> # <<s, mod>>, Kept(t, o)
      PROVE  Kept(t, o)'
  <2>1. Undisturbed(t, o)
    BY <1>3, <1>4, <1>5, <1>6, <1>7, <1>8 DEF Undisturbed
  <2> QED BY <1>8, <2>1, KeptStays
<1>9. ASSUME Kept(s, mod) PROVE Kept(s, mod)'
  <2>1. Updating(c, s, mod)
    BY <1>6
  <2>2. \A d \in Conn : ~Updating(d, s, mod)'
    BY <1>5, <1>6, <1>9, <2>1 DEF Kept
  <2>3. /\ After(plan, status[s][mod], Id(c)) = Replay(s, mod)
        /\ got[c] = status[s][mod] /\ ~Discarded(Current(c), got[c])
    BY <1>3, <1>9, <2>1 DEF Kept
  <2>4. status'[s][mod] = Replay(s, mod)
    BY <1>7, <2>3 DEF After, Current, Id
  <2>5. Replay(s, mod)' = Replay(s, mod)
    BY <1>3 DEF Replay
  <2> QED BY <2>2, <2>4, <2>5 DEF Kept
<1> QED BY <1>3, <1>8, <1>9 DEF StatusInv

\* A step that is not about a module's state: only one that failed ends an
\* update in this way.
Aside(c) ==
    /\ UNCHANGED <<plan, status, hist, curmod>> /\ raced' = raced
    /\ failures' = 0 => failures = 0 /\ at[c] \notin {"hget", "hset"}
    /\ at'[c] \notin {"hget", "hset"}
    /\ \A d \in Conn \ {c} : /\ at'[d] = at[d] /\ found'[d] = found[d]
                             /\ sent'[d] = sent[d] /\ got'[d] = got[d]

LEMMA AsideSteps ==
    ASSUME ScenesInv, NEW c \in Conn,
           \/ ScenesNext(c) /\ ~PushStatus(c) /\ ~GetStatus(c) /\ ~SetStatus(c)
           \/ FrameLost(c)
    PROVE  Aside(c)
<1> USE DEF redisVars, auxVars, Goes
<1>1. at \in [Conn -> ConnAt] /\ failures \in Nat
  BY ScenesAssumption DEF ScenesInv, ScenesTypeOK
<1>2. CASE FrameLost(c)
  <2>1. /\ at[c] \in {"off", "on"} /\ at' = [at EXCEPT ![c] = "out"]
        /\ UNCHANGED <<plan, status, hist, curmod, raced, failures, found, sent, got>>
    BY <1>2 DEF FrameLost
  <2> QED BY <1>1, <2>1 DEF Aside
<1>3. CASE ScenesNext(c) /\ ~PushStatus(c) /\ ~GetStatus(c) /\ ~SetStatus(c)
  <2>1. \A d \in Conn \ {c} : /\ at'[d] = at[d] /\ found'[d] = found[d]
                              /\ sent'[d] = sent[d] /\ got'[d] = got[d]
    BY <1>3, OthersStay DEF ScenesInv
  <2>2. UNCHANGED <<plan, status, hist, curmod, raced>>
    BY <1>3 DEF ScenesNext, Process, Connect, SetSceneId, StartUnit, EndUnit, EndSet, EndIncr,
                Chat, CommandFails, FrameFails
  <2>3. CASE Connect(c) \/ SetSceneId(c) \/ EndUnit(c) \/ EndSet(c) \/ EndIncr(c)
    <3>1. failures' = failures /\ at[c] \notin {"hget", "hset"} /\ at'[c] \notin {"hget", "hset"}
      BY <1>1, <2>3 DEF Connect, SetSceneId, EndUnit, EndSet, EndIncr, Takes
    <3> QED BY <2>1, <2>2, <3>1 DEF Aside
  <2>4. CASE StartUnit(c) \/ Chat(c)
    <3>1. failures' = failures /\ at' = at /\ at[c] = "on"
      BY <2>4 DEF StartUnit, Chat, Takes
    <3> QED BY <2>1, <2>2, <3>1 DEF Aside
  <2>5. CASE CommandFails(c) \/ FrameFails(c)
    <3>1. failures' = failures + 1 /\ at'[c] \notin {"hget", "hset"}
      BY <1>1, <2>5 DEF CommandFails, FrameFails, Takes
    <3> QED BY <1>1, <2>1, <2>2, <3>1 DEF Aside
  <2> QED BY <1>3, <2>3, <2>4, <2>5 DEF ScenesNext, Process
<1> QED BY <1>2, <1>3

LEMMA AsideKeepsStatus ==
    ASSUME StatusInv, NEW c \in Conn, Aside(c) PROVE StatusInv'
<1>1. Told(plan)' = Told(plan) /\ hist' = hist
  BY DEF Aside
<1>2. ASSUME failures' = 0, NEW s \in SceneNo, NEW mod \in ModKey, Kept(s, mod)
      PROVE  Kept(s, mod)'
  <2>1. \A d \in Conn \ {c} : Updating(d, s, mod)' <=> Updating(d, s, mod)
    BY DEF Aside, Updating, Mine
  <2>2. ~Updating(c, s, mod) /\ ~Updating(c, s, mod)'
    BY <1>2 DEF Aside, Updating
  <2>3. Undisturbed(s, mod)
    BY <2>1, <2>2 DEF Aside, Undisturbed
  <2> QED BY <1>2, <2>3, KeptStays
<1> QED BY <1>1, <1>2 DEF StatusInv, Aside

statusVars == <<plan, status, hist, curmod, raced, at, found, sent, got>>

\* However the connections take turns, a module's state is what the history of
\* its instructions gives, as long as no two of them update it at the same time
\* and no command fails: the frame a connection puts to what it read is the last
\* of the history, and what it read is what those before it give
\* (processor.go, ModStatusMsg).
THEOREM HistoryIsWhatLateComersGet == Spec => []HistoryGivesStatus
<1>1. Init /\ TypeInv => StatusInv
  <2> SUFFICES ASSUME Init, TypeInv, NEW s \in SceneNo, NEW mod \in ModKey
               PROVE  hist[s][mod] \in Seq(Told(plan)) /\ Kept(s, mod)
    BY DEF StatusInv
  <2>1. /\ hist[s][mod] = <<>> /\ status[s][mod] = None /\ \A c \in Conn : at[c] = "off"
        /\ plan \in Plans
    BY DEF Init, ScenesInit
  <2>2. Replay(s, mod) = None
    BY <2>1, ReplayNone DEF Replay
  <2>3. \A c \in Conn : ~Updating(c, s, mod)
    BY <2>1 DEF Updating
  <2> QED BY <2>1, <2>2, <2>3 DEF Kept
<1>2. TypeInv /\ StatusInv /\ [Next]_unitVars => StatusInv'
  <2> SUFFICES ASSUME TypeInv, StatusInv, [Next]_unitVars PROVE StatusInv'
    OBVIOUS
  <2>1. ScenesInv
    BY DEF TypeInv
  <2>2. \/ \E c \in Conn : ScenesNext(c)
        \/ \E j \in JobConn : FrameLost(j)
        \/ UNCHANGED statusVars /\ (JobAndToken \/ failures' = failures)
    BY DEF Next, Serves, Asks, Platform, LocalControl, Job, Cleans, unitVars, sceneVars, redisVars,
           connVars, auxVars, statusVars
  <2>3. ASSUME NEW c \in Conn, ScenesNext(c) PROVE StatusInv'
    BY <2>1, <2>3, AsideSteps, AsideKeepsStatus, PushKeepsStatus, GetKeepsStatus, SetKeepsStatus
  <2>4. ASSUME NEW j \in JobConn, FrameLost(j) PROVE StatusInv'
    BY <2>1, <2>4, AsideSteps, AsideKeepsStatus, EndUnitAssumption
  <2>5. CASE UNCHANGED statusVars /\ (JobAndToken \/ failures' = failures)
    <3>1. failures \in Nat
      BY <2>1, ScenesAssumption DEF ScenesInv, ScenesTypeOK
    <3>2. failures' = 0 => failures = 0
      BY <2>5, <3>1 DEF JobAndToken, GetToken, DialFails
    <3>3. \A s \in SceneNo : \A mod \in ModKey : Undisturbed(s, mod)
      BY <2>5 DEF statusVars, Undisturbed, Updating, Mine
    <3>4. UNCHANGED <<hist, raced>> /\ Told(plan)' = Told(plan)
      BY <2>5 DEF statusVars
    <3> QED BY <3>2, <3>3, <3>4, KeptStays DEF StatusInv
  <2> QED BY <2>2, <2>3, <2>4, <2>5
<1>3. TypeInv /\ StatusInv => HistoryGivesStatus
  <2> SUFFICES ASSUME TypeInv, StatusInv, NEW s \in SceneNo, NEW mod \in ModKey,
                      <<s, mod>> \notin raced, ~(failures > 0),
                      \A c \in Conn : ~Updating(c, s, mod)
               PROVE  status[s][mod] = Replay(s, mod)
    BY DEF HistoryGivesStatus, Updating
  <2>1. failures = 0
    BY ScenesAssumption DEF TypeInv, ScenesInv, ScenesTypeOK
  <2> QED BY <2>1 DEF StatusInv, Kept
<1> QED BY <1>1, <1>2, <1>3, TypesKept, PTL DEF Spec
===============================================================================
