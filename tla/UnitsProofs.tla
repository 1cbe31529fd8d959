----------------------------- MODULE UnitsProofs ------------------------------
(***************************************************************************)
(* Theorems about a unit and all that work on its state, for any           *)
(* connections, modules, frames, pages, terminals, course units, tokens    *)
(* and failures: types, the listing of a local control's terminals and the *)
(* query that pages back through the chat.                                 *)
(***************************************************************************)
EXTENDS Units, DataLemmas

(***************************************************************************)
(* Types of Scenes                                                         *)
(***************************************************************************)

\* A connection at work is one of the plan, and holds what its step needs.
ConnInv(c) ==
    /\ at[c] \notin {"off", "out"} => c \in DOMAIN plan
    /\ at[c] = "endSet" => got[c] \in SceneRecord
    /\ at[c] = "hset" => got[c] \in Msg \cup {NotMap, None}
    /\ at[c] \in {"hget", "hset"} => sent[c] \in 1..Len(plan[c]) /\ Current(c).op = "status"

ScenesInv == ScenesTypeOK /\ \A c \in Conn : ConnInv(c)

LEMMA FrameType ==
    ASSUME ScenesTypeOK, NEW c \in DOMAIN plan, NEW k \in 1..Len(plan[c])
    PROVE  /\ c \in Conn /\ plan[c][k] \in Frame
           /\ plan[c][k].op \in {"start", "end", "chat", "status"}
           /\ plan[c][k].op = "status" =>
                 /\ plan[c][k].mod \in ModKey /\ plan[c][k].nm \in Name \cup {None, NotMap}
                 /\ plan[c][k].fields \subseteq Field
<1>1. plan \in Plans
  BY DEF ScenesTypeOK
<1>2. c \in Conn /\ plan[c] \in Seq(Frame)
  BY <1>1, ScenesAssumption
<1>3. plan[c][k] \in Frame
  BY <1>2, ElementOfSeq
<1> QED BY <1>2, <1>3 DEF Frame

LEMMA MineType == ASSUME ScenesTypeOK, NEW c \in Conn PROVE Mine(c) \in SceneNo /\ Mine(c) # 0
<1>1. found[c] \in SceneNo /\ 1 \in SceneNo
  BY ScenesAssumption DEF ScenesTypeOK, SceneNo
<1> QED BY <1>1 DEF Mine

LEMMA MsgOfType ==
    ASSUME NEW m, m.nm \in Name \cup {None, NotMap}, NEW id \in FrameId
    PROVE  MsgOf(m, id) \in Msg \cup {NotMap}
<1>1. [f \in Field |-> IF f \in m.fields THEN id ELSE None] \in [Field -> FrameId \cup {None}]
  OBVIOUS
<1>2. m.nm # NotMap => m.nm \in Name \cup {None}
  OBVIOUS
<1> QED BY <1>1, <1>2 DEF MsgOf, Msg

LEMMA MergeType ==
    ASSUME NEW m, m.nm \in Name \cup {None, NotMap}, NEW id \in FrameId,
           NEW old \in Msg \cup {NotMap, None}
    PROVE  Merge(old, m, id) \in Msg \cup {NotMap}
<1>1. MsgOf(m, id) \in Msg \cup {NotMap}
  BY MsgOfType
<1>2. ASSUME old \in Msg
      PROVE  [old EXCEPT !.val = [f \in Field |-> IF f \in m.fields THEN id ELSE @[f]]] \in Msg
  <2>1. old.val \in [Field -> FrameId \cup {None}]
    BY <1>2 DEF Msg
  <2>2. [f \in Field |-> IF f \in m.fields THEN id ELSE old.val[f]] \in [Field -> FrameId \cup {None}]
    BY <2>1
  <2> QED BY <1>2, <2>2 DEF Msg
<1> QED BY <1>1, <1>2 DEF Merge

\* A step of one connection leaves the others alone.
LEMMA OthersStay ==
    ASSUME ScenesTypeOK, NEW c \in Conn, ScenesNext(c)
    PROVE  /\ plan' = plan
           /\ \A d \in Conn \ {c} : /\ at'[d] = at[d] /\ found'[d] = found[d]
                                    /\ sent'[d] = sent[d] /\ got'[d] = got[d]
                                    /\ curmod'[d] = curmod[d]
<1> USE DEF redisVars, auxVars, Goes
<1>1. /\ at \in [Conn -> ConnAt] /\ found \in [Conn -> SceneNo] /\ sent \in [Conn -> Nat]
      /\ curmod \in [Conn -> ModKey] /\ got \in [Conn -> SceneRecord \cup Msg \cup {NotMap, None}]
  BY DEF ScenesTypeOK
<1>2. CASE Connect(c) \/ SetSceneId(c) \/ EndIncr(c) \/ EndSet(c) \/ CommandFails(c)
  BY <1>1, <1>2 DEF Connect, SetSceneId, EndIncr, EndSet, CommandFails
<1>3. CASE StartUnit(c) \/ EndUnit(c) \/ Chat(c) \/ FrameFails(c)
  BY <1>1, <1>3 DEF StartUnit, EndUnit, Chat, FrameFails, Takes
<1>4. CASE PushStatus(c)
  BY <1>1, <1>4 DEF PushStatus, Takes
<1>5. CASE GetStatus(c) \/ SetStatus(c)
  BY <1>1, <1>5 DEF GetStatus, SetStatus
<1> QED BY <1>2, <1>3, <1>4, <1>5 DEF ScenesNext, Process

LEMMA TakesType ==
    ASSUME ScenesInv, NEW c \in Conn, NEW op, Takes(c, op)
    PROVE  /\ c \in DOMAIN plan /\ sent[c] + 1 \in 1..Len(plan[c])
           /\ sent' \in [Conn -> Nat] /\ sent'[c] = sent[c] + 1
           /\ plan[c][sent[c] + 1].op = op /\ at[c] = "on"
           /\ [from |-> c, n |-> sent[c] + 1] \in FrameId
<1>1. sent \in [Conn -> Nat] /\ at[c] = "on" /\ plan \in Plans
  BY DEF ScenesInv, ScenesTypeOK, Takes
<1>2. c \in DOMAIN plan
  BY <1>1 DEF ScenesInv, ConnInv
<1>3. Len(plan[c]) \in Nat
  BY <1>1, <1>2, ScenesAssumption, LenProperties
<1> QED BY <1>1, <1>2, <1>3 DEF Takes, FrameId

LEMMA ConnStep == ASSUME ScenesInv, NEW c \in Conn, ScenesNext(c) PROVE \A d \in Conn : ConnInv(d)'
<1> USE DEF redisVars, auxVars, Goes
<1>1. /\ at \in [Conn -> ConnAt] /\ sent \in [Conn -> Nat] /\ plan' = plan
      /\ scene \in [SceneNo -> SceneRecord] /\ Mine(c) \in SceneNo
      /\ status \in [SceneNo -> [ModKey -> Msg \cup {NotMap, None}]]
      /\ curmod \in [Conn -> ModKey] /\ got \in [Conn -> SceneRecord \cup Msg \cup {NotMap, None}]
  BY OthersStay, MineType DEF ScenesInv, ScenesTypeOK
<1>p. plan' = plan
  BY <1>1
<1>2. ConnInv(c)
  BY DEF ScenesInv
<1>3. ASSUME NEW d \in Conn, d # c PROVE ConnInv(d)'
  <2>1. plan' = plan /\ at'[d] = at[d] /\ sent'[d] = sent[d] /\ got'[d] = got[d]
    BY <1>3, OthersStay DEF ScenesInv
  <2>2. ConnInv(d)
    BY DEF ScenesInv
  <2> QED BY <2>1, <2>2 DEF ConnInv, Current
<1>4. ASSUME \/ Connect(c) \/ SetSceneId(c) \/ EndIncr(c) \/ EndSet(c)
             \/ SetStatus(c) \/ CommandFails(c)
      PROVE  ConnInv(c)'
  <2>1. at'[c] \in {"setId", "on", "endIncr", "ended", "incrFailed", "out"}
    BY <1>1, <1>4 DEF Connect, SetSceneId, EndIncr, EndSet, SetStatus, CommandFails
  <2>2. c \in DOMAIN plan \/ at'[c] = "out"
    BY <1>1, <1>2, <1>4 DEF Connect, SetSceneId, EndIncr, EndSet, SetStatus, CommandFails,
                            AtCommand, ConnInv
  <2> QED BY <1>p, <2>1, <2>2 DEF ConnInv
<1>5. ASSUME StartUnit(c) \/ Chat(c) \/ FrameFails(c) PROVE ConnInv(c)'
  <2>1. c \in DOMAIN plan /\ at'[c] \in {"on", "out"}
    BY <1>1, <1>2, <1>5 DEF StartUnit, Chat, FrameFails, Takes, ConnInv
  <2> QED BY <1>p, <2>1 DEF ConnInv
<1>6. ASSUME EndUnit(c) PROVE ConnInv(c)'
  <2>1. /\ c \in DOMAIN plan /\ at'[c] = "endSet"
        /\ got'[c] = scene[Mine(c)] /\ scene[Mine(c)] \in SceneRecord
    BY <1>1, <1>6, TakesType DEF EndUnit
  <2> QED BY <1>p, <2>1 DEF ConnInv
<1>7. ASSUME PushStatus(c) PROVE ConnInv(c)'
  <2>1. /\ c \in DOMAIN plan /\ at'[c] = "hget" /\ sent'[c] = sent[c] + 1
        /\ sent[c] + 1 \in 1..Len(plan[c]) /\ plan[c][sent[c] + 1].op = "status"
    BY <1>1, <1>7, TakesType DEF PushStatus
  <2> QED BY <1>p, <2>1 DEF ConnInv, Current
<1>8. ASSUME GetStatus(c) PROVE ConnInv(c)'
  <2>1. /\ at[c] = "hget" /\ at'[c] \in {"on", "hset"} /\ sent' = sent
        /\ at'[c] = "hset" => got'[c] = status[Mine(c)][curmod[c]]
    BY <1>1, <1>8 DEF GetStatus
  <2>2. status[Mine(c)][curmod[c]] \in Msg \cup {NotMap, None}
    BY <1>1
  <2> QED BY <1>p, <1>2, <2>1, <2>2 DEF ConnInv, Current
<1>9. ConnInv(c)'
  BY <1>4, <1>5, <1>6, <1>7, <1>8 DEF ScenesNext, Process
<1> QED BY <1>3, <1>9

LEMMA ScenesTypeStep == ASSUME ScenesInv, NEW c \in Conn, ScenesNext(c) PROVE ScenesTypeOK'
<1> USE DEF redisVars, auxVars, Goes, ConnAt
<1>1. /\ plan \in Plans /\ sceneId \in SceneNo /\ scene \in [SceneNo -> SceneRecord]
      /\ status \in [SceneNo -> [ModKey -> Msg \cup {NotMap, None}]]
      /\ hist \in [SceneNo -> [ModKey -> Seq(FrameId)]] /\ chat \in [SceneNo -> Seq(FrameId)]
      /\ at \in [Conn -> ConnAt] /\ found \in [Conn -> SceneNo] /\ sent \in [Conn -> Nat]
      /\ curmod \in [Conn -> ModKey] /\ got \in [Conn -> SceneRecord \cup Msg \cup {NotMap, None}]
      /\ failures \in 0..MaxFailures /\ raced \subseteq SceneNo \X ModKey
      /\ restarted \subseteq SceneNo
  BY DEF ScenesInv, ScenesTypeOK
<1>2. Mine(c) \in SceneNo /\ 1 \in SceneNo /\ MaxScene \in Nat /\ MaxFailures \in Nat
  BY MineType, ScenesAssumption DEF ScenesInv, SceneNo
<1>3. CASE Connect(c) \/ SetSceneId(c)
  BY <1>1, <1>2, <1>3 DEF Connect, SetSceneId, ScenesTypeOK
<1>4. CASE StartUnit(c)
  <2>1. sent' \in [Conn -> Nat]
    BY <1>4, TakesType DEF StartUnit
  <2>2. [start |-> TRUE, end |-> FALSE] \in SceneRecord
    BY DEF SceneRecord
  <2>3. scene' \in [SceneNo -> SceneRecord] /\ restarted' \subseteq SceneNo
    BY <1>1, <1>2, <1>4, <2>2 DEF StartUnit
  <2> QED BY <1>1, <1>4, <2>1, <2>3 DEF StartUnit, ScenesTypeOK
<1>5. CASE EndUnit(c)
  <2>1. sent' \in [Conn -> Nat]
    BY <1>5, TakesType DEF EndUnit
  <2>2. got' \in [Conn -> SceneRecord \cup Msg \cup {NotMap, None}] /\ at' \in [Conn -> ConnAt]
    BY <1>1, <1>2, <1>5 DEF EndUnit
  <2> QED BY <1>1, <1>5, <2>1, <2>2 DEF EndUnit, ScenesTypeOK
<1>6. CASE EndSet(c)
  <2>1. got[c] \in SceneRecord
    BY <1>6 DEF EndSet, ScenesInv, ConnInv
  <2>2. [start |-> got[c].start, end |-> TRUE] \in SceneRecord
    BY <2>1, Zenon DEF SceneRecord
  <2>3. scene' \in [SceneNo -> SceneRecord]
    BY <1>1, <1>2, <1>6, <2>2 DEF EndSet
  <2> QED BY <1>1, <1>6, <2>3 DEF EndSet, ScenesTypeOK
<1>7. CASE EndIncr(c)
  <2>1. sceneId + 1 \in SceneNo
    BY <1>1, <1>2, <1>7 DEF EndIncr, SceneNo
  <2> QED BY <1>1, <1>7, <2>1 DEF EndIncr, ScenesTypeOK
<1>8. CASE Chat(c)
  <2>1. sent' \in [Conn -> Nat] /\ [from |-> c, n |-> sent[c] + 1] \in FrameId
    BY <1>8, TakesType DEF Chat
  <2>2. chat' \in [SceneNo -> Seq(FrameId)]
    BY <1>1, <1>2, <1>8, <2>1, AppendProperties DEF Chat
  <2> QED BY <1>1, <1>8, <2>1, <2>2 DEF Chat, ScenesTypeOK
<1>9. CASE PushStatus(c)
  <2> DEFINE id == [from |-> c, n |-> sent[c] + 1]
             named_ == plan[c][sent[c] + 1].mod
             mod == IF named_ = NoMod THEN curmod[c] ELSE named_
  <2>1. sent' \in [Conn -> Nat] /\ id \in FrameId
    BY <1>9, TakesType DEF PushStatus
  <2>2. mod \in ModKey
    <3>1. named_ \in ModKey
      BY <1>9, TakesType, FrameType DEF PushStatus, ScenesInv
    <3> QED BY <1>1, <3>1
  <2>3. /\ curmod' = [curmod EXCEPT ![c] = mod]
        /\ hist' = [hist EXCEPT ![Mine(c)][mod] = Append(@, id)]
        /\ raced' = raced \cup Overlap(c, mod) /\ at' = [at EXCEPT ![c] = "hget"]
        /\ UNCHANGED <<plan, sceneId, scene, status, chat, found, got, failures, restarted>>
    BY <1>9 DEF PushStatus
  <2> HIDE DEF id, mod
  <2>4. curmod' \in [Conn -> ModKey] /\ at' \in [Conn -> ConnAt]
    BY <1>1, <2>2, <2>3
  <2>5. hist' \in [SceneNo -> [ModKey -> Seq(FrameId)]]
    <3>1. hist[Mine(c)] \in [ModKey -> Seq(FrameId)] /\ hist[Mine(c)][mod] \in Seq(FrameId)
      BY <1>1, <1>2, <2>2
    <3>2. Append(hist[Mine(c)][mod], id) \in Seq(FrameId)
      BY <2>1, <3>1, AppendProperties
    <3>3. [hist[Mine(c)] EXCEPT ![mod] = Append(@, id)] \in [ModKey -> Seq(FrameId)]
      BY <3>1, <3>2
    <3> QED BY <1>1, <1>2, <2>3, <3>3
  <2>6. raced' \subseteq SceneNo \X ModKey
    BY <1>1, <1>2, <2>2, <2>3 DEF Overlap
  <2> QED BY <1>1, <2>1, <2>3, <2>4, <2>5, <2>6 DEF ScenesTypeOK
<1>10. CASE GetStatus(c)
  <2>1. status[Mine(c)][curmod[c]] \in Msg \cup {NotMap, None}
    BY <1>1, <1>2
  <2>2. /\ at' \in [Conn -> ConnAt]
        /\ got' \in [Conn -> SceneRecord \cup Msg \cup {NotMap, None}]
    BY <1>1, <1>10, <2>1 DEF GetStatus
  <2> QED BY <1>1, <1>10, <2>2 DEF GetStatus, ScenesTypeOK
<1>11. CASE SetStatus(c)
  <2> DEFINE new == Merge(got[c], Current(c), Id(c))
  <2>1. at[c] = "hset" /\ ConnInv(c)
    BY <1>11 DEF SetStatus, ScenesInv
  <2>2. /\ got[c] \in Msg \cup {NotMap, None} /\ Id(c) \in FrameId
        /\ Current(c).nm \in Name \cup {None, NotMap}
    BY <1>1, <2>1, FrameType DEF ConnInv, Current, Id, FrameId, ScenesInv
  <2>3. new \in Msg \cup {NotMap}
    BY <2>2, MergeType
  <2>4. status' = [status EXCEPT ![Mine(c)][curmod[c]] = new]
    BY <1>11 DEF SetStatus
  <2> HIDE DEF new
  <2>5. status' \in [SceneNo -> [ModKey -> Msg \cup {NotMap, None}]]
    <3>1. curmod[c] \in ModKey /\ status[Mine(c)] \in [ModKey -> Msg \cup {NotMap, None}]
      BY <1>1, <1>2
    <3>2. [status[Mine(c)] EXCEPT ![curmod[c]] = new] \in [ModKey -> Msg \cup {NotMap, None}]
      BY <2>3, <3>1
    <3> QED BY <1>1, <1>2, <2>4, <3>2
  <2>6. /\ at' \in [Conn -> ConnAt]
        /\ got' \in [Conn -> SceneRecord \cup Msg \cup {NotMap, None}]
    BY <1>1, <1>11 DEF SetStatus
  <2> QED BY <1>1, <1>11, <2>5, <2>6 DEF SetStatus, ScenesTypeOK
<1>12. CASE CommandFails(c)
  BY <1>1, <1>2, <1>12 DEF CommandFails, ScenesTypeOK
<1>13. CASE FrameFails(c)
  <2>1. sent' \in [Conn -> Nat]
    BY <1>13, TakesType DEF FrameFails
  <2>2. at' \in [Conn -> ConnAt] /\ failures' \in 0..MaxFailures
    BY <1>1, <1>2, <1>13 DEF FrameFails
  <2> QED BY <1>1, <1>13, <2>1, <2>2 DEF FrameFails, ScenesTypeOK
<1> QED
  BY <1>3, <1>4, <1>5, <1>6, <1>7, <1>8, <1>9, <1>10, <1>11, <1>12, <1>13
     DEF ScenesNext, Process

(***************************************************************************)
(* Types of EndUnit                                                        *)
(***************************************************************************)
MonitorInv == monitor \in {"get", "ttl", "token", "dial"} => cur \in SceneNo

LEMMA JobExitsType ==
    ASSUME EndUnitTypeOK, JobExits PROVE EndUnitTypeOK' /\ MonitorInv'
<1>1. isEndCloud' \in BOOLEAN /\ broken' \in BOOLEAN /\ ended' = ended
  BY Zenon DEF JobExits
<1>2. ended' \in BOOLEAN
  BY <1>1, Zenon DEF EndUnitTypeOK
<1> QED BY <1>1, <1>2 DEF JobExits, EndUnitTypeOK, MonitorInv

LEMMA JobStep ==
    ASSUME ScenesTypeOK, EndUnitTypeOK, MonitorInv, JobAlone \/ JobAndToken
    PROVE  EndUnitTypeOK' /\ MonitorInv'
<1> USE DEF busVars, MonitorAt, MonitorGoes
<1>t. /\ runKey \in [SceneNo -> {"none", "set", "gone"}] /\ RunScenes \subseteq SceneNo
      /\ MaxStarts \in Nat /\ JobConn \subseteq Conn /\ scene \in [SceneNo -> SceneRecord]
  BY EndUnitAssumption DEF EndUnitTypeOK, ScenesTypeOK
<1>b. isEndCloud \in BOOLEAN /\ broken \in BOOLEAN /\ ended \in BOOLEAN
  BY Zenon DEF EndUnitTypeOK
<1>1. ASSUME NEW s \in RunScenes, RunBegins(s) \/ RunExpires(s)
      PROVE  EndUnitTypeOK' /\ MonitorInv'
  <2>1. runKey' \in [SceneNo -> {"none", "set", "gone"}]
    BY <1>t, <1>1 DEF RunBegins, RunExpires
  <2>2. isEndCloud' \in BOOLEAN /\ broken' \in BOOLEAN /\ ended' \in BOOLEAN
    BY <1>b, <1>1, Zenon DEF RunBegins, RunExpires
  <2> QED BY <1>1, <2>1, <2>2 DEF RunBegins, RunExpires, EndUnitTypeOK, MonitorInv
<1>2. ASSUME JobStarts \/ Scan \/ Kill PROVE EndUnitTypeOK' /\ MonitorInv'
  <2>1. isEndCloud' \in BOOLEAN /\ broken' \in BOOLEAN /\ ended' \in BOOLEAN
    BY <1>b, <1>2, Zenon DEF JobStarts, Scan, Kill
  <2> QED BY <1>t, <1>2, <2>1 DEF JobStarts, Scan, Kill, EndUnitTypeOK, MonitorInv
<1>3. ASSUME NEW s \in SceneNo, Add(s) PROVE EndUnitTypeOK' /\ MonitorInv'
  <2>1. isEndCloud' \in BOOLEAN /\ broken' \in BOOLEAN /\ ended' \in BOOLEAN
    BY <1>b, <1>3, Zenon DEF Add
  <2>2. todo' \subseteq todo \cup {s}
    BY <1>3 DEF Add
  <2> QED BY <1>t, <1>3, <2>1, <2>2 DEF Add, EndUnitTypeOK, MonitorInv
<1>4. ASSUME (\E s \in SceneNo : AddIsFatal(s)) \/ KillEnds \/ DialFails
      PROVE  EndUnitTypeOK' /\ MonitorInv'
  BY <1>4, JobExitsType DEF AddIsFatal, KillEnds, DialFails
<1>5. ASSUME Tick \/ NextUnit PROVE EndUnitTypeOK' /\ MonitorInv'
  <2>1. isEndCloud' \in BOOLEAN /\ broken' \in BOOLEAN /\ ended' \in BOOLEAN
    BY <1>b, <1>5, Zenon DEF Tick, NextUnit
  <2> QED BY <1>t, <1>5, <2>1 DEF Tick, NextUnit, EndUnitTypeOK, MonitorInv
<1>6. ASSUME GetScene PROVE EndUnitTypeOK' /\ MonitorInv'
  <2>1. cur \in SceneNo
    BY <1>6 DEF GetScene, MonitorInv
  <2>2. scene[cur].end \in BOOLEAN
    BY <1>t, <2>1 DEF SceneRecord
  <2>3. isEndCloud' \in BOOLEAN /\ broken' \in BOOLEAN /\ ended' \in BOOLEAN
    BY <1>b, <1>6, <2>2, Zenon DEF GetScene
  <2> QED BY <1>t, <1>6, <2>1, <2>3 DEF GetScene, EndUnitTypeOK, MonitorInv
<1>7. ASSUME CheckTtl \/ GetToken PROVE EndUnitTypeOK' /\ MonitorInv'
  <2>1. isEndCloud' \in BOOLEAN /\ broken' \in BOOLEAN /\ ended' \in BOOLEAN
    BY <1>b, <1>7, Zenon DEF CheckTtl, GetToken
  <2> QED BY <1>t, <1>7, <2>1 DEF CheckTtl, GetToken, EndUnitTypeOK, MonitorInv
<1>8. ASSUME NEW j \in JobConn, Dial(j) PROVE EndUnitTypeOK' /\ MonitorInv'
  <2>1. isEndCloud' \in BOOLEAN /\ broken' \in BOOLEAN /\ ended' \in BOOLEAN
    BY <1>b, <1>8, Zenon DEF Dial
  <2>2. target' \in [Conn -> SceneNo \cup {None}]
    BY <1>t, <1>8 DEF Dial, EndUnitTypeOK
  <2> QED BY <1>8, <2>1, <2>2 DEF Dial, EndUnitTypeOK, MonitorInv
<1>9. ASSUME RedisBreaks PROVE EndUnitTypeOK' /\ MonitorInv'
  <2>1. isEndCloud' \in BOOLEAN /\ broken' \in BOOLEAN /\ ended' \in BOOLEAN
    BY <1>b, <1>9, Zenon DEF RedisBreaks
  <2> QED BY <1>9, <2>1 DEF RedisBreaks, EndUnitTypeOK, MonitorInv
<1> QED
  BY <1>1, <1>2, <1>3, <1>4, <1>5, <1>6, <1>7, <1>8, <1>9 DEF JobAlone, JobAndToken, Monitor

(***************************************************************************)
(* Types of Chats                                                          *)
(***************************************************************************)

\* Where a page begins, counted from 0
StartOf(last) == IF last - Limit + 1 < 0 THEN 0 ELSE last - Limit + 1

\* A page has messages of the list under the ids of their positions; one that
\* ends within the list has all of them from its beginning to its end.
LEMMA PageOf ==
    ASSUME ScenesTypeOK, of \in SceneNo, NEW last \in Int
    PROVE  /\ Page(last) \in Seq(Row)
           /\ last \in 0..(Len(chat[of]) - 1) /\ Limit # 0 =>
                 /\ Len(Page(last)) = last - StartOf(last) + 1
                 /\ StartOf(last) \in 0..last
                 /\ \A k \in 1..Len(Page(last)) :
                       Page(last)[k] = [id |-> StartOf(last) + k,
                                        message |-> chat[of][StartOf(last) + k]]
<1> DEFINE list_ == chat[of]
           sp == StartOf(last)
           e == IF last < Len(list_) THEN last + 1 ELSE Len(list_)
           res == IF last >= sp /\ last >= 0 THEN SubSeq(list_, sp + 1, e) ELSE <<>>
           page_ == [k \in 1..Len(res) |-> [id |-> last - Len(res) + k + 1, message |-> res[k]]]
<1>1. list_ \in Seq(FrameId) /\ Limit \in Nat
  BY ChatsAssumption DEF ScenesTypeOK
<1>2. Page(last) = page_
  BY DEF Page, LRange, StartOf
<1>3. Len(list_) \in Nat /\ sp \in Nat /\ sp + 1 \in Int /\ e \in Int /\ e <= Len(list_)
      /\ (last \in 0..(Len(list_) - 1) => e = last + 1)
      /\ (last >= 0 /\ Limit # 0 => sp <= last)
  BY <1>1, LenProperties DEF StartOf
<1> HIDE DEF list_, sp, e
<1>4. \A i \in (sp + 1)..e : list_[i] \in FrameId
  BY <1>1, <1>3
<1>5. /\ SubSeq(list_, sp + 1, e) \in Seq(FrameId)
      /\ Len(SubSeq(list_, sp + 1, e)) = IF sp + 1 <= e THEN e - (sp + 1) + 1 ELSE 0
      /\ \A i \in 1..(e - (sp + 1) + 1) : SubSeq(list_, sp + 1, e)[i] = list_[(sp + 1) + i - 1]
  BY <1>3, <1>4, SubSeqProperties
<1>6. res \in Seq(FrameId)
  BY <1>5
<1>7. last \in 0..(Len(list_) - 1) /\ Limit # 0 =>
         /\ Len(res) = last - sp + 1 /\ sp \in 0..last
         /\ \A k \in 1..Len(res) : res[k] = list_[sp + k]
  <2> SUFFICES ASSUME last \in 0..(Len(list_) - 1), Limit # 0
               PROVE  /\ Len(res) = last - sp + 1 /\ sp \in 0..last
                      /\ \A k \in 1..Len(res) : res[k] = list_[sp + k]
    OBVIOUS
  <2>1. e = last + 1 /\ sp <= last /\ last >= 0
    BY <1>3
  <2>2. res = SubSeq(list_, sp + 1, e)
    BY <2>1
  <2> HIDE DEF res
  <2>3. Len(res) = last - sp + 1 /\ sp \in 0..last
    BY <1>3, <1>5, <2>1, <2>2
  <2>4. ASSUME NEW k \in 1..Len(res) PROVE res[k] = list_[sp + k]
    <3>1. k \in 1..(e - (sp + 1) + 1) /\ (sp + 1) + k - 1 = sp + k
      BY <1>3, <2>1, <2>3
    <3> QED BY <1>5, <2>2, <3>1
  <2> QED BY <2>3, <2>4
<1> HIDE DEF res
<1>8. Len(res) \in Nat
  BY <1>6, LenProperties
<1>9. page_ \in Seq(Row) /\ Len(page_) = Len(res)
  <2>1. \A k \in 1..Len(res) : [id |-> last - Len(res) + k + 1, message |-> res[k]] \in Row
    BY <1>6, <1>8, ElementOfSeq DEF Row
  <2> QED BY <1>8, <2>1
<1>10. last \in 0..(Len(list_) - 1) /\ Limit # 0 =>
          \A k \in 1..Len(page_) : page_[k] = [id |-> sp + k, message |-> list_[sp + k]]
  BY <1>3, <1>7, <1>8, <1>9
<1> QED BY <1>2, <1>7, <1>9, <1>10 DEF list_, sp

AskerInv == asker = "status" => latest # 0

LEMMA ChatsStep ==
    ASSUME ScenesTypeOK, ChatsTypeOK, AskerInv, Query \/ StatusChanges
    PROVE  ChatsTypeOK' /\ AskerInv'
<1> USE DEF queryVars
<1>1. /\ latest \in SceneNo /\ of \in SceneNo /\ sceneId \in SceneNo /\ chatId \in Nat
      /\ ep \in Int /\ rows \in Seq(Row) /\ total \in Nat /\ changes \in 0..MaxChanges
      /\ chat \in [SceneNo -> Seq(FrameId)] /\ MaxChanges \in Nat
  BY ChatsAssumption DEF ChatsTypeOK, ScenesTypeOK
<1>2. running \in BOOLEAN /\ first \in BOOLEAN /\ astray \in BOOLEAN
  BY Zenon DEF ChatsTypeOK
<1>3. ASSUME StatusChanges PROVE ChatsTypeOK' /\ AskerInv'
  <2>1. running' \in BOOLEAN /\ first' \in BOOLEAN /\ astray' \in BOOLEAN
    BY <1>2, <1>3, Zenon DEF StatusChanges
  <2> QED BY <1>1, <1>3, <2>1 DEF StatusChanges, ChatsTypeOK, AskerInv
<1>4. ASSUME AskScene PROVE ChatsTypeOK' /\ AskerInv'
  <2>1. running' \in BOOLEAN /\ first' \in BOOLEAN /\ astray' \in BOOLEAN
    BY <1>2, <1>4, Zenon DEF AskScene
  <2> QED BY <1>1, <1>4, <2>1 DEF AskScene, ChatsTypeOK, AskerInv
<1>5. ASSUME AskStatus PROVE ChatsTypeOK' /\ AskerInv'
  <2>1. running' \in BOOLEAN /\ first' \in BOOLEAN /\ astray' \in BOOLEAN
    BY <1>2, <1>5, Zenon DEF AskStatus
  <2>2. latest # 0
    BY <1>5 DEF AskStatus, AskerInv
  <2>3. of' \in SceneNo
    BY <1>1, <1>5, <2>2, ScenesAssumption DEF AskStatus, SceneNo
  <2> QED BY <1>1, <1>5, <2>1, <2>3 DEF AskStatus, ChatsTypeOK, AskerInv
<1>6. ASSUME CountChats PROVE ChatsTypeOK' /\ AskerInv'
  <2>1. running' \in BOOLEAN /\ first' \in BOOLEAN /\ astray' \in BOOLEAN
    BY <1>2, <1>6, Zenon DEF CountChats
  <2>2. Len(chat[of]) \in Nat
    BY <1>1, LenProperties
  <2>3. total' \in Nat /\ ep' \in Int
    BY <1>1, <1>6, <2>2 DEF CountChats
  <2>4. asker' \in {"done", "lrange"} /\ UNCHANGED <<changes, chatId, latest, of, rows>>
    BY <1>6 DEF CountChats
  <2> QED BY <1>1, <2>1, <2>3, <2>4 DEF ChatsTypeOK, AskerInv
<1>7. ASSUME ReadChats PROVE ChatsTypeOK' /\ AskerInv'
  <2>1. running' \in BOOLEAN /\ first' \in BOOLEAN /\ astray' \in BOOLEAN
    BY <1>2, <1>7, Zenon DEF ReadChats
  <2> DEFINE page_ == Page(ep)
  <2>2. page_ \in Seq(Row)
    BY <1>1, PageOf
  <2>3. /\ rows' = page_ \o rows
        /\ IF page_ = <<>> \/ page_[1].id <= 1
             THEN asker' = "done" /\ UNCHANGED chatId
             ELSE asker' = "ask" /\ chatId' = page_[1].id - 1
        /\ UNCHANGED <<running, changes, latest, of, ep, total, first, astray>>
    BY <1>7 DEF ReadChats
  <2> HIDE DEF page_
  <2>4. page_ # <<>> => page_[1].id \in Int
    <3>1. page_ # <<>> => page_[1] \in Row
      BY <2>2, EmptySeq, LenProperties, ElementOfSeq
    <3> QED BY <3>1 DEF Row
  <2>5. rows' \in Seq(Row)
    BY <1>1, <2>2, <2>3, ConcatProperties
  <2>6. chatId' \in Nat
    BY <1>1, <2>3, <2>4
  <2> QED BY <1>1, <2>1, <2>3, <2>5, <2>6 DEF ChatsTypeOK, AskerInv
<1> QED BY <1>3, <1>4, <1>5, <1>6, <1>7 DEF Query

(***************************************************************************)
(* Types of LocalSets                                                      *)
(***************************************************************************)
LEMMA LocalFrameType ==
    ASSUME LocalTypeOK, reports # <<>>
    PROVE  /\ Tail(reports) \in Seq(LocalFrame) /\ Head(reports).items \in Seq(Terminal)
           /\ Head(reports).op = "offline" => Head(Head(reports).items) \in Terminal
<1>1. reports \in Seq(LocalFrame)
  BY DEF LocalTypeOK
<1>2. Tail(reports) \in Seq(LocalFrame) /\ Head(reports) \in LocalFrame
  BY <1>1, HeadTailProperties
<1>3. ASSUME NEW f \in LocalFrame
      PROVE  f.items \in Seq(Terminal) /\ (f.op = "offline" => Head(f.items) \in Terminal)
  <2>1. CASE f \in [op : {"report", "reportAll"}, items : Seq(Terminal)]
    BY <2>1
  <2>2. CASE f \in [op : {"offline"}, items : {<<x>> : x \in Terminal}]
    <3>1. f.items \in {<<x>> : x \in Terminal}
      BY <2>2
    <3>2. PICK x \in Terminal : f.items = <<x>>
      BY <3>1
    <3>3. <<x>> \in Seq(Terminal) /\ Head(<<x>>) = x
      OBVIOUS
    <3> QED BY <3>2, <3>3
  <2> QED BY <2>1, <2>2 DEF LocalFrame
<1> QED BY <1>2, <1>3

LEMMA LocalStep == ASSUME LocalTypeOK, LocalNext PROVE LocalTypeOK'
<1> USE DEF setVars, Online, Receives
<1>1. /\ reports \in Seq(LocalFrame) /\ adding \in Seq(Terminal)
      /\ local \subseteq Terminal /\ listed \subseteq Terminal
      /\ online \subseteq Terminal /\ steady \subseteq Terminal /\ seen \subseteq Terminal
      /\ maps \in {"made", "users", "nil"}
      /\ lister \in {"off", "idle", "users", "devices", "done"}
  BY DEF LocalTypeOK
<1>2. up \in BOOLEAN
  BY Zenon DEF LocalTypeOK
<1>3. ASSUME Report \/ ReportAll PROVE LocalTypeOK'
  <2>1. up' = up
    BY <1>3, Zenon DEF Report, ReportAll
  <2>2. reports' \in Seq(LocalFrame) /\ adding' \in Seq(Terminal)
    BY <1>3, LocalFrameType DEF Report, ReportAll
  <2> QED BY <1>1, <1>2, <1>3, <2>1, <2>2 DEF Report, ReportAll, LocalTypeOK
<1>4. ASSUME ReplaceDevices PROVE LocalTypeOK'
  BY <1>1, <1>2, <1>4 DEF ReplaceDevices, LocalTypeOK
<1>5. ASSUME AddTerminal PROVE LocalTypeOK'
  <2>1. adding # <<>>
    BY <1>5 DEF AddTerminal
  <2>2. Head(adding) \in Terminal /\ Tail(adding) \in Seq(Terminal)
    BY <1>1, <2>1, HeadTailProperties
  <2>3. up' \in BOOLEAN
    BY <1>2, <1>5, Zenon DEF AddTerminal
  <2> QED BY <1>1, <1>5, <2>2, <2>3 DEF AddTerminal, LocalTypeOK
<1>6. ASSUME RemoveTerminal PROVE LocalTypeOK'
  <2>1. up' = up
    BY <1>6, Zenon DEF RemoveTerminal
  <2>2. reports' \in Seq(LocalFrame)
    BY <1>6, LocalFrameType DEF RemoveTerminal
  <2> QED BY <1>1, <1>2, <1>6, <2>1, <2>2 DEF RemoveTerminal, LocalTypeOK
<1>7. ASSUME ListBegins \/ ListUsers \/ ListDevices \/ ListReturns PROVE LocalTypeOK'
  <2>1. up' = up
    BY <1>7, Zenon DEF ListBegins, ListUsers, ListDevices, ListReturns
  <2> QED
    BY <1>1, <1>2, <1>7, <2>1 DEF ListBegins, ListUsers, ListDevices, ListReturns, LocalTypeOK
<1> QED BY <1>3, <1>4, <1>5, <1>6, <1>7 DEF LocalNext

(***************************************************************************)
(* Types of Cleanup                                                        *)
(***************************************************************************)

\* The units whose goroutine has answered
Sent == {u \in Unit : check[u] = "sent"}

\* A goroutine of a unit that was found answers once; what the channel holds
\* and what main has received is no more than that.
AnswersInv ==
    /\ IsFiniteSet(units)
    /\ cleaner \in {"off", "scan"} =>
          runch = <<>> /\ checked = <<>> /\ \A u \in Unit : check[u] = "off"
    /\ \A u \in Unit : check[u] # "off" => u \in units
    /\ cleaner \in {"del", "delLocal"} => cleaning \in Unit
    /\ Len(runch) + Len(checked) + (IF cleaner \in {"del", "delLocal"} THEN 1 ELSE 0)
         <= Cardinality(Sent)

LEMMA SentType ==
    ASSUME AnswersInv PROVE /\ IsFiniteSet(Sent) /\ Sent \subseteq units
                            /\ Cardinality(Sent) \in Nat /\ Cardinality(units) \in Nat
                            /\ Cardinality(Sent) <= Cardinality(units)
<1>1. IsFiniteSet(units) /\ Sent \subseteq units
  BY DEF AnswersInv, Sent
<1> QED BY <1>1, FS_Subset, FS_CardinalityType

LEMMA TokenStep ==
    ASSUME TokenTypeOK,
           (\E p \in Caller : FetchToken(p)) \/ CacheExpires \/ \E t \in valid : TokenExpires(t)
    PROVE  TokenTypeOK'
<1> USE DEF TokenGoes, cacheVars
<1>0. /\ 0 \in Token /\ MaxLapses \in Nat /\ MaxTokens \in Nat
      /\ \A n \in Token : n < MaxTokens => n + 1 \in Token /\ 1..n \subseteq 1..(n + 1)
                                           /\ n + 1 \in 1..(n + 1)
  BY AccessTokenAssumption DEF Token
<1>1. ASSUME NEW t \in valid, TokenExpires(t) PROVE TokenTypeOK'
  BY <1>1 DEF TokenExpires, TokenTypeOK
<1>2. ASSUME CacheExpires PROVE TokenTypeOK'
  BY <1>0, <1>2 DEF CacheExpires, TokenTypeOK
<1>3. ASSUME NEW p \in Caller,
             TokenExists(p) \/ TokenGet(p) \/ TokenSetex(p) \/ TokenRequestHangs(p)
      PROVE  TokenTypeOK'
  BY <1>3 DEF TokenExists, TokenGet, TokenSetex, TokenRequestHangs, TokenTypeOK
<1>4. ASSUME NEW p \in Caller, TokenRequest(p) PROVE TokenTypeOK'
  <2>1. issued \in Token /\ issued < MaxTokens /\ issued' = issued + 1
    BY <1>4 DEF TokenRequest, TokenTypeOK
  <2> QED BY <1>0, <1>4, <2>1 DEF TokenRequest, TokenTypeOK
<1>5. ASSUME NEW p \in Caller, TokenRequestFails(p) \/ TokenFails(p) PROVE TokenTypeOK'
  <2>1. lapses' \in 0..MaxLapses
    BY <1>0, <1>5 DEF TokenRequestFails, TokenFails, TokenTypeOK
  <2> QED BY <1>0, <1>5, <2>1 DEF TokenRequestFails, TokenFails, TokenTypeOK
<1> QED BY <1>1, <1>2, <1>3, <1>4, <1>5 DEF FetchToken

\* What a channel holds of the units' answers is never more than it has room for.
LEMMA RoomForAnswers ==
    ASSUME NEW k \in Nat, NEW l \in Nat, NEW d \in {0, 1}, NEW S, NEW T,
           IsFiniteSet(S), T \subseteq S, k + l + d <= Cardinality(T)
    PROVE  k <= Cardinality(S)
<1>1. Cardinality(S) \in Nat /\ Cardinality(T) \in Nat /\ Cardinality(T) <= Cardinality(S)
  BY FS_Subset, FS_CardinalityType
<1> QED BY <1>1

\* An answer that main has received and not yet counted: it is cleaning up its unit.
Delayed == IF cleaner \in {"del", "delLocal"} THEN 1 ELSE 0

LEMMA AnswerStep ==
    ASSUME CleanupTypeOK, AnswersInv, NEW u \in Unit, NEW r \in BOOLEAN,
           Alive, check[u] = "token", Answers(u, r), lapses' \in 0..MaxLapses
    PROVE  CleanupTypeOK' /\ AnswersInv'
<1>1. /\ runch' = Append(runch, [unit |-> u, running |-> r])
      /\ check' = [check EXCEPT ![u] = "sent"]
      /\ UNCHANGED <<cached, issued, valid, tokenAt, token, keys, runs, switches, wasRunning,
                     wasStopped, onlines, lc, cleaner, units, checked, cleaning>>
  BY DEF Answers, cacheVars, worldVars, listVars
<1>2. /\ runch \in Seq([unit : Unit, running : BOOLEAN]) /\ checked \in Seq(Unit)
      /\ check \in [Unit -> {"off", "token", "hung", "sent"}]
  BY DEF CleanupTypeOK
<1>3. /\ runch' \in Seq([unit : Unit, running : BOOLEAN]) /\ Len(runch') = Len(runch) + 1
      /\ Len(runch) \in Nat /\ Len(checked) \in Nat /\ Len(runch') \in Nat
  BY <1>1, <1>2, AppendProperties, LenProperties
<1>4. check' \in [Unit -> {"off", "token", "hung", "sent"}]
  BY <1>1, <1>2
<1>5. Sent' = Sent \cup {u} /\ u \notin Sent
  BY <1>1, <1>2 DEF Sent
<1>6. Cardinality(Sent') = Cardinality(Sent) + 1 /\ Cardinality(Sent) \in Nat
  <2>1. IsFiniteSet(Sent) /\ Cardinality(Sent) \in Nat
    BY SentType
  <2> QED BY <1>5, <2>1, FS_AddElement
<1>7. AnswersInv'
  <2>1. cleaner \notin {"off", "scan"}
    BY DEF AnswersInv
  <2>2. Len(runch) + Len(checked) + Delayed <= Cardinality(Sent) /\ Delayed \in {0, 1}
    BY DEF AnswersInv, Delayed
  <2>3. Len(runch') + Len(checked) + Delayed <= Cardinality(Sent')
    BY <1>3, <1>6, <2>2
  <2>4. \A v \in Unit : check'[v] # "off" => v \in units
    BY <1>1, <1>2 DEF AnswersInv
  <2> QED BY <1>1, <2>1, <2>3, <2>4 DEF AnswersInv, Delayed
<1>8. Len(runch') <= Cardinality(units')
  <2> DEFINE d == IF cleaner' \in {"del", "delLocal"} THEN 1 ELSE 0
  <2>1. Len(runch') + Len(checked') + d <= Cardinality(Sent') /\ d \in {0, 1} /\ Len(checked') \in Nat
    BY <1>1, <1>3, <1>7 DEF AnswersInv
  <2>2. IsFiniteSet(units') /\ Sent' \subseteq units'
    BY <1>7 DEF AnswersInv, Sent
  <2> HIDE DEF d
  <2> QED BY <1>3, <2>1, <2>2, RoomForAnswers
<1> QED BY <1>1, <1>3, <1>4, <1>7, <1>8 DEF CleanupTypeOK, TokenTypeOK

LEMMA FoundIsFinite ==
    ASSUME NEW n \in Nat, NEW f
    PROVE  IsFiniteSet({u \in Unit : \E i \in 1..n : f[i] = u})
<1> DEFINE T == {f[i] : i \in 1..n}
           h == [i \in 1..n |-> f[i]]
<1>1. h \in Surjection(1..n, T)
  BY DEF Surjection
<1>2. IsFiniteSet(1..n)
  BY FS_Interval
<1>3. IsFiniteSet(T)
  BY <1>1, <1>2, FS_Surjection
<1> QED BY <1>3, FS_Subset

LEMMA AskingStep ==
    ASSUME CleanupTypeOK, AnswersInv, NEW u \in Unit,
           NoToken(u) \/ AskPlatform(u) \/ PlatformFails(u)
    PROVE  CleanupTypeOK' /\ AnswersInv'
<1>0. lapses \in 0..MaxLapses /\ MaxLapses \in Nat
  BY AccessTokenAssumption DEF CleanupTypeOK, TokenTypeOK
<1>1. CASE NoToken(u)
  BY <1>0, <1>1, AnswerStep DEF NoToken
<1>2. CASE AskPlatform(u)
  BY <1>0, <1>2, AnswerStep DEF AskPlatform
<1>3. CASE PlatformFails(u)
  <2>1. lapses' \in 0..MaxLapses
    BY <1>0, <1>3 DEF PlatformFails
  <2> QED BY <1>3, <2>1, AnswerStep DEF PlatformFails
<1> QED BY <1>1, <1>2, <1>3

\* A request that is never answered leaves the other goroutines and main alone.
LEMMA HangingStep ==
    ASSUME CleanupTypeOK, AnswersInv, NEW u \in Unit, PlatformHangs(u)
    PROVE  CleanupTypeOK' /\ AnswersInv'
<1> USE DEF worldVars, listVars, tokenVars, cacheVars
<1>1. /\ check[u] = "token" /\ check' = [check EXCEPT ![u] = "hung"]
      /\ UNCHANGED <<cached, issued, valid, tokenAt, token, lapses, keys, runs, switches,
                     wasRunning, wasStopped, onlines, lc, cleaner, units, runch, checked, cleaning>>
  BY DEF PlatformHangs
<1>2. check \in [Unit -> {"off", "token", "hung", "sent"}]
  BY DEF CleanupTypeOK
<1>3. CleanupTypeOK'
  BY <1>1, <1>2 DEF CleanupTypeOK, TokenTypeOK
<1>4. Sent' = Sent
  BY <1>1, <1>2 DEF Sent
<1>5. /\ cleaner \notin {"off", "scan"}
      /\ \A v \in Unit : check'[v] # "off" => v \in units
  BY <1>1, <1>2 DEF AnswersInv
<1> QED BY <1>1, <1>3, <1>4, <1>5 DEF AnswersInv

\* Steps of the world and of the token's cache, and those of a goroutine that
\* does not answer yet
LEMMA WorldStep ==
    ASSUME CleanupTypeOK, AnswersInv,
           \/ \E u \in Unit : UnitStarts(u) \/ UnitStops(u) \/ Fetches(u)
           \/ KeyGoes \/ Tokens
    PROVE  CleanupTypeOK' /\ AnswersInv'
<1> USE DEF worldVars, listVars, tokenVars, cacheVars
<1>0. switches \in 0..MaxSwitches /\ MaxSwitches \in Nat
  BY CleanupAssumption DEF CleanupTypeOK
<1>1. UNCHANGED <<cleaner, units, check, runch, checked, cleaning, onlines, lc>>
  BY DEF UnitStarts, UnitStops, Fetches, KeyGoes, Tokens
<1>2. AnswersInv'
  BY <1>1 DEF AnswersInv, Sent
<1>3. ASSUME NEW u \in Unit, UnitStarts(u) \/ UnitStops(u) PROVE CleanupTypeOK'
  <2>1. switches' \in 0..MaxSwitches
    BY <1>0, <1>3 DEF UnitStarts, UnitStops
  <2>2. runs' \subseteq Unit /\ wasRunning' \subseteq Unit /\ wasStopped' \subseteq Unit
    BY <1>3 DEF UnitStarts, UnitStops, CleanupTypeOK
  <2>3. UNCHANGED <<cached, issued, valid, tokenAt, token, lapses, keys>>
    BY <1>3 DEF UnitStarts, UnitStops
  <2> QED BY <1>1, <2>1, <2>2, <2>3 DEF CleanupTypeOK, TokenTypeOK
<1>4. ASSUME KeyGoes PROVE CleanupTypeOK'
  <2>1. switches' \in 0..MaxSwitches
    BY <1>0, <1>4 DEF KeyGoes
  <2>2. keys \in Seq(Key) /\ keys # <<>> /\ keys' = Tail(keys)
    BY <1>4 DEF KeyGoes, CleanupTypeOK
  <2>3. keys' \in Seq(Key)
    BY <2>2, HeadTailProperties
  <2>4. UNCHANGED <<cached, issued, valid, tokenAt, token, lapses, runs, wasRunning, wasStopped>>
    BY <1>4 DEF KeyGoes
  <2> QED BY <1>1, <2>1, <2>3, <2>4 DEF CleanupTypeOK, TokenTypeOK
<1>5. ASSUME NEW u \in Unit, Fetches(u) PROVE CleanupTypeOK'
  <2>1. TokenTypeOK'
    BY <1>5, TokenStep, CleanupAssumption DEF Fetches, CleanupTypeOK
  <2>2. UNCHANGED <<keys, runs, switches, wasRunning, wasStopped>>
    BY <1>5 DEF Fetches
  <2> QED BY <1>1, <2>1, <2>2 DEF CleanupTypeOK
<1>6. ASSUME Tokens PROVE CleanupTypeOK'
  <2>1. TokenTypeOK'
    BY <1>6, TokenStep DEF Tokens, CleanupTypeOK
  <2>2. UNCHANGED <<keys, runs, switches, wasRunning, wasStopped>>
    BY <1>6 DEF Tokens
  <2> QED BY <1>1, <2>1, <2>2 DEF CleanupTypeOK
<1> QED BY <1>2, <1>3, <1>4, <1>5, <1>6

\* What SCAN finds
LEMMA GetUnitsStep ==
    ASSUME CleanupTypeOK, AnswersInv, GetUnits PROVE CleanupTypeOK' /\ AnswersInv'
<1> DEFINE m == IF Len(keys) < PageSize THEN Len(keys) ELSE PageSize
           page_ == SubSeq(keys, 1, m)
           hits == {u \in Unit : \E i \in DOMAIN page_ : page_[i].of = u}
<1>1. /\ cleaner = "scan" /\ units' = units \cup hits
      /\ UNCHANGED <<cached, issued, valid, token, lapses, keys, runs, switches, wasRunning,
                     wasStopped, onlines, lc, runch, checked, cleaning>>
  BY DEF GetUnits, cacheVars, worldVars, listVars
<1>2. \/ cleaner' = "scan" /\ check' = check /\ tokenAt' = tokenAt
      \/ /\ cleaner' = "receive"
         /\ check' = [u \in Unit |-> IF u \in units' THEN "token" ELSE "off"]
         /\ tokenAt' = [u \in Unit |-> IF u \in units' THEN "exists" ELSE "off"]
  BY DEF GetUnits
<1>3. m \in Nat /\ m <= Len(keys) /\ keys \in Seq(Key)
  BY CleanupAssumption DEF CleanupTypeOK
<1>4. DOMAIN page_ = 1..m
  BY <1>3
<1>5. IsFiniteSet(hits)
  <2> DEFINE f == [i \in 1..m |-> page_[i].of]
  <2>1. IsFiniteSet({u \in Unit : \E i \in 1..m : f[i] = u})
    <3> HIDE DEF f, m
    <3> QED BY <1>3, FoundIsFinite
  <2>2. hits = {u \in Unit : \E i \in 1..m : f[i] = u}
    BY <1>4
  <2> QED BY <2>1, <2>2
<1>6. IsFiniteSet(units) /\ runch = <<>> /\ checked = <<>> /\ \A u \in Unit : check[u] = "off"
  BY <1>1 DEF AnswersInv
<1> HIDE DEF hits, page_, m
<1>7. IsFiniteSet(units')
  BY <1>1, <1>5, <1>6, FS_Union
<1>8. Sent' = {}
  BY <1>2, <1>6 DEF Sent
<1>9. Cardinality(Sent') = 0 /\ Cardinality(units') \in Nat
  BY <1>7, <1>8, FS_EmptySet, FS_CardinalityType
<1>10. units' \subseteq Unit
  BY <1>1 DEF hits, CleanupTypeOK
<1>11. check' \in [Unit -> {"off", "token", "hung", "sent"}]
  BY <1>2 DEF CleanupTypeOK
<1>12. TokenTypeOK'
  <2>1. tokenAt' \in [Caller -> {"off", "exists", "get", "request", "setex", "ok", "error",
                                 "hung"}]
    BY <1>2, CleanupAssumption DEF CleanupTypeOK, TokenTypeOK
  <2> QED BY <1>1, <2>1 DEF CleanupTypeOK, TokenTypeOK
<1>13. AnswersInv'
  BY <1>1, <1>2, <1>6, <1>7, <1>9 DEF AnswersInv
<1> QED BY <1>1, <1>2, <1>6, <1>9, <1>10, <1>11, <1>12, <1>13 DEF CleanupTypeOK

LEMMA ReceiveStep ==
    ASSUME CleanupTypeOK, AnswersInv, Receive PROVE CleanupTypeOK' /\ AnswersInv'
<1> DEFINE rd == Head(runch)
           n == IF cleaner' \in {"del", "delLocal"} THEN 1 ELSE 0
<1>1. /\ cleaner = "receive" /\ runch # <<>> /\ runch' = Tail(runch)
      /\ UNCHANGED <<cached, issued, valid, tokenAt, token, lapses, keys, runs, switches,
                     wasRunning, wasStopped, onlines, lc, units, check>>
      /\ \/ checked' = Append(checked, rd.unit) /\ cleaner' \in {"done", "receive"}
            /\ cleaning' = cleaning
         \/ cleaning' = rd.unit /\ cleaner' = "del" /\ checked' = checked
  BY DEF Receive, TurnEnds, tokenVars, cacheVars, worldVars, listVars
<1>2. runch \in Seq([unit : Unit, running : BOOLEAN]) /\ checked \in Seq(Unit)
  BY DEF CleanupTypeOK
<1>3. /\ runch' \in Seq([unit : Unit, running : BOOLEAN]) /\ rd.unit \in Unit
      /\ Len(runch') \in Nat /\ Len(runch) = Len(runch') + 1
  <2>1. /\ Head(runch) \in [unit : Unit, running : BOOLEAN]
        /\ Tail(runch) \in Seq([unit : Unit, running : BOOLEAN])
        /\ Len(Tail(runch)) = Len(runch) - 1
    BY <1>1, <1>2, HeadTailProperties
  <2>2. Len(runch) \in Nat /\ Len(Tail(runch)) \in Nat
    BY <1>2, <2>1
  <2>3. rd.unit \in Unit
    BY <2>1
  <2> QED BY <1>1, <2>1, <2>2, <2>3
<1> HIDE DEF rd
<1>4. /\ checked' \in Seq(Unit) /\ Len(checked') \in Nat /\ Len(checked) \in Nat
      /\ Len(checked') + n = Len(checked) + 1
  <2>1. /\ Append(checked, rd.unit) \in Seq(Unit) /\ Len(checked) \in Nat
        /\ Len(Append(checked, rd.unit)) = Len(checked) + 1
    BY <1>2, <1>3, AppendProperties
  <2>2. CASE checked' = Append(checked, rd.unit) /\ cleaner' \in {"done", "receive"}
    BY <2>1, <2>2
  <2>3. CASE cleaner' = "del" /\ checked' = checked
    BY <1>2, <2>1, <2>3
  <2> QED BY <1>1, <2>2, <2>3
<1>5. n \in {0, 1}
  OBVIOUS
<1>6. Sent' = Sent
  BY <1>1 DEF Sent
<1>7. Len(runch) + Len(checked) <= Cardinality(Sent) /\ Cardinality(Sent) \in Nat
  BY <1>1, <1>3, <1>4, SentType DEF AnswersInv
<1>8. Len(runch') + Len(checked') + n <= Cardinality(Sent')
  <2> HIDE DEF n
  <2> QED BY <1>3, <1>4, <1>5, <1>6, <1>7
<1>9. cleaner' \in {"del", "delLocal"} => cleaning' \in Unit
  BY <1>1, <1>3
<1>10. IsFiniteSet(units) /\ \A u \in Unit : check[u] # "off" => u \in units
  BY DEF AnswersInv
<1>11. AnswersInv'
  BY <1>1, <1>8, <1>9, <1>10 DEF AnswersInv
<1>12. Len(runch') <= Cardinality(units')
  <2> HIDE DEF n
  <2> QED BY <1>1, <1>3, <1>4, <1>5, <1>6, <1>8, SentType, RoomForAnswers
<1>13. cleaning' \in Unit \cup {"none"}
  BY <1>1, <1>3 DEF CleanupTypeOK
<1> QED BY <1>1, <1>3, <1>4, <1>11, <1>12, <1>13 DEF CleanupTypeOK, TokenTypeOK

LEMMA CleansUpStep ==
    ASSUME CleanupTypeOK, AnswersInv, Del \/ DelLocal \/ MainFails
    PROVE  CleanupTypeOK' /\ AnswersInv'
<1> USE DEF worldVars, listVars, tokenVars, cacheVars
<1>0. lapses \in 0..MaxLapses /\ MaxLapses \in Nat
  BY AccessTokenAssumption DEF CleanupTypeOK, TokenTypeOK
<1>1. CASE Del
  <2>1. /\ cleaner = "del" /\ cleaner' = "delLocal" /\ onlines' = onlines \ {cleaning}
        /\ UNCHANGED <<cached, issued, valid, tokenAt, token, lapses, keys, runs, switches,
                       wasRunning, wasStopped, lc, units, check, runch, checked, cleaning>>
    BY <1>1 DEF Del
  <2> QED BY <2>1 DEF CleanupTypeOK, TokenTypeOK, AnswersInv, Sent
<1>2. CASE DelLocal
  <2>1. /\ cleaner = "delLocal" /\ cleaner' \in {"done", "receive"} /\ lc' = lc \ {cleaning}
        /\ checked' = Append(checked, cleaning) /\ cleaning' = "none"
        /\ UNCHANGED <<cached, issued, valid, tokenAt, token, lapses, keys, runs, switches,
                       wasRunning, wasStopped, onlines, units, check, runch>>
    BY <1>2 DEF DelLocal, TurnEnds
  <2>2. cleaning \in Unit /\ checked \in Seq(Unit) /\ runch \in Seq([unit : Unit, running : BOOLEAN])
    BY <2>1 DEF CleanupTypeOK, AnswersInv
  <2>3. checked' \in Seq(Unit) /\ Len(checked') = Len(checked) + 1 /\ Len(checked) \in Nat
    BY <2>1, <2>2, AppendProperties
  <2>4. Len(runch) + Len(checked) + 1 <= Cardinality(Sent) /\ Len(runch) \in Nat
    BY <2>1, <2>2 DEF AnswersInv
  <2>5. Sent' = Sent /\ Cardinality(Sent) \in Nat
    BY <2>1, SentType DEF Sent
  <2>6. Len(runch') + Len(checked') + 0 <= Cardinality(Sent')
    BY <2>1, <2>3, <2>4, <2>5
  <2>7. AnswersInv'
    BY <2>1, <2>6 DEF AnswersInv
  <2> QED BY <2>1, <2>3, <2>7 DEF CleanupTypeOK, TokenTypeOK
<1>3. CASE MainFails
  <2>1. /\ cleaner' = "fatal" /\ lapses' \in 0..MaxLapses
        /\ UNCHANGED <<cached, issued, valid, tokenAt, token, keys, runs, switches, wasRunning,
                       wasStopped, onlines, lc, units, check, runch, checked, cleaning>>
    BY <1>0, <1>3 DEF MainFails
  <2>2. /\ runch \in Seq([unit : Unit, running : BOOLEAN]) /\ checked \in Seq(Unit)
        /\ Sent' = Sent /\ Cardinality(Sent) \in Nat
    BY <2>1, SentType DEF CleanupTypeOK, Sent
  <2>3. Len(runch) \in Nat /\ Len(checked) \in Nat
    BY <2>2
  <2>4. Len(runch) + Len(checked) + (IF cleaner \in {"del", "delLocal"} THEN 1 ELSE 0)
          <= Cardinality(Sent)
    BY DEF AnswersInv
  <2>5. Len(runch') + Len(checked') + 0 <= Cardinality(Sent')
    BY <2>1, <2>2, <2>3, <2>4
  <2>6. AnswersInv'
    BY <2>1, <2>5 DEF AnswersInv
  <2> QED BY <2>1, <2>6 DEF CleanupTypeOK, TokenTypeOK
<1> QED BY <1>1, <1>2, <1>3

LEMMA CleanupStep ==
    ASSUME CleanupTypeOK, AnswersInv, CleanupNext PROVE CleanupTypeOK' /\ AnswersInv'
BY AskingStep, HangingStep, WorldStep, GetUnitsStep, ReceiveStep, CleansUpStep
   DEF CleanupNext, CheckUnit, CleanerStep

(***************************************************************************)
(* All types                                                               *)
(***************************************************************************)
TypeInv ==
    /\ ScenesInv /\ EndUnitTypeOK /\ MonitorInv /\ ChatsTypeOK /\ AskerInv
    /\ LocalTypeOK /\ CleanupTypeOK /\ AnswersInv

LEMMA TypeAtInit == Init => TypeInv
<1> SUFFICES ASSUME Init PROVE TypeInv
  OBVIOUS
<1>1. PICK i \in Instances :
          /\ plan = i.plan /\ reports = i.reports /\ keys = i.keys
          /\ starts = (IF i.job THEN 0 ELSE MaxStarts)
          /\ chatId = (IF i.ask = None THEN 0 ELSE i.ask)
          /\ IF i.keys = <<>> THEN cleaner = "off" /\ runs = {} /\ cached = 0
                              ELSE cleaner = "scan"
  BY DEF Init
<1>2. /\ i.plan \in Plans /\ i.ask \in FirstIds \cup {None} /\ i.reports \in Reports
      /\ i.keys \in Keyspaces
  BY UnitsAssumption
<1>3. /\ 0 \in SceneNo /\ 1 \in SceneNo /\ MaxFailures \in Nat /\ MaxStarts \in Nat
      /\ MaxChanges \in Nat /\ MaxSwitches \in Nat /\ MaxLapses \in Nat /\ MaxTokens \in Nat
      /\ NoMod \in ModKey
  BY ScenesAssumption, EndUnitAssumption, ChatsAssumption, CleanupAssumption,
     AccessTokenAssumption DEF SceneNo, ModKey
<1>4. ScenesInv
  <2>1. ScenesTypeOK
    <3>1. NoRecord \in SceneRecord
      BY DEF NoRecord, SceneRecord
    <3> QED BY <1>3, <3>1 DEF Init, ScenesInit, ScenesTypeOK, ConnAt
  <2>2. \A c \in Conn : at[c] = "off"
    BY DEF Init, ScenesInit
  <2> QED BY <2>1, <2>2 DEF ScenesInv, ConnInv
<1>5. EndUnitTypeOK /\ MonitorInv
  <2>1. isEndCloud \in BOOLEAN /\ broken \in BOOLEAN /\ ended \in BOOLEAN
    BY Zenon DEF Init, EndUnitInit
  <2> QED BY <1>3, <2>1 DEF Init, EndUnitInit, EndUnitTypeOK, MonitorInv
<1>6. ChatsTypeOK /\ AskerInv
  <2>1. running \in BOOLEAN /\ first \in BOOLEAN /\ astray \in BOOLEAN
    BY Zenon DEF Init, ChatsInit
  <2>2. chatId \in Nat
    BY <1>1, <1>2, ChatsAssumption
  <2> QED BY <1>3, <2>1, <2>2 DEF Init, ChatsInit, ChatsTypeOK, AskerInv
<1>7. LocalTypeOK
  <2>1. up \in BOOLEAN
    BY Zenon DEF Init, LocalInit
  <2> QED BY <1>1, <1>2, <2>1, LocalAssumption DEF Init, LocalInit, LocalTypeOK
<1>8. CleanupTypeOK
  <2>1. TokenTypeOK
    <3>1. cached \in {0, 1} /\ issued = 1 /\ valid = {1}
      BY DEF Init, CleanupInit, TokenInit
    <3>2. 1 \in Token
      BY AccessTokenAssumption DEF Token
    <3> QED BY <1>3, <3>1, <3>2 DEF Init, CleanupInit, TokenInit, TokenTypeOK, Token
  <2>2. keys \in Seq(Key)
    BY <1>1, <1>2, CleanupAssumption
  <2>3. Cardinality(units) = 0 /\ Len(runch) = 0
    BY FS_EmptySet DEF Init, CleanupInit
  <2> QED BY <1>3, <2>1, <2>2, <2>3 DEF Init, CleanupInit, CleanupTypeOK
<1>9. AnswersInv
  <2>1. Sent = {} /\ units = {} /\ runch = <<>> /\ checked = <<>>
        /\ cleaner \in {"off", "scan"} /\ \A u \in Unit : check[u] = "off"
    BY DEF Init, CleanupInit, Sent
  <2> QED BY <2>1, FS_EmptySet DEF AnswersInv
<1> QED BY <1>4, <1>5, <1>6, <1>7, <1>8, <1>9 DEF TypeInv

\* The job's last frame is lost: a step of a connection that is no frame's.
LEMMA FrameLostStep ==
    ASSUME ScenesInv, NEW j \in JobConn, FrameLost(j)
    PROVE  /\ ScenesInv'
           /\ UNCHANGED <<plan, redisVars, found, sent, curmod, got, failures, auxVars, jobVars>>
<1> USE DEF redisVars, auxVars, jobVars, Goes
<1>1. /\ j \in Conn /\ at' = [at EXCEPT ![j] = "out"]
      /\ UNCHANGED <<plan, redisVars, found, sent, curmod, got, failures, auxVars, jobVars>>
  BY EndUnitAssumption DEF FrameLost
<1>2. at \in [Conn -> ConnAt]
  BY DEF ScenesInv, ScenesTypeOK
<1>3. ScenesTypeOK'
  BY <1>1, <1>2 DEF ScenesInv, ScenesTypeOK, ConnAt
<1>4. \A c \in Conn : ConnInv(c)'
  BY <1>1, <1>2 DEF ScenesInv, ConnInv, Current
<1> QED BY <1>1, <1>3, <1>4 DEF ScenesInv

\* A step of the job that counts a failure changes nothing else of redis.
LEMMA FailureCounted ==
    ASSUME ScenesInv, JobAndToken,
           UNCHANGED <<plan, redisVars, at, found, sent, curmod, got, auxVars>>
    PROVE  ScenesInv'
<1> USE DEF redisVars, auxVars, JobExits, busVars, MonitorAt, MonitorGoes
<1>1. failures \in 0..MaxFailures /\ MaxFailures \in Nat
  BY ScenesAssumption DEF ScenesInv, ScenesTypeOK
<1>2. failures' \in 0..MaxFailures
  BY <1>1 DEF JobAndToken, GetToken, DialFails
<1> QED BY <1>2 DEF ScenesInv, ScenesTypeOK, ConnInv, Current

LEMMA TypeStep == TypeInv /\ [Next]_unitVars => TypeInv'
<1> SUFFICES ASSUME TypeInv, [Next]_unitVars PROVE TypeInv'
  OBVIOUS
<1> USE DEF unitVars
<1>0. /\ ScenesInv /\ ScenesTypeOK /\ EndUnitTypeOK /\ MonitorInv /\ ChatsTypeOK /\ AskerInv
      /\ LocalTypeOK /\ CleanupTypeOK /\ AnswersInv
  BY DEF TypeInv, ScenesInv
<1>1. UNCHANGED sceneVars => ScenesInv'
  BY <1>0, Zenon DEF sceneVars, redisVars, connVars, auxVars, ScenesInv, ScenesTypeOK, ConnInv, Current
<1>2. UNCHANGED jobVars => EndUnitTypeOK' /\ MonitorInv'
  BY <1>0, Zenon DEF jobVars, EndUnitTypeOK, MonitorInv
<1>3. UNCHANGED chatVars => ChatsTypeOK' /\ AskerInv'
  BY <1>0, Zenon DEF chatVars, queryVars, ChatsTypeOK, AskerInv
<1>4. UNCHANGED localVars => LocalTypeOK'
  BY <1>0, Zenon DEF localVars, setVars, LocalTypeOK
<1>5. UNCHANGED cleanupVars => CleanupTypeOK' /\ AnswersInv'
  BY <1>0, Zenon DEF cleanupVars, tokenVars, cacheVars, worldVars, listVars, CleanupTypeOK,
                     TokenTypeOK, AnswersInv, Sent
<1>6. ASSUME NEW c \in Conn, Serves(c) PROVE TypeInv'
  <2>1. ScenesInv'
    BY <1>0, <1>6, ConnStep, ScenesTypeStep DEF Serves, ScenesInv
  <2> QED BY <1>2, <1>3, <1>4, <1>5, <1>6, <2>1 DEF Serves, TypeInv
<1>7. ASSUME Asks \/ Platform PROVE TypeInv'
  <2>1. ChatsTypeOK' /\ AskerInv'
    BY <1>0, <1>7, ChatsStep DEF Asks, Platform
  <2> QED BY <1>1, <1>2, <1>4, <1>5, <1>7, <2>1 DEF Asks, Platform, TypeInv
<1>8. ASSUME LocalControl PROVE TypeInv'
  <2>1. LocalTypeOK'
    BY <1>0, <1>8, LocalStep DEF LocalControl
  <2> QED BY <1>1, <1>2, <1>3, <1>5, <1>8, <2>1 DEF LocalControl, TypeInv
<1>9. ASSUME Cleans PROVE TypeInv'
  <2>1. CleanupTypeOK' /\ AnswersInv'
    BY <1>0, <1>9, CleanupStep DEF Cleans
  <2> QED BY <1>1, <1>2, <1>3, <1>4, <1>9, <2>1 DEF Cleans, TypeInv
<1>10. ASSUME Job PROVE TypeInv'
  <2>1. ScenesInv' /\ EndUnitTypeOK' /\ MonitorInv'
    <3>1. CASE JobAlone /\ UNCHANGED sceneVars
      BY <1>0, <1>1, <3>1, JobStep
    <3>2. CASE JobAndToken /\ UNCHANGED <<plan, redisVars, at, found, sent, curmod, got, auxVars>>
      BY <1>0, <3>2, JobStep, FailureCounted
    <3>3. ASSUME NEW j \in JobConn, FrameLost(j)
          PROVE  ScenesInv' /\ EndUnitTypeOK' /\ MonitorInv'
      BY <1>0, <1>2, <3>3, FrameLostStep
    <3> QED BY <1>10, <3>1, <3>2, <3>3 DEF Job
  <2> QED BY <1>3, <1>4, <1>5, <1>10, <2>1 DEF Job, TypeInv
<1>11. CASE UNCHANGED unitVars
  BY <1>1, <1>2, <1>3, <1>4, <1>5, <1>11 DEF TypeInv
<1> QED BY <1>6, <1>7, <1>8, <1>9, <1>10, <1>11 DEF Next

LEMMA TypesKept == Spec => []TypeInv
<1> QED BY TypeAtInit, TypeStep, PTL DEF Spec

\* The values of a unit's whole state stay of their kinds: the records, states
\* and histories in redis, the connections, the job, the query, the terminals
\* of a local control, the tokens and the channel of the clean-up, which never
\* holds more answers than there are units (client.go, processor.go,
\* endunit_countdown.go, handler.go, cleanup_unit.go).
THEOREM TypeCorrect == Spec => []TypeOK
<1>1. TypeInv => TypeOK
  BY DEF TypeInv, TypeOK, ScenesInv
<1> QED BY <1>1, TypesKept, PTL

(***************************************************************************)
(* The listing of a local control's terminals                              *)
(***************************************************************************)

\* The sets are what was sent; a listing on its way has those of the users
\* there all the while, once it has been at the users, and of the devices,
\* once it has been at these.
ListInv ==
    /\ local = online
    /\ lister \in {"users", "devices", "done"} => steady \subseteq local /\ local \subseteq seen
    /\ lister = "devices" => steady \ LocalDevice \subseteq listed /\ listed \subseteq seen
    /\ lister = "done" => steady \subseteq listed /\ listed \subseteq seen
    /\ ~up => maps = "nil"

LEMMA ListStep == ASSUME LocalTypeOK, ListInv, LocalNext PROVE ListInv'
<1> USE DEF setVars, Online, Receives
<1>1. maps \in {"made", "users", "nil"}
  BY DEF LocalTypeOK
<1>2. ~up' => maps' = "nil"
  <2>1. CASE AddTerminal
    <3>1. CASE maps = "made"
      BY <2>1, <3>1, Zenon DEF AddTerminal, ListInv
    <3>2. CASE maps # "made"
      BY <1>1, <2>1, <3>2 DEF AddTerminal
    <3> QED BY <3>1, <3>2
  <2>2. CASE ReplaceDevices
    BY <2>2 DEF ReplaceDevices
  <2>3. CASE \/ Report \/ ReportAll \/ RemoveTerminal
             \/ ListBegins \/ ListUsers \/ ListDevices \/ ListReturns
    <3>1. up' = up /\ up
      BY <2>3, Zenon DEF Report, ReportAll, RemoveTerminal, ListBegins, ListUsers, ListDevices,
                         ListReturns
    <3> QED BY <3>1, Zenon
  <2> QED BY <2>1, <2>2, <2>3 DEF LocalNext
<1> DEFINE Lists == /\ local = online
                    /\ lister \in {"users", "devices", "done"} =>
                          steady \subseteq local /\ local \subseteq seen
                    /\ lister = "devices" => steady \ LocalDevice \subseteq listed /\ listed \subseteq seen
                    /\ lister = "done" => steady \subseteq listed /\ listed \subseteq seen
<1>3. Lists
  BY DEF ListInv
<1>4. CASE Report \/ ReportAll \/ ReplaceDevices
  <2>1. Lists'
    BY <1>3, <1>4 DEF Report, ReportAll, ReplaceDevices
  <2> QED BY <1>2, <2>1 DEF ListInv
<1>5. CASE AddTerminal \/ RemoveTerminal
  <2>1. Lists'
    BY <1>3, <1>5 DEF AddTerminal, RemoveTerminal
  <2> QED BY <1>2, <2>1 DEF ListInv
<1>6. CASE ListBegins \/ ListUsers \/ ListDevices \/ ListReturns
  <2>1. Lists'
    BY <1>3, <1>6 DEF ListBegins, ListUsers, ListDevices, ListReturns
  <2> QED BY <1>2, <2>1 DEF ListInv
<1> QED BY <1>4, <1>5, <1>6 DEF LocalNext

\* While a local control reports terminals and takes them back, a listing of
\* ServeUsers has everyone who was there all the while and nobody who never
\* was, and the process ends only after a full report, which leaves nil maps
\* (handler.go, ServeUsers; processor.go, LocalRegMsg and the Offline messages).
THEOREM ListingsAreFaithful == Spec => []ListingIsFaithful
<1>1. Init => ListInv
  <2> SUFFICES ASSUME Init PROVE ListInv
    OBVIOUS
  <2>1. up
    BY Zenon DEF Init, LocalInit
  <2>2. /\ local = online /\ lister \in {"off", "idle"}
    BY DEF Init, LocalInit
  <2> QED BY <2>1, <2>2 DEF ListInv
<1>2. TypeInv /\ ListInv /\ [Next]_unitVars => ListInv'
  <2> SUFFICES ASSUME TypeInv, ListInv, [Next]_unitVars PROVE ListInv'
    OBVIOUS
  <2>1. CASE LocalControl
    BY <2>1, ListStep DEF LocalControl, TypeInv
  <2>2. CASE UNCHANGED localVars
    BY <2>2, Zenon DEF localVars, setVars, ListInv
  <2>3. LocalControl \/ UNCHANGED localVars
    BY DEF Next, Serves, Asks, Platform, Job, Cleans, unitVars
  <2> QED BY <2>1, <2>2, <2>3
<1>3. ListInv => ListingIsFaithful
  BY DEF ListInv, ListingIsFaithful
<1> QED BY <1>1, <1>2, <1>3, TypesKept, PTL DEF Spec

(***************************************************************************)
(* The pages of the chat                                                   *)
(***************************************************************************)

\* The lists of chat messages only grow, and a scene id that is there stays.
LEMMA ChatGrows ==
    ASSUME ScenesInv, NEW c \in Conn, ScenesNext(c)
    PROVE  /\ sceneId # 0 => sceneId' # 0
           /\ \A s \in SceneNo :
                 /\ Len(chat[s]) <= Len(chat'[s])
                 /\ \A i \in 1..Len(chat[s]) : chat'[s][i] = chat[s][i]
<1> USE DEF redisVars, auxVars, Goes
<1>t. ScenesTypeOK
  BY DEF ScenesInv
<1>1. chat \in [SceneNo -> Seq(FrameId)] /\ Mine(c) \in SceneNo
  BY <1>t, MineType DEF ScenesTypeOK
<1>n. sceneId \in Nat
  BY <1>t, ScenesAssumption DEF ScenesTypeOK, SceneNo
<1>2. sceneId # 0 => sceneId' # 0
  <2>1. CASE SetSceneId(c) \/ EndIncr(c)
    BY <1>n, <2>1 DEF SetSceneId, EndIncr
  <2>2. SetSceneId(c) \/ EndIncr(c) \/ sceneId' = sceneId
    BY DEF ScenesNext, Process, Connect, EndSet, CommandFails,
           StartUnit, EndUnit, Chat, FrameFails, PushStatus, GetStatus, SetStatus
  <2> QED BY <2>1, <2>2
<1>3. \A s \in SceneNo : Len(chat[s]) \in Nat
  BY <1>1, LenProperties
<1>4. CASE Chat(c)
  <2> DEFINE id == [from |-> c, n |-> sent[c] + 1]
  <2>1. chat' = [chat EXCEPT ![Mine(c)] = Append(@, id)] /\ id \in FrameId
    BY <1>4, TakesType DEF Chat
  <2> HIDE DEF id
  <2>2. ASSUME NEW s \in SceneNo
        PROVE  Len(chat[s]) <= Len(chat'[s]) /\ \A i \in 1..Len(chat[s]) : chat'[s][i] = chat[s][i]
    <3>1. CASE s = Mine(c)
      <4>1. chat'[s] = Append(chat[s], id) /\ chat[s] \in Seq(FrameId)
        BY <1>1, <2>1, <3>1
      <4> QED BY <1>3, <2>1, <4>1, AppendProperties
    <3>2. CASE s # Mine(c)
      BY <1>1, <1>3, <2>1, <3>2
    <3> QED BY <3>1, <3>2
  <2> QED BY <1>2, <2>2
<1>5. CASE chat' = chat
  BY <1>2, <1>3, <1>5
<1>6. Chat(c) \/ chat' = chat
  BY DEF ScenesNext, Process, Connect, SetSceneId, EndIncr, EndSet, CommandFails,
         StartUnit, EndUnit, FrameFails, PushStatus, GetStatus, SetStatus
<1> QED BY <1>4, <1>5, <1>6

\* What the peer has put together so far is the end of the list as it was.
Together ==
    /\ Len(rows) <= total
    /\ rows # <<>> \/ asker = "lrange" => total <= Len(chat[of])
    /\ \A k \in 1..Len(rows) : /\ rows[k].id = total - Len(rows) + k
                               /\ rows[k].message = chat[of][rows[k].id]

\* The next page ends before what it has.
NextPage ==
    /\ ~first /\ asker \notin {"done", "lrange"} =>
          rows # <<>> /\ chatId # 0 /\ chatId = total - Len(rows)
    /\ asker = "lrange" => ep = total - Len(rows) - 1 /\ ep >= 0
    /\ asker = "done" => Len(rows) = total

\* Nothing is there before the first page; after it the unit has a scene.
Begins ==
    /\ asker \in {"status", "llen", "lrange"} \/ ~first => sceneId # 0
    /\ first => rows = <<>> /\ total = 0 /\ asker # "lrange"

ChatInv == Begins /\ (~astray => Together /\ NextPage)

LEMMA ChatInvGrows ==
    ASSUME ScenesTypeOK, ChatsTypeOK, ChatInv, UNCHANGED queryVars,
           sceneId # 0 => sceneId' # 0,
           \A s \in SceneNo :
               /\ Len(chat[s]) <= Len(chat'[s])
               /\ \A i \in 1..Len(chat[s]) : chat'[s][i] = chat[s][i],
           chat' \in [SceneNo -> Seq(FrameId)]
    PROVE  ChatInv'
<1>1. UNCHANGED <<asker, chatId, of, ep, rows, total>> /\ first' = first /\ astray' = astray
  BY DEF queryVars
<1>2. of \in SceneNo /\ total \in Nat /\ rows \in Seq(Row) /\ Len(rows) \in Nat
  BY LenProperties DEF ChatsTypeOK
<1>3. Len(chat[of]) \in Nat /\ Len(chat'[of]) \in Nat
  BY <1>2, LenProperties DEF ScenesTypeOK
<1>4. Together => Together'
  <2> SUFFICES ASSUME Together PROVE Together'
    OBVIOUS
  <2>1. rows # <<>> \/ asker = "lrange" => total <= Len(chat'[of])
    BY <1>2, <1>3 DEF Together
  <2>2. ASSUME NEW k \in 1..Len(rows)
        PROVE  rows[k].id = total - Len(rows) + k /\ rows[k].message = chat'[of][rows[k].id]
    <3>1. rows[k].id = total - Len(rows) + k /\ Len(rows) <= total /\ rows # <<>>
          /\ rows[k].message = chat[of][rows[k].id]
      BY <1>2 DEF Together
    <3>2. total <= Len(chat[of])
      BY <3>1 DEF Together
    <3>3. rows[k].id \in 1..Len(chat[of])
      BY <1>2, <1>3, <3>1, <3>2
    <3> QED BY <1>2, <3>1, <3>3
  <2> QED BY <1>1, <2>1, <2>2 DEF Together
<1>5. NextPage => NextPage'
  BY <1>1, Zenon DEF NextPage
<1>6. Begins'
  BY <1>1, Zenon DEF ChatInv, Begins
<1> QED BY <1>1, <1>4, <1>5, <1>6, Zenon DEF ChatInv

LEMMA AskingKeepsChat ==
    ASSUME ScenesTypeOK, ChatsTypeOK, ChatInv, AskScene \/ AskStatus \/ CountChats,
           chat' = chat, sceneId' = sceneId
    PROVE  ChatInv'
<1>1. /\ of \in SceneNo /\ total \in Nat /\ rows \in Seq(Row) /\ Len(rows) \in Nat
      /\ chatId \in Nat /\ Len(<<>>) = 0
  BY LenProperties DEF ChatsTypeOK
<1>2. \A s \in SceneNo : Len(chat[s]) \in Nat
  BY LenProperties DEF ScenesTypeOK
<1>b. first \in BOOLEAN /\ astray \in BOOLEAN
  BY Zenon DEF ChatsTypeOK
<1>e. first => rows = <<>> /\ Len(rows) = 0 /\ total = 0
  BY <1>1 DEF ChatInv, Begins
<1>3. CASE AskScene
  <2>1. /\ asker = "ask" /\ UNCHANGED <<chatId, of, ep, rows, total>>
        /\ IF sceneId = 0 THEN asker' = "done" ELSE asker' = "status"
    BY <1>3 DEF AskScene
  <2>2. first' = first /\ astray' = astray
    BY <1>3, Zenon DEF AskScene
  <2>3. Begins'
    BY <2>1, <2>2 DEF ChatInv, Begins
  <2>4. ASSUME ~astray PROVE Together' /\ NextPage'
    <3>1. Together /\ NextPage
      BY <2>4 DEF ChatInv
    <3>2. Together'
      BY <2>1, <3>1 DEF Together
    <3>3. asker' = "done" => first
      BY <2>1 DEF ChatInv, Begins
    <3>4. NextPage'
      BY <1>e, <2>1, <2>2, <3>1, <3>3 DEF NextPage
    <3> QED BY <3>2, <3>4
  <2> QED BY <2>2, <2>3, <2>4, Zenon DEF ChatInv
<1>4. CASE AskStatus
  <2>1. /\ asker = "status" /\ asker' = "llen" /\ UNCHANGED <<chatId, ep, rows, total>>
    BY <1>4 DEF AskStatus
  <2>2. first' = first /\ (~astray' => ~astray /\ (first \/ of' = of))
    BY <1>4, <1>b, Zenon DEF AskStatus
  <2>3. Begins'
    BY <2>1, <2>2 DEF ChatInv, Begins
  <2>4. ASSUME ~astray' PROVE Together' /\ NextPage'
    <3>1. Together /\ NextPage /\ (first \/ of' = of)
      BY <2>2, <2>4, Zenon DEF ChatInv
    <3>2. CASE ~first
      <4>1. of' = of
        BY <3>1, <3>2
      <4> QED BY <2>1, <2>2, <3>1, <4>1 DEF Together, NextPage
    <3>3. CASE first
      <4>1. rows' = <<>> /\ total' = 0 /\ Len(rows') = 0 /\ first'
        BY <1>e, <2>1, <2>2, <3>3
      <4> QED BY <2>1, <4>1 DEF Together, NextPage
    <3> QED BY <3>2, <3>3
  <2> QED BY <2>3, <2>4, Zenon DEF ChatInv
<1>5. CASE CountChats
  <2> DEFINE count == Len(chat[of])
  <2>1. /\ asker = "llen" /\ UNCHANGED <<chatId, of, rows>>
        /\ asker' = (IF count = 0 THEN "done" ELSE "lrange")
        /\ ep' = (IF chatId = 0 THEN count - 1 ELSE chatId - 1)
        /\ total' = (IF ~first THEN total ELSE IF chatId = 0 THEN count ELSE chatId)
    BY <1>5 DEF CountChats
  <2>2. count \in Nat
    BY <1>1, <1>2
  <2>3. ~first' /\ (~astray' => ~astray /\ (first => ~(chatId > count)))
    BY <1>5, <1>b, Zenon DEF CountChats
  <2> HIDE DEF count
  <2>4. Begins'
    BY <2>1, <2>3 DEF ChatInv, Begins
  <2>5. ASSUME ~astray' PROVE Together' /\ NextPage'
    <3>1. Together /\ NextPage /\ (first => ~(chatId > count))
      BY <2>3, <2>5, Zenon DEF ChatInv
    <3>2. CASE ~first
      <4>1. rows # <<>> /\ chatId # 0 /\ chatId = total - Len(rows)
            /\ total <= count /\ Len(rows) <= total
        BY <2>1, <3>1, <3>2 DEF Together, NextPage, count
      <4>2. count # 0 /\ asker' = "lrange"
        BY <1>1, <2>1, <2>2, <4>1
      <4>3. ep' = total - Len(rows) - 1 /\ ep' >= 0 /\ total' = total
        BY <1>1, <2>1, <3>2, <4>1
      <4>4. Together'
        BY <2>1, <3>1, <4>1, <4>3 DEF Together, count
      <4>5. NextPage'
        BY <2>1, <4>1, <4>2, <4>3 DEF NextPage
      <4> QED BY <4>4, <4>5
    <3>3. CASE first
      <4>1. rows' = <<>> /\ Len(rows') = 0
        BY <1>e, <2>1, <3>3
      <4>2. /\ total' = IF chatId = 0 THEN count ELSE chatId
            /\ total' \in Nat /\ total' <= count /\ ep' = total' - 1
        BY <1>1, <2>1, <2>2, <3>1, <3>3
      <4>3. Together'
        BY <2>1, <4>1, <4>2 DEF Together, count
      <4>4. asker' = "done" => total' = 0
        BY <2>1, <2>2, <4>2
      <4>5. asker' = "lrange" => total' # 0
        BY <2>1, <2>2, <4>2
      <4>6. NextPage'
        BY <2>1, <4>1, <4>2, <4>4, <4>5 DEF NextPage
      <4> QED BY <4>3, <4>6
    <3> QED BY <3>2, <3>3
  <2> QED BY <2>4, <2>5, Zenon DEF ChatInv
<1> QED BY <1>3, <1>4, <1>5

LEMMA ReadingKeepsChat ==
    ASSUME Limit # 0, ScenesTypeOK, ChatsTypeOK, ChatInv, ReadChats,
           chat' = chat, sceneId' = sceneId
    PROVE  ChatInv'
<1> DEFINE page_ == Page(ep)
           S == StartOf(ep)
<1>1. /\ of \in SceneNo /\ total \in Nat /\ rows \in Seq(Row) /\ Len(rows) \in Nat
      /\ chatId \in Nat /\ ep \in Int /\ Len(chat[of]) \in Nat
  BY LenProperties DEF ChatsTypeOK, ScenesTypeOK
<1>2. /\ asker = "lrange" /\ rows' = page_ \o rows
      /\ UNCHANGED <<of, ep, total>>
      /\ IF page_ = <<>> \/ page_[1].id <= 1
           THEN asker' = "done" /\ UNCHANGED chatId
           ELSE asker' = "ask" /\ chatId' = page_[1].id - 1
  BY DEF ReadChats
<1>f. first' = first /\ astray' = astray
  BY Zenon DEF ReadChats
<1>g. ~first
  BY <1>2 DEF ChatInv, Begins
<1>3. /\ page_ \in Seq(Row)
      /\ ep \in 0..(Len(chat[of]) - 1) =>
            /\ Len(page_) = ep - S + 1 /\ S \in 0..ep
            /\ \A k \in 1..Len(page_) : page_[k] = [id |-> S + k, message |-> chat[of][S + k]]
  BY <1>1, PageOf
<1> HIDE DEF page_, S
<1>4. page_ # <<>> => page_[1].id \in Int
  <2>1. page_ # <<>> => page_[1] \in Row
    BY <1>3, EmptySeq, LenProperties, ElementOfSeq
  <2> QED BY <2>1 DEF Row
<1>6. Begins'
  BY <1>2, <1>f, <1>g DEF ChatInv, Begins
<1>7. ASSUME ~astray PROVE Together' /\ NextPage'
  <2>1. /\ Together /\ ep = total - Len(rows) - 1 /\ ep >= 0
    BY <1>2, <1>7 DEF ChatInv, NextPage
  <2>2. total <= Len(chat[of]) /\ ep \in 0..(Len(chat[of]) - 1)
    BY <1>1, <1>2, <2>1 DEF Together
  <2>3. /\ Len(page_) = ep - S + 1 /\ S \in 0..ep
        /\ \A k \in 1..Len(page_) : page_[k] = [id |-> S + k, message |-> chat[of][S + k]]
    BY <1>3, <2>2
  <2>4. Len(page_) \in Nat /\ Len(page_) >= 1 /\ S \in Nat
    BY <1>1, <2>3
  <2>5. /\ Len(rows') = total - S /\ Len(rows') \in Nat
        /\ \A k \in 1..Len(rows') :
              rows'[k] = IF k <= Len(page_) THEN page_[k] ELSE rows[k - Len(page_)]
    <3>1. /\ Len(page_ \o rows) = Len(page_) + Len(rows)
          /\ \A k \in 1..(Len(page_) + Len(rows)) :
                (page_ \o rows)[k] = IF k <= Len(page_) THEN page_[k] ELSE rows[k - Len(page_)]
      BY <1>1, <1>3, ConcatProperties
    <3>2. Len(page_) + Len(rows) = total - S
      BY <1>1, <2>1, <2>3, <2>4
    <3> QED BY <1>1, <1>2, <2>4, <3>1, <3>2
  <2>6. page_ # <<>> /\ page_[1].id = S + 1
    <3>1. 1 \in 1..Len(page_) /\ Len(<<>>) = 0
      BY <2>4
    <3> QED BY <2>3, <2>4, <3>1
  <2>7. Together'
    <3>1. ASSUME NEW k \in 1..Len(rows')
          PROVE  /\ rows'[k].id = total - Len(rows') + k
                 /\ rows'[k].message = chat[of][rows'[k].id]
      <4>1. CASE k <= Len(page_)
        <5>1. k \in 1..Len(page_) /\ rows'[k] = page_[k]
          BY <2>4, <2>5, <4>1
        <5>2. rows'[k] = [id |-> S + k, message |-> chat[of][S + k]]
          BY <2>3, <5>1
        <5>3. total - Len(rows') + k = S + k
          BY <1>1, <2>4, <2>5
        <5> QED BY <5>2, <5>3
      <4>2. CASE ~(k <= Len(page_))
        <5> DEFINE l == k - Len(page_)
        <5>1. l \in 1..Len(rows) /\ rows'[k] = rows[l]
          BY <1>1, <2>1, <2>3, <2>4, <2>5, <4>2
        <5>2. rows[l].id = total - Len(rows) + l /\ rows[l].message = chat[of][rows[l].id]
          BY <2>1, <5>1 DEF Together
        <5>3. total - Len(rows') + k = total - Len(rows) + l
          BY <1>1, <2>1, <2>3, <2>4, <2>5
        <5> QED BY <5>1, <5>2, <5>3
      <4> QED BY <4>1, <4>2
    <3>2. Len(rows') <= total
      BY <1>1, <2>4, <2>5
    <3> QED BY <1>2, <2>2, <3>1, <3>2 DEF Together
  <2>8. NextPage'
    <3>1. CASE S + 1 <= 1
      <4>1. asker' = "done" /\ Len(rows') = total /\ total' = total
        BY <1>1, <1>2, <2>4, <2>5, <2>6, <3>1
      <4> QED BY <4>1 DEF NextPage
    <3>2. CASE ~(S + 1 <= 1)
      <4>1. asker' = "ask" /\ chatId' = S /\ total' = total
        BY <1>2, <2>4, <2>6, <3>2
      <4>2. Len(rows') > 0
        BY <1>1, <2>1, <2>3, <2>4, <2>5
      <4>3. rows' # <<>>
        BY <4>2
      <4>4. chatId' = total' - Len(rows')
        BY <1>1, <2>4, <2>5, <4>1
      <4>5. chatId' # 0
        BY <2>4, <3>2, <4>1
      <4> QED BY <4>1, <4>3, <4>4, <4>5 DEF NextPage
    <3> QED BY <3>1, <3>2
  <2> QED BY <2>7, <2>8
<1> QED BY <1>6, <1>7, <1>f, Zenon DEF ChatInv

LEMMA ChatAtInit == TypeInv /\ Init => ChatInv
<1> SUFFICES ASSUME Init PROVE ChatInv
  OBVIOUS
<1>1. rows = <<>> /\ total = 0 /\ asker \in {"off", "ask"} /\ first
  BY DEF Init, ChatsInit
<1> QED BY <1>1 DEF ChatInv, Begins, Together, NextPage

LEMMA ChatStep ==
    ASSUME Limit # 0 PROVE TypeInv /\ TypeInv' /\ ChatInv /\ [Next]_unitVars => ChatInv'
<1> SUFFICES ASSUME TypeInv, TypeInv', ChatInv, [Next]_unitVars PROVE ChatInv'
  OBVIOUS
<1> USE DEF sceneVars, redisVars, chatVars
<1>1. ScenesInv /\ ScenesTypeOK /\ ChatsTypeOK
  BY DEF TypeInv, ScenesInv
<1>2. chat' \in [SceneNo -> Seq(FrameId)] /\ \A s \in SceneNo : Len(chat[s]) \in Nat
  BY <1>1, LenProperties DEF TypeInv, ScenesInv, ScenesTypeOK
<1>3. CASE chat' = chat /\ sceneId' = sceneId /\ UNCHANGED queryVars
  BY <1>1, <1>2, <1>3, ChatInvGrows
<1>4. ASSUME NEW c \in Conn, Serves(c) PROVE ChatInv'
  <2>1. UNCHANGED queryVars
    BY <1>4 DEF Serves
  <2> QED BY <1>1, <1>2, <1>4, <2>1, ChatGrows, ChatInvGrows DEF Serves
<1>5. CASE Asks
  BY <1>1, <1>5, AskingKeepsChat, ReadingKeepsChat DEF Asks, Query
<1>6. CASE Platform
  BY <1>3, <1>6 DEF Platform, StatusChanges
<1>7. CASE LocalControl \/ Cleans \/ UNCHANGED unitVars
  BY <1>3, <1>7 DEF LocalControl, Cleans, unitVars
<1>8. CASE Job
  <2>1. UNCHANGED queryVars
    BY <1>8 DEF Job
  <2>2. chat' = chat /\ sceneId' = sceneId
    BY <1>8 DEF Job, FrameLost
  <2> QED BY <1>3, <2>1, <2>2
<1> QED BY <1>4, <1>5, <1>6, <1>7, <1>8 DEF Next

\* While others go on chatting, end the scene and stop the unit, the pages a
\* peer puts together with ServeChats are the list as it was when it began, up
\* to the message it asked for, every message once and under its own position:
\* of a unit that has stopped, too, whose pages are of the scene before the
\* current one.  It excepts the peer whose unit passed to another scene between
\* two pages, and one that begins with an id the list does not have yet
\* (handler.go, ServeChats).  The query takes a "limit" of 0 as well; its page
\* is empty, so that is left out.
THEOREM PagesAreExact ==
    ASSUME Limit # 0 PROVE Spec => []ChatPagesAreExact
<1>1. TypeInv /\ TypeInv' /\ ChatInv /\ [Next]_unitVars => ChatInv'
  BY ChatStep
<1>2. ChatInv => ChatPagesAreExact
  BY DEF ChatInv, Together, NextPage, ChatPagesAreExact
<1>3. Init => ChatInv
  BY TypeAtInit, ChatAtInit
<1> QED BY <1>1, <1>2, <1>3, TypesKept, PTL DEF Spec
===============================================================================
