------------------------------- MODULE EndUnit --------------------------------
(***************************************************************************)
(* The job src/cmd/endunit_countdown.go, which ends a unit once its time is *)
(* up: main scans redis for the keys nc:chan:unit:run of the running units  *)
(* and enters them in the Bus, monitor walks the Bus every second and,      *)
(* where a key has gone, connects to the cloud control like any peer and    *)
(* sends the frame that ends the unit.                                      *)
(*                                                                         *)
(* The job runs beside the connections of module Scenes; a connection of    *)
(* JobConn is one that monitor has dialled.  A key is known by its scene.   *)
(***************************************************************************)
EXTENDS Scenes

CONSTANTS
    JobConn,    \* bound: the connections monitor may dial
    RunScenes,  \* bound: the scenes that get a key
    MaxStarts,  \* bound: how often the job is started
    MayBreak    \* whether monitor's redis connection may break

ASSUME EndUnitAssumption ==
    /\ JobConn \subseteq Conn /\ RunScenes \subseteq SceneNo \ {0}
    /\ MaxStarts \in Nat /\ MayBreak \in BOOLEAN

VARIABLES
    runKey,     \* redis: nc:chan:unit:run of each scene
    monitored,  \* Bus.unitscenes
    main,       \* where main is: in its loop, or waiting for monitor to end
    scanned,    \* the keys of a scan that main has still to look at
    monitor,    \* where monitor is
    todo,       \* what its range over the Bus will still come to
    cur,        \* the unit it is at
    isEndCloud, \* what GET of the scene told
    broken,     \* monitor's redis connection is broken
    target,     \* the scene for whose end a connection was dialled
    starts,     \* how often the job was started
    ended       \* auxiliary: the scene had ended when monitor looked at it

busVars == <<monitored, scanned, todo>>
jobVars == <<runKey, monitored, main, scanned, monitor, todo, cur, isEndCloud,
             broken, target, starts, ended>>

EndUnitTypeOK ==
    /\ runKey \in [SceneNo -> {"none", "set", "gone"}]
    /\ monitored \subseteq SceneNo /\ scanned \subseteq SceneNo /\ todo \subseteq SceneNo
    /\ main \in {"off", "loop", "killing"}
    /\ monitor \in {"select", "range", "get", "ttl", "token", "dial", "hung"}
    /\ cur \in SceneNo \cup {None} /\ isEndCloud \in BOOLEAN /\ broken \in BOOLEAN
    /\ target \in [Conn -> SceneNo \cup {None}] /\ starts \in 0..MaxStarts
    /\ ended \in BOOLEAN

EndUnitInit ==
    /\ runKey = [s \in SceneNo |-> "none"]
    /\ monitored = {} /\ scanned = {} /\ todo = {}
    /\ monitor = "select" /\ cur = None /\ isEndCloud = FALSE /\ broken = FALSE
    /\ main = "off" /\ starts \in {0, MaxStarts} /\ ended = FALSE
    /\ target = [c \in Conn |-> None]

(***************************************************************************)
(* The keys, set with a time to live by code outside the repository.       *)
(***************************************************************************)

RunBegins(s) ==
    /\ runKey[s] = "none" /\ s = sceneId /\ scene[s].start /\ ~scene[s].end
    /\ runKey' = [runKey EXCEPT ![s] = "set"]
    /\ UNCHANGED <<busVars, main, monitor, cur, isEndCloud, broken, target, starts, ended>>

RunExpires(s) ==
    /\ runKey[s] = "set"
    /\ runKey' = [runKey EXCEPT ![s] = "gone"]
    /\ UNCHANGED <<busVars, main, monitor, cur, isEndCloud, broken, target, starts, ended>>

(***************************************************************************)
(* main                                                                    *)
(***************************************************************************)

JobStarts ==
    /\ main = "off" /\ starts < MaxStarts
    /\ main' = "loop" /\ starts' = starts + 1
    /\ UNCHANGED <<runKey, busVars, monitor, cur, isEndCloud, broken, target, ended>>

\* case <-ticker.C: the keys there are
Scan ==
    /\ main = "loop" /\ scanned = {}
    /\ scanned' = {s \in SceneNo : runKey[s] = "set"}
    /\ scanned' # {}
    /\ UNCHANGED <<runKey, monitored, main, monitor, todo, cur, isEndCloud, broken,
                   target, starts, ended>>

\* Bus.In and Bus.Add.  The map may be in monitor's range, which comes to a
\* new entry or does not.
Add(s) ==
    /\ main = "loop" /\ s \in scanned
    /\ scanned' = scanned \ {s}
    /\ monitored' = monitored \cup {s}
    /\ todo' \in IF s \in monitored \/ monitor = "select" THEN {todo}
                                                          ELSE {todo, todo \cup {s}}
    /\ UNCHANGED <<runKey, main, monitor, cur, isEndCloud, broken, target, starts, ended>>

\* The process ends and forgets everything.
JobExits ==
    /\ main' = "off"
    /\ monitored' = {} /\ scanned' = {} /\ todo' = {}
    /\ monitor' = "select" /\ cur' = None /\ isEndCloud' = FALSE /\ broken' = FALSE
    /\ UNCHANGED <<runKey, target, starts, ended>>

\* Writing the map while monitor's range reads it, without the lock, is fatal.
AddIsFatal(s) ==
    /\ main = "loop" /\ s \in scanned \ monitored /\ monitor = "range"
    /\ JobExits

\* SCAN failed, or the user interrupts: close(bus.kill)
Kill ==
    /\ main = "loop" /\ scanned = {}
    /\ main' = "killing"
    /\ UNCHANGED <<runKey, busVars, monitor, cur, isEndCloud, broken, target, starts, ended>>

\* case <-bus.done, or the time main waits for it is over: monitor may be
\* anywhere
KillEnds == main = "killing" /\ JobExits

(***************************************************************************)
(* monitor                                                                 *)
(***************************************************************************)

MonitorAt(place) == main # "off" /\ monitor = place
MonitorGoes(place) == monitor' = place

\* case <-ticker.C
Tick ==
    /\ MonitorAt("select") /\ monitored # {}
    /\ todo' = monitored
    /\ MonitorGoes("range")
    /\ UNCHANGED <<runKey, monitored, main, scanned, cur, isEndCloud, broken, target, starts, ended>>

NextUnit ==
    /\ MonitorAt("range")
    /\ IF todo = {}
         THEN MonitorGoes("select") /\ UNCHANGED <<todo, cur>>
         ELSE MonitorGoes("get") /\ \E s \in todo : cur' = s /\ todo' = todo \ {s}
    /\ UNCHANGED <<runKey, monitored, main, scanned, isEndCloud, broken, target, starts, ended>>

\* Mutant: a scene that has ended is not noticed.
GetSceneBlindly ==
    /\ MonitorAt("get")
    /\ isEndCloud' = FALSE /\ ended' = scene[cur].end
    /\ MonitorGoes("ttl")
    /\ UNCHANGED <<runKey, busVars, main, cur, broken, target, starts>>

\* GET of the scene's record: has the cloud control ended it already?
GetScene ==
    /\ MonitorAt("get")
    /\ isEndCloud' = (~broken /\ scene[cur].end) /\ ended' = scene[cur].end
    /\ MonitorGoes("ttl")
    /\ UNCHANGED <<runKey, busVars, main, cur, broken, target, starts>>

\* TTL of the key, 0 if that fails: the unit's time is up, Bus.Remove
CheckTtl ==
    /\ MonitorAt("ttl")
    /\ IF broken \/ runKey[cur] = "gone"
         THEN monitored' = monitored \ {cur} /\ MonitorGoes("token")
         ELSE MonitorGoes("range") /\ UNCHANGED monitored
    /\ UNCHANGED <<runKey, main, scanned, todo, cur, isEndCloud, broken, target, starts, ended>>

\* Mutant: the cloud control is told only of a scene it has ended itself.
GetTokenSwapped ==
    /\ MonitorAt("token")
    /\ \/ MonitorGoes(IF isEndCloud THEN "dial" ELSE "range") /\ UNCHANGED failures
       \/ failures < MaxFailures /\ failures' = failures + 1 /\ MonitorGoes("range")
       \/ MonitorGoes("hung") /\ UNCHANGED failures
    /\ UNCHANGED <<runKey, busVars, main, cur, isEndCloud, broken, target, starts, ended>>

\* endUnit: a token, without which it returns; then nothing is left to do for
\* a scene that has ended.  The request for the token has no time-out: where it
\* is never answered, monitor stays in it.
GetToken ==
    /\ MonitorAt("token")
    /\ \/ MonitorGoes(IF isEndCloud THEN "range" ELSE "dial") /\ UNCHANGED failures
       \/ failures < MaxFailures /\ failures' = failures + 1 /\ MonitorGoes("range")
       \/ MonitorGoes("hung") /\ UNCHANGED failures
    /\ UNCHANGED <<runKey, busVars, main, cur, isEndCloud, broken, target, starts, ended>>

\* Dial, WriteMessage and Close
Dial(j) ==
    /\ MonitorAt("dial") /\ j \in JobConn \cap DOMAIN plan /\ target[j] = None
    /\ target' = [target EXCEPT ![j] = cur]
    /\ MonitorGoes("range")
    /\ UNCHANGED <<runKey, busVars, main, cur, isEndCloud, broken, starts, ended>>

\* Dial or WriteMessage fails: log.Fatal
DialFails ==
    /\ MonitorAt("dial")
    /\ failures < MaxFailures /\ failures' = failures + 1
    /\ JobExits

\* monitor's redis connection, taken at its start, breaks for good.
RedisBreaks ==
    /\ MayBreak /\ main # "off" /\ ~broken
    /\ broken' = TRUE
    /\ UNCHANGED <<runKey, busVars, main, monitor, cur, isEndCloud, target, starts, ended>>

\* The frame does not reach process: the connection is closed first, by the
\* deferred Close of monitor or by the forced login of its next connection, or
\* the server's own requests before NewClient fail or are never answered.
FrameLost(j) ==
    /\ j \in JobConn /\ target[j] # None
    /\ at[j] = "off" \/ (at[j] = "on" /\ sent[j] = 0)
    /\ Goes(j, "out")
    /\ UNCHANGED <<plan, redisVars, found, sent, curmod, got, failures, auxVars, jobVars>>

Monitor ==
    \/ Tick \/ NextUnit \/ GetScene \/ CheckTtl \/ \E j \in JobConn : Dial(j)

\* Steps of the job that need nothing of the cloud control
JobAlone ==
    \/ \E s \in RunScenes : RunBegins(s) \/ RunExpires(s)
    \/ JobStarts \/ Scan \/ \E s \in SceneNo : Add(s) \/ AddIsFatal(s)
    \/ Kill \/ KillEnds \/ Monitor \/ RedisBreaks

\* Steps that may count a failure
JobAndToken == GetToken \/ DialFails

(***************************************************************************)
(* Properties                                                              *)
(***************************************************************************)

\* The job's frame ends the scene whose time was up.  It ends a later scene
\* only if that scene has been ended by another frame, which may be the job's
\* own, over a scan that was out of date or a connection that was broken; and
\* another one where clients have started the scene anew after its end, have
\* passed it by ending an earlier one twice, or raced to set the first id.
JobEndsItsScene ==
    \A j \in JobConn : target[j] # None /\ at[j] \notin {"off", "out"} =>
        \/ Mine(j) = target[j] \/ scene[target[j]].end
        \/ target[j] \in restarted \/ EndedTwice(target[j]) \/ FirstRace

\* Only a scene is ended whose key has gone and that had not ended when the job
\* looked at its record, as long as monitor's redis connection works.
OnlyExpiredAreEnded ==
    [][\A j \in JobConn : target[j] = None /\ target'[j] # None =>
          (runKey[target'[j]] = "gone" /\ ~ended) \/ broken]_jobVars

\* A unit the job monitors ends once its key has gone, unless the job stops,
\* a request fails or is never answered, or its frame is lost.
MonitoredIsEnded ==
    \A s \in RunScenes : s \in monitored /\ runKey[s] = "gone" ~>
        \/ scene[s].end \/ main # "loop" \/ failures > 0 \/ monitor = "hung"
        \/ \E j \in JobConn : at[j] = "out"
=============================================================================
