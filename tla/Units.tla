-------------------------------- MODULE Units ---------------------------------
(***************************************************************************)
(* A unit and all that work on its state: in the process of the cloud       *)
(* control the connections (module Scenes), a local control's terminals     *)
(* (LocalSets) and an HTTP query (Chats), and beside it the job that ends   *)
(* the unit (EndUnit) and the program that cleans up after units (Cleanup). *)
(* A panic ends the process of the cloud control, and with it everything in *)
(* it; redis, the job and the program go on.                                *)
(***************************************************************************)
EXTENDS EndUnit, Chats, LocalSets, Cleanup

CONSTANT Instances \* bound: which of these parts are at work together

\* ask: the chat_id the query begins with, None where nobody asks.  keys: what
\* the clean-up finds in redis, <<>> where it does not run.
ASSUME UnitsAssumption ==
    \A i \in Instances :
        /\ i.plan \in Plans /\ i.job \in BOOLEAN
        /\ i.ask \in FirstIds \cup {None} /\ i.reports \in Reports /\ i.keys \in Keyspaces

unitVars == <<sceneVars, jobVars, chatVars, localVars, cleanupVars>>

TypeOK == ScenesTypeOK /\ EndUnitTypeOK /\ ChatsTypeOK /\ LocalTypeOK /\ CleanupTypeOK

Init ==
    /\ ScenesInit /\ EndUnitInit /\ ChatsInit /\ LocalInit /\ CleanupInit
    /\ \E i \in Instances :
          /\ plan = i.plan /\ reports = i.reports
          /\ starts = IF i.job THEN 0 ELSE MaxStarts
          /\ asker = IF i.ask = None THEN "off" ELSE "ask"
          /\ chatId = IF i.ask = None THEN 0 ELSE i.ask
          /\ lister = IF i.reports = <<>> THEN "off" ELSE "idle"
          /\ keys = i.keys
          /\ IF i.keys = <<>> THEN cleaner = "off" /\ runs = {} /\ cached = 0
                              ELSE cleaner = "scan"

\* A connection of the job is there once it was dialled.
Connected(c) == c \in JobConn => target[c] # None

Serves(c) ==
    /\ up /\ Connected(c) /\ ScenesNext(c)
    /\ UNCHANGED <<jobVars, chatVars, localVars, cleanupVars>>

Asks ==
    /\ up /\ Query
    /\ UNCHANGED <<sceneVars, jobVars, localVars, cleanupVars>>

Platform ==
    /\ StatusChanges
    /\ UNCHANGED <<sceneVars, jobVars, localVars, cleanupVars>>

LocalControl ==
    /\ LocalNext
    /\ UNCHANGED <<sceneVars, jobVars, chatVars, cleanupVars>>

Job ==
    /\ \/ JobAlone /\ UNCHANGED sceneVars
       \/ /\ JobAndToken
          /\ UNCHANGED <<plan, redisVars, at, found, sent, curmod, got, auxVars>>
       \/ \E j \in JobConn : FrameLost(j)
    /\ UNCHANGED <<chatVars, localVars, cleanupVars>>

Cleans ==
    /\ CleanupNext
    /\ UNCHANGED <<sceneVars, jobVars, chatVars, localVars>>

Next ==
    \/ \E c \in Conn : Serves(c)
    \/ Asks \/ Platform \/ LocalControl \/ Job \/ Cleans

Spec == Init /\ [][Next]_unitVars

(***************************************************************************)
(* Fairness.  Goroutines that can run do run: the job's monitor, the server *)
(* for a connection that the job made, and in the clean-up main and the     *)
(* goroutine of each unit.  A request is answered, fails or hangs for good, *)
(* whichever the platform likes.  What peers do, and when keys and tokens   *)
(* expire, is not fair.                                                     *)
(***************************************************************************)
MonitorStep ==
    /\ \/ Monitor /\ UNCHANGED sceneVars
       \/ /\ GetToken
          /\ UNCHANGED <<plan, redisVars, at, found, sent, curmod, got, auxVars>>
    /\ UNCHANGED <<chatVars, localVars, cleanupVars>>

ServesJob(j) ==
    /\ up /\ Connected(j) /\ (Connect(j) \/ SetSceneId(j) \/ Process(j))
    /\ UNCHANGED <<jobVars, chatVars, localVars, cleanupVars>>

CleanerSteps == CleanerStep /\ UNCHANGED <<sceneVars, jobVars, chatVars, localVars>>

Checks(u) == CheckUnit(u) /\ UNCHANGED <<sceneVars, jobVars, chatVars, localVars>>

Fairness ==
    /\ WF_unitVars(MonitorStep) /\ \A j \in JobConn : WF_unitVars(ServesJob(j))
    /\ WF_unitVars(CleanerSteps) /\ \A u \in Unit : WF_unitVars(Checks(u))

FairSpec == Spec /\ Fairness
=============================================================================
