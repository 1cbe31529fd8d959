------------------------------- MODULE Cleanup --------------------------------
(***************************************************************************)
(* The program src/cmd/cleanup_unit.go: it scans redis for the units that   *)
(* have module states, asks the course platform about all of them at the    *)
(* same time, one goroutine (checkUnit) each, and main deletes the lists of *)
(* terminals online of the units that are not running, in the order of the  *)
(* answers.  The goroutines share the token's cache (AccessToken).          *)
(***************************************************************************)
EXTENDS AccessToken, Sequences, FiniteSets

CONSTANTS
    Unit,       \* course units
    Keyspaces,  \* bound: what redis may hold when the program starts
    PageSize,   \* how many keys one SCAN goes through
    MaxSwitches \* bound: how often units start or stop, and keys come

\* A key nc:ins:mod of a unit; that of a history or of anything else is kept
\* apart by the name it has in the unit's place.
Key == [of : Unit \cup {"his", "off", "other"}]

ASSUME CleanupAssumption ==
    /\ Caller = Unit /\ Keyspaces \subseteq Seq(Key)
    /\ PageSize \in Nat \ {0} /\ MaxSwitches \in Nat

VARIABLES
    keys,      \* redis: all keys, in the order in which SCAN comes to them
    runs,      \* the units that run, on the course platform
    switches,  \* how often that has changed
    cleaner,   \* where main is
    units,     \* the units getUnits has found
    check,     \* whether each unit's checkUnit is at work, hangs, or has answered
    runch,     \* the channel of its answers: [unit, running]
    checked,   \* the units main has had answers for
    cleaning,  \* the unit main is cleaning up
    onlines,   \* redis: the units with a key nc:onlines
    lc,        \* redis: the units with keys nc:onlines:lc
    wasRunning, \* auxiliary: the units that ran at some time
    wasStopped \* auxiliary: the units that did not run at some time

worldVars == <<keys, runs, switches, wasRunning, wasStopped>>
listVars == <<onlines, lc>>
cleanupVars == <<tokenVars, worldVars, listVars, cleaner, units, check, runch, checked,
                 cleaning>>

CleanupTypeOK ==
    /\ TokenTypeOK
    /\ keys \in Seq(Key) /\ runs \subseteq Unit /\ switches \in 0..MaxSwitches
    /\ cleaner \in {"off", "scan", "receive", "del", "delLocal", "done", "fatal"}
    /\ units \subseteq Unit /\ checked \in Seq(Unit)
    /\ check \in [Unit -> {"off", "token", "hung", "sent"}]
    /\ runch \in Seq([unit : Unit, running : BOOLEAN]) /\ Len(runch) <= Cardinality(units)
    /\ cleaning \in Unit \cup {"none"}
    /\ onlines \subseteq Unit /\ lc \subseteq Unit
    /\ wasRunning \subseteq Unit /\ wasStopped \subseteq Unit

CleanupInit ==
    /\ TokenInit
    /\ keys \in Keyspaces /\ runs \in SUBSET Unit /\ switches = 0
    /\ cleaner \in {"off", "scan"} /\ units = {} /\ check = [u \in Unit |-> "off"]
    /\ runch = <<>> /\ checked = <<>> /\ cleaning = "none"
    /\ onlines = Unit /\ lc = Unit
    /\ wasRunning = runs /\ wasStopped = Unit \ runs

(***************************************************************************)
(* The world                                                               *)
(***************************************************************************)

UnitStarts(u) ==
    /\ cleaner # "off" /\ u \notin runs /\ runs' = runs \cup {u}
    /\ wasRunning' = wasRunning \cup {u}
    /\ switches < MaxSwitches /\ switches' = switches + 1
    /\ UNCHANGED <<tokenVars, keys, wasStopped, listVars, cleaner, units, check, runch,
                   checked, cleaning>>

UnitStops(u) ==
    /\ u \in runs /\ runs' = runs \ {u}
    /\ wasStopped' = wasStopped \cup {u}
    /\ switches < MaxSwitches /\ switches' = switches + 1
    /\ UNCHANGED <<tokenVars, keys, wasRunning, listVars, cleaner, units, check, runch,
                   checked, cleaning>>

\* A key of any kind is deleted or expires.
KeyGoes ==
    /\ cleaner = "scan" /\ keys # <<>>
    /\ keys' = Tail(keys)
    /\ switches < MaxSwitches /\ switches' = switches + 1
    /\ UNCHANGED <<tokenVars, runs, wasRunning, wasStopped, listVars, cleaner, units, check,
                   runch, checked, cleaning>>

Tokens ==
    /\ cleaner # "off"
    /\ CacheExpires \/ \E t \in valid : TokenExpires(t)
    /\ UNCHANGED <<worldVars, listVars, cleaner, units, check, runch, checked, cleaning>>

(***************************************************************************)
(* main                                                                    *)
(***************************************************************************)

\* getUnits: SCAN, each time from the cursor 0; where all keys fit one page
\* the new cursor is 0 as well, and the units of the keys found are checked.
GetUnits ==
    /\ cleaner = "scan"
    /\ LET page == SubSeq(keys, 1, IF Len(keys) < PageSize THEN Len(keys) ELSE PageSize)
       IN  units' = units \cup {u \in Unit : \E i \in DOMAIN page : page[i].of = u}
    /\ IF Len(keys) <= PageSize
         THEN /\ cleaner' = "receive"
              /\ check' = [u \in Unit |-> IF u \in units' THEN "token" ELSE "off"]
              /\ tokenAt' = [u \in Unit |-> IF u \in units' THEN "exists" ELSE "off"]
         ELSE UNCHANGED <<cleaner, check, tokenAt>>
    /\ UNCHANGED <<cacheVars, token, lapses, worldVars, listVars, runch, checked,
                   cleaning>>

\* Mutant: main waits for one answer less.
TurnEndsEarly(seen) ==
    /\ checked' = seen
    /\ cleaner' = IF Len(seen) + 1 >= Cardinality(units) THEN "done" ELSE "receive"

\* The end of a turn of the loop; the channel is closed after as many answers
\* as there are units.
TurnEnds(seen) ==
    /\ checked' = seen
    /\ cleaner' = IF Len(seen) = Cardinality(units) THEN "done" ELSE "receive"

Receive ==
    /\ cleaner = "receive" /\ runch # <<>>
    /\ runch' = Tail(runch)
    /\ LET rd == Head(runch)
       IN  IF rd.running
             THEN TurnEnds(Append(checked, rd.unit)) /\ UNCHANGED cleaning
             ELSE cleaning' = rd.unit /\ cleaner' = "del" /\ UNCHANGED checked
    /\ UNCHANGED <<tokenVars, worldVars, listVars, units, check>>

\* clearupOnlines: DEL of the unit's list
Del ==
    /\ cleaner = "del"
    /\ onlines' = onlines \ {cleaning}
    /\ cleaner' = "delLocal"
    /\ UNCHANGED <<tokenVars, worldVars, lc, units, check, runch, checked, cleaning>>

\* SCAN of the lists of its local controls and DEL of each: one step, as
\* nothing here reads or adds lists in between
DelLocal ==
    /\ cleaner = "delLocal"
    /\ lc' = lc \ {cleaning}
    /\ TurnEnds(Append(checked, cleaning)) /\ cleaning' = "none"
    /\ UNCHANGED <<tokenVars, worldVars, onlines, units, check, runch>>

\* A redis command of main fails: log.Fatal ends the program, answers or not.
MainFails ==
    /\ cleaner \in {"scan", "del", "delLocal"}
    /\ lapses < MaxLapses /\ lapses' = lapses + 1
    /\ cleaner' = "fatal"
    /\ UNCHANGED <<cacheVars, tokenAt, token, worldVars, listVars, units, check, runch,
                   checked, cleaning>>

(***************************************************************************)
(* checkUnit                                                               *)
(***************************************************************************)

Alive == cleaner \notin {"done", "fatal"}

Fetches(u) ==
    /\ Alive /\ check[u] = "token"
    /\ FetchToken(u)
    /\ UNCHANGED <<worldVars, listVars, cleaner, units, check, runch, checked, cleaning>>

Answers(u, running) ==
    /\ runch' = Append(runch, [unit |-> u, running |-> running])
    /\ check' = [check EXCEPT ![u] = "sent"]
    /\ UNCHANGED <<cacheVars, tokenAt, token, worldVars, listVars, cleaner, units, checked,
                   cleaning>>

\* Mutant: the return after the answer is missing.
NoTokenGoesOn(u) ==
    /\ Alive /\ check[u] = "token" /\ tokenAt[u] = "error"
    /\ runch' = Append(runch, [unit |-> u, running |-> FALSE])
    /\ TokenGoes(u, "ok")
    /\ UNCHANGED <<cacheVars, token, lapses, worldVars, listVars, cleaner, units, check,
                   checked, cleaning>>

\* Without a token the unit does not count as running.
NoToken(u) ==
    /\ Alive /\ check[u] = "token" /\ tokenAt[u] = "error"
    /\ Answers(u, FALSE) /\ UNCHANGED lapses

\* The platform's answer, an error unless it accepts the token
AskPlatform(u) ==
    /\ Alive /\ check[u] = "token" /\ tokenAt[u] = "ok"
    /\ Answers(u, token[u] \in valid /\ u \in runs) /\ UNCHANGED lapses

\* Mutant: an answer that cannot be read is not sent on.
PlatformFailsSilently(u) ==
    /\ Alive /\ check[u] = "token" /\ tokenAt[u] = "ok"
    /\ lapses < MaxLapses /\ lapses' = lapses + 1
    /\ check' = [check EXCEPT ![u] = "sent"]
    /\ UNCHANGED <<cacheVars, tokenAt, token, worldVars, listVars, cleaner, units, runch,
                   checked, cleaning>>

\* The request fails, or what comes back cannot be read.
PlatformFails(u) ==
    /\ Alive /\ check[u] = "token" /\ tokenAt[u] = "ok"
    /\ lapses < MaxLapses /\ lapses' = lapses + 1
    /\ Answers(u, FALSE)

\* The request is never answered: http.Get has no time-out.
PlatformHangs(u) ==
    /\ Alive /\ check[u] = "token" /\ tokenAt[u] = "ok"
    /\ check' = [check EXCEPT ![u] = "hung"]
    /\ UNCHANGED <<tokenVars, worldVars, listVars, cleaner, units, runch, checked, cleaning>>

CheckUnit(u) ==
    Fetches(u) \/ NoToken(u) \/ AskPlatform(u) \/ PlatformFails(u) \/ PlatformHangs(u)

CleanerStep == GetUnits \/ Receive \/ Del \/ DelLocal

CleanupNext ==
    \/ \E u \in Unit : UnitStarts(u) \/ UnitStops(u) \/ CheckUnit(u)
    \/ KeyGoes \/ Tokens \/ CleanerStep \/ MainFails

(***************************************************************************)
(* Properties                                                              *)
(***************************************************************************)

\* Though all units are asked about at the same time and share the cached
\* token, a unit that ran all the while loses its lists only if something
\* failed or a token has expired; and when the program is done, a unit it found
\* that never ran has none left.
ListsAreCleared ==
    /\ \A u \in Unit : u \notin onlines \cap lc =>
           u \in wasStopped \/ lapses > 0 \/ valid # 1..issued
    /\ cleaner = "done" => \A u \in units \ wasRunning : u \notin onlines \cup lc

\* A goroutine waits for a request that is never answered.
Hangs(u) == tokenAt[u] = "hung" \/ check[u] = "hung"

\* Where redis has no more keys than one SCAN goes through the program comes
\* to its end, if it finds any unit: every goroutine answers once, whatever
\* fails, but for one whose request is never answered.
ProgramEnds ==
    cleaner # "off" /\ Len(keys) <= PageSize ~>
        \/ cleaner \in {"done", "fatal"} \/ (cleaner = "receive" /\ units = {})
        \/ \E u \in Unit : Hangs(u)
=============================================================================
