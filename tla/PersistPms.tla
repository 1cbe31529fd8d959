------------------------------ MODULE PersistPms ------------------------------
(***************************************************************************)
(* Ink of one unit's current scene: src/cmd/persistent_pms.go (one         *)
(* goroutine per unit) and persistent_pms_nonconcurrency.go.  Peers draw;  *)
(* their strokes are appended to one redis list per user by code outside   *)
(* this repository.  The program "save", started again and again, appends  *)
(* what is new to one file per user and stores in redis where to go on;    *)
(* "del" removes a user's offset and file.                                 *)
(*                                                                         *)
(* A stroke is its index in the list.  One "save" runs at a time.          *)
(***************************************************************************)
EXTENDS Integers, Sequences, FiniteSets, SequencesExt

CONSTANTS
    Uid,         \* users who draw
    Teacher,     \* those whose identity in the unit is "1"
    Length,      \* strokes per page: 100
    Pages,       \* pages per run and user at most: 1023
    None,        \* no user; no file
    MaxStrokes,  \* bound: how many strokes each user draws
    MaxFailures, \* bound: how often a run fails or is killed
    MaxDeletes   \* bound: how often "del" is started

ASSUME PmsAssumption ==
    /\ IsFiniteSet(Uid) /\ Teacher \subseteq Uid
    /\ Length \in Nat \ {0} /\ Pages \in Nat \ {0}
    /\ None \notin Uid /\ None \notin Seq(Nat)
    /\ MaxStrokes \in [Uid -> Nat]
    /\ MaxFailures \in Nat /\ MaxDeletes \in Nat

VARIABLES
    program,   \* which of the two programs is used
    list,      \* redis: how many strokes the user's list holds (external)
    offset,    \* redis: the offset stored for the user, 0 where there is none
    listed,    \* redis: the sorted set of teachers for replays
    file,      \* the user's file, None where there is none
    ended,     \* the scene has ended: nobody draws, the unit is not running
    at,        \* where the run of "save" is
    keys,      \* the users it has still to serve
    uid,       \* the user it serves
    linked,    \* the file it has open is still the one in the directory
    first,     \* the offset it read
    start,     \* its variable start
    page,      \* its variable i
    pmses,     \* the strokes it read last
    failures,  \* how many runs have failed
    delUid,    \* the user whose file "del" is about to remove
    deletes    \* how often "del" was started

redisVars == <<list, offset, listed>>
saveVars == <<at, keys, uid, linked, first, start, page, pmses>>
delVars == <<delUid, deletes>>
vars == <<program, redisVars, file, ended, saveVars, failures, delVars>>

\* "sequential" handles one unit after the other and lists no teachers.
Program == {"goroutines", "sequential"}

TypeOK ==
    /\ program \in Program
    /\ list \in [Uid -> Nat]
    /\ offset \in [Uid -> Nat]
    /\ listed \subseteq Teacher
    /\ file \in [Uid -> Seq(Nat) \cup {None}]
    /\ ended \in BOOLEAN
    /\ at \in {"idle", "teachers", "open", "get", "page", "write", "set"}
    /\ keys \subseteq Uid
    /\ uid \in Uid \cup {None} /\ (uid = None <=> at \in {"idle", "teachers", "open"})
    /\ linked \in BOOLEAN
    /\ first \in Nat /\ start \in Nat /\ page \in 1..Pages
    /\ pmses \in Seq(Nat) /\ Len(pmses) <= Length
    /\ failures \in 0..MaxFailures
    /\ delUid \in Uid \cup {None} /\ deletes \in 0..MaxDeletes

Init ==
    /\ program \in Program
    /\ list = [u \in Uid |-> 0] /\ offset = [u \in Uid |-> 0] /\ listed = {}
    /\ file = [u \in Uid |-> None]
    /\ ended = FALSE
    /\ at = "idle" /\ keys = {} /\ uid = None /\ linked = FALSE
    /\ first = 0 /\ start = 0 /\ page = 1 /\ pmses = <<>>
    /\ failures = 0 /\ delUid = None /\ deletes = 0

(***************************************************************************)
(* The scene                                                               *)
(***************************************************************************)
Draw(u) ==
    /\ ~ended /\ list[u] < MaxStrokes[u]
    /\ list' = [list EXCEPT ![u] = @ + 1]
    /\ UNCHANGED <<program, offset, listed, file, ended, saveVars, failures, delVars>>

EndScene ==
    /\ ~ended /\ ended' = TRUE
    /\ UNCHANGED <<program, redisVars, file, saveVars, failures, delVars>>

(***************************************************************************)
(* save                                                                    *)
(***************************************************************************)

\* The users whose lists the SCAN of all keys finds.  The sequential program
\* keeps what the last call of SCAN returned only, which may be any of them.
Scanned ==
    LET all == {u \in Uid : list[u] > 0}
    IN  IF program = "goroutines" THEN {all} ELSE SUBSET all

\* checkUnit.  A unit that is asked for in vain counts as not running.
UnitIsRunning == ~ended

\* The unit and its current scene were found, and the unit is running.
SaveStarts ==
    /\ at = "idle" /\ UnitIsRunning
    /\ keys' \in Scanned
    /\ at' = IF program = "goroutines" THEN "teachers" ELSE "open"
    /\ UNCHANGED <<program, redisVars, file, ended, uid, linked, first, start,
                   page, pmses, failures, delVars>>

\* courseidt: whose identity as a teacher is found out; each request may fail.
Identified(us) == SUBSET (us \cap Teacher)

\* ZADD of the teachers; one whose identity is not to be had is passed over.
ListTeachers ==
    /\ at = "teachers" /\ at' = "open"
    /\ \E found \in Identified(keys) : listed' = listed \cup found
    /\ UNCHANGED <<program, list, offset, file, ended, keys, uid, linked, first,
                   start, page, pmses, failures, delVars>>

\* os.OpenFile, O_APPEND and O_CREATE
OpenFile(u) ==
    /\ at = "open" /\ u \in keys
    /\ at' = "get" /\ uid' = u /\ linked' = TRUE
    /\ file' = [file EXCEPT ![u] = IF @ = None THEN <<>> ELSE @]
    /\ UNCHANGED <<program, redisVars, ended, keys, first, start, page, pmses,
                   failures, delVars>>

\* Mutant: start, err := redis.Int(..) declares a second start, and the first one
\* stays 0.
GetOffsetShadowed ==
    /\ at = "get" /\ at' = "page"
    /\ first' = offset[uid] /\ start' = 0 /\ page' = 1
    /\ UNCHANGED <<program, redisVars, file, ended, keys, uid, linked, pmses,
                   failures, delVars>>

GetOffset ==
    /\ at = "get" /\ at' = "page"
    /\ first' = offset[uid] /\ start' = offset[uid] /\ page' = 1
    /\ UNCHANGED <<program, redisVars, file, ended, keys, uid, linked, pmses,
                   failures, delVars>>

\* Mutant: the end of the range is one too far.
LrangeOneMore(u, from) ==
    [i \in 1..(IF list[u] <= from THEN 0
               ELSE IF list[u] - from <= Length THEN list[u] - from ELSE Length + 1)
        |-> from + i - 1]

\* LRANGE from..from+Length-1
Lrange(u, from) ==
    [i \in 1..(IF list[u] <= from THEN 0
               ELSE IF list[u] - from < Length THEN list[u] - from ELSE Length)
        |-> from + i - 1]

\* Mutant: start = start + i*length
ReadPageOneFurther ==
    /\ at = "page" /\ at' = "write"
    /\ start' = start + page * Length
    /\ pmses' = Lrange(uid, start')
    /\ UNCHANGED <<program, redisVars, file, ended, keys, uid, linked, first,
                   page, failures, delVars>>

\* start = start + (i-1)*length, on top of what the pages before have added
ReadPage ==
    /\ at = "page" /\ at' = "write"
    /\ start' = start + (page - 1) * Length
    /\ pmses' = Lrange(uid, start')
    /\ UNCHANGED <<program, redisVars, file, ended, keys, uid, linked, first,
                   page, failures, delVars>>

\* Mutant: start is not moved behind a short page.
NextPageStays ==
    IF Len(pmses) < Length
      THEN at' = "set" /\ UNCHANGED <<start, page>>
      ELSE at' = "page" /\ page' = page + 1 /\ UNCHANGED start

\* A short page is the last one, and so is page 1023.
NextPage ==
    IF Len(pmses) < Length
      THEN at' = "set" /\ start' = start + Len(pmses) /\ UNCHANGED page
      ELSE IF page = Pages
      THEN at' = "set" /\ UNCHANGED <<start, page>>
      ELSE at' = "page" /\ page' = page + 1 /\ UNCHANGED start

\* buf.WriteTo(fp), to a file that "del" may have removed meanwhile
WritePage ==
    /\ at = "write"
    /\ file' = IF linked THEN [file EXCEPT ![uid] = @ \o pmses] ELSE file
    /\ pmses' = <<>>
    /\ NextPage
    /\ UNCHANGED <<program, redisVars, ended, keys, uid, linked, first,
                   failures, delVars>>

\* The locals of a user's turn are gone after it.
Forgets ==
    /\ uid' = None /\ linked' = FALSE
    /\ first' = 0 /\ start' = 0 /\ page' = 1 /\ pmses' = <<>>

\* Mutant: the loop ends with the first user.
SetOffsetAndReturn ==
    /\ at = "set"
    /\ offset' = [offset EXCEPT ![uid] = start]
    /\ at' = "idle" /\ keys' = {} /\ Forgets
    /\ UNCHANGED <<program, list, listed, file, ended, failures, delVars>>

SetOffset ==
    /\ at = "set"
    /\ offset' = [offset EXCEPT ![uid] = start]
    /\ at' = "open" /\ keys' = keys \ {uid} /\ Forgets
    /\ UNCHANGED <<program, list, listed, file, ended, failures, delVars>>

SaveEnds ==
    /\ at = "open" /\ keys = {} /\ at' = "idle"
    /\ UNCHANGED <<program, redisVars, file, ended, keys, uid, linked, first,
                   start, page, pmses, failures, delVars>>

\* A command fails and writePms returns, or the program is killed.
SaveFails ==
    /\ at # "idle" /\ failures < MaxFailures
    /\ failures' = failures + 1
    /\ at' = "idle" /\ keys' = {} /\ Forgets
    /\ UNCHANGED <<program, redisVars, file, ended, delVars>>

(***************************************************************************)
(* del                                                                     *)
(***************************************************************************)
DeleteOffset(u) ==
    /\ delUid = None /\ deletes < MaxDeletes
    /\ deletes' = deletes + 1
    /\ offset' = [offset EXCEPT ![u] = 0]
    /\ delUid' = u
    /\ UNCHANGED <<program, list, listed, file, ended, saveVars, failures>>

\* os.Remove: an open file stays what it is for the run that holds it.
RemoveFile ==
    /\ delUid # None /\ delUid' = None
    /\ file' = [file EXCEPT ![delUid] = None]
    /\ linked' = (linked /\ uid # delUid)
    /\ UNCHANGED <<program, redisVars, ended, at, keys, uid, first, start, page,
                   pmses, failures, deletes>>

\* "del" is killed in between.
DeleteFails ==
    /\ delUid # None /\ delUid' = None
    /\ failures < MaxFailures /\ failures' = failures + 1
    /\ UNCHANGED <<program, redisVars, file, ended, saveVars, deletes>>

Save ==
    \/ ListTeachers \/ GetOffset \/ ReadPage \/ WritePage \/ SetOffset \/ SaveEnds
    \/ \E u \in Uid : OpenFile(u)

Next ==
    \/ EndScene \/ SaveStarts \/ Save \/ SaveFails \/ RemoveFile \/ DeleteFails
    \/ \E u \in Uid : Draw(u) \/ DeleteOffset(u)

Spec == Init /\ [][Next]_vars

\* "save" is started again and again, and its commands and requests end or fail:
\* one that hangs is taken to be killed, as the http client would wait for ever.
\* Drawing, failures and deletions are not fair.
FairSpec == Spec /\ WF_vars(Save) /\ WF_vars(SaveStarts)

(***************************************************************************)
(* Properties                                                              *)
(***************************************************************************)

Times(u, n) == Cardinality({i \in DOMAIN file[u] : file[u][i] = n})

\* A run of at most two pages leaves no stroke out: when it stores its offset,
\* the file has everything from the offset it read to the one it stores, and
\* it does not move the offset beyond the end of the list, however the peers
\* go on drawing meanwhile.
ShortRunsAreComplete ==
    [][\A u \in Uid : SetOffset /\ uid = u /\ linked /\ page <= 2 =>
          /\ first..(start - 1) \subseteq Range(file[u])
          /\ first <= list[u] => offset'[u] <= list[u]]_vars

\* Without a failure or a deletion the file is a replay: no stroke is in it
\* twice and none before an earlier one.
ReplayInOrder ==
    failures = 0 /\ deletes = 0 => \A u \in Uid : file[u] # None =>
        \A i, j \in DOMAIN file[u] : i < j => file[u][i] < file[u][j]

\* A run that dies between its append and its offset has the same strokes
\* appended again: once more per failure or deletion, and no more often.
RepeatsAreBounded ==
    \A u \in Uid : file[u] # None => \A n \in Range(file[u]) :
        Times(u, n) <= 1 + failures + deletes

\* Every stroke is passed by the offset at last, whoever else draws, unless the
\* scene ends first: then nothing is saved any more.  (The sequential program
\* can miss a user for ever.)
OffsetCatchesUp ==
    \A u \in Uid : \A n \in 1..MaxStrokes[u] :
        list[u] >= n ~> (offset[u] >= n \/ ended \/ program = "sequential")

\* persistent_pms.go:227, "read the ink stream from redis and write it to the
\* file": what the offset has passed is in the file.
PassedIsSaved ==
    failures = 0 /\ deletes = 0 =>
        \A u \in Uid : \A n \in 0..(offset[u] - 1) : n \in Range(file[u])
=============================================================================
