------------------------------ MODULE LocalSets -------------------------------
(***************************************************************************)
(* The terminals behind a local control: the two sets of its Client, which  *)
(* its readPump fills (LocalRegMsg, UsrOfflineMsg and DevOfflineMsg in      *)
(* src/ndscloud/processor.go) and the HTTP query ServeUsers lists           *)
(* (src/ndscloud/handler.go), users first and devices after them.           *)
(***************************************************************************)
EXTENDS Naturals, Sequences

CONSTANTS
    Terminal,    \* what a local control may report
    LocalDevice, \* those that are devices, the others are users
    Reports      \* bound: what the local control sends, over all instances

LocalFrame ==
    [op : {"report", "reportAll"}, items : Seq(Terminal)] \cup
    [op : {"offline"}, items : {<<t>> : t \in Terminal}]

ASSUME LocalAssumption ==
    /\ LocalDevice \subseteq Terminal
    /\ Reports \subseteq Seq(LocalFrame)

VARIABLES
    reports,  \* what the local control will still send
    adding,   \* the terminals of the frame in hand still to be entered
    local,    \* localUsers and localDevices together
    maps,     \* of these sets: both made, "users" (those of the users are new),
              \* or "nil" (both sets are new, with maps that were not made)
    up,       \* the server's process lives
    lister,   \* where ServeUsers is
    listed,   \* what it has found
    online,   \* auxiliary: the terminals that are there, by what was sent
    steady,   \* auxiliary: those that were there all the while it listed
    seen      \* auxiliary: those that were there at any time meanwhile

setVars == <<reports, adding, local, maps, online>>
localVars == <<setVars, up, lister, listed, steady, seen>>

LocalTypeOK ==
    /\ reports \in Seq(LocalFrame) /\ adding \in Seq(Terminal)
    /\ local \subseteq Terminal /\ listed \subseteq Terminal
    /\ online \subseteq Terminal /\ steady \subseteq Terminal /\ seen \subseteq Terminal
    /\ maps \in {"made", "users", "nil"} /\ up \in BOOLEAN
    /\ lister \in {"off", "idle", "users", "devices", "done"}

LocalInit ==
    /\ reports \in Reports
    /\ adding = <<>> /\ local = {} /\ maps = "made" /\ up = TRUE
    /\ lister \in {"off", "idle"}
    /\ listed = {} /\ online = {} /\ steady = {} /\ seen = {}

\* The terminals that are there are now these.
Online(set) ==
    /\ online' = set
    /\ steady' = steady \cap set
    /\ seen' = seen \cup set

\* readPump has the local control's next frame.
Receives(op) ==
    /\ up /\ adding = <<>> /\ maps # "users" /\ reports # <<>> /\ Head(reports).op = op
    /\ reports' = Tail(reports)
    /\ UNCHANGED <<up, lister, listed>>

\* Act 2: more terminals
Report ==
    /\ Receives("report")
    /\ adding' = Head(reports).items
    /\ UNCHANGED <<local, maps, online, steady, seen>>

\* Mutant: the sets stay.
ReportAllKeeps ==
    /\ Receives("reportAll")
    /\ adding' = Head(reports).items
    /\ Online({})
    /\ UNCHANGED <<local, maps>>

\* Act 3: the sets are replaced by new ones, whose maps are nil, first the set
\* of the users
ReportAll ==
    /\ Receives("reportAll")
    /\ adding' = Head(reports).items
    /\ local' = local \cap LocalDevice /\ maps' = "users"
    /\ Online(online \cap LocalDevice)

\* and then the set of the devices
ReplaceDevices ==
    /\ up /\ maps = "users"
    /\ local' = {} /\ maps' = "nil"
    /\ Online({})
    /\ UNCHANGED <<reports, adding, up, lister, listed>>

\* Add, and the message that it is online; a nil map panics.
AddTerminal ==
    /\ up /\ adding # <<>> /\ maps # "users"
    /\ IF maps = "made"
         THEN /\ local' = local \cup {Head(adding)}
              /\ adding' = Tail(adding)
              /\ Online(online \cup {Head(adding)})
              /\ UNCHANGED up
         ELSE up' = FALSE /\ UNCHANGED <<local, adding, online, steady, seen>>
    /\ UNCHANGED <<reports, maps, lister, listed>>

\* Remove
RemoveTerminal ==
    /\ Receives("offline")
    /\ local' = local \ {Head(Head(reports).items)}
    /\ Online(online \ {Head(Head(reports).items)})
    /\ UNCHANGED <<adding, maps>>

\* ServeUsers is at the local control.
ListBegins ==
    /\ up /\ lister = "idle"
    /\ lister' = "users"
    /\ steady' = online /\ seen' = online
    /\ UNCHANGED <<setVars, up, listed>>

ListUsers ==
    /\ up /\ lister = "users"
    /\ listed' = local \ LocalDevice
    /\ lister' = "devices"
    /\ UNCHANGED <<setVars, up, steady, seen>>

ListDevices ==
    /\ up /\ lister = "devices"
    /\ listed' = listed \cup (local \cap LocalDevice)
    /\ lister' = "done"
    /\ UNCHANGED <<setVars, up, steady, seen>>

ListReturns ==
    /\ up /\ lister = "done"
    /\ lister' = "idle" /\ listed' = {} /\ steady' = {} /\ seen' = {}
    /\ UNCHANGED <<setVars, up>>

LocalNext ==
    \/ Report \/ ReportAll \/ ReplaceDevices \/ AddTerminal \/ RemoveTerminal
    \/ ListBegins \/ ListUsers \/ ListDevices \/ ListReturns

(***************************************************************************)
(* Properties                                                              *)
(***************************************************************************)

\* While the local control reports terminals and takes them back, a listing
\* has everyone who was there all the while, and nobody who never was.  The
\* first terminal entered after a full report ends the process, in that
\* report or in a later one; nothing else does.
ListingIsFaithful ==
    /\ lister = "done" => steady \subseteq listed /\ listed \subseteq seen
    /\ ~up => maps = "nil"

\* The comment on the full report in processor.go says that the sets are cleared
\* and the terminals of the message become the new ones: so whatever a report
\* has still to enter, the process lives to enter it.
FullReportIsTaken == adding # <<>> => up
=============================================================================
