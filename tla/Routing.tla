------------------------------- MODULE Routing -------------------------------
(***************************************************************************)
(* Who a message is for: the field "to" of ordinary and module-status      *)
(* messages (src/ndscloud/message.go, ParseFieldTo) and the cache of ids   *)
(* by role that the hub keeps for every unit (src/ndscloud/hub.go,         *)
(* UnitCache).                                                             *)
(*                                                                         *)
(* A "to" text is kept split at its separators, which is all that the code *)
(* looks at:                                                               *)
(*     head   the pieces before the first "@"                              *)
(*     sep    what joins them: "|", "," or "none" (a single piece)         *)
(*     tail   the ids named after the "@"                                  *)
(* A piece is a group letter or an id.  The empty text is NoTo.            *)
(***************************************************************************)
EXTENDS Integers, Sequences, FiniteSets, Functions

GroupLetters == {"A", "T", "S", "D"}

NoTo == [head |-> <<>>, sep |-> "none", tail |-> {}]

\* The two results of ParseFieldTo: the groups, in their order, and the ids.
ParseFieldTo(to) ==
    LET pieces == Range(to.head)
        lone   == to.sep = "none" /\ pieces \cap GroupLetters = {}
    IN  CASE to = NoTo ->
               [groups |-> <<>>, individuals |-> {}]
          [] to # NoTo /\ (to.sep = "," \/ lone) ->
               [groups |-> <<>>, individuals |-> pieces]
          [] to # NoTo /\ to.sep # "," /\ "A" \in pieces ->
               [groups |-> <<"A">>, individuals |-> {}]
          [] OTHER ->
               [groups |-> to.head, individuals |-> to.tail]

(***************************************************************************)
(* The cache of one unit: the ids that entered it, all of them and by      *)
(* role.  Nds (local controls) is filled and never read.                   *)
(***************************************************************************)
Field == {"All", "Tea", "Stu", "Dev", "Nds"}

EmptyCache == [f \in Field |-> {}]

FieldOfGroup == [g \in GroupLetters |->
    CASE g = "A" -> "All" [] g = "T" -> "Tea" [] g = "S" -> "Stu" [] g = "D" -> "Dev"]

\* The set getrecversbyto ends up holding: every known letter replaces the
\* one before it, so the last one counts, and without any the map stays nil.
ChosenField(groups) ==
    LET known == {i \in DOMAIN groups : groups[i] \in GroupLetters}
        last  == {i \in known : \A j \in known : j <= i}
    IN  IF last = {} THEN "nil" ELSE FieldOfGroup[groups[CHOOSE i \in last : TRUE]]
=============================================================================
