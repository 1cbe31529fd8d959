-------------------------------- MODULE Chats ---------------------------------
(***************************************************************************)
(* The HTTP query for chat messages, ServeChats of src/ndscloud/handler.go, *)
(* and a peer that pages back with it: it asks for the newest page or for   *)
(* the one that ends with a chat_id, that message included, and then for    *)
(* the page that ends with the id below the lowest it has.                  *)
(*                                                                         *)
(* The page is of the current scene or, when the course platform says that  *)
(* the unit is not running, of the one before.  (The handler would take a   *)
(* scene_id from its path, but the route in src/cc.go has none.)  A query   *)
(* that ends with an error gives no page and leaves the peer as it was.     *)
(***************************************************************************)
EXTENDS Scenes

CONSTANTS
    Limit,      \* the size of a page, "limit"
    FirstIds,   \* bound: the chat_id a peer begins with, 0 for none
    MaxChanges  \* bound: how often the unit's status on the platform changes

ASSUME ChatsAssumption ==
    Limit \in Nat /\ MaxChanges \in Nat /\ FirstIds \subseteq Nat /\ 0 \in FirstIds

VARIABLES
    running,  \* the unit's status on the course platform is "1"
    changes,  \* how often it has changed
    asker,    \* where the query in hand is
    chatId,   \* its chat_id, 0 if it names none
    latest,   \* the current scene as it got it
    of,       \* the scene the page is of
    ep,       \* the end position
    rows,     \* all that the peer has: [id, message], the oldest first
    total,    \* auxiliary: the position of the last message it asked for
    first,    \* auxiliary: the list was not yet looked at
    astray    \* auxiliary: it began beyond the list, or passed to another scene

queryVars == <<asker, chatId, latest, of, ep, rows, total, first, astray>>
chatVars == <<running, changes, queryVars>>

Row == [id : Int, message : FrameId]

ChatsTypeOK ==
    /\ running \in BOOLEAN /\ changes \in 0..MaxChanges
    /\ asker \in {"off", "ask", "status", "llen", "lrange", "done"}
    /\ chatId \in Nat /\ latest \in SceneNo /\ of \in SceneNo /\ ep \in Int
    /\ rows \in Seq(Row) /\ total \in Nat /\ first \in BOOLEAN /\ astray \in BOOLEAN

ChatsInit ==
    /\ running = TRUE /\ changes = 0
    /\ asker \in {"off", "ask"} /\ chatId \in FirstIds
    /\ latest = 0 /\ of = 0 /\ ep = 0
    /\ rows = <<>> /\ total = 0 /\ first = TRUE /\ astray = FALSE

\* The unit is started or stopped on the course platform.
StatusChanges ==
    /\ asker # "off" /\ changes < MaxChanges
    /\ changes' = changes + 1 /\ running' = ~running
    /\ UNCHANGED queryVars

\* GET of the current scene: where there is none the page is empty
AskScene ==
    /\ asker = "ask"
    /\ IF sceneId = 0 THEN asker' = "done" /\ UNCHANGED latest
                      ELSE asker' = "status" /\ latest' = sceneId
    /\ UNCHANGED <<running, changes, chatId, of, ep, rows, total, first, astray>>

\* getUnitInfo: a unit that is not running has its chats in the scene before
AskStatus ==
    /\ asker = "status"
    /\ asker' = "llen"
    /\ of' = IF running THEN latest ELSE latest - 1
    /\ astray' = (astray \/ (~first /\ of' # of))
    /\ UNCHANGED <<running, changes, chatId, latest, ep, rows, total, first>>

\* LLEN, and the end position: an empty list is an empty page
CountChats ==
    /\ asker = "llen"
    /\ LET count == Len(chat[of])
       IN  /\ asker' = IF count = 0 THEN "done" ELSE "lrange"
           /\ ep' = IF chatId = 0 THEN count - 1 ELSE chatId - 1
           /\ total' = IF ~first THEN total ELSE IF chatId = 0 THEN count ELSE chatId
           /\ astray' = (astray \/ (first /\ chatId > count))
    /\ first' = FALSE
    /\ UNCHANGED <<running, changes, chatId, latest, of, rows>>

\* What LRANGE start stop gives; both positions are from 0.
LRange(list, start, stop) == SubSeq(list, start + 1, IF stop < Len(list) THEN stop + 1
                                                                         ELSE Len(list))

\* Mutant: the ids are counted from a start position that is not cut off at 0.
PageFullAlways(last) ==
    LET sp  == IF last - Limit + 1 < 0 THEN 0 ELSE last - Limit + 1
        res == IF last >= sp /\ last >= 0 THEN LRange(chat[of], sp, last) ELSE <<>>
    IN  [k \in 1..Len(res) |-> [id |-> last - Limit + k + 1, message |-> res[k]]]

\* The page up to the end position, with the ids it gives the messages
Page(last) ==
    LET sp  == IF last - Limit + 1 < 0 THEN 0 ELSE last - Limit + 1
        res == IF last >= sp /\ last >= 0 THEN LRange(chat[of], sp, last) ELSE <<>>
    IN  [k \in 1..Len(res) |-> [id |-> last - Len(res) + k + 1, message |-> res[k]]]

\* LRANGE; the peer asks on from the id below the lowest it has, down to 1.
ReadChats ==
    /\ asker = "lrange"
    /\ LET page == Page(ep)
       IN  /\ rows' = page \o rows
           /\ IF page = <<>> \/ page[1].id <= 1
                THEN asker' = "done" /\ UNCHANGED chatId
                ELSE asker' = "ask" /\ chatId' = page[1].id - 1
    /\ UNCHANGED <<running, changes, latest, of, ep, total, first, astray>>

Query == AskScene \/ AskStatus \/ CountChats \/ ReadChats

(***************************************************************************)
(* Properties                                                              *)
(***************************************************************************)

\* While others go on chatting, end the scene and stop the unit, the pages put
\* together are the list as it was when the peer began, up to the message it
\* asked for, every message once and under its own position: unless the unit
\* passed to another scene between two pages, or the peer began with an id
\* that the list does not have yet.
ChatPagesAreExact ==
    ~astray =>
        /\ \A k \in 1..Len(rows) :
              /\ rows[k].id = total - Len(rows) + k
              /\ rows[k].message = chat[of][rows[k].id]
        /\ asker = "done" => Len(rows) = total
=============================================================================
