-------------------------- MODULE PersistPmsProofs --------------------------
(***************************************************************************)
(* Theorems about the persistence of ink, for any users, page length,      *)
(* number of pages, strokes, failures and deletions.                       *)
(***************************************************************************)
EXTENDS PersistPms, DataLemmas

\* The file that a run has open is there while it is the one in the directory.
\* Nobody draws more strokes than the bound says.
TypeInv ==
    /\ TypeOK
    /\ linked => uid \in Uid /\ file[uid] \in Seq(Nat)
    /\ \A u \in Uid : list[u] <= MaxStrokes[u]

LEMMA LrangeType ==
    ASSUME TypeOK, NEW u \in Uid, NEW from \in Nat
    PROVE  /\ Lrange(u, from) \in Seq(Nat)
           /\ Len(Lrange(u, from)) \in Nat /\ Len(Lrange(u, from)) <= Length
           /\ DOMAIN Lrange(u, from) = 1..Len(Lrange(u, from))
           /\ \A i \in 1..Len(Lrange(u, from)) : Lrange(u, from)[i] = from + i - 1
           /\ Len(Lrange(u, from)) # 0 => from + Len(Lrange(u, from)) <= list[u]
           /\ Len(Lrange(u, from)) < Length => list[u] <= from + Len(Lrange(u, from))
<1> DEFINE k == IF list[u] <= from THEN 0
                ELSE IF list[u] - from < Length THEN list[u] - from ELSE Length
           s == [i \in 1..k |-> from + i - 1]
<1>1. list[u] \in Nat /\ Length \in Nat \ {0}
  BY PmsAssumption DEF TypeOK
<1>2. /\ k \in Nat /\ k <= Length /\ (k # 0 => from + k <= list[u])
      /\ (k < Length => list[u] <= from + k)
  BY <1>1
<1>3. Lrange(u, from) = s
  BY DEF Lrange
<1> HIDE DEF k
<1>4. \A i \in 1..k : from + i - 1 \in Nat
  BY <1>2
<1>5. s \in Seq(Nat) /\ Len(s) = k /\ DOMAIN s = 1..k /\ \A i \in 1..k : s[i] = from + i - 1
  BY <1>2, <1>4
<1> HIDE DEF s
<1> QED BY <1>2, <1>3, <1>5

LEMMA TypeInit == Init => TypeInv
<1> SUFFICES ASSUME Init PROVE TypeInv
  OBVIOUS
<1>1. <<>> \in Seq(Nat) /\ Len(<<>>) = 0
  OBVIOUS
<1>2. linked = FALSE /\ linked \in BOOLEAN /\ ended \in BOOLEAN
  BY Zenon DEF Init
<1>3. 1 \in 1..Pages /\ 0 \in 0..MaxFailures /\ 0 \in 0..MaxDeletes /\ 0 <= Length
      /\ \A u \in Uid : 0 <= MaxStrokes[u]
  BY PmsAssumption
<1> QED BY <1>1, <1>2, <1>3 DEF Init, TypeInv, TypeOK

LEMMA TypeStep == ASSUME TypeInv, [Next]_vars PROVE TypeInv'
<1> USE PmsAssumption DEF TypeInv, redisVars, saveVars, delVars
<1>0. <<>> \in Seq(Nat) /\ Len(<<>>) = 0 /\ 0 <= Length /\ 1 \in 1..Pages /\ None \notin Uid
  OBVIOUS
<1>1. CASE UNCHANGED vars
  BY <1>1 DEF vars, TypeOK
<1>2. CASE EndScene \/ SaveStarts \/ SaveEnds
  <2>1. keys' \subseteq Uid
    BY <1>2 DEF EndScene, SaveStarts, SaveEnds, Scanned, TypeOK
  <2>2. ended' \in BOOLEAN
    <3>1. ended' = TRUE \/ ended' = ended
      BY <1>2, Zenon DEF EndScene, SaveStarts, SaveEnds
    <3> QED BY <3>1, Zenon DEF TypeOK
  <2> QED BY <1>2, <2>1, <2>2 DEF EndScene, SaveStarts, SaveEnds, TypeOK
<1>3. ASSUME NEW u \in Uid, Draw(u) PROVE TypeInv'
  BY <1>3 DEF Draw, TypeOK
<1>4. CASE ListTeachers
  <2>1. listed' \subseteq Teacher
    BY <1>4 DEF ListTeachers, Identified, TypeOK
  <2> QED BY <1>4, <2>1 DEF ListTeachers, TypeOK
<1>5. ASSUME NEW u \in Uid, OpenFile(u) PROVE TypeInv'
  <2>1. linked' \in BOOLEAN
    BY <1>5, Zenon DEF OpenFile
  <2> QED BY <1>0, <1>5, <2>1 DEF OpenFile, TypeOK
<1>6. CASE GetOffset
  BY <1>0, <1>6 DEF GetOffset, TypeOK
<1>7. CASE ReadPage
  <2>1. start' \in Nat /\ uid \in Uid /\ start' = start + (page - 1) * Length
    <3>1. page - 1 \in Nat /\ start \in Nat /\ Length \in Nat
      BY DEF TypeOK
    <3>2. (page - 1) * Length \in Nat
      BY <3>1
    <3>3. start' = start + (page - 1) * Length /\ uid \in Uid
      BY <1>7 DEF ReadPage, TypeOK
    <3> QED BY <3>1, <3>2, <3>3
  <2>2. pmses' \in Seq(Nat) /\ Len(pmses') <= Length
    BY <1>7, <2>1, LrangeType DEF ReadPage
  <2> QED BY <1>7, <2>1, <2>2 DEF ReadPage, TypeOK
<1>8. CASE WritePage
  <2>1. /\ pmses' = <<>> /\ uid \in Uid /\ Len(pmses) \in Nat
        /\ file' = IF linked THEN [file EXCEPT ![uid] = @ \o pmses] ELSE file
        /\ UNCHANGED <<program, redisVars, ended, keys, uid, linked, first, failures, delVars>>
    BY <1>8, LenProperties DEF WritePage, TypeOK
  <2>2. file' \in [Uid -> Seq(Nat) \cup {None}] /\ (linked => file'[uid] \in Seq(Nat))
    <3>1. CASE linked
      <4>1. file[uid] \o pmses \in Seq(Nat)
        BY <3>1, ConcatProperties DEF TypeOK
      <4> QED BY <2>1, <3>1, <4>1 DEF TypeOK
    <3>2. CASE ~linked
      BY <2>1, <3>2 DEF TypeOK
    <3> QED BY <3>1, <3>2
  <2>3. at' \in {"set", "page"} /\ start' \in Nat /\ page' \in 1..Pages
    BY <1>8, <2>1 DEF WritePage, NextPage, TypeOK
  <2> QED BY <1>0, <2>1, <2>2, <2>3 DEF TypeOK
<1>9. CASE SetOffset
  <2>1. linked' \in BOOLEAN /\ ~linked'
    BY <1>9, Zenon DEF SetOffset, Forgets
  <2> QED BY <1>0, <1>9, <2>1 DEF SetOffset, Forgets, TypeOK
<1>10. CASE SaveFails
  <2>1. linked' \in BOOLEAN /\ ~linked'
    BY <1>10, Zenon DEF SaveFails, Forgets
  <2> QED BY <1>0, <1>10, <2>1 DEF SaveFails, Forgets, TypeOK
<1>11. ASSUME NEW u \in Uid, DeleteOffset(u) PROVE TypeInv'
  BY <1>11 DEF DeleteOffset, TypeOK
<1>12. CASE RemoveFile
  <2>1. linked' = (linked /\ uid # delUid) /\ linked' \in BOOLEAN
    BY <1>12, Zenon DEF RemoveFile
  <2> QED BY <1>12, <2>1 DEF RemoveFile, TypeOK
<1>13. CASE DeleteFails
  BY <1>13 DEF DeleteFails, TypeOK
<1> QED
  BY <1>1, <1>2, <1>3, <1>4, <1>5, <1>6, <1>7, <1>8, <1>9, <1>10, <1>11, <1>12, <1>13
  DEF Next, Save

LEMMA Typed == Spec => []TypeInv
  BY TypeInit, TypeStep, PTL DEF Spec

\* Every variable keeps to its type; no page is longer than Length and no run
\* reads more than Pages of them.
THEOREM TypeCorrect == Spec => []TypeOK
<1>1. TypeInv => TypeOK
  BY DEF TypeInv
<1> QED BY <1>1, Typed, PTL

(***************************************************************************)
(* Where a run is in the list: page by page it jumps ahead, by more and    *)
(* more, and a page holds the strokes from there on.                       *)
(***************************************************************************)
Reading ==
    /\ at = "page" => 2 * start = 2 * first + Length * ((page - 1) * (page - 2))
    /\ at = "write" =>
          /\ 2 * start = 2 * first + Length * ((page - 1) * page)
          /\ \A i \in 1..Len(pmses) : pmses[i] = start + i - 1
          /\ Len(pmses) # 0 => start + Len(pmses) <= list[uid]

LEMMA Jump ==
    ASSUME NEW p \in Int, NEW l \in Int
    PROVE  l * ((p - 1) * (p - 2)) + 2 * ((p - 1) * l) = l * ((p - 1) * p)
<1> DEFINE q == p - 1
<1>1. (p - 1) * p = q * (p - 2) + 2 * q
  OBVIOUS
<1>2. q * (p - 2) \in Int /\ q \in Int
  OBVIOUS
<1>3. \A x, y \in Int : l * (x + 2 * y) = l * x + 2 * (y * l)
  OBVIOUS
<1> HIDE DEF q
<1>4. l * (q * (p - 2) + 2 * q) = l * (q * (p - 2)) + 2 * (q * l)
  BY <1>2, <1>3
<1> QED BY <1>1, <1>4 DEF q

LEMMA ReadingStep == ASSUME TypeInv, Reading, [Next]_vars PROVE Reading'
<1> USE DEF TypeInv, redisVars, saveVars, delVars
<1>t. Length \in Nat \ {0} /\ Pages \in Nat \ {0} /\ start \in Nat /\ first \in Nat /\ page \in Nat
  BY PmsAssumption DEF TypeOK
<1>1. CASE UNCHANGED <<at, uid, first, start, page, pmses, list>>
  BY <1>1 DEF Reading
<1>2. CASE at' \notin {"page", "write"}
  BY <1>2 DEF Reading
<1>3. ASSUME NEW u \in Uid, Draw(u) PROVE Reading'
  <2>1. uid \in Uid => list'[uid] >= list[uid] /\ list'[uid] \in Nat /\ list[uid] \in Nat
    BY <1>3 DEF Draw, TypeOK
  <2>2. at = "write" => uid \in Uid /\ Len(pmses) \in Nat
    BY LenProperties DEF TypeOK
  <2> QED BY <1>t, <1>3, <2>1, <2>2 DEF Draw, Reading
<1>4. CASE GetOffset
  <2>1. page' = 1 /\ start' = first' /\ at' = "page" /\ first' \in Nat
    BY <1>4 DEF GetOffset, TypeOK
  <2>2. (page' - 1) * (page' - 2) = 0 /\ Length' * 0 = 0
    BY <1>t, <2>1
  <2> QED BY <2>1, <2>2 DEF Reading
<1>5. CASE ReadPage
  <2>1. /\ at = "page" /\ at' = "write" /\ start' = start + (page - 1) * Length
        /\ pmses' = Lrange(uid, start') /\ UNCHANGED <<list, uid, first, page>> /\ uid \in Uid
    BY <1>5 DEF ReadPage, TypeOK
  <2>2. (page - 1) * Length \in Nat
    <3>1. page - 1 \in Nat
      BY DEF TypeOK
    <3> QED BY <1>t, <3>1
  <2>3. 2 * start' = 2 * start + 2 * ((page - 1) * Length) /\ start' \in Nat
    BY <1>t, <2>1, <2>2
  <2>4. Length * ((page - 1) * (page - 2)) + 2 * ((page - 1) * Length) = Length * ((page - 1) * page)
    BY <1>t, Jump
  <2>5. Length * ((page - 1) * (page - 2)) \in Int /\ Length * ((page - 1) * page) \in Int
    <3>1. (page - 1) * (page - 2) \in Int /\ (page - 1) * page \in Int
      BY <1>t
    <3> QED BY <1>t, <3>1
  <2>6. 2 * start' = 2 * first + Length * ((page - 1) * page)
    BY <1>t, <2>1, <2>2, <2>3, <2>4, <2>5 DEF Reading
  <2>7. /\ \A i \in 1..Len(pmses') : pmses'[i] = start' + i - 1
        /\ Len(pmses') # 0 => start' + Len(pmses') <= list[uid]
    BY <2>1, <2>3, LrangeType
  <2> QED BY <2>1, <2>6, <2>7 DEF Reading
<1>6. CASE WritePage
  <2>1. at = "write" /\ UNCHANGED <<list, uid, first>> /\ at' \in {"set", "page"}
    BY <1>6 DEF WritePage, NextPage
  <2>2. CASE at' = "page"
    <3>1. page' = page + 1 /\ start' = start
      BY <1>6, <2>2 DEF WritePage, NextPage
    <3>2. (page' - 1) * (page' - 2) = (page - 1) * page
      <4>1. page' - 1 = page /\ page' - 2 = page - 1
        BY <1>t, <3>1
      <4>2. page * (page - 1) = (page - 1) * page
        BY <1>t
      <4> QED BY <4>1, <4>2
    <3> QED BY <2>1, <2>2, <3>1, <3>2 DEF Reading
  <2> QED BY <1>2, <2>1, <2>2
<1>7. CASE EndScene \/ RemoveFile \/ DeleteFails \/ \E u \in Uid : DeleteOffset(u)
  BY <1>1, <1>7 DEF EndScene, RemoveFile, DeleteFails, DeleteOffset
<1>8. CASE SaveStarts \/ ListTeachers \/ SetOffset \/ SaveEnds \/ SaveFails \/ \E u \in Uid : OpenFile(u)
  BY <1>2, <1>8 DEF SaveStarts, ListTeachers, SetOffset, SaveEnds, SaveFails, OpenFile
<1>9. CASE UNCHANGED vars
  BY <1>1, <1>9 DEF vars
<1> QED BY <1>3, <1>4, <1>5, <1>6, <1>7, <1>8, <1>9 DEF Next, Save

\* No list is as long as the last page of a run reaches.  Where one is, a full
\* last page leaves the offset at its own beginning and is appended again.
ListsFit == \A u \in Uid : 2 * MaxStrokes[u] < Length * ((Pages - 1) * Pages) + 2 * Length

LEMMA LastPageIsShort ==
    ASSUME TypeInv, Reading, ListsFit, at = "write", page = Pages
    PROVE  Len(pmses) < Length
<1>1. /\ uid \in Uid /\ Len(pmses) \in Nat /\ Len(pmses) <= Length /\ first \in Nat /\ start \in Nat
      /\ Length \in Nat \ {0} /\ MaxStrokes[uid] \in Nat /\ list[uid] \in Nat
      /\ list[uid] <= MaxStrokes[uid]
  BY PmsAssumption, LenProperties DEF TypeInv, TypeOK
<1> DEFINE k == Length * ((Pages - 1) * Pages)
<1>2. k \in Int
  <2>1. (Pages - 1) * Pages \in Int
    BY PmsAssumption
  <2> QED BY <1>1, <2>1
<1>3. 2 * start = 2 * first + k /\ (Len(pmses) # 0 => start + Len(pmses) <= list[uid])
  BY DEF Reading
<1>4. 2 * MaxStrokes[uid] < k + 2 * Length
  BY <1>1 DEF ListsFit
<1> HIDE DEF k
<1> QED BY <1>1, <1>2, <1>3, <1>4

LEMMA ReadingInit == Init => Reading
  BY DEF Init, Reading

LEMMA Reads == Spec => [](TypeInv /\ Reading)
<1>1. Init => TypeInv /\ Reading
  BY TypeInit, ReadingInit
<1>2. TypeInv /\ Reading /\ [Next]_vars => TypeInv' /\ Reading'
  BY TypeStep, ReadingStep
<1> QED BY <1>1, <1>2, PTL DEF Spec

(***************************************************************************)
(* What a user's file has is from before the place where the next append   *)
(* to it begins.                                                           *)
(***************************************************************************)
Resume(u) ==
    IF u # uid THEN offset[u]
    ELSE IF at = "page" THEN start + (page - 1) * Length
    ELSE IF at \in {"write", "set"} THEN start ELSE offset[u]

\* A step keeps a user's file or empties it, and the next append begins no
\* earlier;
Keeps(u) ==
    /\ file'[u] = file[u] \/ file'[u] \in {None, <<>>}
    /\ Resume(u)' >= Resume(u)
    /\ UNCHANGED <<failures, deletes>>

\* or it is a failure or a deletion, and lets the file be;
Disturbs(u) == file'[u] = file[u] /\ failures' + deletes' = failures + deletes + 1

\* or it appends a page from that place on, and the next one begins behind it.
Appends(u) ==
    /\ at = "write" /\ u = uid /\ file[u] \in Seq(Nat)
    /\ file'[u] = file[u] \o pmses
    /\ Resume(u) = start /\ Resume(u)' >= start + Len(pmses)
    /\ UNCHANGED <<failures, deletes>>

LEMMA ResumeType == ASSUME TypeInv, NEW u \in Uid PROVE Resume(u) \in Nat
<1>1. /\ offset[u] \in Nat /\ start \in Nat /\ page - 1 \in Nat /\ Length \in Nat
  BY PmsAssumption DEF TypeInv, TypeOK
<1>2. (page - 1) * Length \in Nat
  BY <1>1
<1>3. start + (page - 1) * Length \in Nat
  BY <1>1, <1>2
<1> QED BY <1>1, <1>3 DEF Resume

ResumesTyped == \A u \in Uid : Resume(u) \in Nat

LEMMA ResumeTypeNext == TypeInv' => ResumesTyped'
<1>1. TypeInv => ResumesTyped
  BY ResumeType DEF ResumesTyped
<1> QED BY <1>1, PTL

\* The writing of a page keeps or appends.
LEMMA WriteMoves ==
    ASSUME TypeInv, Reading, ListsFit, WritePage, NEW u \in Uid
    PROVE  Keeps(u) \/ Appends(u)
<1>1. /\ at = "write" /\ uid \in Uid /\ UNCHANGED <<offset, uid, failures, deletes>>
      /\ file' = IF linked THEN [file EXCEPT ![uid] = @ \o pmses] ELSE file
      /\ file \in [Uid -> Seq(Nat) \cup {None}]
      /\ linked => file[uid] \in Seq(Nat)
  BY DEF WritePage, TypeInv, TypeOK, redisVars, delVars
<1>2. /\ start \in Nat /\ page \in Nat \ {0} /\ Len(pmses) \in Nat /\ Length \in Nat
      /\ Len(pmses) <= Length /\ offset[u] \in Nat
  BY PmsAssumption, LenProperties DEF TypeInv, TypeOK
<1>3. u = uid => Resume(u) = start /\ Resume(u)' \in Nat /\ Resume(u)' >= start + Len(pmses)
  <2> SUFFICES ASSUME u = uid
               PROVE  Resume(u) = start /\ Resume(u)' \in Nat /\ Resume(u)' >= start + Len(pmses)
    OBVIOUS
  <2>1. Resume(u) = start
    BY <1>1 DEF Resume
  <2>2. CASE Len(pmses) < Length
    <3>1. at' = "set" /\ start' = start + Len(pmses)
      BY <2>2 DEF WritePage, NextPage
    <3> QED BY <1>1, <1>2, <2>1, <3>1 DEF Resume
  <2>3. CASE ~(Len(pmses) < Length)
    <3>1. page # Pages
      BY <1>1, <2>3, LastPageIsShort
    <3>2. at' = "page" /\ page' = page + 1 /\ start' = start
      BY <2>3, <3>1 DEF WritePage, NextPage
    <3>3. Resume(u)' = start' + (page' - 1) * Length
      BY <1>1, <3>2 DEF Resume
    <3>4. page' - 1 = page /\ page * Length >= Length /\ page * Length \in Nat
      <4>1. page = (page - 1) + 1 /\ page - 1 \in Nat
        BY <1>2
      <4>2. \A k, l \in Nat : (k + 1) * l = k * l + l /\ k * l \in Nat
        OBVIOUS
      <4>3. page * Length = (page - 1) * Length + Length /\ (page - 1) * Length \in Nat
        BY <1>2, <4>1, <4>2
      <4> QED BY <1>2, <3>2, <4>3
    <3> QED BY <1>2, <2>1, <3>2, <3>3, <3>4
  <2> QED BY <2>2, <2>3
<1>4. CASE u # uid
  BY <1>1, <1>2, <1>4 DEF Keeps, Resume
<1>5. CASE u = uid /\ linked
  BY <1>1, <1>3, <1>5 DEF Appends
<1>6. CASE u = uid /\ ~linked
  <2>1. Resume(u)' >= Resume(u)
    BY <1>2, <1>3, <1>6
  <2> QED BY <1>1, <1>6, <2>1 DEF Keeps
<1> QED BY <1>4, <1>5, <1>6

LEMMA Moves ==
    ASSUME TypeInv, Reading, ListsFit, [Next]_vars, NEW u \in Uid
    PROVE  Keeps(u) \/ Disturbs(u) \/ Appends(u)
<1> USE DEF redisVars, saveVars, delVars
<1>t. /\ Resume(u) \in Nat /\ failures \in Nat /\ deletes \in Nat
      /\ file \in [Uid -> Seq(Nat) \cup {None}] /\ offset \in [Uid -> Nat]
      /\ (uid = None <=> at \in {"idle", "teachers", "open"}) /\ None \notin Uid
  BY PmsAssumption, ResumeType DEF TypeInv, TypeOK
<1>1. ASSUME Resume(u)' = Resume(u), file'[u] = file[u] \/ file'[u] \in {None, <<>>},
             UNCHANGED <<failures, deletes>>
      PROVE  Keeps(u)
  BY <1>t, <1>1 DEF Keeps
<1>2. CASE UNCHANGED <<offset, at, uid, start, page, file, failures, deletes>>
  BY <1>1, <1>2 DEF Resume
<1>3. CASE SaveStarts \/ ListTeachers \/ SaveEnds
  <2>1. u # uid /\ UNCHANGED <<offset, uid, file, failures, deletes>>
    BY <1>t, <1>3 DEF SaveStarts, ListTeachers, SaveEnds
  <2>2. Resume(u)' = Resume(u)
    BY <2>1 DEF Resume
  <2> QED BY <1>1, <2>1, <2>2
<1>4. ASSUME NEW v \in Uid, OpenFile(v) PROVE Keeps(u)
  <2>1. /\ at = "open" /\ at' = "get" /\ UNCHANGED <<offset, failures, deletes>>
        /\ file' = [file EXCEPT ![v] = IF @ = None THEN <<>> ELSE @]
    BY <1>4 DEF OpenFile
  <2>2. file'[u] = file[u] \/ file'[u] \in {None, <<>>}
    BY <1>t, <2>1
  <2>3. Resume(u)' = Resume(u)
    BY <2>1 DEF Resume
  <2> QED BY <1>1, <2>1, <2>2, <2>3
<1>5. CASE GetOffset
  <2>1. /\ at = "get" /\ at' = "page" /\ start' = offset[uid] /\ page' = 1
        /\ UNCHANGED <<offset, uid, file, failures, deletes>> /\ Length \in Nat
    BY <1>5, PmsAssumption DEF GetOffset
  <2>2. (page' - 1) * Length = 0
    BY <2>1
  <2>3. offset[u] \in Nat
    BY <1>t
  <2>4. Resume(u)' = Resume(u)
    BY <2>1, <2>2, <2>3 DEF Resume
  <2> QED BY <1>1, <2>1, <2>4
<1>6. CASE ReadPage
  <2>1. /\ at = "page" /\ at' = "write" /\ start' = start + (page - 1) * Length
        /\ UNCHANGED <<offset, uid, file, failures, deletes>>
    BY <1>6 DEF ReadPage
  <2>2. Resume(u)' = Resume(u)
    BY <2>1 DEF Resume
  <2> QED BY <1>1, <2>1, <2>2
<1>7. CASE SetOffset
  <2>1. /\ at = "set" /\ at' = "open" /\ uid' = None
        /\ offset' = [offset EXCEPT ![uid] = start] /\ UNCHANGED <<file, failures, deletes>>
    BY <1>7 DEF SetOffset, Forgets
  <2>2. Resume(u)' = Resume(u)
    BY <1>t, <2>1 DEF Resume
  <2> QED BY <1>1, <2>1, <2>2
<1>8. CASE SaveFails \/ DeleteFails \/ \E v \in Uid : DeleteOffset(v)
  BY <1>t, <1>8 DEF SaveFails, DeleteFails, DeleteOffset, Disturbs
<1>9. CASE RemoveFile
  <2>1. /\ file' = [file EXCEPT ![delUid] = None]
        /\ UNCHANGED <<offset, at, uid, start, page, failures, deletes>>
    BY <1>9 DEF RemoveFile
  <2>2. file'[u] = file[u] \/ file'[u] = None
    BY <1>t, <2>1
  <2>3. Resume(u)' = Resume(u)
    BY <2>1 DEF Resume
  <2> QED BY <1>1, <2>1, <2>2, <2>3
<1>10. CASE EndScene \/ (\E v \in Uid : Draw(v)) \/ UNCHANGED vars
  BY <1>2, <1>10 DEF EndScene, Draw, vars
<1> QED
  BY <1>3, <1>4, <1>5, <1>6, <1>7, <1>8, <1>9, <1>10, WriteMoves DEF Next, Save

\* Without a failure or a deletion, everything in a file is from before the
\* place where the next append begins, and it rises.
ReplayInv ==
    failures = 0 /\ deletes = 0 => \A u \in Uid : file[u] # None =>
        Rising(file[u]) /\ \A n \in Range(file[u]) : n < Resume(u)

\* A stroke that is yet to be appended is in the file once per failure or
\* deletion at most.
RepeatInv ==
    \A u \in Uid : file[u] # None => \A n \in Nat :
        Cardinality(Occurs(file[u], n)) <= (IF n < Resume(u) THEN 1 ELSE 0) + failures + deletes

LEMMA NoneIsNoFile == ASSUME TypeInv, NEW u \in Uid, file[u] # None PROVE file[u] \in Seq(Nat)
  BY DEF TypeInv, TypeOK

\* A page is what is in the list from its beginning on.
LEMMA PageRises ==
    ASSUME TypeInv, Reading, at = "write"
    PROVE  /\ pmses \in Seq(Nat) /\ Len(pmses) \in Nat /\ start \in Nat
           /\ Rising(pmses)
           /\ \A n \in Range(pmses) : start <= n /\ n < start + Len(pmses)
           /\ \A n : \A i, j \in DOMAIN pmses : pmses[i] = n /\ pmses[j] = n => i = j
<1>1. pmses \in Seq(Nat) /\ start \in Nat
  BY DEF TypeInv, TypeOK
<1>2. Len(pmses) \in Nat /\ DOMAIN pmses = 1..Len(pmses)
  BY <1>1, LenProperties
<1>3. \A i \in 1..Len(pmses) : pmses[i] = start + i - 1
  BY DEF Reading
<1>4. Rising(pmses)
  BY <1>1, <1>2, <1>3 DEF Rising
<1>5. \A n \in Range(pmses) : start <= n /\ n < start + Len(pmses)
  BY <1>1, <1>2, <1>3 DEF Range
<1>6. \A n : \A i, j \in DOMAIN pmses : pmses[i] = n /\ pmses[j] = n => i = j
  BY <1>1, <1>2, <1>3
<1> QED BY <1>1, <1>2, <1>4, <1>5, <1>6

LEMMA EmptyFile ==
    /\ Rising(<<>>) /\ Range(<<>>) = {}
    /\ \A n : Cardinality(Occurs(<<>>, n)) = 0
<1>1. DOMAIN <<>> = {}
  OBVIOUS
<1>2. Rising(<<>>) /\ Range(<<>>) = {} /\ \A n : Occurs(<<>>, n) = {}
  BY <1>1 DEF Rising, Range, Occurs
<1> QED BY <1>2, FS_EmptySet

LEMMA ReplayStep ==
    ASSUME TypeInv, Reading, ListsFit, [Next]_vars, ReplayInv PROVE ReplayInv'
<1> SUFFICES ASSUME failures' = 0 /\ deletes' = 0, NEW u \in Uid, file'[u] # None
             PROVE  Rising(file'[u]) /\ \A n \in Range(file'[u]) : n < Resume(u)'
  BY DEF ReplayInv
<1>n. failures' = 0 /\ deletes' = 0 /\ file'[u] # None
  OBVIOUS
<1>t. Resume(u) \in Nat /\ failures \in Nat /\ deletes \in Nat
  BY ResumeType DEF TypeInv, TypeOK
<1>0. TypeInv'
  BY TypeStep
<1>u. Resume(u)' \in Nat
  BY <1>0, ResumeTypeNext DEF ResumesTyped
<1>1. failures = 0 /\ deletes = 0 /\ ~Disturbs(u)
  <2>1. ~Disturbs(u)
    BY <1>t, <1>n DEF Disturbs
  <2> QED BY <1>n, <2>1, Moves DEF Keeps, Appends
<1>2. CASE file[u] # None /\ file'[u] = file[u] /\ Keeps(u)
  <2>1. Rising(file[u]) /\ \A n \in Range(file[u]) : n < Resume(u)
    BY <1>1, <1>2 DEF ReplayInv
  <2>2. Resume(u)' >= Resume(u) /\ Range(file[u]) \subseteq Nat
    <3>1. file[u] \in Seq(Nat)
      BY <1>2, NoneIsNoFile
    <3> QED BY <1>2, <3>1, RangeOfSeq DEF Keeps
  <2> QED BY <1>t, <1>u, <1>2, <2>1, <2>2
<1>3. CASE file'[u] = <<>>
  BY <1>3, EmptyFile
<1>4. CASE Appends(u)
  <2>1. /\ at = "write" /\ file[u] \in Seq(Nat) /\ file'[u] = file[u] \o pmses
        /\ Resume(u) = start /\ Resume(u)' >= start + Len(pmses) /\ file[u] # None
    BY <1>4, PmsAssumption DEF Appends
  <2>2. Rising(file[u]) /\ \A n \in Range(file[u]) : n < start
    BY <1>1, <2>1 DEF ReplayInv
  <2>3. /\ pmses \in Seq(Nat) /\ Len(pmses) \in Nat /\ start \in Nat /\ Rising(pmses)
        /\ \A n \in Range(pmses) : start <= n /\ n < start + Len(pmses)
    BY <2>1, PageRises
  <2>4. Range(file[u]) \subseteq Nat /\ Range(pmses) \subseteq Nat
    BY <2>1, <2>3, RangeOfSeq
  <2>5. Below(Range(file[u]), Range(pmses))
    BY <2>2, <2>3, <2>4 DEF Below
  <2>6. Rising(file[u] \o pmses)
    BY <2>1, <2>2, <2>3, <2>5, RisingConcat
  <2>7. Range(file[u] \o pmses) = Range(file[u]) \cup Range(pmses)
    BY <2>1, <2>3, RangeConcatenation
  <2>8. \A n \in Range(file[u]) \cup Range(pmses) : n < Resume(u)'
    BY <1>u, <2>1, <2>2, <2>3, <2>4
  <2> QED BY <2>1, <2>6, <2>7, <2>8
<1>5. Keeps(u) => file'[u] = file[u] \/ file'[u] = <<>>
  BY <1>n DEF Keeps
<1>6. file'[u] = file[u] => file[u] # None
  BY <1>n
<1> QED BY <1>1, <1>2, <1>3, <1>4, <1>5, <1>6, Moves

LEMMA RepeatStep ==
    ASSUME TypeInv, Reading, ListsFit, [Next]_vars, RepeatInv PROVE RepeatInv'
<1> SUFFICES ASSUME NEW u \in Uid, file'[u] # None, NEW n \in Nat
             PROVE  Cardinality(Occurs(file'[u], n))
                      <= (IF n < Resume(u)' THEN 1 ELSE 0) + failures' + deletes'
  BY DEF RepeatInv
<1>t. Resume(u) \in Nat /\ failures \in Nat /\ deletes \in Nat
  BY ResumeType DEF TypeInv, TypeOK
<1>0. TypeInv'
  BY TypeStep
<1>u. Resume(u)' \in Nat /\ failures' \in Nat /\ deletes' \in Nat
  BY <1>0, ResumeTypeNext DEF ResumesTyped, TypeInv, TypeOK
<1>1. ASSUME file[u] # None
      PROVE  /\ Cardinality(Occurs(file[u], n)) <= (IF n < Resume(u) THEN 1 ELSE 0) + failures + deletes
             /\ Cardinality(Occurs(file[u], n)) \in Nat /\ file[u] \in Seq(Nat)
  <2>1. file[u] \in Seq(Nat)
    BY <1>1, NoneIsNoFile
  <2> QED BY <1>1, <2>1, OccursType DEF RepeatInv
<1>2. CASE file'[u] = file[u] /\ (Keeps(u) \/ Disturbs(u))
  <2> DEFINE c == Cardinality(Occurs(file[u], n))
  <2>1. c \in Nat /\ c <= (IF n < Resume(u) THEN 1 ELSE 0) + failures + deletes
    BY <1>1, <1>2
  <2>2. Cardinality(Occurs(file'[u], n)) = c
    BY <1>2
  <2> HIDE DEF c
  <2>3. CASE Keeps(u)
    BY <1>t, <1>u, <2>1, <2>2, <2>3 DEF Keeps
  <2>4. CASE Disturbs(u)
    <3> DEFINE e == IF n < Resume(u)' THEN 1 ELSE 0
    <3>1. c <= 1 + failures + deletes
      BY <1>t, <2>1
    <3>2. failures' + deletes' = failures + deletes + 1
      BY <2>4 DEF Disturbs
    <3>3. c \in Nat /\ e \in Nat
      BY <2>1
    <3> HIDE DEF e
    <3>4. \A x, y, z, f, g, h \in Nat : x <= 1 + y + z /\ f + g = y + z + 1 => x <= h + f + g
      OBVIOUS
    <3>5. c <= e + failures' + deletes'
      BY <1>t, <1>u, <3>1, <3>2, <3>3, <3>4
    <3> QED BY <2>2, <3>5 DEF e
  <2> QED BY <1>2, <2>3, <2>4
<1>3. CASE file'[u] = <<>>
  BY <1>u, <1>3, EmptyFile
<1>4. CASE Appends(u)
  <2>1. /\ at = "write" /\ file[u] \in Seq(Nat) /\ file'[u] = file[u] \o pmses
        /\ Resume(u) = start /\ Resume(u)' >= start + Len(pmses) /\ file[u] # None
        /\ UNCHANGED <<failures, deletes>>
    BY <1>4, PmsAssumption DEF Appends
  <2>2. /\ pmses \in Seq(Nat) /\ Len(pmses) \in Nat /\ start \in Nat
        /\ \A m \in Range(pmses) : start <= m /\ m < start + Len(pmses)
        /\ \A i, j \in DOMAIN pmses : pmses[i] = n /\ pmses[j] = n => i = j
    BY <2>1, PageRises
  <2>3. /\ Cardinality(Occurs(file[u] \o pmses, n)) \in Nat
        /\ Cardinality(Occurs(file[u] \o pmses, n)) <= Cardinality(Occurs(file[u], n)) + 1
        /\ n \notin Range(pmses) => Occurs(file[u] \o pmses, n) = Occurs(file[u], n)
    BY <2>1, <2>2, OccursConcat
  <2> DEFINE c == Cardinality(Occurs(file[u], n))
             d == Cardinality(Occurs(file[u] \o pmses, n))
  <2>4. /\ c \in Nat /\ d \in Nat /\ c <= (IF n < start THEN 1 ELSE 0) + failures + deletes
        /\ d <= c + 1 /\ (n \notin Range(pmses) => d = c)
    BY <1>1, <2>1, <2>3
  <2> HIDE DEF c, d
  <2>5. d <= (IF n < Resume(u)' THEN 1 ELSE 0) + failures + deletes
    <3>1. CASE n \in Range(pmses)
      BY <1>t, <1>u, <2>1, <2>2, <2>4, <3>1
    <3>2. CASE n \notin Range(pmses)
      BY <1>t, <1>u, <2>1, <2>2, <2>4, <3>2
    <3> QED BY <3>1, <3>2
  <2> QED BY <2>1, <2>5 DEF d
<1>5. Keeps(u) => file'[u] = file[u] \/ file'[u] = <<>>
  BY DEF Keeps
<1>6. Disturbs(u) => file'[u] = file[u]
  BY DEF Disturbs
<1> QED BY <1>2, <1>3, <1>4, <1>5, <1>6, Moves

\* However users draw and runs of "save" interleave with the end of the scene, a
\* file is a replay while nothing has failed and nothing was deleted: a run
\* never appends a stroke that is in the file, nor one from before its last.
THEOREM ReplaysAreInOrder == ASSUME ListsFit PROVE Spec => []ReplayInOrder
<1>1. Init => ReplayInv
  BY DEF Init, ReplayInv
<1>2. TypeInv /\ Reading /\ ReplayInv /\ [Next]_vars => ReplayInv'
  BY ReplayStep
<1>3. ReplayInv => ReplayInOrder
  BY DEF ReplayInv, ReplayInOrder, Rising
<1> QED BY <1>1, <1>2, <1>3, Reads, PTL DEF Spec

\* A run that dies between an append and its offset, and "del", which lets a run
\* go on with what it has read, cost one repetition each: nothing is appended
\* more often than that.
THEOREM RepeatsStayBounded == ASSUME ListsFit PROVE Spec => []RepeatsAreBounded
<1>1. Init => RepeatInv
  BY DEF Init, RepeatInv
<1>2. TypeInv /\ Reading /\ RepeatInv /\ [Next]_vars => RepeatInv'
  BY RepeatStep
<1>3. TypeInv /\ RepeatInv => RepeatsAreBounded
  <2> SUFFICES ASSUME TypeInv, RepeatInv, NEW u \in Uid, file[u] # None, NEW n \in Range(file[u])
               PROVE  Times(u, n) <= 1 + failures + deletes
    BY DEF RepeatsAreBounded
  <2>1. file[u] \in Seq(Nat)
    BY NoneIsNoFile
  <2>2. n \in Nat
    BY <2>1, RangeOfSeq
  <2>3. Cardinality(Occurs(file[u], n)) \in Nat /\ Times(u, n) = Cardinality(Occurs(file[u], n))
    BY <2>1, OccursType DEF Times, Occurs
  <2>4. Cardinality(Occurs(file[u], n)) <= (IF n < Resume(u) THEN 1 ELSE 0) + failures + deletes
    BY <2>2 DEF RepeatInv
  <2>5. failures \in Nat /\ deletes \in Nat /\ Resume(u) \in Nat
    BY ResumeType DEF TypeInv, TypeOK
  <2> QED BY <2>2, <2>3, <2>4, <2>5
<1> QED BY <1>1, <1>2, <1>3, Reads, PTL DEF Spec

(***************************************************************************)
(* What the first two pages of a run leave behind.                         *)
(***************************************************************************)

\* Everything from the offset that was read is in the file, up to a place.
SavedTo(n) == linked => first..(n - 1) \subseteq Range(file[uid])

ShortInv ==
    /\ at \in {"page", "write"} /\ page = 1 => start = first
    /\ at = "page" /\ page = 2 =>
          start = first /\ first + Length <= list[uid] /\ SavedTo(first + Length)
    /\ at = "write" /\ page = 2 =>
          start = first + Length /\ start <= list[uid] /\ SavedTo(start)
    /\ at = "set" /\ page <= 2 =>
          (start = first \/ start <= list[uid]) /\ SavedTo(start)

\* A page that is appended extends what is saved by what it holds.
LEMMA PageIsSaved ==
    ASSUME TypeInv, Reading, WritePage, SavedTo(start), NEW m, m = start + Len(pmses)
    PROVE  SavedTo(m)'
<1>0. uid' = uid /\ first' = first /\ (linked' <=> linked)
  BY Zenon DEF WritePage
<1> SUFFICES ASSUME linked, NEW n \in first..(m - 1) PROVE n \in Range(file'[uid])
  BY <1>0 DEF SavedTo
<1>1. /\ at = "write" /\ uid \in Uid /\ file[uid] \in Seq(Nat) /\ first \in Nat
      /\ file' = [file EXCEPT ![uid] = @ \o pmses] /\ file \in [Uid -> Seq(Nat) \cup {None}]
  BY DEF WritePage, TypeInv, TypeOK
<1>2. pmses \in Seq(Nat) /\ Len(pmses) \in Nat /\ start \in Nat
  BY <1>1, PageRises
<1>3. Range(file'[uid]) = Range(file[uid]) \cup Range(pmses)
  BY <1>1, <1>2, RangeConcatenation
<1>4. CASE n < start
  <2>1. n \in first..(start - 1)
    BY <1>1, <1>2, <1>4
  <2> QED BY <1>3, <2>1 DEF SavedTo
<1>5. CASE ~(n < start)
  <2>1. n - start + 1 \in 1..Len(pmses)
    BY <1>1, <1>2, <1>5
  <2>2. pmses[n - start + 1] = start + (n - start + 1) - 1
    BY <1>1, <2>1 DEF Reading
  <2>3. pmses[n - start + 1] = n
    BY <1>1, <1>2, <2>2
  <2>4. n \in Range(pmses)
    BY <1>2, <2>1, <2>3, RangeEquality
  <2> QED BY <1>3, <2>4
<1> QED BY <1>4, <1>5

LEMMA NothingSavedYet == ASSUME TypeInv PROVE SavedTo(first)
<1>1. first \in Nat
  BY DEF TypeInv, TypeOK
<1>2. first..(first - 1) = {}
  BY <1>1
<1> QED BY <1>2 DEF SavedTo

LEMMA ShortStep == ASSUME TypeInv, Reading, ShortInv, [Next]_vars PROVE ShortInv'
<1> USE DEF redisVars, saveVars, delVars
<1>t. /\ at \in {"page", "write", "set"} => uid \in Uid
      /\ first \in Nat /\ start \in Nat /\ page \in Nat \ {0} /\ Length \in Nat \ {0}
      /\ list \in [Uid -> Nat] /\ None \notin Uid
  BY PmsAssumption DEF TypeInv, TypeOK
<1>0. TypeInv' /\ first' \in Nat
  BY TypeStep DEF TypeInv, TypeOK
<1>1. CASE UNCHANGED <<at, uid, first, start, page, linked, list, file>>
  BY <1>1 DEF ShortInv, SavedTo
<1>2. CASE at' \notin {"page", "write", "set"}
  BY <1>2 DEF ShortInv
<1>3. ASSUME NEW u \in Uid, Draw(u) PROVE ShortInv'
  <2>1. /\ uid \in Uid => list'[uid] \in Nat /\ list[uid] \in Nat /\ list[uid] <= list'[uid]
        /\ UNCHANGED <<at, uid, first, start, page, linked, file>>
    BY <1>t, <1>3 DEF Draw
  <2> QED BY <1>t, <2>1 DEF ShortInv, SavedTo
<1>4. CASE RemoveFile
  <2>1. UNCHANGED <<at, uid, first, start, page, list>>
    BY <1>4 DEF RemoveFile
  <2>2. \A n : SavedTo(n) => SavedTo(n)'
    <3>1. linked' = (linked /\ uid # delUid) /\ file' = [file EXCEPT ![delUid] = None]
      BY <1>4 DEF RemoveFile
    <3>2. file \in [Uid -> Seq(Nat) \cup {None}]
      BY DEF TypeInv, TypeOK
    <3>3. linked /\ uid # delUid => uid \in Uid /\ file'[uid] = file[uid]
      BY <3>1, <3>2 DEF TypeInv
    <3> QED BY <2>1, <3>1, <3>3 DEF SavedTo
  <2> QED BY <2>1, <2>2 DEF ShortInv
<1>5. CASE GetOffset
  BY <1>5 DEF GetOffset, ShortInv
<1>6. CASE ReadPage
  <2>1. /\ at = "page" /\ at' = "write" /\ start' = start + (page - 1) * Length
        /\ UNCHANGED <<list, file, uid, linked, first, page>>
    BY <1>6 DEF ReadPage
  <2>2. CASE page = 1
    <3>1. (page - 1) * Length = 0
      BY <1>t, <2>2
    <3> QED BY <1>t, <2>1, <2>2, <3>1 DEF ShortInv
  <2>3. CASE page = 2
    <3>1. (page - 1) * Length = Length
      BY <1>t, <2>3
    <3>2. start' = first + Length /\ first + Length <= list[uid] /\ SavedTo(first + Length)
      BY <2>1, <2>3, <3>1 DEF ShortInv
    <3> QED BY <2>1, <2>3, <3>2 DEF ShortInv, SavedTo
  <2>4. CASE page \notin {1, 2}
    BY <2>1, <2>4 DEF ShortInv
  <2> QED BY <2>2, <2>3, <2>4
<1>7. CASE WritePage
  <2>1. at = "write" /\ UNCHANGED <<list, uid, linked, first>> /\ uid \in Uid
    BY <1>t, <1>7 DEF WritePage
  <2>2. pmses \in Seq(Nat) /\ Len(pmses) \in Nat /\ Len(pmses) <= Length /\ list[uid] \in Nat
    BY <1>t, <2>1, PageRises DEF TypeInv, TypeOK
  <2>3. SUFFICES ASSUME page \in {1, 2} PROVE ShortInv'
    <3>1. CASE page \notin {1, 2}
      <4>1. page' \notin {1, 2} /\ at' \in {"set", "page"}
        BY <1>t, <1>7, <3>1 DEF WritePage, NextPage
      <4>2. ~(page' <= 2)
        <5>1. page' = page \/ page' = page + 1
          BY <1>7 DEF WritePage, NextPage
        <5> QED BY <1>t, <3>1, <5>1
      <4> QED BY <4>1, <4>2 DEF ShortInv
    <3> QED BY <3>1
  <2>4. SavedTo(start) /\ (start = first \/ start <= list[uid])
    BY <1>t, <2>1, <2>3, NothingSavedYet DEF ShortInv
  <2>5. Len(pmses) # 0 => start + Len(pmses) <= list[uid]
    BY <2>1 DEF Reading
  <2>6. CASE Len(pmses) < Length
    <3>1. at' = "set" /\ start' = start + Len(pmses) /\ page' = page
      BY <1>7, <2>6 DEF WritePage, NextPage
    <3>2. \A m : m = start + Len(pmses) => SavedTo(m)'
      BY <1>7, <2>4, PageIsSaved
    <3>3. SavedTo(start)'
      BY <3>1, <3>2 DEF SavedTo
    <3>4. start' = first \/ start' <= list[uid]
      BY <1>t, <2>2, <2>4, <2>5, <3>1
    <3> QED BY <2>1, <3>1, <3>3, <3>4 DEF ShortInv
  <2>7. CASE ~(Len(pmses) < Length) /\ page = Pages
    <3>1. at' = "set" /\ start' = start /\ page' = page
      BY <1>7, <2>7 DEF WritePage, NextPage
    <3>2. SavedTo(start)'
      <4>1. linked => Range(file[uid]) \subseteq Range(file'[uid])
        <5> SUFFICES ASSUME linked PROVE Range(file[uid]) \subseteq Range(file'[uid])
          OBVIOUS
        <5>1. /\ file' = [file EXCEPT ![uid] = @ \o pmses]
              /\ file \in [Uid -> Seq(Nat) \cup {None}] /\ file[uid] \in Seq(Nat)
          BY <1>7 DEF WritePage, TypeInv, TypeOK
        <5> QED BY <2>1, <2>2, <5>1, RangeConcatenation
      <4> QED BY <2>1, <2>4, <3>1, <4>1 DEF SavedTo
    <3> QED BY <2>1, <2>4, <3>1, <3>2 DEF ShortInv
  <2>8. CASE ~(Len(pmses) < Length) /\ page # Pages
    <3>1. at' = "page" /\ start' = start /\ page' = page + 1 /\ Len(pmses) = Length
      BY <1>t, <1>7, <2>2, <2>8 DEF WritePage, NextPage
    <3>2. CASE page = 1
      <4>1. start = first /\ start + Len(pmses) <= list[uid]
        BY <1>t, <2>1, <2>5, <3>1, <3>2 DEF ShortInv
      <4>2. \A m : m = start + Len(pmses) => SavedTo(m)'
        BY <1>7, <2>4, PageIsSaved
      <4>3. SavedTo(first + Length)'
        BY <2>1, <3>1, <4>1, <4>2 DEF SavedTo
      <4> QED BY <2>1, <3>1, <3>2, <4>1, <4>3 DEF ShortInv
    <3>3. CASE page = 2
      BY <3>1, <3>3 DEF ShortInv
    <3> QED BY <2>3, <3>2, <3>3
  <2> QED BY <2>6, <2>7, <2>8
<1>8. CASE SetOffset \/ SaveStarts \/ ListTeachers \/ SaveEnds \/ SaveFails \/ \E u \in Uid : OpenFile(u)
  BY <1>2, <1>8 DEF SetOffset, SaveStarts, ListTeachers, SaveEnds, SaveFails, OpenFile
<1>9. CASE EndScene \/ DeleteFails \/ (\E u \in Uid : DeleteOffset(u)) \/ UNCHANGED vars
  BY <1>1, <1>9 DEF EndScene, DeleteFails, DeleteOffset, vars
<1> QED BY <1>3, <1>4, <1>5, <1>6, <1>7, <1>8, <1>9 DEF Next, Save

\* When a run of two pages at most stores its offset, whatever the peers drew,
\* "del" removed or failed before, the file it has open holds every stroke from
\* the offset it read to the one it stores, and that one is not beyond the list.
THEOREM ShortRunsLoseNothing == Spec => ShortRunsAreComplete
<1> DEFINE P == \A u \in Uid : SetOffset /\ uid = u /\ linked /\ page <= 2 =>
                    /\ first..(start - 1) \subseteq Range(file[u])
                    /\ first <= list[u] => offset'[u] <= list[u]
<1>1. Init => ShortInv
  BY DEF Init, ShortInv
<1>2. TypeInv /\ Reading /\ ShortInv /\ [Next]_vars => ShortInv'
  BY ShortStep
<1>3. TypeInv /\ ShortInv /\ [Next]_vars => [P]_vars
  <2> SUFFICES ASSUME TypeInv, ShortInv, SetOffset, uid \in Uid, linked, page <= 2
               PROVE  /\ first..(start - 1) \subseteq Range(file[uid])
                      /\ first <= list[uid] => offset'[uid] <= list[uid]
    OBVIOUS
  <2>1. at = "set" /\ offset' = [offset EXCEPT ![uid] = start] /\ offset \in [Uid -> Nat]
    BY DEF SetOffset, TypeInv, TypeOK
  <2> QED BY <2>1 DEF ShortInv, SavedTo
<1> QED BY <1>1, <1>2, <1>3, Reads, PTL DEF Spec, ShortRunsAreComplete
=============================================================================
