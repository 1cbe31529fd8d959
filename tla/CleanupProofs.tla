----------------------------- MODULE CleanupProofs ----------------------------
(***************************************************************************)
(* Theorems about the program that cleans up after units (module Cleanup),  *)
(* for any units, keys, tokens and failures: whose lists go, and whose have *)
(* gone when it is done.                                                   *)
(***************************************************************************)
EXTENDS UnitsProofs

\* A redis command or a request has failed, or a token has expired.
Bad == lapses > 0 \/ valid # 1..issued

LEMMA BadStays == ASSUME CleanupTypeOK, CleanupNext PROVE Bad => Bad'
<1> USE DEF tokenVars, cacheVars
<1>1. lapses \in Nat /\ issued \in Nat /\ valid \subseteq 1..issued
  <2>1. lapses \in 0..MaxLapses /\ issued \in 0..MaxTokens /\ valid \subseteq 1..issued
    BY DEF CleanupTypeOK, TokenTypeOK, Token
  <2> QED BY <2>1, AccessTokenAssumption
<1> DEFINE Same == UNCHANGED <<lapses, valid, issued>>
           Lapse == UNCHANGED <<valid, issued>> /\ lapses' = lapses + 1
           Expiry == \E t \in valid : valid' = valid \ {t} /\ UNCHANGED <<lapses, issued>>
           New == issued' = issued + 1 /\ valid' = valid \cup {issued + 1} /\ UNCHANGED lapses
<1>2. CASE Same
  BY <1>2 DEF Bad
<1>3. CASE Lapse
  BY <1>1, <1>3 DEF Bad
<1>4. CASE Expiry
  BY <1>1, <1>4 DEF Bad
<1>5. CASE New
  <2>1. valid # 1..issued => valid' # 1..issued'
    <3>1. ASSUME valid' = 1..issued' PROVE 1..issued \subseteq valid
      <4>1. \A i \in 1..issued : i \in 1..(issued + 1) /\ i # issued + 1
        BY <1>1
      <4> QED BY <1>5, <3>1, <4>1
    <3> QED BY <1>1, <3>1
  <2> QED BY <1>5, <2>1 DEF Bad
<1>6. ASSUME NEW p \in Caller, FetchToken(p) PROVE Same \/ Lapse \/ New
  BY <1>6 DEF FetchToken, TokenExists, TokenGet, TokenRequest, TokenSetex, TokenRequestFails,
              TokenRequestHangs, TokenFails
<1>7. ASSUME NEW u \in Unit, CheckUnit(u) PROVE Same \/ Lapse \/ New
  <2>1. CASE Fetches(u)
    BY <1>6, <2>1, CleanupAssumption DEF Fetches
  <2>2. CASE NoToken(u) \/ AskPlatform(u) \/ PlatformFails(u) \/ PlatformHangs(u)
    BY <2>2 DEF NoToken, AskPlatform, PlatformFails, PlatformHangs, Answers
  <2> QED BY <1>7, <2>1, <2>2 DEF CheckUnit
<1>8. ASSUME Tokens PROVE Same \/ Expiry
  BY <1>8 DEF Tokens, CacheExpires, TokenExpires
<1>9. ASSUME NEW u \in Unit, UnitStarts(u) \/ UnitStops(u) PROVE Same
  BY <1>9 DEF UnitStarts, UnitStops
<1>10. ASSUME KeyGoes \/ CleanerStep \/ MainFails PROVE Same \/ Lapse
  BY <1>10 DEF KeyGoes, CleanerStep, GetUnits, Receive, Del, DelLocal, MainFails
<1> HIDE DEF Same, Lapse, Expiry, New
<1>11. Same \/ Lapse \/ Expiry \/ New
  BY <1>7, <1>8, <1>9, <1>10 DEF CleanupNext
<1> QED BY <1>2, <1>3, <1>4, <1>5, <1>11

(***************************************************************************)
(* The token                                                               *)
(***************************************************************************)

\* As long as nothing goes wrong every token there is is one the platform has
\* handed out and accepts, and nobody finds the cache empty after all.
TokenInv ==
    Bad \/ /\ cached \in 0..issued
           /\ \A p \in Caller :
                 /\ tokenAt[p] # "error"
                 /\ tokenAt[p] = "get" => cached # 0
                 /\ tokenAt[p] \in {"setex", "ok"} => token[p] \in 1..issued

LEMMA FetchKeepsToken ==
    ASSUME TokenTypeOK, TokenInv, ~Bad, ~Bad', NEW p \in Caller, FetchToken(p) PROVE TokenInv'
<1> USE DEF TokenGoes, cacheVars
<1>1. /\ tokenAt \in [Caller -> {"off", "exists", "get", "request", "setex", "ok", "error",
                               "hung"}]
      /\ token \in [Caller -> Token] /\ cached \in 0..issued
      /\ \A q \in Caller : /\ tokenAt[q] # "error"
                           /\ tokenAt[q] = "get" => cached # 0
                           /\ tokenAt[q] \in {"setex", "ok"} => token[q] \in 1..issued
  BY DEF TokenTypeOK, TokenInv
<1>2. lapses \in Nat /\ issued \in Nat
  <2>1. lapses \in 0..MaxLapses /\ issued \in 0..MaxTokens
    BY DEF TokenTypeOK, Token
  <2> QED BY <2>1, AccessTokenAssumption
<1>3. CASE TokenExists(p)
  BY <1>1, <1>3 DEF TokenExists, TokenInv
<1>4. CASE TokenGet(p)
  <2>1. cached # 0
    BY <1>1, <1>4 DEF TokenGet
  <2>2. cached \in 1..issued
    BY <1>1, <1>2, <2>1
  <2>3. /\ tokenAt' = [tokenAt EXCEPT ![p] = "ok"] /\ token' = [token EXCEPT ![p] = cached]
        /\ UNCHANGED <<cached, issued>>
    BY <1>4, <2>1 DEF TokenGet
  <2> QED BY <1>1, <2>2, <2>3 DEF TokenInv
<1>5. CASE TokenRequest(p)
  <2>1. /\ tokenAt' = [tokenAt EXCEPT ![p] = "setex"] /\ token' = [token EXCEPT ![p] = issued + 1]
        /\ issued' = issued + 1 /\ cached' = cached
    BY <1>5 DEF TokenRequest
  <2>2. issued + 1 \in 1..(issued + 1) /\ cached \in 0..(issued + 1)
        /\ \A n \in 1..issued : n \in 1..(issued + 1)
    BY <1>1, <1>2
  <2> QED BY <1>1, <2>1, <2>2 DEF TokenInv
<1>6. CASE TokenSetex(p)
  <2>1. /\ tokenAt[p] = "setex" /\ tokenAt' = [tokenAt EXCEPT ![p] = "ok"]
        /\ cached' = token[p] /\ UNCHANGED <<issued, token>>
    BY <1>6 DEF TokenSetex
  <2>2. token[p] \in 1..issued /\ token[p] \in 0..issued /\ token[p] # 0
    BY <1>1, <1>2, <2>1
  <2> QED BY <1>1, <2>1, <2>2 DEF TokenInv
<1>7. CASE TokenRequestFails(p) \/ TokenFails(p)
  <2>1. lapses' = lapses + 1
    BY <1>7 DEF TokenRequestFails, TokenFails
  <2> QED BY <1>2, <2>1 DEF Bad
<1>8. CASE TokenRequestHangs(p)
  <2>1. tokenAt' = [tokenAt EXCEPT ![p] = "hung"] /\ UNCHANGED <<cached, issued, token>>
    BY <1>8 DEF TokenRequestHangs
  <2> QED BY <1>1, <2>1 DEF TokenInv
<1> QED BY <1>3, <1>4, <1>5, <1>6, <1>7, <1>8 DEF FetchToken

LEMMA TokenInvStep == ASSUME CleanupTypeOK, TokenInv, CleanupNext PROVE TokenInv'
<1> USE DEF tokenVars, cacheVars
<1> SUFFICES ASSUME ~Bad' PROVE TokenInv'
  BY DEF TokenInv
<1>1. ~Bad /\ TokenTypeOK
  BY BadStays DEF CleanupTypeOK
<1>2. ASSUME NEW u \in Unit, Fetches(u) PROVE TokenInv'
  BY <1>1, <1>2, FetchKeepsToken, CleanupAssumption DEF Fetches
<1>3. CASE UNCHANGED <<cached, issued, valid, tokenAt, token>>
  BY <1>1, <1>3 DEF TokenInv
<1>4. CASE Tokens
  <2>1. lapses' = lapses /\ issued' = issued /\ tokenAt' = tokenAt /\ token' = token
    BY <1>4 DEF Tokens, CacheExpires, TokenExpires
  <2>2. valid' = 1..issued /\ valid = 1..issued
    BY <1>1, <2>1 DEF Bad
  <2>3. cached' = cached
    <3>1. CASE CacheExpires
      <4>1. issued \in Nat /\ cached \in 0..issued /\ cached # 0 /\ cached \notin 1..issued
        <5>1. issued \in 0..MaxTokens
          BY <1>1 DEF TokenTypeOK, Token
        <5>2. issued \in Nat
          BY <5>1, AccessTokenAssumption
        <5> QED BY <1>1, <2>2, <3>1, <5>2 DEF CacheExpires, TokenInv
      <4> QED BY <4>1
    <3>2. CASE \E t \in valid : TokenExpires(t)
      BY <3>2 DEF TokenExpires
    <3> QED BY <1>4, <3>1, <3>2 DEF Tokens
  <2> QED BY <1>1, <2>1, <2>3 DEF TokenInv
<1>5. CASE GetUnits
  <2>1. /\ UNCHANGED <<cached, issued, token>>
        /\ \/ tokenAt' = tokenAt
           \/ tokenAt' = [u \in Unit |-> IF u \in units' THEN "exists" ELSE "off"]
    BY <1>5 DEF GetUnits
  <2> QED BY <1>1, <2>1, CleanupAssumption DEF TokenInv
<1>6. ASSUME NEW u \in Unit,
             NoToken(u) \/ AskPlatform(u) \/ PlatformFails(u) \/ PlatformHangs(u)
      PROVE  TokenInv'
  BY <1>3, <1>6 DEF NoToken, AskPlatform, PlatformFails, PlatformHangs, Answers
<1>7. ASSUME NEW u \in Unit, UnitStarts(u) \/ UnitStops(u) PROVE TokenInv'
  BY <1>3, <1>7 DEF UnitStarts, UnitStops
<1>8. CASE KeyGoes \/ Receive \/ Del \/ DelLocal \/ MainFails
  BY <1>3, <1>8 DEF KeyGoes, Receive, Del, DelLocal, MainFails
<1> QED BY <1>2, <1>4, <1>5, <1>6, <1>7, <1>8 DEF CleanupNext, CheckUnit, CleanerStep

(***************************************************************************)
(* Units and their lists                                                   *)
(***************************************************************************)

\* The units that may lose their lists: they have not run all the while, or
\* something has gone wrong.
MayGo == {u \in Unit : u \in wasStopped \/ Bad}

\* What main has heard of a unit
Heard(u) ==
    \/ \E i \in 1..Len(checked) : checked[i] = u
    \/ \E i \in 1..Len(runch) : runch[i].unit = u
    \/ cleaner \in {"del", "delLocal"} /\ cleaning = u
    \/ cleaner = "fatal"

WorldInv == Unit \ runs \subseteq wasStopped /\ runs \subseteq wasRunning

\* An answer is right, or a request has failed.
RightAnswer(a) == IF a.running THEN a.unit \in wasRunning ELSE a.unit \in MayGo

ListsInv ==
    /\ \A i \in 1..Len(runch) : RightAnswer(runch[i])
    /\ cleaner \in {"del", "delLocal"} => cleaning \in MayGo
    /\ cleaner = "delLocal" => cleaning \notin onlines
    /\ \A u \in Unit : check[u] = "sent" => Heard(u)
    /\ \A i \in 1..Len(checked) : checked[i] \in wasRunning \/ checked[i] \notin onlines \cup lc
    /\ \A u \in Unit : u \notin onlines \cap lc => u \in MayGo
    /\ cleaner = "done" => Len(checked) = Cardinality(units)

CleanInv == WorldInv /\ TokenInv /\ ListsInv

LEMMA WorldInvStep == ASSUME CleanupTypeOK, WorldInv, CleanupNext PROVE WorldInv'
<1> USE DEF worldVars
<1>1. runs \subseteq Unit
  BY DEF CleanupTypeOK
<1>2. CASE UNCHANGED <<runs, wasRunning, wasStopped>>
  BY <1>2 DEF WorldInv
<1>3. ASSUME NEW u \in Unit, UnitStarts(u) \/ UnitStops(u) PROVE WorldInv'
  BY <1>1, <1>3 DEF UnitStarts, UnitStops, WorldInv
<1>4. ASSUME NEW u \in Unit, CheckUnit(u) PROVE WorldInv'
  BY <1>2, <1>4 DEF CheckUnit, Fetches, NoToken, AskPlatform, PlatformFails, PlatformHangs,
                     Answers
<1>5. CASE KeyGoes \/ Tokens \/ CleanerStep \/ MainFails
  BY <1>2, <1>5 DEF KeyGoes, Tokens, CleanerStep, GetUnits, Receive, Del, DelLocal, MainFails
<1> QED BY <1>3, <1>4, <1>5 DEF CleanupNext

\* What has happened stays so, and lists only go.
LEMMA NeverBack ==
    ASSUME CleanupTypeOK, CleanupNext
    PROVE  /\ wasRunning \subseteq wasRunning' /\ onlines' \subseteq onlines /\ lc' \subseteq lc
           /\ MayGo \subseteq MayGo'
<1> USE DEF worldVars, listVars
<1>1. /\ wasRunning \subseteq wasRunning' /\ wasStopped \subseteq wasStopped'
      /\ onlines' \subseteq onlines /\ lc' \subseteq lc
  <2>1. ASSUME NEW u \in Unit, CheckUnit(u)
        PROVE  UNCHANGED <<wasRunning, wasStopped, onlines, lc>>
    BY <2>1 DEF CheckUnit, Fetches, NoToken, AskPlatform, PlatformFails, PlatformHangs,
                       Answers
  <2>2. ASSUME NEW u \in Unit, UnitStarts(u) \/ UnitStops(u)
        PROVE  /\ wasRunning \subseteq wasRunning' /\ wasStopped \subseteq wasStopped'
               /\ UNCHANGED <<onlines, lc>>
    BY <2>2 DEF UnitStarts, UnitStops
  <2>3. CASE KeyGoes \/ Tokens \/ CleanerStep \/ MainFails
    BY <2>3 DEF KeyGoes, Tokens, CleanerStep, GetUnits, Receive, Del, DelLocal, MainFails
  <2> QED BY <2>1, <2>2, <2>3 DEF CleanupNext
<1> QED BY <1>1, BadStays DEF MayGo

\* Steps that send, receive and delete nothing
LEMMA ListsStay ==
    ASSUME CleanupTypeOK, ListsInv, CleanupNext,
           UNCHANGED <<cleaner, units, check, runch, checked, cleaning, onlines, lc>>
    PROVE  ListsInv'
<1>1. wasRunning \subseteq wasRunning' /\ MayGo \subseteq MayGo'
  BY NeverBack
<1>2. \A i \in 1..Len(runch) : RightAnswer(runch[i]) => RightAnswer(runch[i])'
  BY <1>1 DEF RightAnswer
<1>3. \A u \in Unit : Heard(u) => Heard(u)'
  BY DEF Heard
<1> QED BY <1>1, <1>2, <1>3 DEF ListsInv

LEMMA AnsweredKeepsLists ==
    ASSUME CleanupTypeOK, AnswersInv, ListsInv, CleanupNext, NEW u \in Unit, NEW r \in BOOLEAN,
           Answers(u, r), IF r THEN u \in wasRunning' ELSE u \in MayGo'
    PROVE  ListsInv'
<1>1. /\ wasRunning \subseteq wasRunning' /\ MayGo \subseteq MayGo'
      /\ runch \in Seq([unit : Unit, running : BOOLEAN]) /\ Len(runch) \in Nat
      /\ check \in [Unit -> {"off", "token", "hung", "sent"}]
  BY NeverBack, LenProperties DEF CleanupTypeOK
<1>2. /\ runch' = Append(runch, [unit |-> u, running |-> r])
      /\ check' = [check EXCEPT ![u] = "sent"]
      /\ UNCHANGED <<cleaner, units, checked, cleaning, onlines, lc>>
  BY DEF Answers, listVars
<1> DEFINE a == [unit |-> u, running |-> r]
<1>3. /\ Len(runch') = Len(runch) + 1 /\ runch'[Len(runch) + 1] = a
      /\ \A i \in 1..Len(runch) : runch'[i] = runch[i]
  BY <1>1, <1>2, AppendProperties
<1>4. IF a.running THEN a.unit \in wasRunning' ELSE a.unit \in MayGo'
  OBVIOUS
<1> HIDE DEF a
<1>5. ASSUME NEW i \in 1..Len(runch') PROVE RightAnswer(runch[i])'
  <2>1. CASE i \in 1..Len(runch)
    <3>1. RightAnswer(runch[i]) /\ runch'[i] = runch[i]
      BY <1>3, <2>1 DEF ListsInv
    <3> QED BY <1>1, <3>1 DEF RightAnswer
  <2>2. CASE i = Len(runch) + 1
    BY <1>3, <1>4, <2>2 DEF RightAnswer
  <2> QED BY <1>1, <1>3, <2>1, <2>2
<1>6. ASSUME NEW v \in Unit, check'[v] = "sent" PROVE Heard(v)'
  <2>1. CASE v = u
    <3>1. Len(runch) + 1 \in 1..Len(runch') /\ runch'[Len(runch) + 1].unit = u
      BY <1>1, <1>3 DEF a
    <3> QED BY <2>1, <3>1 DEF Heard
  <2>2. CASE v # u
    <3>1. Heard(v)
      BY <1>1, <1>2, <1>6, <2>2 DEF ListsInv
    <3>2. \A i \in 1..Len(runch) : i \in 1..Len(runch') /\ runch'[i] = runch[i]
      BY <1>1, <1>3
    <3> QED BY <1>2, <3>1, <3>2 DEF Heard
  <2> QED BY <2>1, <2>2
<1> QED BY <1>1, <1>2, <1>5, <1>6 DEF ListsInv

LEMMA AskingKeepsLists ==
    ASSUME CleanupTypeOK, AnswersInv, CleanInv, CleanupNext, NEW u \in Unit,
           NoToken(u) \/ AskPlatform(u) \/ PlatformFails(u)
    PROVE  ListsInv'
<1>1. lapses \in Nat /\ u \in Caller
  <2>1. lapses \in 0..MaxLapses
    BY DEF CleanupTypeOK, TokenTypeOK
  <2> QED BY <2>1, AccessTokenAssumption, CleanupAssumption
<1>2. CASE NoToken(u)
  <2>1. tokenAt[u] = "error" /\ Answers(u, FALSE)
    BY <1>2 DEF NoToken
  <2>2. Bad
    BY <1>1, <2>1 DEF CleanInv, TokenInv
  <2>3. Bad'
    BY <2>2, BadStays
  <2> QED BY <2>1, <2>3, AnsweredKeepsLists DEF CleanInv, MayGo
<1>3. CASE PlatformFails(u)
  <2>1. lapses' = lapses + 1 /\ Answers(u, FALSE)
    BY <1>3 DEF PlatformFails
  <2>2. Bad'
    BY <1>1, <2>1 DEF Bad
  <2> QED BY <2>1, <2>2, AnsweredKeepsLists DEF CleanInv, MayGo
<1>4. CASE AskPlatform(u)
  <2> DEFINE r == token[u] \in valid /\ u \in runs
  <2>1. tokenAt[u] = "ok" /\ Answers(u, r) /\ r \in BOOLEAN
    BY <1>4 DEF AskPlatform
  <2>2. r => u \in wasRunning'
    BY NeverBack DEF CleanInv, WorldInv
  <2>3. ~r => u \in MayGo
    <3>1. CASE Bad
      BY <3>1 DEF MayGo
    <3>2. CASE ~Bad
      <4>1. token[u] \in valid
        BY <1>1, <2>1, <3>2 DEF CleanInv, TokenInv, Bad
      <4> QED BY <4>1 DEF CleanInv, WorldInv, MayGo
    <3> QED BY <3>1, <3>2
  <2>4. ~r => u \in MayGo'
    BY <2>3, NeverBack
  <2> HIDE DEF r
  <2> QED BY <2>1, <2>2, <2>4, AnsweredKeepsLists DEF CleanInv
<1> QED BY <1>2, <1>3, <1>4

LEMMA ReceivingKeepsLists ==
    ASSUME CleanupTypeOK, ListsInv, CleanupNext, Receive PROVE ListsInv'
<1> DEFINE rd == Head(runch)
<1>1. /\ wasRunning \subseteq wasRunning' /\ MayGo \subseteq MayGo'
      /\ runch \in Seq([unit : Unit, running : BOOLEAN]) /\ checked \in Seq(Unit)
      /\ Len(runch) \in Nat /\ Len(checked) \in Nat
  BY NeverBack, LenProperties DEF CleanupTypeOK
<1>2. /\ cleaner = "receive" /\ runch # <<>> /\ runch' = Tail(runch)
      /\ UNCHANGED <<onlines, lc, units, check>>
      /\ \/ /\ rd.running /\ checked' = Append(checked, rd.unit) /\ cleaning' = cleaning
            /\ cleaner' \in {"done", "receive"}
            /\ cleaner' = "done" => Len(checked') = Cardinality(units)
         \/ ~rd.running /\ cleaning' = rd.unit /\ cleaner' = "del" /\ checked' = checked
  BY DEF Receive, TurnEnds, listVars
<1>3. /\ rd = runch[1] /\ 1 \in 1..Len(runch) /\ rd.unit \in Unit
      /\ Len(runch') \in Nat /\ Len(runch) = Len(runch') + 1
      /\ \A i \in 1..Len(runch') : runch'[i] = runch[i + 1]
  <2>1. Len(runch) > 0
    BY <1>1, <1>2, EmptySeq
  <2>2. /\ rd \in [unit : Unit, running : BOOLEAN]
        /\ Tail(runch) \in Seq([unit : Unit, running : BOOLEAN])
        /\ Len(Tail(runch)) = Len(runch) - 1
        /\ \A i \in 1..Len(Tail(runch)) : Tail(runch)[i] = runch[i + 1]
    BY <1>1, <1>2, HeadTailProperties
  <2>3. rd.unit \in Unit
    BY <2>2
  <2>4. rd = runch[1]
    BY <1>1, <2>1
  <2> QED BY <1>1, <1>2, <2>1, <2>2, <2>3, <2>4
<1> HIDE DEF rd
<1>4. IF rd.running THEN rd.unit \in wasRunning ELSE rd.unit \in MayGo
  BY <1>3 DEF ListsInv, RightAnswer
<1>5. ASSUME NEW i \in 1..Len(runch') PROVE RightAnswer(runch[i])'
  <2>1. i + 1 \in 1..Len(runch) /\ runch'[i] = runch[i + 1]
    BY <1>3
  <2>2. RightAnswer(runch[i + 1])
    BY <2>1 DEF ListsInv
  <2> QED BY <1>1, <2>1, <2>2 DEF RightAnswer
<1>6. /\ checked' = checked \/ checked' = Append(checked, rd.unit)
      /\ \A i \in 1..Len(checked) : i \in 1..Len(checked') /\ checked'[i] = checked[i]
      /\ checked' = Append(checked, rd.unit) =>
            /\ Len(checked') = Len(checked) + 1 /\ checked'[Len(checked) + 1] = rd.unit
  <2> DEFINE longer == Append(checked, rd.unit)
  <2>1. /\ Len(longer) = Len(checked) + 1 /\ longer[Len(checked) + 1] = rd.unit
        /\ \A i \in 1..Len(checked) : longer[i] = checked[i]
    BY <1>1, <1>3, AppendProperties
  <2>2. checked' = checked \/ checked' = longer
    BY <1>2
  <2> HIDE DEF longer
  <2>3. \A i \in 1..Len(checked) : i \in 1..Len(checked') /\ checked'[i] = checked[i]
    BY <1>1, <2>1, <2>2
  <2>4. /\ checked' = checked \/ checked' = longer
        /\ checked' = longer =>
              Len(checked') = Len(checked) + 1 /\ checked'[Len(checked) + 1] = rd.unit
    BY <2>1, <2>2
  <2> QED BY <2>3, <2>4 DEF longer
<1>7. ASSUME NEW v \in Unit, check'[v] = "sent" PROVE Heard(v)'
  <2>1. Heard(v)
    BY <1>2, <1>7 DEF ListsInv
  <2>2. CASE \E i \in 1..Len(checked) : checked[i] = v
    BY <1>6, <2>2 DEF Heard
  <2>3. CASE \E i \in 1..Len(runch) : runch[i].unit = v
    <3>1. PICK i \in 1..Len(runch) : runch[i].unit = v
      BY <2>3
    <3>2. CASE i = 1
      <4>1. rd.unit = v
        BY <1>3, <3>1, <3>2
      <4>2. CASE checked' = Append(checked, rd.unit)
        <5>1. Len(checked) + 1 \in 1..Len(checked')
          BY <1>1, <1>6, <4>2
        <5> QED BY <1>6, <4>1, <4>2, <5>1 DEF Heard
      <4>3. CASE cleaning' = rd.unit /\ cleaner' = "del"
        BY <4>1, <4>3 DEF Heard
      <4> QED BY <1>2, <4>2, <4>3
    <3>3. CASE i # 1
      <4>1. i - 1 \in 1..Len(runch') /\ runch'[i - 1] = runch[i]
        BY <1>1, <1>3, <3>3
      <4> QED BY <3>1, <4>1 DEF Heard
    <3> QED BY <3>2, <3>3
  <2> QED BY <1>2, <2>1, <2>2, <2>3 DEF Heard
<1>8. ASSUME NEW i \in 1..Len(checked')
      PROVE  checked'[i] \in wasRunning' \/ checked'[i] \notin onlines \cup lc
  <2>1. CASE i \in 1..Len(checked)
    BY <1>1, <1>6, <2>1 DEF ListsInv
  <2>2. CASE i \notin 1..Len(checked)
    <3>1. checked' # checked
      BY <2>2
    <3>2. rd.running /\ i = Len(checked) + 1 /\ checked'[i] = rd.unit
      BY <1>1, <1>2, <1>6, <2>2, <3>1
    <3> QED BY <1>1, <1>4, <3>2
  <2> QED BY <2>1, <2>2
<1>9. cleaner' \in {"del", "delLocal"} => cleaning' \in MayGo' /\ cleaner' # "delLocal"
  BY <1>1, <1>2, <1>4
<1>10. cleaner' = "done" => Len(checked') = Cardinality(units')
  BY <1>2
<1>11. \A u \in Unit : u \notin onlines' \cap lc' => u \in MayGo'
  BY <1>1, <1>2 DEF ListsInv
<1> QED BY <1>2, <1>5, <1>7, <1>8, <1>9, <1>10, <1>11 DEF ListsInv

LEMMA DeletingKeepsLists ==
    ASSUME CleanupTypeOK, AnswersInv, ListsInv, CleanupNext, Del \/ DelLocal PROVE ListsInv'
<1>1. /\ wasRunning \subseteq wasRunning' /\ MayGo \subseteq MayGo'
      /\ runch \in Seq([unit : Unit, running : BOOLEAN]) /\ checked \in Seq(Unit)
      /\ Len(checked) \in Nat
  BY NeverBack, LenProperties DEF CleanupTypeOK
<1>a. \A i \in 1..Len(runch) : RightAnswer(runch[i]) =>
         IF runch[i].running THEN runch[i].unit \in wasRunning' ELSE runch[i].unit \in MayGo'
  BY <1>1 DEF RightAnswer
<1>2. CASE Del
  <2>1. /\ cleaner = "del" /\ onlines' = onlines \ {cleaning} /\ cleaner' = "delLocal"
        /\ UNCHANGED <<lc, units, check, runch, checked, cleaning>>
    BY <1>2 DEF Del
  <2>2. \A i \in 1..Len(runch') : RightAnswer(runch[i])'
    BY <1>a, <2>1 DEF ListsInv, RightAnswer
  <2>3. \A u \in Unit : check'[u] = "sent" => Heard(u)'
    BY <2>1 DEF ListsInv, Heard
  <2>4. cleaning \in MayGo' /\ \A u \in Unit : u \notin onlines' \cap lc' => u \in MayGo'
    BY <1>1, <2>1 DEF ListsInv
  <2>5. \A i \in 1..Len(checked') : checked'[i] \in wasRunning' \/ checked'[i] \notin onlines' \cup lc'
    BY <1>1, <2>1 DEF ListsInv
  <2> QED BY <2>1, <2>2, <2>3, <2>4, <2>5 DEF ListsInv
<1>3. CASE DelLocal
  <2>1. /\ cleaner = "delLocal" /\ lc' = lc \ {cleaning} /\ cleaner' \in {"done", "receive"}
        /\ cleaner' = "done" => Len(checked') = Cardinality(units)
        /\ checked' = Append(checked, cleaning)
        /\ UNCHANGED <<onlines, units, check, runch>>
    BY <1>3 DEF DelLocal, TurnEnds
  <2>2. cleaning \in Unit /\ cleaning \in MayGo /\ cleaning \notin onlines
    BY <2>1 DEF AnswersInv, ListsInv
  <2>3. /\ Len(checked') = Len(checked) + 1 /\ checked'[Len(checked) + 1] = cleaning
        /\ \A i \in 1..Len(checked) : checked'[i] = checked[i]
    BY <1>1, <2>1, <2>2, AppendProperties
  <2>4. \A i \in 1..Len(runch') : RightAnswer(runch[i])'
    BY <1>a, <2>1 DEF ListsInv, RightAnswer
  <2>5. ASSUME NEW u \in Unit, check'[u] = "sent" PROVE Heard(u)'
    <3>1. Heard(u)
      BY <2>1, <2>5 DEF ListsInv
    <3>2. \A i \in 1..Len(checked) : i \in 1..Len(checked') /\ checked'[i] = checked[i]
      BY <1>1, <2>3
    <3>3. Len(checked) + 1 \in 1..Len(checked')
      BY <1>1, <2>3
    <3> QED BY <2>1, <2>3, <3>1, <3>2, <3>3 DEF Heard
  <2>6. ASSUME NEW i \in 1..Len(checked')
        PROVE  checked'[i] \in wasRunning' \/ checked'[i] \notin onlines' \cup lc'
    <3>1. CASE i \in 1..Len(checked)
      BY <1>1, <2>1, <2>3, <3>1 DEF ListsInv
    <3>2. CASE i = Len(checked) + 1
      BY <2>1, <2>2, <2>3, <3>2
    <3> QED BY <1>1, <2>3, <3>1, <3>2
  <2>7. \A u \in Unit : u \notin onlines' \cap lc' => u \in MayGo'
    BY <1>1, <2>1, <2>2 DEF ListsInv
  <2> QED BY <2>1, <2>4, <2>5, <2>6, <2>7 DEF ListsInv
<1> QED BY <1>2, <1>3

LEMMA BeginningKeepsLists ==
    ASSUME CleanupTypeOK, AnswersInv, ListsInv, CleanupNext, GetUnits PROVE ListsInv'
<1>1. /\ cleaner = "scan" /\ cleaner' \in {"scan", "receive"}
      /\ UNCHANGED <<runch, checked, cleaning, onlines, lc>>
      /\ check' = check \/ check' = [u \in Unit |-> IF u \in units' THEN "token" ELSE "off"]
  BY DEF GetUnits, listVars
<1>2. runch = <<>> /\ checked = <<>> /\ \A u \in Unit : check[u] = "off"
  BY <1>1 DEF AnswersInv
<1>3. \A u \in Unit : check'[u] # "sent"
  BY <1>1, <1>2
<1>4. \A u \in Unit : u \notin onlines' \cap lc' => u \in MayGo'
  BY <1>1, NeverBack DEF ListsInv
<1>5. Len(runch') = 0 /\ Len(checked') = 0
  BY <1>1, <1>2
<1> QED BY <1>1, <1>3, <1>4, <1>5 DEF ListsInv

LEMMA FailingKeepsLists ==
    ASSUME CleanupTypeOK, ListsInv, CleanupNext, MainFails PROVE ListsInv'
<1>1. /\ cleaner' = "fatal" /\ UNCHANGED <<runch, checked, cleaning, onlines, lc, check, units>>
  BY DEF MainFails, listVars
<1>2. wasRunning \subseteq wasRunning' /\ MayGo \subseteq MayGo'
  BY NeverBack
<1>3. \A i \in 1..Len(runch') : RightAnswer(runch[i])'
  BY <1>1, <1>2 DEF ListsInv, RightAnswer
<1> QED BY <1>1, <1>2, <1>3 DEF ListsInv, Heard

\* A goroutine that will never answer has not been heard.
LEMMA HangingKeepsLists ==
    ASSUME CleanupTypeOK, ListsInv, CleanupNext, NEW u \in Unit, PlatformHangs(u)
    PROVE  ListsInv'
<1>1. /\ wasRunning \subseteq wasRunning' /\ MayGo \subseteq MayGo'
      /\ check \in [Unit -> {"off", "token", "hung", "sent"}]
  BY NeverBack DEF CleanupTypeOK
<1>2. /\ check[u] = "token" /\ check' = [check EXCEPT ![u] = "hung"]
      /\ UNCHANGED <<cleaner, units, runch, checked, cleaning, onlines, lc>>
  BY DEF PlatformHangs, listVars
<1>3. \A i \in 1..Len(runch') : RightAnswer(runch[i])'
  BY <1>1, <1>2 DEF ListsInv, RightAnswer
<1>4. \A v \in Unit : Heard(v) => Heard(v)'
  BY <1>1, <1>2 DEF Heard
<1> QED BY <1>1, <1>2, <1>3, <1>4 DEF ListsInv

LEMMA ListsInvStep ==
    ASSUME CleanupTypeOK, AnswersInv, CleanInv, CleanupNext PROVE ListsInv'
<1> USE DEF worldVars, listVars
<1>1. ASSUME UNCHANGED <<cleaner, units, check, runch, checked, cleaning, onlines, lc>>
      PROVE  ListsInv'
  BY <1>1, ListsStay DEF CleanInv
<1>2. ASSUME NEW u \in Unit, UnitStarts(u) \/ UnitStops(u) \/ Fetches(u) PROVE ListsInv'
  BY <1>1, <1>2 DEF UnitStarts, UnitStops, Fetches
<1>3. CASE KeyGoes \/ Tokens
  BY <1>1, <1>3 DEF KeyGoes, Tokens
<1>4. ASSUME NEW u \in Unit, NoToken(u) \/ AskPlatform(u) \/ PlatformFails(u) PROVE ListsInv'
  BY <1>4, AskingKeepsLists
<1>6. ASSUME NEW u \in Unit, PlatformHangs(u) PROVE ListsInv'
  BY <1>6, HangingKeepsLists DEF CleanInv
<1>5. CASE CleanerStep \/ MainFails
  BY <1>5, BeginningKeepsLists, ReceivingKeepsLists, DeletingKeepsLists, FailingKeepsLists
     DEF CleanerStep, CleanInv
<1> QED BY <1>2, <1>3, <1>4, <1>5, <1>6 DEF CleanupNext, CheckUnit

LEMMA CleanKept == Spec => []CleanInv
<1>1. Init => CleanInv
  <2> SUFFICES ASSUME Init PROVE CleanInv
    OBVIOUS
  <2>1. /\ runch = <<>> /\ checked = <<>> /\ onlines = Unit /\ lc = Unit
        /\ cleaner \in {"off", "scan"} /\ check = [u \in Unit |-> "off"]
        /\ runs \subseteq Unit /\ wasRunning = runs /\ wasStopped = Unit \ runs
        /\ cached \in {0, 1} /\ issued = 1 /\ tokenAt = [p \in Caller |-> "off"]
    BY DEF Init, CleanupInit, TokenInit
  <2>2. ListsInv
    BY <2>1 DEF ListsInv
  <2>3. WorldInv /\ TokenInv
    BY <2>1 DEF WorldInv, TokenInv
  <2> QED BY <2>2, <2>3 DEF CleanInv
<1>2. TypeInv /\ CleanInv /\ [Next]_unitVars => CleanInv'
  <2> SUFFICES ASSUME TypeInv, CleanInv, [Next]_unitVars PROVE CleanInv'
    OBVIOUS
  <2>1. CASE Cleans
    <3>1. CleanupTypeOK /\ AnswersInv /\ CleanupNext
      BY <2>1 DEF Cleans, TypeInv
    <3> QED BY <3>1, WorldInvStep, TokenInvStep, ListsInvStep DEF CleanInv
  <2>2. CASE UNCHANGED cleanupVars
    BY <2>2 DEF cleanupVars, tokenVars, cacheVars, worldVars, listVars, CleanInv, WorldInv,
                TokenInv, ListsInv, Bad, MayGo, RightAnswer, Heard
  <2>3. Cleans \/ UNCHANGED cleanupVars
    BY DEF Next, Serves, Asks, Platform, LocalControl, Job, unitVars
  <2> QED BY <2>1, <2>2, <2>3
<1> QED BY <1>1, <1>2, TypesKept, PTL DEF Spec

\* Though all units are asked about at the same time and share the cached token,
\* a unit that ran all the while keeps its lists unless something failed or a
\* token expired; and when the program is done, every unit it found that never
\* ran has lost them (cleanup_unit.go, main, checkUnit and clearupOnlines;
\* oauth2.go, AccessToken).
THEOREM ListsOfStoppedUnitsGo == Spec => []ListsAreCleared
<1>1. TypeInv /\ CleanInv => ListsAreCleared
  <2> SUFFICES ASSUME TypeInv, CleanInv PROVE ListsAreCleared
    OBVIOUS
  <2>1. ASSUME NEW u \in Unit, u \notin onlines \cap lc
        PROVE  u \in wasStopped \/ lapses > 0 \/ valid # 1..issued
    BY <2>1 DEF CleanInv, ListsInv, MayGo, Bad
  <2>2. ASSUME cleaner = "done", NEW u \in units \ wasRunning PROVE u \notin onlines \cup lc
    <3>1. /\ runch \in Seq([unit : Unit, running : BOOLEAN]) /\ checked \in Seq(Unit)
          /\ units \subseteq Unit /\ AnswersInv
      BY DEF TypeInv, CleanupTypeOK
    <3>2. Len(runch) \in Nat /\ Len(checked) \in Nat
      BY <3>1, LenProperties
    <3>3. Len(checked) = Cardinality(units) /\ Len(runch) + Len(checked) <= Cardinality(Sent)
      BY <2>2, <3>1, <3>2 DEF CleanInv, ListsInv, AnswersInv
    <3>4. /\ IsFiniteSet(units) /\ Sent \subseteq units
          /\ Cardinality(Sent) \in Nat /\ Cardinality(units) \in Nat
          /\ Cardinality(Sent) <= Cardinality(units)
      BY <3>1, SentType DEF AnswersInv
    <3>5. Len(runch) = 0 /\ Cardinality(Sent) = Cardinality(units)
      BY <3>2, <3>3, <3>4
    <3>6. Sent = units
      BY <3>4, <3>5, FS_Subset
    <3>7. Heard(u)
      BY <2>2, <3>1, <3>6 DEF CleanInv, ListsInv, Sent
    <3>8. PICK i \in 1..Len(checked) : checked[i] = u
      BY <2>2, <3>5, <3>7 DEF Heard
    <3> QED BY <2>2, <3>8 DEF CleanInv, ListsInv
  <2> QED BY <2>1, <2>2 DEF ListsAreCleared
<1> QED BY <1>1, CleanKept, TypesKept, PTL
===============================================================================
