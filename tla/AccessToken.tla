----------------------------- MODULE AccessToken ------------------------------
(***************************************************************************)
(* The access token of the course platform and its cache in redis:          *)
(* AccessToken of src/helper/oauth2.go, for the client's own credentials.   *)
(* Many callers fetch it at the same time, each command of each a step.     *)
(* The time to live of the cache begins after the token's own.              *)
(***************************************************************************)
EXTENDS Naturals

CONSTANTS
    Caller,     \* who asks for a token
    MaxTokens,  \* bound: the tokens the platform hands out
    MaxLapses   \* bound: the redis commands and requests that fail

ASSUME AccessTokenAssumption == MaxTokens \in Nat \ {0} /\ MaxLapses \in Nat

\* 0 is the empty token, and a cache that has none.
Token == 0..MaxTokens

VARIABLES
    cached,   \* redis: the token
    issued,   \* how many tokens the platform has handed out
    valid,    \* those it accepts
    tokenAt,  \* where each caller is in AccessToken
    token,    \* what it has got
    lapses    \* how many commands and requests have failed

cacheVars == <<cached, issued, valid>>
tokenVars == <<cacheVars, tokenAt, token, lapses>>

TokenTypeOK ==
    /\ cached \in Token /\ issued \in Token
    /\ valid \subseteq 1..issued
    /\ tokenAt \in [Caller -> {"off", "exists", "get", "request", "setex", "ok", "error", "hung"}]
    /\ token \in [Caller -> Token]
    /\ lapses \in 0..MaxLapses

TokenInit ==
    /\ issued = 1 /\ valid = {1} /\ cached \in {0, 1}
    /\ tokenAt = [p \in Caller |-> "off"] /\ token = [p \in Caller |-> 0]
    /\ lapses = 0

TokenGoes(p, place) == tokenAt' = [tokenAt EXCEPT ![p] = place]

TokenExpires(t) ==
    /\ t \in valid
    /\ valid' = valid \ {t}
    /\ UNCHANGED <<cached, issued, tokenAt, token, lapses>>

CacheExpires ==
    /\ cached # 0 /\ cached \notin valid
    /\ cached' = 0
    /\ UNCHANGED <<issued, valid, tokenAt, token, lapses>>

\* EXISTS
TokenExists(p) ==
    /\ tokenAt[p] = "exists"
    /\ TokenGoes(p, IF cached # 0 THEN "get" ELSE "request")
    /\ UNCHANGED <<cacheVars, token, lapses>>

\* GET; by now the key may have gone, which is an error
TokenGet(p) ==
    /\ tokenAt[p] = "get"
    /\ TokenGoes(p, IF cached # 0 THEN "ok" ELSE "error")
    /\ token' = [token EXCEPT ![p] = cached]
    /\ UNCHANGED <<cacheVars, lapses>>

\* A request for a new token
TokenRequest(p) ==
    /\ tokenAt[p] = "request" /\ issued < MaxTokens
    /\ issued' = issued + 1 /\ valid' = valid \cup {issued + 1}
    /\ token' = [token EXCEPT ![p] = issued + 1]
    /\ TokenGoes(p, "setex")
    /\ UNCHANGED <<cached, lapses>>

\* SETEX
TokenSetex(p) ==
    /\ tokenAt[p] = "setex"
    /\ cached' = token[p]
    /\ TokenGoes(p, "ok")
    /\ UNCHANGED <<issued, valid, token, lapses>>

\* The request does not go through: the empty token, and no error
TokenRequestFails(p) ==
    /\ tokenAt[p] = "request"
    /\ lapses < MaxLapses /\ lapses' = lapses + 1
    /\ TokenGoes(p, "ok")
    /\ UNCHANGED <<cacheVars, token>>

\* The request is never answered: it has no time-out.
TokenRequestHangs(p) ==
    /\ tokenAt[p] = "request"
    /\ TokenGoes(p, "hung")
    /\ UNCHANGED <<cacheVars, token, lapses>>

\* A redis command fails, or the platform answers with an error.
TokenFails(p) ==
    /\ tokenAt[p] \in {"exists", "get", "request", "setex"}
    /\ lapses < MaxLapses /\ lapses' = lapses + 1
    /\ TokenGoes(p, "error")
    /\ token' = [token EXCEPT ![p] = 0]
    /\ UNCHANGED cacheVars

FetchToken(p) ==
    \/ TokenExists(p) \/ TokenGet(p) \/ TokenRequest(p) \/ TokenSetex(p)
    \/ TokenRequestFails(p) \/ TokenRequestHangs(p) \/ TokenFails(p)
=============================================================================
