----------------------------- MODULE HTTPClient -----------------------------
(***************************************************************************)
(* internal/feishu/http_client.go: the one HTTP client every tool call     *)
(* goes through.  doJSON is the retry loop around one upstream request;    *)
(* TenantToken is the tenant access token cache it consults on every       *)
(* attempt and which, on a miss, runs doJSON itself (without a token) to   *)
(* obtain a new one.  Several calls run at once: the HTTP server gives     *)
(* each POST a goroutine and they share the client.                        *)
(*                                                                         *)
(* A tenant token is its number in the order of minting.  The platform is  *)
(* what answers: it mints tokens, refuses those that have expired or were  *)
(* revoked, and may lose an answer after the request took effect.          *)
(***************************************************************************)
EXTENDS Integers

CONSTANTS
    Calls,          \* concurrent doJSON calls, each reused when it has ended
    MaxRetries,     \* cfg.APIMaxRetries
    Lifetimes,      \* how long the platform lets a tenant token live
    DefaultTTL,     \* the 90 minutes assumed when the answer names no expiry
    Margin,         \* the minute before expiry at which the cache gives up
    Lag,            \* longest time between minting a token and storing it
    MaxTime,        \* bound: the clock stops here
    MaxTokens,      \* bound: tokens the platform mints
    NoToken,        \* the empty string
    StaticToken     \* FEISHU_TENANT_ACCESS_TOKEN

Tokens == 1..MaxTokens

ASSUME RetriesAssumption == MaxRetries \in Nat
ASSUME TimesAssumption ==
    /\ Lifetimes \subseteq Nat \ {0}
    /\ DefaultTTL \in Nat \ {0}
    /\ Margin \in Nat
    /\ Lag \in Nat
    /\ MaxTime \in Nat
    /\ MaxTokens \in Nat
\* The request timeout (15 s unless configured) bounds the way from the
\* platform to the cache; it is shorter than the margin of one minute.
ASSUME LagAssumption == Lag =< Margin
ASSUME TokenAssumption ==
    /\ NoToken \notin Tokens
    /\ StaticToken \notin Tokens
    /\ NoToken # StaticToken

VARIABLES
    credentials,    \* what was configured: "static", "app" or "none"
    now,            \* the wall clock
    minted,         \* platform: number of tokens minted so far
    expires,        \* platform: when each token stops being accepted
    revoked,        \* platform: tokens revoked before their time
    cachedToken,    \* HTTPClient.cachedToken
    tokenExpiry,    \* HTTPClient.tokenExpiry
    pc,             \* where each call is
    level,          \* the doJSON a call is in: its own or the token fetch
    attempt,        \* the loop counter of each of the two doJSON
    token,          \* token the call carries, or carried last
    fetched,        \* answer of the token endpoint, not stored yet
    cancelled,      \* the call's context is done
    result,         \* how the call ended
    applied         \* times the platform performed the call's request

environment == <<credentials, now, minted, expires, revoked>>
cacheVars   == <<cachedToken, tokenExpiry>>
vars == <<environment, cacheVars, pc, level, attempt, token, fetched,
          cancelled, result, applied>>

Levels  == {"call", "fetch"}
Results == {"none", "ok", "unauthorized", "error"}
Answers == [token : Tokens \cup {NoToken}, expire : Nat, at : Nat]
NoAnswer == [token |-> NoToken, expire |-> 0, at |-> 0]

Init ==
    /\ credentials \in {"static", "app", "none"}
    /\ now = 0
    /\ minted = 0
    /\ expires = [t \in Tokens |-> 0]
    /\ revoked = {}
    /\ cachedToken = NoToken
    /\ tokenExpiry = 0
    /\ pc = [c \in Calls |-> "done"]
    /\ level = [c \in Calls |-> "call"]
    /\ attempt = [c \in Calls |-> [l \in Levels |-> 0]]
    /\ token = [c \in Calls |-> NoToken]
    /\ fetched = [c \in Calls |-> NoAnswer]
    /\ cancelled = [c \in Calls |-> FALSE]
    /\ result = [c \in Calls |-> "none"]
    /\ applied = [c \in Calls |-> 0]

\* Mutant: the cache serves a token until the moment it thinks it expires.
CacheHitWithoutMargin == cachedToken # NoToken /\ now < tokenExpiry

\* The test under tokenMu: a cached token more than the margin from expiry.
CacheHit == cachedToken # NoToken /\ now < tokenExpiry - Margin

TTL(expire) == IF expire <= 0 THEN DefaultTTL ELSE expire

\* What the platform still accepts.
Accepts(t) == t \in Tokens => (now < expires[t] /\ t \notin revoked)

\* Mutant: one attempt more than configured.
MoreAttemptsThanAllowed(c) == attempt[c][level[c]] <= MaxRetries

MoreAttempts(c) == attempt[c][level[c]] < MaxRetries

Goto(c, to) == pc' = [pc EXCEPT ![c] = to]

\* doJSON returns: its locals and the context are gone.
Finish(c, r) ==
    /\ Goto(c, "done")
    /\ result' = [result EXCEPT ![c] = r]
    /\ level' = [level EXCEPT ![c] = "call"]
    /\ attempt' = [attempt EXCEPT ![c]["fetch"] = 0]
    /\ cancelled' = [cancelled EXCEPT ![c] = FALSE]

\* GetJSON, PostJSON, ...: doJSON starts with attempt 0.
Begin(c) ==
    /\ pc[c] = "done"
    /\ Goto(c, "acquire")
    /\ attempt' = [attempt EXCEPT ![c]["call"] = 0]
    /\ token' = [token EXCEPT ![c] = NoToken]
    /\ result' = [result EXCEPT ![c] = "none"]
    /\ applied' = [applied EXCEPT ![c] = 0]
    /\ UNCHANGED <<environment, cacheVars, level, fetched, cancelled>>

UseToken(c, t) ==
    /\ pc[c] = "acquire"
    /\ token' = [token EXCEPT ![c] = t]
    /\ Goto(c, "send")
    /\ UNCHANGED <<environment, cacheVars, level, attempt, fetched, cancelled,
                   result, applied>>

UseStatic(c) == credentials = "static" /\ UseToken(c, StaticToken)

UseCached(c) == credentials = "app" /\ CacheHit /\ UseToken(c, cachedToken)

NoCredentials(c) ==
    /\ pc[c] = "acquire"
    /\ credentials = "none"
    /\ Finish(c, "error")
    /\ UNCHANGED <<environment, cacheVars, token, fetched, applied>>

\* A miss: tokenMu is released and the token endpoint is called without it.
StartFetch(c) ==
    /\ pc[c] = "acquire"
    /\ credentials = "app"
    /\ ~CacheHit
    /\ Goto(c, "fetch")
    /\ level' = [level EXCEPT ![c] = "fetch"]
    /\ UNCHANGED <<environment, cacheVars, attempt, token, fetched, cancelled,
                   result, applied>>

\* The platform mints a token and its answer reaches the call.  The expiry
\* may be missing from the answer (0); the token then lives at least as long
\* as the default.
FetchAnswered(c) ==
    /\ pc[c] = "fetch"
    /\ ~cancelled[c]
    /\ minted < MaxTokens
    /\ minted' = minted + 1
    /\ \E life \in Lifetimes :
         \E expire \in {life} \cup (IF life >= DefaultTTL THEN {0} ELSE {}) :
           /\ expires' = [expires EXCEPT ![minted + 1] = now + life]
           /\ fetched' = [fetched EXCEPT ![c] =
                 [token |-> minted + 1, expire |-> expire, at |-> now]]
    /\ Goto(c, "received")
    /\ UNCHANGED <<credentials, now, revoked, cacheVars, level, attempt,
                   token, cancelled, result, applied>>

\* A definite error of the token endpoint ends the fetch and the call.
FetchRefused(c) ==
    /\ pc[c] = "fetch"
    /\ ~cancelled[c]
    /\ Finish(c, "error")
    /\ UNCHANGED <<environment, cacheVars, token, fetched, applied>>

\* Mutant: the loops of the call and of the fetch share their counter.
StoreTokenRestartsLoop(c) ==
    /\ pc[c] = "received"
    /\ cachedToken' = fetched[c].token
    /\ tokenExpiry' = now + TTL(fetched[c].expire)
    /\ token' = [token EXCEPT ![c] = fetched[c].token]
    /\ fetched' = [fetched EXCEPT ![c] = NoAnswer]
    /\ level' = [level EXCEPT ![c] = "call"]
    /\ attempt' = [attempt EXCEPT ![c] = [l \in Levels |-> 0]]
    /\ Goto(c, "send")
    /\ UNCHANGED <<environment, cancelled, result, applied>>

\* tokenMu is taken again: whatever is cached by now is overwritten.
StoreToken(c) ==
    /\ pc[c] = "received"
    /\ cachedToken' = fetched[c].token
    /\ tokenExpiry' = now + TTL(fetched[c].expire)
    /\ token' = [token EXCEPT ![c] = fetched[c].token]
    /\ fetched' = [fetched EXCEPT ![c] = NoAnswer]
    /\ level' = [level EXCEPT ![c] = "call"]
    /\ attempt' = [attempt EXCEPT ![c]["fetch"] = 0]
    /\ Goto(c, "send")
    /\ UNCHANGED <<environment, cancelled, result, applied>>

\* After a network error, a timeout, HTTP 429 or 5xx: back off or give up.
AfterTransient(c) ==
    \/ /\ MoreAttempts(c)
       /\ Goto(c, "backoff")
       /\ UNCHANGED <<level, attempt, cancelled, result>>
    \/ ~MoreAttempts(c) /\ Finish(c, "error")

FetchTransient(c) ==
    /\ pc[c] = "fetch"
    /\ AfterTransient(c)
    /\ UNCHANGED <<environment, cacheVars, token, fetched, applied>>

\* The request may have taken effect although its answer was lost; a
\* cancelled context lets no further request out.
SendTransient(c) ==
    /\ pc[c] = "send"
    /\ AfterTransient(c)
    /\ \/ UNCHANGED applied
       \/ /\ ~cancelled[c]
          /\ Accepts(token[c])
          /\ applied' = [applied EXCEPT ![c] = @ + 1]
    /\ UNCHANGED <<environment, cacheVars, token, fetched>>

\* Performed, and answered: with a body that decodes or with one that cannot
\* be read, an error that is not retried.
SendPerformed(c) ==
    /\ pc[c] = "send"
    /\ ~cancelled[c]
    /\ Accepts(token[c])
    /\ applied' = [applied EXCEPT ![c] = @ + 1]
    /\ \E r \in {"ok", "error"} : Finish(c, r)
    /\ UNCHANGED <<environment, cacheVars, token, fetched>>

\* HTTP 401 for a token that is no longer good, or another 4xx or business
\* error: final.  The cached token is left as it is.
SendRefused(c) ==
    /\ pc[c] = "send"
    /\ ~cancelled[c]
    /\ Finish(c, IF Accepts(token[c]) THEN "error" ELSE "unauthorized")
    /\ UNCHANGED <<environment, cacheVars, token, fetched, applied>>

\* Mutant: the attempt is not counted.
RetryUncounted(c) ==
    /\ pc[c] = "backoff"
    /\ Goto(c, IF level[c] = "call" THEN "acquire" ELSE "fetch")
    /\ UNCHANGED <<environment, cacheVars, attempt, level, token, fetched,
                   cancelled, result, applied>>

\* The backoff timer fires: the next attempt of the doJSON the call is in.
Retry(c) ==
    /\ pc[c] = "backoff"
    /\ attempt' = [attempt EXCEPT ![c][level[c]] = @ + 1]
    /\ Goto(c, IF level[c] = "call" THEN "acquire" ELSE "fetch")
    /\ UNCHANGED <<environment, cacheVars, level, token, fetched, cancelled,
                   result, applied>>

\* sleepWithContext sees the context done.
BackoffCancelled(c) ==
    /\ pc[c] = "backoff"
    /\ cancelled[c]
    /\ Finish(c, "error")
    /\ UNCHANGED <<environment, cacheVars, token, fetched, applied>>

\* The request's 120 s deadline, or the client going away.
Cancel(c) ==
    /\ pc[c] # "done"
    /\ ~cancelled[c]
    /\ cancelled' = [cancelled EXCEPT ![c] = TRUE]
    /\ UNCHANGED <<environment, cacheVars, pc, level, attempt, token, fetched,
                   result, applied>>

\* An answered fetch is stored within Lag.
Tick ==
    /\ now < MaxTime
    /\ \A c \in Calls : pc[c] = "received" => now < fetched[c].at + Lag
    /\ now' = now + 1
    /\ UNCHANGED <<credentials, minted, expires, revoked, cacheVars, pc, level,
                   attempt, token, fetched, cancelled, result, applied>>

Revoke(t) ==
    /\ t <= minted
    /\ t \notin revoked
    /\ revoked' = revoked \cup {t}
    /\ UNCHANGED <<credentials, now, minted, expires, cacheVars, pc, level,
                   attempt, token, fetched, cancelled, result, applied>>

\* The steps a call that has begun takes by itself.
Step(c) ==
    \/ UseStatic(c) \/ UseCached(c) \/ NoCredentials(c) \/ StartFetch(c)
    \/ FetchAnswered(c) \/ FetchRefused(c) \/ FetchTransient(c)
    \/ StoreToken(c)
    \/ SendPerformed(c) \/ SendRefused(c) \/ SendTransient(c)
    \/ Retry(c) \/ BackoffCancelled(c)

Next ==
    \/ \E c \in Calls : Begin(c) \/ Step(c) \/ Cancel(c)
    \/ Tick
    \/ \E t \in Tokens : Revoke(t)

Spec == Init /\ [][Next]_vars

\* Every request is answered or times out and every timer fires.
FairSpec == Spec /\ \A c \in Calls : WF_vars(Step(c))

-----------------------------------------------------------------------------
\* Every variable keeps the values its field or local has in the code; no
\* loop counter passes the retry limit (doJSON, lines 149-154).
TypeOK ==
    /\ credentials \in {"static", "app", "none"}
    /\ now \in 0..MaxTime
    /\ minted \in 0..MaxTokens
    /\ expires \in [Tokens -> Nat]
    /\ revoked \subseteq Tokens
    /\ cachedToken \in Tokens \cup {NoToken}
    /\ tokenExpiry \in Nat
    /\ pc \in [Calls -> {"done", "acquire", "fetch", "received", "send",
                         "backoff"}]
    /\ level \in [Calls -> Levels]
    /\ attempt \in [Calls -> [Levels -> 0..MaxRetries]]
    /\ token \in [Calls -> Tokens \cup {NoToken, StaticToken}]
    /\ fetched \in [Calls -> Answers]
    /\ cancelled \in [Calls -> BOOLEAN]
    /\ result \in [Calls -> Results]
    /\ applied \in [Calls -> Nat]

\* Whenever TenantToken would answer from the cache, the platform has not
\* let that token expire: the cache counts its expiry from the moment the
\* answer is stored, later than the minting, possibly after a newer token
\* was stored by another call; the margin has to cover that.
ServedTokenIsLive == CacheHit => now < expires[cachedToken]

\* The platform performed a call's request at most once per attempt that was
\* made, and at least once when the call reports success: a failed call
\* says nothing about how often its write took effect, a successful one
\* does (doJSON, lines 154-190).
EffectsAccounted ==
    \A c \in Calls :
        /\ applied[c] <= attempt[c]["call"]
                           + (IF pc[c] \in {"done", "backoff"} THEN 1 ELSE 0)
        /\ result[c] = "ok" => applied[c] >= 1

\* What is left of the doJSON a call is in: two steps for each attempt of the
\* token fetch, and those from the stored token to the end of an attempt.
StepsOfAttempt == 2 * MaxRetries + 5

StepsLeftInAttempt(c) ==
    LET retries == MaxRetries - attempt[c]["fetch"] IN
    CASE pc[c] = "acquire"  -> StepsOfAttempt
      [] pc[c] = "fetch"    -> 2 * retries + 4
      [] pc[c] = "received" -> 3
      [] pc[c] = "send"     -> 2
      [] pc[c] = "backoff"  -> IF level[c] = "fetch" THEN 2 * retries + 3 ELSE 1

StepsLeft(c) ==
    IF pc[c] = "done" THEN 0
    ELSE (MaxRetries - attempt[c]["call"]) * StepsOfAttempt
           + StepsLeftInAttempt(c)

\* Every step a call takes brings its end nearer: although each of its
\* MaxRetries + 1 attempts may fetch a token with as many attempts of its
\* own, it is over after (MaxRetries + 1) * (2 * MaxRetries + 5) steps,
\* whatever the other calls, the clock and the platform do (doJSON, lines
\* 154-190).
CallsAdvance ==
    [][\A c \in Calls : pc[c] # "done" =>
          \/ UNCHANGED <<pc[c], level[c], attempt[c]>>
          \/ StepsLeft(c)' \in 0..(StepsLeft(c) - 1)]_vars

\* A call that began ends, whatever the platform answers and however often
\* the token has to be fetched on the way (doJSON, lines 154-190).
EveryCallEnds == \A c \in Calls : (pc[c] # "done") ~> (pc[c] = "done")
=============================================================================
