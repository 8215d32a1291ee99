-------------------------- MODULE HTTPClient_proofs --------------------------
(***************************************************************************)
(* Proofs about HTTPClient, for any set of calls and any of its constants. *)
(*                                                                         *)
(* The inductive invariant says where the expiry in the cache comes from:  *)
(* it is at most Lag beyond what the platform keeps to, since it is the    *)
(* lifetime the platform answered with counted from a moment at most Lag   *)
(* later (Received, then Stored).  It also says in which loop a call is,   *)
(* which the limits on its counters rest on (InLevel, Counted), and ties   *)
(* the effects of a request to the attempts made (Accounted).              *)
(***************************************************************************)
EXTENDS HTTPClient, TLAPS

InLevel(c) ==
    /\ pc[c] \in {"done", "acquire", "send"} => level[c] = "call"
    /\ pc[c] \in {"fetch", "received"} => level[c] = "fetch"

Counted(c) == pc[c] = "backoff" => attempt[c][level[c]] < MaxRetries

Received(c) ==
    pc[c] = "received" =>
        /\ fetched[c].token \in 1..minted
        /\ now <= fetched[c].at + Lag
        /\ fetched[c].at + TTL(fetched[c].expire) <= expires[fetched[c].token]

Stored ==
    cachedToken # NoToken =>
        /\ cachedToken \in 1..minted
        /\ tokenExpiry <= expires[cachedToken] + Lag

MayBeOneMore(c) == pc[c] = "done" \/ (pc[c] = "backoff" /\ level[c] = "call")

Accounted(c) ==
    /\ applied[c] <= attempt[c]["call"] + (IF MayBeOneMore(c) THEN 1 ELSE 0)
    /\ result[c] = "ok" => applied[c] >= 1

Inv ==
    /\ TypeOK
    /\ Stored
    /\ \A c \in Calls :
          InLevel(c) /\ Counted(c) /\ Received(c) /\ Accounted(c)
-----------------------------------------------------------------------------
\* The number of seconds the cache takes for a lifetime is a number.
LEMMA TTLIsNat == ASSUME NEW e \in Nat PROVE TTL(e) \in Nat
BY TimesAssumption DEF TTL

\* The invariant holds before the first call.
LEMMA InitInv == Init => Inv
<1> SUFFICES ASSUME Init PROVE Inv
  OBVIOUS
<1> USE RetriesAssumption, TimesAssumption, TokenAssumption DEF Init
<1>1. TypeOK
  BY DEF TypeOK, Tokens, Levels, Results, Answers, NoAnswer
<1>2. Stored
  BY DEF Stored
<1>3. ASSUME NEW c \in Calls
      PROVE InLevel(c) /\ Counted(c) /\ Received(c) /\ Accounted(c)
  BY DEF InLevel, Counted, Received, Accounted, MayBeOneMore, Levels
<1> QED
  BY <1>1, <1>2, <1>3 DEF Inv

\* A call begins: its counter and its effects start at zero together.
LEMMA BeginInv ==
    ASSUME Inv, NEW c \in Calls, Begin(c) PROVE Inv'
<1> USE RetriesAssumption, TimesAssumption, TokenAssumption
    DEF Inv, Begin, Goto
<1>1. TypeOK'
  BY DEF TypeOK, environment, cacheVars, Levels, Results
<1>2. Stored'
  BY DEF Stored, environment, cacheVars
<1>3. ASSUME NEW d \in Calls
      PROVE (InLevel(d) /\ Counted(d) /\ Received(d) /\ Accounted(d))'
  BY DEF TypeOK, InLevel, Counted, Received, Accounted, MayBeOneMore, Levels,
         TTL, environment, cacheVars
<1> QED
  BY <1>1, <1>2, <1>3

\* The configured token is used.
LEMMA UseStaticInv ==
    ASSUME Inv, NEW c \in Calls, UseStatic(c) PROVE Inv'
<1> USE RetriesAssumption, TimesAssumption, TokenAssumption
    DEF Inv, UseStatic, UseToken, Goto
<1>1. TypeOK'
  BY DEF TypeOK, environment, cacheVars, Levels, Results
<1>2. Stored'
  BY DEF Stored, environment, cacheVars
<1>3. ASSUME NEW d \in Calls
      PROVE (InLevel(d) /\ Counted(d) /\ Received(d) /\ Accounted(d))'
  BY DEF TypeOK, InLevel, Counted, Received, Accounted, MayBeOneMore, Levels,
         TTL, environment, cacheVars
<1> QED
  BY <1>1, <1>2, <1>3

\* The cached token is used.
LEMMA UseCachedInv ==
    ASSUME Inv, NEW c \in Calls, UseCached(c) PROVE Inv'
<1> USE RetriesAssumption, TimesAssumption, TokenAssumption
    DEF Inv, UseCached, UseToken, Goto
<1>1. TypeOK'
  BY DEF TypeOK, environment, cacheVars, Levels, Results
<1>2. Stored'
  BY DEF Stored, environment, cacheVars
<1>3. ASSUME NEW d \in Calls
      PROVE (InLevel(d) /\ Counted(d) /\ Received(d) /\ Accounted(d))'
  BY DEF TypeOK, InLevel, Counted, Received, Accounted, MayBeOneMore, Levels,
         TTL, environment, cacheVars
<1> QED
  BY <1>1, <1>2, <1>3

\* There is no way to get a token.
LEMMA NoCredentialsInv ==
    ASSUME Inv, NEW c \in Calls, NoCredentials(c) PROVE Inv'
<1> USE RetriesAssumption, TimesAssumption, TokenAssumption
    DEF Inv, NoCredentials, Finish, Goto
<1>1. TypeOK'
  BY DEF TypeOK, environment, cacheVars, Levels, Results
<1>2. Stored'
  BY DEF Stored, environment, cacheVars
<1>3. ASSUME NEW d \in Calls
      PROVE (InLevel(d) /\ Counted(d) /\ Received(d) /\ Accounted(d))'
  BY DEF TypeOK, InLevel, Counted, Received, Accounted, MayBeOneMore, Levels,
         TTL, environment, cacheVars
<1> QED
  BY <1>1, <1>2, <1>3

\* The call turns to the token endpoint.
LEMMA StartFetchInv ==
    ASSUME Inv, NEW c \in Calls, StartFetch(c) PROVE Inv'
<1> USE RetriesAssumption, TimesAssumption, TokenAssumption
    DEF Inv, StartFetch, Goto
<1>1. TypeOK'
  BY DEF TypeOK, environment, cacheVars, Levels, Results
<1>2. Stored'
  BY DEF Stored, environment, cacheVars
<1>3. ASSUME NEW d \in Calls
      PROVE (InLevel(d) /\ Counted(d) /\ Received(d) /\ Accounted(d))'
  BY DEF TypeOK, InLevel, Counted, Received, Accounted, MayBeOneMore, Levels,
         TTL, environment, cacheVars
<1> QED
  BY <1>1, <1>2, <1>3

\* A token is minted: what is in the cache was minted before and keeps its expiry,
\* and the new token lives as long as its answer makes the cache believe.
LEMMA FetchAnsweredInv ==
    ASSUME Inv, NEW c \in Calls, FetchAnswered(c) PROVE Inv'
<1> USE RetriesAssumption, TimesAssumption, TokenAssumption
    DEF Inv, FetchAnswered, Goto
<1>1. TypeOK'
  <2>1. minted + 1 \in Tokens
    BY DEF TypeOK, Tokens
  <2>2. PICK life \in Lifetimes :
          \E expire \in {life} \cup (IF life >= DefaultTTL THEN {0} ELSE {}) :
            /\ expires' = [expires EXCEPT ![minted + 1] = now + life]
            /\ fetched' = [fetched EXCEPT ![c] =
                  [token |-> minted + 1, expire |-> expire, at |-> now]]
    OBVIOUS
  <2>3. fetched' \in [Calls -> Answers] /\ expires' \in [Tokens -> Nat]
    BY <2>1, <2>2 DEF TypeOK, Answers
  <2>4. /\ minted' \in 0..MaxTokens
        /\ pc' \in [Calls -> {"done", "acquire", "fetch", "received", "send",
                              "backoff"}]
    BY DEF TypeOK
  <2> QED
    BY <2>3, <2>4 DEF TypeOK, Tokens, cacheVars
<1>2. Stored'
  BY DEF Stored, TypeOK, Tokens, cacheVars
<1>3. ASSUME NEW d \in Calls
      PROVE (InLevel(d) /\ Counted(d) /\ Received(d) /\ Accounted(d))'
  <2>1. (InLevel(d) /\ Counted(d) /\ Accounted(d))'
    BY DEF TypeOK, InLevel, Counted, Accounted, MayBeOneMore, Levels
  <2>2. Received(d)'
    <3>1. CASE d = c
      <4>1. PICK life \in Lifetimes :
              \E expire \in {life} \cup (IF life >= DefaultTTL THEN {0} ELSE {}) :
                /\ expires' = [expires EXCEPT ![minted + 1] = now + life]
                /\ fetched' = [fetched EXCEPT ![c] =
                      [token |-> minted + 1, expire |-> expire, at |-> now]]
        OBVIOUS
      <4>2. PICK expire \in {life} \cup (IF life >= DefaultTTL THEN {0} ELSE {}) :
              /\ expires' = [expires EXCEPT ![minted + 1] = now + life]
              /\ fetched' = [fetched EXCEPT ![c] =
                    [token |-> minted + 1, expire |-> expire, at |-> now]]
        BY <4>1
      <4>3. TTL(expire) \in Nat /\ TTL(expire) <= life
        BY DEF TTL
      <4>4. /\ minted + 1 \in Tokens
            /\ minted + 1 \in 1..minted'
            /\ now \in Nat
            /\ life \in Nat
        BY DEF TypeOK, Tokens
      <4>5. /\ fetched'[c] = [token |-> minted + 1, expire |-> expire, at |-> now]
            /\ expires'[minted + 1] = now + life
        BY <4>2, <4>4 DEF TypeOK
      <4> QED
        BY <3>1, <4>3, <4>4, <4>5 DEF Received, TTL
    <3>2. CASE d # c
      <4>1. fetched'[d] = fetched[d] /\ (pc'[d] = "received" => pc[d] = "received")
        BY <3>2 DEF TypeOK
      <4>2. ASSUME pc[d] = "received"
            PROVE expires'[fetched[d].token] = expires[fetched[d].token]
        BY <4>2 DEF TypeOK, Received, Tokens
      <4>3. minted \in Nat /\ minted' = minted + 1 /\ now' = now
        BY DEF TypeOK
      <4> QED
        BY <4>1, <4>2, <4>3 DEF Received, TTL
    <3> QED
      BY <3>1, <3>2
  <2> QED
    BY <2>1, <2>2
<1> QED
  BY <1>1, <1>2, <1>3

\* The token endpoint refuses.
LEMMA FetchRefusedInv ==
    ASSUME Inv, NEW c \in Calls, FetchRefused(c) PROVE Inv'
<1> USE RetriesAssumption, TimesAssumption, TokenAssumption
    DEF Inv, FetchRefused, Finish, Goto
<1>1. TypeOK'
  BY DEF TypeOK, environment, cacheVars, Levels, Results
<1>2. Stored'
  BY DEF Stored, environment, cacheVars
<1>3. ASSUME NEW d \in Calls
      PROVE (InLevel(d) /\ Counted(d) /\ Received(d) /\ Accounted(d))'
  BY DEF TypeOK, InLevel, Counted, Received, Accounted, MayBeOneMore, Levels,
         TTL, environment, cacheVars
<1> QED
  BY <1>1, <1>2, <1>3

\* The answer is stored, whatever was cached: its expiry is counted from now,
\* at most Lag after the minting.
LEMMA StoreTokenInv ==
    ASSUME Inv, NEW c \in Calls, StoreToken(c) PROVE Inv'
<1> USE RetriesAssumption, TimesAssumption, TokenAssumption
    DEF Inv, StoreToken, Goto
<1>1. TypeOK'
  <2>1. fetched[c].token \in Tokens /\ TTL(fetched[c].expire) \in Nat
    <3>1. fetched[c].expire \in Nat
      BY DEF TypeOK, Answers
    <3>2. fetched[c].token \in Tokens
      BY DEF TypeOK, Received, Tokens
    <3> QED
      BY <3>1, <3>2, TTLIsNat
  <2>2. fetched' \in [Calls -> Answers]
    BY DEF TypeOK, Answers, NoAnswer
  <2>3. attempt' \in [Calls -> [Levels -> 0..MaxRetries]]
    BY DEF TypeOK, Levels
  <2>4. tokenExpiry' \in Nat /\ cachedToken' \in Tokens
    BY <2>1 DEF TypeOK
  <2> QED
    BY <2>1, <2>2, <2>3, <2>4 DEF TypeOK, environment, Levels
<1>2. Stored'
  <2>1. fetched[c] \in Answers /\ TTL(fetched[c].expire) \in Nat
    BY TTLIsNat DEF TypeOK, Answers
  <2>2. fetched[c].at \in Nat /\ now \in Nat
    BY <2>1 DEF TypeOK, Answers
  <2>3. /\ fetched[c].token \in 1..minted
        /\ expires[fetched[c].token] \in Nat
    BY DEF TypeOK, Received, Tokens
  <2>4. now + TTL(fetched[c].expire) <= expires[fetched[c].token] + Lag
    BY <2>1, <2>2, <2>3 DEF Received
  <2> QED
    BY <2>3, <2>4 DEF Stored, environment
<1>3. ASSUME NEW d \in Calls
      PROVE (InLevel(d) /\ Counted(d) /\ Received(d) /\ Accounted(d))'
  BY DEF TypeOK, InLevel, Counted, Received, Accounted, MayBeOneMore, Levels,
         TTL, environment, cacheVars
<1> QED
  BY <1>1, <1>2, <1>3

\* The token endpoint is not reached.
LEMMA FetchTransientInv ==
    ASSUME Inv, NEW c \in Calls, FetchTransient(c) PROVE Inv'
<1> USE RetriesAssumption, TimesAssumption, TokenAssumption
    DEF Inv, FetchTransient, AfterTransient, Finish, Goto
<1>1. TypeOK'
  <2>1. CASE MoreAttempts(c)
    BY <2>1 DEF TypeOK, environment, cacheVars, Levels, Results
  <2>2. CASE ~MoreAttempts(c)
    <3>1. attempt' \in [Calls -> [Levels -> 0..MaxRetries]]
      BY <2>2 DEF TypeOK, MoreAttempts, Levels
    <3>2. applied' \in [Calls -> Nat]
      BY DEF TypeOK
    <3> QED
      BY <2>2, <3>1, <3>2 DEF TypeOK, environment, cacheVars, Levels, Results
  <2> QED
    BY <2>1, <2>2
<1>2. Stored'
  BY DEF Stored, environment, cacheVars
<1>3. ASSUME NEW d \in Calls
      PROVE (InLevel(d) /\ Counted(d) /\ Received(d) /\ Accounted(d))'
  BY DEF TypeOK, InLevel, Counted, Received, Accounted, MayBeOneMore, Levels,
         MoreAttempts, TTL, environment, cacheVars
<1> QED
  BY <1>1, <1>2, <1>3

\* The request is not answered, and may have had its effect.
LEMMA SendTransientInv ==
    ASSUME Inv, NEW c \in Calls, SendTransient(c) PROVE Inv'
<1> USE RetriesAssumption, TimesAssumption, TokenAssumption
    DEF Inv, SendTransient, AfterTransient, Finish, Goto
<1>1. TypeOK'
  <2>1. CASE MoreAttempts(c)
    BY <2>1 DEF TypeOK, environment, cacheVars, Levels, Results
  <2>2. CASE ~MoreAttempts(c)
    <3>1. attempt' \in [Calls -> [Levels -> 0..MaxRetries]]
      BY <2>2 DEF TypeOK, MoreAttempts, Levels
    <3>2. applied' \in [Calls -> Nat]
      BY DEF TypeOK
    <3> QED
      BY <2>2, <3>1, <3>2 DEF TypeOK, environment, cacheVars, Levels, Results
  <2> QED
    BY <2>1, <2>2
<1>2. Stored'
  BY DEF Stored, environment, cacheVars
<1>3. ASSUME NEW d \in Calls
      PROVE (InLevel(d) /\ Counted(d) /\ Received(d) /\ Accounted(d))'
  BY DEF TypeOK, InLevel, Counted, Received, Accounted, MayBeOneMore, Levels,
         MoreAttempts, TTL, environment, cacheVars
<1> QED
  BY <1>1, <1>2, <1>3

\* The request is performed and answered.
LEMMA SendPerformedInv ==
    ASSUME Inv, NEW c \in Calls, SendPerformed(c) PROVE Inv'
<1> USE RetriesAssumption, TimesAssumption, TokenAssumption
    DEF Inv, SendPerformed, Finish, Goto
<1>1. TypeOK'
  BY DEF TypeOK, environment, cacheVars, Levels, Results
<1>2. Stored'
  BY DEF Stored, environment, cacheVars
<1>3. ASSUME NEW d \in Calls
      PROVE (InLevel(d) /\ Counted(d) /\ Received(d) /\ Accounted(d))'
  BY DEF TypeOK, InLevel, Counted, Received, Accounted, MayBeOneMore, Levels,
         TTL, environment, cacheVars
<1> QED
  BY <1>1, <1>2, <1>3

\* The request is refused.
LEMMA SendRefusedInv ==
    ASSUME Inv, NEW c \in Calls, SendRefused(c) PROVE Inv'
<1> USE RetriesAssumption, TimesAssumption, TokenAssumption
    DEF Inv, SendRefused, Finish, Goto
<1>1. TypeOK'
  BY DEF TypeOK, environment, cacheVars, Levels, Results
<1>2. Stored'
  BY DEF Stored, environment, cacheVars
<1>3. ASSUME NEW d \in Calls
      PROVE (InLevel(d) /\ Counted(d) /\ Received(d) /\ Accounted(d))'
  BY DEF TypeOK, InLevel, Counted, Received, Accounted, MayBeOneMore, Levels,
         TTL, environment, cacheVars
<1> QED
  BY <1>1, <1>2, <1>3

\* The next attempt: there is one, or the call would not have backed off.
LEMMA RetryInv ==
    ASSUME Inv, NEW c \in Calls, Retry(c) PROVE Inv'
<1> USE RetriesAssumption, TimesAssumption, TokenAssumption
    DEF Inv, Retry, Goto
<1>1. TypeOK'
  <2>1. level[c] \in Levels /\ attempt[c][level[c]] < MaxRetries
    BY DEF TypeOK, Counted
  <2>2. attempt' \in [Calls -> [Levels -> 0..MaxRetries]]
    BY <2>1 DEF TypeOK
  <2> QED
    BY <2>2 DEF TypeOK, environment, cacheVars
<1>2. Stored'
  BY DEF Stored, environment, cacheVars
<1>3. ASSUME NEW d \in Calls
      PROVE (InLevel(d) /\ Counted(d) /\ Received(d) /\ Accounted(d))'
  BY DEF TypeOK, InLevel, Counted, Received, Accounted, MayBeOneMore, Levels,
         TTL, environment, cacheVars
<1> QED
  BY <1>1, <1>2, <1>3

\* The context ends the wait.
LEMMA BackoffCancelledInv ==
    ASSUME Inv, NEW c \in Calls, BackoffCancelled(c) PROVE Inv'
<1> USE RetriesAssumption, TimesAssumption, TokenAssumption
    DEF Inv, BackoffCancelled, Finish, Goto
<1>1. TypeOK'
  BY DEF TypeOK, environment, cacheVars, Levels, Results
<1>2. Stored'
  BY DEF Stored, environment, cacheVars
<1>3. ASSUME NEW d \in Calls
      PROVE (InLevel(d) /\ Counted(d) /\ Received(d) /\ Accounted(d))'
  BY DEF TypeOK, InLevel, Counted, Received, Accounted, MayBeOneMore, Levels,
         TTL, environment, cacheVars
<1> QED
  BY <1>1, <1>2, <1>3

\* The context is done.
LEMMA CancelInv ==
    ASSUME Inv, NEW c \in Calls, Cancel(c) PROVE Inv'
<1> USE RetriesAssumption, TimesAssumption, TokenAssumption
    DEF Inv, Cancel
<1>1. TypeOK'
  BY DEF TypeOK, environment, cacheVars, Levels, Results
<1>2. Stored'
  BY DEF Stored, environment, cacheVars
<1>3. ASSUME NEW d \in Calls
      PROVE (InLevel(d) /\ Counted(d) /\ Received(d) /\ Accounted(d))'
  BY DEF TypeOK, InLevel, Counted, Received, Accounted, MayBeOneMore, Levels,
         TTL, environment, cacheVars
<1> QED
  BY <1>1, <1>2, <1>3

\* Time passes: an answer on its way to the cache does not get older than Lag.
LEMMA TickInv == ASSUME Inv, Tick PROVE Inv'
<1> USE RetriesAssumption, TimesAssumption DEF Inv, Tick
<1>1. TypeOK'
  BY DEF TypeOK, cacheVars
<1>2. Stored'
  BY DEF Stored, cacheVars
<1>3. ASSUME NEW d \in Calls
      PROVE (InLevel(d) /\ Counted(d) /\ Received(d) /\ Accounted(d))'
  BY DEF TypeOK, InLevel, Counted, Received, Accounted, MayBeOneMore, Answers
<1> QED
  BY <1>1, <1>2, <1>3

\* A token is revoked: its expiry is not touched.
LEMMA RevokeInv == ASSUME Inv, NEW t \in Tokens, Revoke(t) PROVE Inv'
<1> USE DEF Inv, Revoke
<1>1. TypeOK'
  BY DEF TypeOK, cacheVars
<1>2. Stored'
  BY DEF Stored, cacheVars
<1>3. ASSUME NEW d \in Calls
      PROVE (InLevel(d) /\ Counted(d) /\ Received(d) /\ Accounted(d))'
  BY DEF InLevel, Counted, Received, Accounted, MayBeOneMore
<1> QED
  BY <1>1, <1>2, <1>3

\* Every step of the client, of the clock and of the platform keeps the
\* invariant.
LEMMA NextInv == Inv /\ [Next]_vars => Inv'
<1> SUFFICES ASSUME Inv, [Next]_vars PROVE Inv'
  OBVIOUS
<1>1. ASSUME NEW c \in Calls, Begin(c) \/ Cancel(c) PROVE Inv'
  BY <1>1, BeginInv, CancelInv
<1>2. ASSUME NEW c \in Calls, Step(c) PROVE Inv'
  BY <1>2, UseStaticInv, UseCachedInv, NoCredentialsInv, StartFetchInv,
     FetchAnsweredInv, FetchRefusedInv, FetchTransientInv, StoreTokenInv,
     SendPerformedInv, SendRefusedInv, SendTransientInv, RetryInv,
     BackoffCancelledInv
  DEF Step
<1>3. CASE Tick
  BY <1>3, TickInv
<1>4. ASSUME NEW t \in Tokens, Revoke(t) PROVE Inv'
  BY <1>4, RevokeInv
<1>5. CASE UNCHANGED vars
  BY <1>5 DEF vars, environment, cacheVars, Inv, TypeOK, Stored, InLevel,
              Counted, Received, Accounted, MayBeOneMore
<1> QED
  BY <1>1, <1>2, <1>3, <1>4, <1>5 DEF Next

\* The strengthened invariant holds throughout (doJSON and TenantToken).
THEOREM Invariance == Spec => []Inv
<1>1. Init => Inv
  BY InitInv
<1>2. Inv /\ [Next]_vars => Inv'
  BY NextInv
<1> QED
  BY <1>1, <1>2, PTL DEF Spec

-----------------------------------------------------------------------------
\* Fields and locals keep their types, and no loop of doJSON makes more
\* attempts than configured, for any number of calls and retries.
THEOREM TypeCorrect == Spec => []TypeOK
<1>1. Inv => TypeOK
  BY DEF Inv
<1> QED
  BY <1>1, Invariance, PTL

\* TenantToken never answers from the cache with a token whose time is over,
\* in whatever order the answers of concurrent fetches are stored, as long
\* as the way from the platform to the cache is within the margin.
THEOREM NoExpiredToken == Spec => []ServedTokenIsLive
<1>1. Inv => ServedTokenIsLive
  <2> SUFFICES ASSUME Inv, CacheHit PROVE now < expires[cachedToken]
    BY DEF ServedTokenIsLive
  <2>1. cachedToken \in Tokens /\ expires[cachedToken] \in Nat
    BY DEF Inv, CacheHit, TypeOK
  <2> QED
    BY <2>1, LagAssumption, TimesAssumption
    DEF Inv, Stored, CacheHit, TypeOK
<1> QED
  BY <1>1, Invariance, PTL

\* The effects of a call's request are at most its attempts, and a call that
\* succeeded had one, whatever happens to its answers (doJSON).
THEOREM EffectsAreAccounted == Spec => []EffectsAccounted
<1>1. Inv => EffectsAccounted
  <2> SUFFICES ASSUME Inv, NEW c \in Calls
               PROVE /\ applied[c] <= attempt[c]["call"]
                           + (IF pc[c] \in {"done", "backoff"} THEN 1 ELSE 0)
                     /\ result[c] = "ok" => applied[c] >= 1
    BY DEF EffectsAccounted
  <2>1. attempt[c]["call"] \in Nat /\ applied[c] \in Nat
    BY RetriesAssumption DEF Inv, TypeOK, Levels
  <2> QED
    BY <2>1 DEF Inv, Accounted, MayBeOneMore
<1> QED
  BY <1>1, Invariance, PTL
-----------------------------------------------------------------------------
(***************************************************************************)
(* Every step of a call lowers StepsLeft: within an attempt by             *)
(* StepsLeftInAttempt, and from one attempt to the next because an attempt *)
(* that is over has one step left, and a new one StepsOfAttempt.           *)
(***************************************************************************)
Attempts(c) == (MaxRetries - attempt[c]["call"]) * StepsOfAttempt

Advances(c) == StepsLeft(c)' \in 0..(StepsLeft(c) - 1)

\* The attempts that are left, in steps.
LEMMA AttemptsLeft ==
    ASSUME NEW a \in 0..MaxRetries
    PROVE  /\ StepsOfAttempt \in Nat
           /\ (MaxRetries - a) * StepsOfAttempt \in Nat
           /\ (MaxRetries - (a + 1)) * StepsOfAttempt =
                 (MaxRetries - a) * StepsOfAttempt - StepsOfAttempt
<1>1. MaxRetries \in Nat
  BY RetriesAssumption
<1>2. StepsOfAttempt \in Nat
  BY <1>1 DEF StepsOfAttempt
<1>3. PICK r \in Nat : r = MaxRetries - a
  BY <1>1
<1>4. r * StepsOfAttempt \in Nat
  BY <1>2
<1>5. (r - 1) * StepsOfAttempt = r * StepsOfAttempt - StepsOfAttempt
  BY <1>2
<1>6. MaxRetries - (a + 1) = r - 1
  BY <1>1, <1>3
<1> QED
  BY <1>2, <1>3, <1>4, <1>5, <1>6

LEMMA Counters ==
    ASSUME Inv, NEW c \in Calls
    PROVE  /\ attempt[c]["call"] \in 0..MaxRetries
           /\ attempt[c]["fetch"] \in 0..MaxRetries
           /\ MaxRetries \in Nat
BY RetriesAssumption DEF Inv, TypeOK, Levels

\* A call that is not done has steps left, in this attempt and in all.
LEMMA StepsAreLeft ==
    ASSUME Inv, NEW c \in Calls, pc[c] # "done"
    PROVE  /\ StepsLeftInAttempt(c) \in Nat \ {0}
           /\ Attempts(c) \in Nat
           /\ StepsLeft(c) = Attempts(c) + StepsLeftInAttempt(c)
<1>1. pc[c] \in {"acquire", "fetch", "received", "send", "backoff"}
  BY DEF Inv, TypeOK
<1>2. StepsLeftInAttempt(c) \in Nat \ {0}
  BY <1>1, Counters DEF StepsLeftInAttempt, StepsOfAttempt
<1>3. Attempts(c) \in Nat
  BY Counters, AttemptsLeft DEF Attempts
<1> QED
  BY <1>2, <1>3 DEF StepsLeft, Attempts

LEMMA EndAdvances ==
    ASSUME Inv, NEW c \in Calls, pc[c] # "done", pc'[c] = "done"
    PROVE  Advances(c)
<1>1. StepsLeft(c) \in Nat \ {0}
  BY StepsAreLeft
<1>2. StepsLeft(c)' = 0
  BY DEF StepsLeft
<1> QED
  BY <1>1, <1>2 DEF Advances

LEMMA FinishAdvances ==
    ASSUME Inv, NEW c \in Calls, pc[c] # "done", NEW r, Finish(c, r)
    PROVE  Advances(c)
<1>1. pc'[c] = "done"
  BY DEF Finish, Goto, Inv, TypeOK
<1> QED
  BY <1>1, EndAdvances

\* Within an attempt.
LEMMA MoveAdvances ==
    ASSUME Inv, Inv', NEW c \in Calls, pc[c] # "done", pc'[c] # "done",
           attempt'[c]["call"] = attempt[c]["call"],
           StepsLeftInAttempt(c)' < StepsLeftInAttempt(c)
    PROVE  Advances(c)
<1>1. /\ StepsLeftInAttempt(c) \in Nat \ {0} /\ Attempts(c) \in Nat
      /\ StepsLeft(c) = Attempts(c) + StepsLeftInAttempt(c)
  BY StepsAreLeft
<1>2. (Inv /\ pc[c] # "done" =>
        /\ StepsLeftInAttempt(c) \in Nat \ {0}
        /\ StepsLeft(c) = Attempts(c) + StepsLeftInAttempt(c))'
  BY StepsAreLeft, PTL
<1>3. Attempts(c)' = Attempts(c)
  BY DEF Attempts, StepsOfAttempt
<1> QED
  BY <1>1, <1>2, <1>3 DEF Advances

\* A request that was not answered: back off, or give up.
LEMMA TransientAdvances ==
    ASSUME Inv, Inv', NEW c \in Calls, pc[c] \in {"fetch", "send"},
           AfterTransient(c)
    PROVE  Advances(c)
<1>1. CASE \E r \in {"error"} : Finish(c, r)
  BY <1>1, FinishAdvances
<1>2. CASE Goto(c, "backoff") /\ UNCHANGED <<level, attempt>>
  <2>1. pc'[c] = "backoff" /\ level'[c] = level[c] /\ attempt'[c] = attempt[c]
    BY <1>2 DEF Goto, Inv, TypeOK
  <2>2. level[c] = IF pc[c] = "fetch" THEN "fetch" ELSE "call"
    BY DEF Inv, InLevel
  <2>3. StepsLeftInAttempt(c)' < StepsLeftInAttempt(c)
    BY <2>1, <2>2, Counters DEF StepsLeftInAttempt
  <2> QED
    BY <2>1, <2>3, MoveAdvances
<1> QED
  BY <1>1, <1>2 DEF AfterTransient

LEMMA AcquireAdvances ==
    ASSUME Inv, Inv', NEW c \in Calls,
           UseStatic(c) \/ UseCached(c) \/ NoCredentials(c) \/ StartFetch(c)
    PROVE  Advances(c)
<1>1. pc[c] = "acquire"
  BY DEF UseStatic, UseCached, UseToken, NoCredentials, StartFetch
<1>2. CASE NoCredentials(c)
  BY <1>1, <1>2, FinishAdvances DEF NoCredentials
<1>3. CASE UseStatic(c) \/ UseCached(c)
  <2>1. pc'[c] = "send" /\ attempt' = attempt
    BY <1>3 DEF UseStatic, UseCached, UseToken, Goto, Inv, TypeOK
  <2>2. StepsLeftInAttempt(c)' < StepsLeftInAttempt(c)
    BY <1>1, <2>1, Counters DEF StepsLeftInAttempt, StepsOfAttempt
  <2> QED
    BY <1>1, <2>1, <2>2, MoveAdvances
<1>4. CASE StartFetch(c)
  <2>1. pc'[c] = "fetch" /\ attempt' = attempt
    BY <1>4 DEF StartFetch, Goto, Inv, TypeOK
  <2>2. StepsLeftInAttempt(c)' < StepsLeftInAttempt(c)
    BY <1>1, <2>1, Counters DEF StepsLeftInAttempt, StepsOfAttempt
  <2> QED
    BY <1>1, <2>1, <2>2, MoveAdvances
<1> QED
  BY <1>2, <1>3, <1>4

LEMMA FetchAdvances ==
    ASSUME Inv, Inv', NEW c \in Calls,
           \/ FetchAnswered(c) \/ FetchRefused(c) \/ FetchTransient(c)
           \/ StoreToken(c)
    PROVE  Advances(c)
<1>1. CASE FetchAnswered(c)
  <2>1. pc[c] = "fetch" /\ pc'[c] = "received" /\ attempt' = attempt
    BY <1>1 DEF FetchAnswered, Goto, Inv, TypeOK
  <2>2. StepsLeftInAttempt(c)' < StepsLeftInAttempt(c)
    BY <2>1, Counters DEF StepsLeftInAttempt
  <2> QED
    BY <2>1, <2>2, MoveAdvances
<1>2. CASE FetchRefused(c)
  BY <1>2, FinishAdvances DEF FetchRefused
<1>3. CASE FetchTransient(c)
  BY <1>3, TransientAdvances DEF FetchTransient
<1>4. CASE StoreToken(c)
  <2>1. /\ pc[c] = "received" /\ pc'[c] = "send"
        /\ attempt'[c]["call"] = attempt[c]["call"]
    BY <1>4 DEF StoreToken, Goto, Inv, TypeOK, Levels
  <2>2. StepsLeftInAttempt(c)' < StepsLeftInAttempt(c)
    BY <2>1 DEF StepsLeftInAttempt
  <2> QED
    BY <2>1, <2>2, MoveAdvances
<1> QED
  BY <1>1, <1>2, <1>3, <1>4

LEMMA SendAdvances ==
    ASSUME Inv, Inv', NEW c \in Calls,
           SendPerformed(c) \/ SendRefused(c) \/ SendTransient(c)
    PROVE  Advances(c)
<1>1. pc[c] = "send"
  BY DEF SendPerformed, SendRefused, SendTransient
<1>2. CASE SendTransient(c)
  BY <1>1, <1>2, TransientAdvances DEF SendTransient
<1>3. CASE SendPerformed(c) \/ SendRefused(c)
  <2>1. \E r : Finish(c, r)
    BY <1>3 DEF SendPerformed, SendRefused
  <2> QED
    BY <1>1, <2>1, FinishAdvances
<1> QED
  BY <1>2, <1>3

\* The next attempt of the fetch is two steps nearer to the end of it; the
\* next attempt of the call has all its steps before it, which is what the
\* attempt that is over is worth.
LEMMA RetryAdvances ==
    ASSUME Inv, Inv', NEW c \in Calls, Retry(c) PROVE Advances(c)
<1> DEFINE a == attempt[c]["call"]
           f == attempt[c]["fetch"]
<1>1. /\ pc[c] = "backoff" /\ level[c] \in Levels
      /\ level' = level
      /\ pc'[c] = IF level[c] = "call" THEN "acquire" ELSE "fetch"
      /\ attempt[c][level[c]] < MaxRetries
      /\ \A l \in Levels : attempt'[c][l] = IF l = level[c]
                                            THEN attempt[c][l] + 1
                                            ELSE attempt[c][l]
  BY DEF Retry, Goto, Inv, TypeOK, Counted, Levels
<1>2. CASE level[c] = "fetch"
  <2>1. /\ attempt'[c]["call"] = a /\ attempt'[c]["fetch"] = f + 1
        /\ pc'[c] = "fetch"
    BY <1>1, <1>2 DEF Levels
  <2>2. f \in 0..MaxRetries /\ MaxRetries \in Nat
    BY Counters
  <2>3. StepsLeftInAttempt(c)' = 2 * (MaxRetries - (f + 1)) + 4
    BY <2>1 DEF StepsLeftInAttempt
  <2>4. StepsLeftInAttempt(c) = 2 * (MaxRetries - f) + 3
    BY <1>1, <1>2 DEF StepsLeftInAttempt
  <2>5. StepsLeftInAttempt(c)' < StepsLeftInAttempt(c)
    <3> HIDE DEF f
    <3> QED
      BY <2>2, <2>3, <2>4
  <2> QED
    BY <1>1, <2>1, <2>5, MoveAdvances
<1>3. CASE level[c] = "call"
  <2>1. attempt'[c]["call"] = a + 1 /\ pc'[c] = "acquire"
    BY <1>1, <1>3 DEF Levels
  <2>2. StepsLeft(c) = (MaxRetries - a) * StepsOfAttempt + 1
    BY <1>1, <1>3 DEF StepsLeft, StepsLeftInAttempt
  <2>3. StepsLeft(c)' = (MaxRetries - (a + 1)) * StepsOfAttempt + StepsOfAttempt
    BY <2>1 DEF StepsLeft, StepsLeftInAttempt, StepsOfAttempt
  <2>4. a \in 0..MaxRetries
    BY Counters
  <2>5. /\ StepsOfAttempt \in Nat
        /\ (MaxRetries - a) * StepsOfAttempt \in Nat
        /\ (MaxRetries - (a + 1)) * StepsOfAttempt =
              (MaxRetries - a) * StepsOfAttempt - StepsOfAttempt
    BY <2>4, AttemptsLeft
  <2>6. StepsLeft(c)' = StepsLeft(c) - 1 /\ StepsLeft(c)' \in Nat
    BY <2>2, <2>3, <2>5
  <2> QED
    BY <2>2, <2>5, <2>6 DEF Advances
<1> QED
  BY <1>1, <1>2, <1>3 DEF Levels

LEMMA StepAdvances ==
    ASSUME Inv, Inv', NEW c \in Calls, Step(c) PROVE Advances(c)
<1>1. CASE BackoffCancelled(c)
  BY <1>1, FinishAdvances DEF BackoffCancelled
<1> QED
  BY <1>1, AcquireAdvances, FetchAdvances, SendAdvances, RetryAdvances DEF Step

\* A step of one call leaves the others where they are.
LEMMA OthersStay ==
    ASSUME Inv, NEW c \in Calls, Begin(c) \/ Step(c) \/ Cancel(c),
           NEW d \in Calls, d # c
    PROVE  UNCHANGED <<pc[d], level[d], attempt[d]>>
<1> USE DEF Inv, TypeOK, Goto, Finish
<1>1. CASE Begin(c) \/ Cancel(c)
  BY <1>1 DEF Begin, Cancel
<1>2. CASE UseStatic(c) \/ UseCached(c) \/ NoCredentials(c) \/ StartFetch(c)
  BY <1>2 DEF UseStatic, UseCached, UseToken, NoCredentials, StartFetch
<1>3. CASE FetchAnswered(c) \/ FetchRefused(c) \/ StoreToken(c)
  BY <1>3 DEF FetchAnswered, FetchRefused, StoreToken
<1>4. CASE FetchTransient(c) \/ SendTransient(c)
  BY <1>4 DEF FetchTransient, SendTransient, AfterTransient
<1>5. CASE SendPerformed(c) \/ SendRefused(c) \/ Retry(c) \/ BackoffCancelled(c)
  BY <1>5 DEF SendPerformed, SendRefused, Retry, BackoffCancelled
<1> QED
  BY <1>1, <1>2, <1>3, <1>4, <1>5 DEF Step

\* A call is over after (MaxRetries + 1) * (2 * MaxRetries + 5) steps of its
\* own, token fetches and their retries included (doJSON, TenantToken).
THEOREM CallsAreBounded == Spec => CallsAdvance
<1>1. ASSUME Inv, Inv', [Next]_vars, NEW d \in Calls, pc[d] # "done"
      PROVE  \/ UNCHANGED <<pc[d], level[d], attempt[d]>>
             \/ StepsLeft(d)' \in 0..(StepsLeft(d) - 1)
  <2>1. ASSUME NEW c \in Calls, Begin(c) \/ Step(c) \/ Cancel(c)
        PROVE  \/ UNCHANGED <<pc[d], level[d], attempt[d]>>
               \/ Advances(d)
    <3>1. CASE d # c
      BY <1>1, <2>1, <3>1, OthersStay
    <3>2. CASE d = c /\ Step(c)
      BY <1>1, <3>2, StepAdvances
    <3>3. CASE d = c /\ Cancel(c)
      BY <3>3 DEF Cancel
    <3>4. ~Begin(d)
      BY <1>1 DEF Begin
    <3> QED
      BY <2>1, <3>1, <3>2, <3>3, <3>4
  <2>2. CASE Tick \/ (\E t \in Tokens : Revoke(t)) \/ UNCHANGED vars
    BY <2>2 DEF Tick, Revoke, vars
  <2> QED
    BY <1>1, <2>1, <2>2 DEF Next, Advances
<1>2. Inv /\ Inv' /\ [Next]_vars =>
        [\A c \in Calls : pc[c] # "done" =>
            \/ UNCHANGED <<pc[c], level[c], attempt[c]>>
            \/ StepsLeft(c)' \in 0..(StepsLeft(c) - 1)]_vars
  BY <1>1
<1> QED
  BY <1>2, Invariance, PTL DEF Spec, CallsAdvance
=============================================================================
