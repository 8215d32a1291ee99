------------------------- MODULE UserTokenRefresher -------------------------
(***************************************************************************)
(* internal/feishu/oauth_token.go and token_source.go: user access tokens. *)
(* A tool call that names a credential reads it from the token store and,  *)
(* when it has expired, refreshes it under a mutex of the credential: read *)
(* again, check again, ask the platform, save.  The refresh token sent is  *)
(* one the platform may replace, and then never accepts again.             *)
(*                                                                         *)
(* The store's Get and Save are atomic and may fail: FileTokenStore, used  *)
(* by one process, implements CredentialMap.  Tokens of a credential are   *)
(* numbers in the order of issue; 0 is the empty string.                   *)
(***************************************************************************)
EXTENDS Naturals

CONSTANTS
    Callers,    \* tool calls running at once in the process
    Ids,        \* credential IDs
    MaxIssued,  \* bound: tokens the platform issues for a credential
    Absent,     \* no credential stored under an ID
    Free        \* an unlocked mutex

ASSUME BoundAssumption == MaxIssued \in Nat \ {0}
ASSUME FreeAssumption == Free \notin Callers

Numbers  == 0..MaxIssued
Bindings == [access : Numbers, refresh : Numbers]

ASSUME AbsentAssumption == Absent \notin Bindings

VARIABLES
    stored,     \* the token store: the binding under each ID
    locks,      \* UserTokenRefresher.locks: holder of each ID's mutex
    pc,         \* where each call is
    id,         \* the credential it asked for
    binding,    \* its local binding
    result,     \* how it ended
    issued,     \* platform: last token issued for each credential
    accepted,   \* platform: the refresh token it takes
    lapsed,     \* access tokens whose ExpiresAt is zero or has passed
    spilled     \* credentials whose new refresh token never reached the store

platformVars == <<issued, accepted, lapsed>>
vars == <<stored, locks, pc, id, binding, result, platformVars, spilled>>

NoBinding == [access |-> 0, refresh |-> 0]

\* What an earlier login left in the store, perhaps without one of the tokens.
Init ==
    /\ stored \in [Ids -> {Absent, [access |-> 1, refresh |-> 1],
                           [access |-> 1, refresh |-> 0],
                           [access |-> 0, refresh |-> 1]}]
    /\ locks = [i \in Ids |-> Free]
    /\ pc = [c \in Callers |-> "idle"]
    /\ id \in [Callers -> Ids]
    /\ binding = [c \in Callers |-> NoBinding]
    /\ result = [c \in Callers |-> "none"]
    /\ issued = [i \in Ids |-> 1]
    /\ accepted = [i \in Ids |-> 1]
    /\ lapsed \in [Ids -> SUBSET {0, 1}]
    /\ spilled = {}

\* CredentialBinding.IsExpired
IsExpired(i, b) == b.access \in lapsed[i]

Goto(c, to) == pc' = [pc EXCEPT ![c] = to]

Return(c, r) ==
    /\ Goto(c, "idle")
    /\ result' = [result EXCEPT ![c] = r]
    /\ binding' = [binding EXCEPT ![c] = NoBinding]

\* Token returns the binding's access token, if there is one.
Deliver(c, b) == Return(c, IF b.access = 0 THEN "error" ELSE "token")

Unlock(c) == locks' = [locks EXCEPT ![id[c]] = Free]

\* A refreshed binding is lost; it matters when its refresh token was new.
Spill(is) ==
    spilled' = spilled \cup {i \in is : stored[i] # Absent
                                         /\ stored[i].refresh # accepted'[i]}

Begin(c) ==
    /\ pc[c] = "idle"
    /\ \E i \in Ids : id' = [id EXCEPT ![c] = i]
    /\ Goto(c, "get")
    /\ result' = [result EXCEPT ![c] = "none"]
    /\ UNCHANGED <<stored, locks, binding, platformVars, spilled>>

\* The first Get, with no lock held: an unexpired token is used as it is.
FirstGet(c) ==
    /\ pc[c] = "get"
    /\ stored[id[c]] # Absent
    /\ IF IsExpired(id[c], stored[id[c]])
       THEN Goto(c, "want") /\ UNCHANGED <<binding, result>>
       ELSE Deliver(c, stored[id[c]])
    /\ UNCHANGED <<stored, locks, id, platformVars, spilled>>

\* Nothing under the ID, or the store fails: the first time ...
FirstGetFails(c) ==
    /\ pc[c] = "get"
    /\ Return(c, "error")
    /\ UNCHANGED <<stored, locks, id, platformVars, spilled>>

\* Mutant: every call has a mutex of its own.
LockAnother(c) ==
    /\ pc[c] = "want"
    /\ locks' = [locks EXCEPT ![id[c]] = c]
    /\ Goto(c, "recheck")
    /\ UNCHANGED <<stored, id, binding, result, platformVars, spilled>>

\* lockFor gives every call the same mutex for the same ID.
Lock(c) ==
    /\ pc[c] = "want"
    /\ locks[id[c]] = Free
    /\ locks' = [locks EXCEPT ![id[c]] = c]
    /\ Goto(c, "recheck")
    /\ UNCHANGED <<stored, id, binding, result, platformVars, spilled>>

\* Mutant: what was found before the mutex was taken is not checked again.
SecondGetUnchecked(c) ==
    /\ pc[c] = "recheck"
    /\ stored[id[c]] # Absent
    /\ binding' = [binding EXCEPT ![c] = stored[id[c]]]
    /\ Goto(c, "ask")
    /\ UNCHANGED <<stored, locks, id, result, platformVars, spilled>>

\* The second Get: another call may have refreshed in the meantime.
SecondGet(c) ==
    /\ pc[c] = "recheck"
    /\ stored[id[c]] # Absent
    /\ IF IsExpired(id[c], stored[id[c]])
       THEN /\ binding' = [binding EXCEPT ![c] = stored[id[c]]]
            /\ Goto(c, "ask")
            /\ UNCHANGED <<locks, result>>
       ELSE Deliver(c, stored[id[c]]) /\ Unlock(c)
    /\ UNCHANGED <<stored, id, platformVars, spilled>>

\* ... and the second.
SecondGetFails(c) ==
    /\ pc[c] = "recheck"
    /\ Return(c, "error")
    /\ Unlock(c)
    /\ UNCHANGED <<stored, id, platformVars, spilled>>

\* The platform takes the refresh token and issues an access token, which it
\* may replace the refresh token with, and which may lapse at once when the
\* answer gives no lifetime.
Issue(c, rotate, dead) ==
    LET i == id[c]
        n == issued[i] + 1
    IN  /\ binding[c].refresh # 0
        /\ binding[c].refresh = accepted[i]
        /\ n <= MaxIssued
        /\ issued' = [issued EXCEPT ![i] = n]
        /\ accepted' = [accepted EXCEPT ![i] = IF rotate THEN n ELSE @]
        /\ lapsed' = [lapsed EXCEPT ![i] = IF dead THEN @ \cup {n} ELSE @]

\* Mutant: the binding keeps the refresh token it was refreshed with.
RefreshKeepsToken(c) ==
    /\ pc[c] = "ask"
    /\ \E rotate, dead \in BOOLEAN : Issue(c, rotate, dead)
    /\ binding' = [binding EXCEPT ![c].access = issued'[id[c]]]
    /\ Goto(c, "save")
    /\ UNCHANGED <<stored, locks, id, result, spilled>>

\* RefreshUserToken: the answer's tokens replace those of the binding, and
\* a missing refresh token leaves the old one.
Refresh(c) ==
    /\ pc[c] = "ask"
    /\ \E rotate, dead \in BOOLEAN : Issue(c, rotate, dead)
    /\ binding' = [binding EXCEPT ![c] =
           [access |-> issued'[id[c]], refresh |-> accepted'[id[c]]]]
    /\ Goto(c, "save")
    /\ UNCHANGED <<stored, locks, id, result, spilled>>

\* The platform refreshed, but the answer is lost, late or undecodable.
RefreshLost(c) ==
    /\ pc[c] = "ask"
    /\ \E rotate, dead \in BOOLEAN : Issue(c, rotate, dead)
    /\ Return(c, "error")
    /\ Unlock(c)
    /\ Spill({id[c]})
    /\ UNCHANGED <<stored, id>>

\* No refresh token, or the platform refuses or is not reached.
RefreshFails(c) ==
    /\ pc[c] = "ask"
    /\ Return(c, "error")
    /\ Unlock(c)
    /\ UNCHANGED <<stored, id, platformVars, spilled>>

Save(c) ==
    /\ pc[c] = "save"
    /\ stored' = [stored EXCEPT ![id[c]] = binding[c]]
    /\ Deliver(c, binding[c])
    /\ Unlock(c)
    /\ UNCHANGED <<id, platformVars, spilled>>

\* Mutant: the error path does not unlock.
SaveFailsLocked(c) ==
    /\ pc[c] = "save"
    /\ Return(c, "error")
    /\ UNCHANGED <<stored, locks, id, platformVars>>
    /\ Spill({id[c]})

\* The refreshed binding is dropped with the error.
SaveFails(c) ==
    /\ pc[c] = "save"
    /\ Return(c, "error")
    /\ Unlock(c)
    /\ UNCHANGED <<stored, id, platformVars>>
    /\ Spill({id[c]})

\* The process dies: cmd/feishu-doc-mcp-http-server does not wait for the
\* calls in flight, and the mutexes are memory.
Crash ==
    /\ pc' = [c \in Callers |-> "idle"]
    /\ binding' = [c \in Callers |-> NoBinding]
    /\ result' = [c \in Callers |-> "none"]
    /\ locks' = [i \in Ids |-> Free]
    /\ UNCHANGED <<stored, id, platformVars>>
    /\ Spill({id[c] : c \in {d \in Callers : pc[d] = "save"}})

\* Time passes.
Lapse(i, n) ==
    /\ n <= issued[i]
    /\ n \notin lapsed[i]
    /\ lapsed' = [lapsed EXCEPT ![i] = @ \cup {n}]
    /\ UNCHANGED <<stored, locks, pc, id, binding, result, issued, accepted,
                   spilled>>

Step(c) ==
    \/ FirstGet(c) \/ FirstGetFails(c)
    \/ SecondGet(c) \/ SecondGetFails(c)
    \/ Refresh(c) \/ RefreshLost(c) \/ RefreshFails(c)
    \/ Save(c) \/ SaveFails(c)

Next ==
    \/ \E c \in Callers : Begin(c) \/ Lock(c) \/ Step(c)
    \/ Crash
    \/ \E i \in Ids, n \in Numbers : Lapse(i, n)

Spec == Init /\ [][Next]_vars

\* The store and the platform answer or time out; sync.Mutex starves nobody.
FairSpec == Spec /\ \A c \in Callers : WF_vars(Step(c)) /\ SF_vars(Lock(c))

-----------------------------------------------------------------------------
\* Locals and the locks map keep their types.
TypeOK ==
    /\ stored \in [Ids -> Bindings \cup {Absent}]
    /\ locks \in [Ids -> Callers \cup {Free}]
    /\ pc \in [Callers -> {"idle", "get", "want", "recheck", "ask", "save"}]
    /\ id \in [Callers -> Ids]
    /\ binding \in [Callers -> Bindings]
    /\ result \in [Callers -> {"none", "token", "error"}]
    /\ issued \in [Ids -> Numbers]
    /\ accepted \in [Ids -> Numbers]
    /\ lapsed \in [Ids -> SUBSET Numbers]
    /\ spilled \subseteq Ids

Holding(c) == pc[c] \in {"recheck", "ask", "save"}

\* A credential's mutex is held exactly by the call for it that is between
\* Lock and Unlock, wherever a return, an error or a crash takes it: a mutex
\* held by a call that has returned would stop every later call, and two
\* calls inside would spend one refresh token (Credential, lines 43-58).
HeldInside ==
    \A i \in Ids, c \in Callers : locks[i] = c <=> Holding(c) /\ id[c] = i

\* The platform is asked for a new token only while the one in the store has
\* lapsed: of the calls that found it expired, only the first refreshes it,
\* the others find the new one in the store (Credential, lines 43-57).
RefreshOnlyLapsed ==
    [][\A i \in Ids : issued'[i] # issued[i] =>
          stored[i] # Absent /\ stored[i].access \in lapsed[i]]_vars

\* What is saved is newer than what it replaces: no call overwrites a
\* refreshed credential with an older one (Credential, lines 47-58).
StoredOnlyNewer ==
    [][\A i \in Ids : stored'[i] # stored[i] =>
          /\ stored[i] # Absent
          /\ stored'[i].access > stored[i].access]_stored

\* The store holds the refresh token the platform accepts, except while the
\* call that refreshed has yet to save; only a lost answer, a failed Save or
\* a crash in between can leave a credential that will never refresh again
\* (RefreshUserToken, lines 162-166, and Credential, line 58).
StoredRefreshes ==
    \A i \in Ids \ spilled :
        stored[i] # Absent /\ stored[i].refresh # 0 =>
            \/ stored[i].refresh = accepted[i]
            \/ \E c \in Callers : pc[c] = "save" /\ id[c] = i

\* A call for a credential returns, however many wait for the same mutex and
\* whatever fails (Credential, lines 31-62).
EveryCallReturns ==
    \A c \in Callers : (pc[c] # "idle") ~> (pc[c] = "idle")
=============================================================================
