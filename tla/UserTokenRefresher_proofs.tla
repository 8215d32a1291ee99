---------------------- MODULE UserTokenRefresher_proofs ----------------------
(***************************************************************************)
(* Proofs about UserTokenRefresher, for any set of calls and credentials.  *)
(*                                                                         *)
(* The inductive invariant rests on the mutex of a credential: a call      *)
(* between Lock and Unlock is its holder (Owner), so nobody else changes   *)
(* the stored binding it has read (Asking) or the tokens the platform gave *)
(* it and it has yet to save (Saving).                                     *)
(***************************************************************************)
EXTENDS UserTokenRefresher, TLAPS

Known(i) == stored[i] # Absent => stored[i].access <= issued[i]

Refreshes(i) ==
    i \notin spilled /\ stored[i] # Absent /\ stored[i].refresh # 0 =>
        \/ stored[i].refresh = accepted[i]
        \/ \E c \in Callers : pc[c] = "save" /\ id[c] = i

Owner(c) == Holding(c) => locks[id[c]] = c

Asking(c) ==
    pc[c] = "ask" =>
        /\ stored[id[c]] # Absent
        /\ binding[c] = stored[id[c]]
        /\ binding[c].access \in lapsed[id[c]]

Saving(c) ==
    pc[c] = "save" =>
        /\ stored[id[c]] # Absent
        /\ stored[id[c]].access < binding[c].access
        /\ binding[c].access <= issued[id[c]]
        /\ binding[c].refresh = accepted[id[c]]

Inv ==
    /\ TypeOK
    /\ \A i \in Ids : Known(i) /\ Refreshes(i)
    /\ \A c \in Callers : Owner(c) /\ Asking(c) /\ Saving(c)

-----------------------------------------------------------------------------
\* The invariant holds for every store an earlier login may have left.
LEMMA InitInv == Init => Inv
<1> SUFFICES ASSUME Init PROVE Inv
  OBVIOUS
<1> USE BoundAssumption, AbsentAssumption DEF Init
<1>1. TypeOK
  BY DEF TypeOK, Bindings, Numbers, NoBinding
<1>2. ASSUME NEW i \in Ids PROVE Known(i) /\ Refreshes(i)
  BY DEF Known, Refreshes
<1>3. ASSUME NEW c \in Callers PROVE Owner(c) /\ Asking(c) /\ Saving(c)
  BY DEF Owner, Holding, Asking, Saving
<1> QED
  BY <1>1, <1>2, <1>3 DEF Inv

\* A call begins, for any credential.
LEMMA BeginInv ==
    ASSUME Inv, NEW c \in Callers, Begin(c) PROVE Inv'
<1> USE BoundAssumption, FreeAssumption, AbsentAssumption
    DEF Inv, Begin, Goto, platformVars
<1>1. TypeOK'
  BY DEF TypeOK, Bindings, Numbers, NoBinding
<1>2. ASSUME NEW i \in Ids PROVE (Known(i) /\ Refreshes(i))'
  BY DEF TypeOK, Bindings, Numbers, Known, Refreshes, Owner, Holding, Asking,
         Saving
<1>3. ASSUME NEW d \in Callers PROVE (Owner(d) /\ Asking(d) /\ Saving(d))'
  BY DEF TypeOK, Bindings, Numbers, Known, Owner, Holding, Asking, Saving
<1> QED
  BY <1>1, <1>2, <1>3

\* The stored token is used, or the call turns to the mutex.
LEMMA FirstGetInv ==
    ASSUME Inv, NEW c \in Callers, FirstGet(c) PROVE Inv'
<1> USE BoundAssumption, FreeAssumption, AbsentAssumption
    DEF Inv, FirstGet, Goto, Deliver, Return, IsExpired, platformVars
<1>1. TypeOK'
  <2>1. CASE stored[id[c]].access \in lapsed[id[c]]
    BY <2>1 DEF TypeOK, Bindings
  <2>2. CASE stored[id[c]].access \notin lapsed[id[c]]
    <3>1. result' \in [Callers -> {"none", "token", "error"}]
      BY <2>2 DEF TypeOK
    <3>2. binding' \in [Callers -> Bindings]
      BY <2>2 DEF TypeOK, NoBinding, Bindings, Numbers
    <3> QED
      BY <2>2, <3>1, <3>2 DEF TypeOK
  <2> QED
    BY <2>1, <2>2
<1>2. ASSUME NEW i \in Ids PROVE (Known(i) /\ Refreshes(i))'
  BY DEF TypeOK, Bindings, Numbers, Known, Refreshes, Owner, Holding, Asking,
         Saving
<1>3. ASSUME NEW d \in Callers PROVE (Owner(d) /\ Asking(d) /\ Saving(d))'
  BY DEF TypeOK, Bindings, Numbers, Known, Owner, Holding, Asking, Saving
<1> QED
  BY <1>1, <1>2, <1>3

\* The store fails.
LEMMA FirstGetFailsInv ==
    ASSUME Inv, NEW c \in Callers, FirstGetFails(c) PROVE Inv'
<1> USE BoundAssumption, FreeAssumption, AbsentAssumption
    DEF Inv, FirstGetFails, Goto, Return, platformVars
<1>1. TypeOK'
  BY DEF TypeOK, Bindings, Numbers, NoBinding
<1>2. ASSUME NEW i \in Ids PROVE (Known(i) /\ Refreshes(i))'
  BY DEF TypeOK, Bindings, Numbers, Known, Refreshes, Owner, Holding, Asking,
         Saving
<1>3. ASSUME NEW d \in Callers PROVE (Owner(d) /\ Asking(d) /\ Saving(d))'
  BY DEF TypeOK, Bindings, Numbers, Known, Owner, Holding, Asking, Saving
<1> QED
  BY <1>1, <1>2, <1>3

\* The mutex is taken: no other call holds it.
LEMMA LockInv ==
    ASSUME Inv, NEW c \in Callers, Lock(c) PROVE Inv'
<1> USE BoundAssumption, FreeAssumption, AbsentAssumption
    DEF Inv, Lock, Goto, platformVars
<1>1. TypeOK'
  BY DEF TypeOK, Bindings, Numbers, NoBinding
<1>2. ASSUME NEW i \in Ids PROVE (Known(i) /\ Refreshes(i))'
  BY DEF TypeOK, Bindings, Numbers, Known, Refreshes, Owner, Holding, Asking,
         Saving
<1>3. ASSUME NEW d \in Callers PROVE (Owner(d) /\ Asking(d) /\ Saving(d))'
  BY DEF TypeOK, Bindings, Numbers, Known, Owner, Holding, Asking, Saving
<1> QED
  BY <1>1, <1>2, <1>3

\* The binding is read again under the mutex.
LEMMA SecondGetInv ==
    ASSUME Inv, NEW c \in Callers, SecondGet(c) PROVE Inv'
<1> USE BoundAssumption, FreeAssumption, AbsentAssumption
    DEF Inv, SecondGet, Goto, Deliver, Return, Unlock, IsExpired, platformVars
<1>1. TypeOK'
  <2>1. CASE stored[id[c]].access \in lapsed[id[c]]
    BY <2>1 DEF TypeOK, Bindings
  <2>2. CASE stored[id[c]].access \notin lapsed[id[c]]
    <3>1. result' \in [Callers -> {"none", "token", "error"}]
      BY <2>2 DEF TypeOK
    <3>2. binding' \in [Callers -> Bindings]
      BY <2>2 DEF TypeOK, NoBinding, Bindings, Numbers
    <3> QED
      BY <2>2, <3>1, <3>2 DEF TypeOK
  <2> QED
    BY <2>1, <2>2
<1>2. ASSUME NEW i \in Ids PROVE (Known(i) /\ Refreshes(i))'
  BY DEF TypeOK, Bindings, Numbers, Known, Refreshes, Owner, Holding, Asking,
         Saving
<1>3. ASSUME NEW d \in Callers PROVE (Owner(d) /\ Asking(d) /\ Saving(d))'
  BY DEF TypeOK, Bindings, Numbers, Known, Owner, Holding, Asking, Saving
<1> QED
  BY <1>1, <1>2, <1>3

\* The store fails under the mutex.
LEMMA SecondGetFailsInv ==
    ASSUME Inv, NEW c \in Callers, SecondGetFails(c) PROVE Inv'
<1> USE BoundAssumption, FreeAssumption, AbsentAssumption
    DEF Inv, SecondGetFails, Goto, Return, Unlock, platformVars
<1>1. TypeOK'
  BY DEF TypeOK, Bindings, Numbers, NoBinding
<1>2. ASSUME NEW i \in Ids PROVE (Known(i) /\ Refreshes(i))'
  BY DEF TypeOK, Bindings, Numbers, Known, Refreshes, Owner, Holding, Asking,
         Saving
<1>3. ASSUME NEW d \in Callers PROVE (Owner(d) /\ Asking(d) /\ Saving(d))'
  BY DEF TypeOK, Bindings, Numbers, Known, Owner, Holding, Asking, Saving
<1> QED
  BY <1>1, <1>2, <1>3

\* The platform issues a token newer than the stored one.
LEMMA RefreshInv ==
    ASSUME Inv, NEW c \in Callers, Refresh(c) PROVE Inv'
<1> USE BoundAssumption, FreeAssumption, AbsentAssumption
    DEF Inv, Refresh, Goto, Issue, platformVars
<1>1. TypeOK'
  BY DEF TypeOK, Bindings, Numbers, NoBinding
<1>2. ASSUME NEW i \in Ids PROVE (Known(i) /\ Refreshes(i))'
  BY DEF TypeOK, Bindings, Numbers, Known, Refreshes, Owner, Holding, Asking,
         Saving
<1>3. ASSUME NEW d \in Callers PROVE (Owner(d) /\ Asking(d) /\ Saving(d))'
  BY DEF TypeOK, Bindings, Numbers, Known, Owner, Holding, Asking, Saving
<1> QED
  BY <1>1, <1>2, <1>3

\* The platform issues a token nobody receives.
LEMMA RefreshLostInv ==
    ASSUME Inv, NEW c \in Callers, RefreshLost(c) PROVE Inv'
<1> USE BoundAssumption, FreeAssumption, AbsentAssumption
    DEF Inv, RefreshLost, Goto, Return, Unlock, Issue, Spill, platformVars
<1>1. TypeOK'
  BY DEF TypeOK, Bindings, Numbers, NoBinding
<1>2. ASSUME NEW i \in Ids PROVE (Known(i) /\ Refreshes(i))'
  BY DEF TypeOK, Bindings, Numbers, Known, Refreshes, Owner, Holding, Asking,
         Saving
<1>3. ASSUME NEW d \in Callers PROVE (Owner(d) /\ Asking(d) /\ Saving(d))'
  BY DEF TypeOK, Bindings, Numbers, Known, Owner, Holding, Asking, Saving
<1> QED
  BY <1>1, <1>2, <1>3

\* The platform issues nothing.
LEMMA RefreshFailsInv ==
    ASSUME Inv, NEW c \in Callers, RefreshFails(c) PROVE Inv'
<1> USE BoundAssumption, FreeAssumption, AbsentAssumption
    DEF Inv, RefreshFails, Goto, Return, Unlock, platformVars
<1>1. TypeOK'
  BY DEF TypeOK, Bindings, Numbers, NoBinding
<1>2. ASSUME NEW i \in Ids PROVE (Known(i) /\ Refreshes(i))'
  BY DEF TypeOK, Bindings, Numbers, Known, Refreshes, Owner, Holding, Asking,
         Saving
<1>3. ASSUME NEW d \in Callers PROVE (Owner(d) /\ Asking(d) /\ Saving(d))'
  BY DEF TypeOK, Bindings, Numbers, Known, Owner, Holding, Asking, Saving
<1> QED
  BY <1>1, <1>2, <1>3

\* The new binding replaces the one it was made from.
LEMMA SaveInv ==
    ASSUME Inv, NEW c \in Callers, Save(c) PROVE Inv'
<1> USE BoundAssumption, FreeAssumption, AbsentAssumption
    DEF Inv, Save, Goto, Deliver, Return, Unlock, platformVars
<1>1. TypeOK'
  BY DEF TypeOK, Bindings, Numbers, NoBinding
<1>2. ASSUME NEW i \in Ids PROVE (Known(i) /\ Refreshes(i))'
  BY DEF TypeOK, Bindings, Numbers, Known, Refreshes, Owner, Holding, Asking,
         Saving
<1>3. ASSUME NEW d \in Callers PROVE (Owner(d) /\ Asking(d) /\ Saving(d))'
  BY DEF TypeOK, Bindings, Numbers, Known, Owner, Holding, Asking, Saving
<1> QED
  BY <1>1, <1>2, <1>3

\* The new binding is lost.
LEMMA SaveFailsInv ==
    ASSUME Inv, NEW c \in Callers, SaveFails(c) PROVE Inv'
<1> USE BoundAssumption, FreeAssumption, AbsentAssumption
    DEF Inv, SaveFails, Goto, Return, Unlock, Spill, platformVars
<1>1. TypeOK'
  BY DEF TypeOK, Bindings, Numbers, NoBinding
<1>2. ASSUME NEW i \in Ids PROVE (Known(i) /\ Refreshes(i))'
  BY DEF TypeOK, Bindings, Numbers, Known, Refreshes, Owner, Holding, Asking,
         Saving
<1>3. ASSUME NEW d \in Callers PROVE (Owner(d) /\ Asking(d) /\ Saving(d))'
  BY DEF TypeOK, Bindings, Numbers, Known, Owner, Holding, Asking, Saving
<1> QED
  BY <1>1, <1>2, <1>3

\* The process dies: what was refreshed and not saved is spilled.
LEMMA CrashInv == ASSUME Inv, Crash PROVE Inv'
<1> USE DEF Inv, Crash, Spill, platformVars
<1>1. TypeOK'
  BY BoundAssumption DEF TypeOK, Bindings, Numbers, NoBinding
<1>2. ASSUME NEW i \in Ids PROVE (Known(i) /\ Refreshes(i))'
  BY DEF Known, Refreshes
<1>3. ASSUME NEW d \in Callers PROVE (Owner(d) /\ Asking(d) /\ Saving(d))'
  BY DEF Owner, Holding, Asking, Saving
<1> QED
  BY <1>1, <1>2, <1>3

\* An access token lapses.
LEMMA LapseInv ==
    ASSUME Inv, NEW i \in Ids, NEW n \in Numbers, Lapse(i, n) PROVE Inv'
<1> USE DEF Inv, Lapse
<1>1. TypeOK'
  BY DEF TypeOK
<1>2. ASSUME NEW j \in Ids PROVE (Known(j) /\ Refreshes(j))'
  BY DEF Known, Refreshes
<1>3. ASSUME NEW d \in Callers PROVE (Owner(d) /\ Asking(d) /\ Saving(d))'
  BY DEF TypeOK, Owner, Holding, Asking, Saving
<1> QED
  BY <1>1, <1>2, <1>3

\* Every step of the calls, the platform and the clock keeps the invariant.
LEMMA NextInv == Inv /\ [Next]_vars => Inv'
<1> SUFFICES ASSUME Inv, [Next]_vars PROVE Inv'
  OBVIOUS
<1>1. ASSUME NEW c \in Callers, Begin(c) \/ Lock(c) PROVE Inv'
  BY <1>1, BeginInv, LockInv
<1>2. ASSUME NEW c \in Callers, Step(c) PROVE Inv'
  BY <1>2, FirstGetInv, FirstGetFailsInv, SecondGetInv, SecondGetFailsInv,
     RefreshInv, RefreshLostInv, RefreshFailsInv, SaveInv, SaveFailsInv
  DEF Step
<1>3. CASE Crash
  BY <1>3, CrashInv
<1>4. ASSUME NEW i \in Ids, NEW n \in Numbers, Lapse(i, n) PROVE Inv'
  BY <1>4, LapseInv
<1>5. CASE UNCHANGED vars
  BY <1>5 DEF vars, platformVars, Inv, TypeOK, Known, Refreshes, Owner,
              Holding, Asking, Saving
<1> QED
  BY <1>1, <1>2, <1>3, <1>4, <1>5 DEF Next

-----------------------------------------------------------------------------
(***************************************************************************)
(* The other direction of Owner: nobody holds a mutex from outside.        *)
(***************************************************************************)
Inside == \A i \in Ids, c \in Callers : locks[i] = c => Holding(c) /\ id[c] = i

LEMMA InitInside == Init => Inside
BY FreeAssumption DEF Init, Inside

\* A step that moves a call takes, keeps or gives back its own mutex, and
\* by Owner no other's.
LEMMA MoveInside ==
    ASSUME Inv, Inside, NEW c \in Callers, NEW to, Goto(c, to),
           \A d \in Callers \ {c} : id'[d] = id[d],
           \/ to \in {"recheck", "ask", "save"} /\ UNCHANGED <<locks, id>>
           \/ to \in {"get", "want", "idle"} /\ ~Holding(c) /\ UNCHANGED locks
           \/ Holding(c) /\ Unlock(c) /\ UNCHANGED id
           \/ to = "recheck" /\ locks' = [locks EXCEPT ![id[c]] = c] /\ UNCHANGED id
    PROVE  Inside'
<1> USE DEF Inv, TypeOK, Goto
<1> SUFFICES ASSUME NEW i \in Ids, NEW d \in Callers, locks'[i] = d
             PROVE  Holding(d)' /\ id'[d] = i
  BY DEF Inside
<1>1. CASE d = c
  BY <1>1, FreeAssumption DEF Inside, Holding, Unlock
<1>2. CASE d # c
  <2>1. locks[i] = d
    BY <1>2, FreeAssumption DEF Unlock
  <2> QED
    BY <1>2, <2>1 DEF Inside, Holding
<1> QED
  BY <1>1, <1>2

\* Every return of Credential after Lock unlocks, and none before it.
LEMMA NextInside == Inv /\ Inside /\ [Next]_vars => Inside'
<1> SUFFICES ASSUME Inv, Inside, [Next]_vars PROVE Inside'
  OBVIOUS
<1>1. ASSUME NEW c \in Callers, Begin(c) PROVE Inside'
  <2>1. \A d \in Callers \ {c} : id'[d] = id[d]
    BY <1>1 DEF Begin, Inv, TypeOK
  <2> QED
    BY <1>1, <2>1, MoveInside DEF Begin, Holding
<1>2. ASSUME NEW c \in Callers, Lock(c) PROVE Inside'
  BY <1>2, MoveInside DEF Lock
<1>3. ASSUME NEW c \in Callers, FirstGet(c) \/ FirstGetFails(c) PROVE Inside'
  BY <1>3, MoveInside DEF FirstGet, FirstGetFails, Deliver, Return, Holding
<1>4. ASSUME NEW c \in Callers, SecondGet(c) \/ SecondGetFails(c)
      PROVE  Inside'
  BY <1>4, MoveInside DEF SecondGet, SecondGetFails, Deliver, Return, Holding
<1>5. ASSUME NEW c \in Callers, Refresh(c) \/ RefreshLost(c) \/ RefreshFails(c)
      PROVE  Inside'
  BY <1>5, MoveInside DEF Refresh, RefreshLost, RefreshFails, Return, Holding
<1>6. ASSUME NEW c \in Callers, Save(c) \/ SaveFails(c) PROVE Inside'
  BY <1>6, MoveInside DEF Save, SaveFails, Deliver, Return, Holding
<1>7. CASE Crash
  BY <1>7, FreeAssumption DEF Crash, Inside
<1>8. ASSUME NEW i \in Ids, NEW n \in Numbers, Lapse(i, n) PROVE Inside'
  BY <1>8 DEF Lapse, Inside, Holding
<1>9. CASE UNCHANGED vars
  BY <1>9 DEF vars, Inside, Holding
<1> QED
  BY <1>1, <1>2, <1>3, <1>4, <1>5, <1>6, <1>7, <1>8, <1>9 DEF Next, Step

\* The strengthened invariant holds throughout (Credential).
THEOREM Invariance == Spec => []Inv
<1>1. Init => Inv
  BY InitInv
<1>2. Inv /\ [Next]_vars => Inv'
  BY NextInv
<1> QED
  BY <1>1, <1>2, PTL DEF Spec

-----------------------------------------------------------------------------
\* Locals, the store and the mutexes keep their types.
THEOREM TypeCorrect == Spec => []TypeOK
<1>1. Inv => TypeOK
  BY DEF Inv
<1> QED
  BY <1>1, Invariance, PTL

\* A credential that can no longer be refreshed was lost in one of the three
\* ways spilled records: a lost answer, a failed Save, a crash in between.
THEOREM RefreshTokenKept == Spec => []StoredRefreshes
<1>1. Inv => StoredRefreshes
  BY DEF Inv, Refreshes, StoredRefreshes
<1> QED
  BY <1>1, Invariance, PTL

\* A credential's mutex is held by exactly the call that is inside: the
\* safety half of the return of every call (Credential).
THEOREM MutexesAreReleased == Spec => []HeldInside
<1>1. Inv /\ Inside => HeldInside
  BY DEF Inv, Owner, Inside, HeldInside
<1>2. Inv /\ Inside /\ [Next]_vars /\ Inv' => Inside'
  BY NextInside
<1> QED
  BY <1>1, <1>2, InitInside, Invariance, PTL DEF Spec

\* However many calls find a credential expired, only one that still finds
\* it so under the mutex asks the platform.
THEOREM NoNeedlessRefresh == Spec => RefreshOnlyLapsed
<1> DEFINE A == \A i \in Ids : issued'[i] # issued[i] =>
                   stored[i] # Absent /\ stored[i].access \in lapsed[i]
<1>1. Inv /\ [Next]_vars => [A]_vars
  <2> SUFFICES ASSUME Inv, Next, NEW i \in Ids, issued'[i] # issued[i]
               PROVE stored[i] # Absent /\ stored[i].access \in lapsed[i]
    OBVIOUS
  <2>1. PICK c \in Callers : pc[c] = "ask" /\ id[c] = i
    <3>1. PICK c \in Callers : Refresh(c) \/ RefreshLost(c)
      BY DEF Next, Step, Begin, Lock, FirstGet, FirstGetFails, SecondGet,
             SecondGetFails, RefreshFails, Save, SaveFails, Crash, Lapse,
             platformVars
    <3>2. pc[c] = "ask" /\ issued' = [issued EXCEPT ![id[c]] = issued[id[c]] + 1]
      BY <3>1 DEF Refresh, RefreshLost, Issue
    <3> QED
      BY <3>2 DEF Inv, TypeOK
  <2> QED
    BY <2>1 DEF Inv, Asking
<1> QED
  BY <1>1, Invariance, PTL DEF Spec, RefreshOnlyLapsed

\* No call overwrites a refreshed credential with an older one.
THEOREM NoOldCredentialStored == Spec => StoredOnlyNewer
<1> DEFINE A == \A i \in Ids : stored'[i] # stored[i] =>
                   /\ stored[i] # Absent
                   /\ stored'[i].access > stored[i].access
<1>1. Inv /\ [Next]_vars => [A]_stored
  <2> SUFFICES ASSUME Inv, Next, NEW i \in Ids, stored'[i] # stored[i]
               PROVE /\ stored[i] # Absent
                     /\ stored'[i].access > stored[i].access
    BY DEF vars
  <2>1. PICK c \in Callers : Save(c)
    BY DEF Next, Step, Begin, Lock, FirstGet, FirstGetFails, SecondGet,
           SecondGetFails, Refresh, RefreshLost, RefreshFails, SaveFails,
           Crash, Lapse
  <2>2. id[c] = i /\ stored'[i] = binding[c]
    BY <2>1 DEF Save, Inv, TypeOK
  <2> QED
    BY <2>1, <2>2 DEF Inv, Saving, Save, TypeOK, Bindings, Numbers
<1> QED
  BY <1>1, Invariance, PTL DEF Spec, StoredOnlyNewer
=============================================================================
