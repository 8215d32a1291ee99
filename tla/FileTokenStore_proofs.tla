------------------------ MODULE FileTokenStore_proofs ------------------------
(***************************************************************************)
(* Proofs about FileTokenStore.  What one instance's mutex gives is proved *)
(* for any number of instances: its threads exclude each other (Owner),    *)
(* and no ciphertext is left in an unmarked file (PlainCopy).  The rest is *)
(* about a store that has one instance: what a thread loaded is the file   *)
(* until it writes (Fetched, Copy), and so the file is never downgraded,   *)
(* and is sealed by every success (Sealing).                               *)
(***************************************************************************)
EXTENDS FileTokenStore, TLAPS

Working(t) == pc[t] \in {"loaded", "migrating", "operate", "write"}

Owner(t) == Holding(t) => mutex[Home[t]] = t

Calls(t) ==
    /\ pc[t] = "idle" => call[t] = Abstract!NoCall
    /\ pc[t] # "idle" => call[t] \in Abstract!Request
    /\ pc[t] # "returned" => reply[t] = Abstract!NoReply
    /\ pc[t] = "returned" => reply[t] # Abstract!NoReply
    /\ pc[t] = "write" => call[t].op \in {"save", "delete"}

IsPlain(f) == \A id \in Present(f) : f.creds[id].sealed = NoKey

PlainCopy(t) == Working(t) /\ ~Encrypted(t) => IsPlain(file[t])

ThreadInv(t) == Owner(t) /\ Calls(t) /\ PlainCopy(t)

Inv ==
    /\ TypeOK
    /\ UnmarkedIsPlain
    /\ \A t \in Threads : ThreadInv(t)

-----------------------------------------------------------------------------
\* A new store is a file.
LEMMA EmptyType == \A b \in BOOLEAN : Empty(b) \in Files /\ Present(Empty(b)) = {}
BY DEF Empty, Files, Present

\* The two marks of a store without credentials are neither files nor equal.
LEMMA NoFileType ==
    /\ NoFile \notin Files /\ Garbage \notin Files /\ NoFile # Garbage
    /\ Absent \notin Records
BY DistinctAssumption

LEMMA InitInv == Init => Inv
<1> SUFFICES ASSUME Init PROVE Inv
  OBVIOUS
<1>1. disk \in Files \cup {NoFile, Garbage}
  BY DEF Init, Files, Plain, Records
<1>2. TypeOK
  BY <1>1, EmptyType, HomeAssumption DEF Init, TypeOK, Steps, Replies
<1>3. UnmarkedIsPlain
  BY NoFileType DEF Init, UnmarkedIsPlain, Present, Plain
<1>4. ASSUME NEW t \in Threads PROVE ThreadInv(t)
  BY DEF Init, ThreadInv, Owner, Holding, Calls, PlainCopy, Working
<1> QED
  BY <1>2, <1>3, <1>4 DEF Inv

\* The other threads of a step: whoever holds a mutex goes on holding it.
LEMMA OtherInv ==
    ASSUME NEW u \in Threads, ThreadInv(u), UNCHANGED key,
           pc'[u] = pc[u], file'[u] = file[u], call'[u] = call[u],
           reply'[u] = reply[u],
           Holding(u) => mutex'[Home[u]] = mutex[Home[u]]
    PROVE  ThreadInv(u)'
BY DEF ThreadInv, Owner, Holding, Calls, PlainCopy, Working, Encrypted, KeyOf,
       IsPlain, Present

\* What an operation returns with.
LEMMA AnswerInv ==
    ASSUME Inv, NEW t \in Threads, Holding(t), NEW r \in Replies,
           r # Abstract!NoReply, Answer(t, r), UNCHANGED <<key, call>>,
           disk' \in Files \cup {NoFile, Garbage}, UnmarkedIsPlain'
    PROVE  Inv'
<1> USE DEF Inv, Answer, Goto
<1>1. TypeOK'
  BY EmptyType DEF TypeOK, Steps
<1>2. ASSUME NEW u \in Threads PROVE ThreadInv(u)'
  <2>1. CASE u = t
    BY <2>1 DEF TypeOK, ThreadInv, Owner, Holding, Calls, PlainCopy, Working
  <2>2. CASE u # t
    <3>1. Holding(u) => Home[u] # Home[t]
      BY <2>2 DEF ThreadInv, Owner
    <3> QED
      BY <2>2, <3>1, HomeAssumption, OtherInv DEF TypeOK
  <2> QED
    BY <2>1, <2>2
<1> QED
  BY <1>1, <1>2

LEMMA AskInv == ASSUME Inv, NEW t \in Threads, Ask(t) PROVE Inv'
<1> USE DEF Inv, Ask, Goto
<1>1. TypeOK'
  BY DEF TypeOK, Steps
<1>2. ASSUME NEW u \in Threads PROVE ThreadInv(u)'
  <2>1. CASE u = t
    BY <2>1 DEF TypeOK, ThreadInv, Owner, Holding, Calls, PlainCopy, Working
  <2>2. CASE u # t
    BY <2>2, OtherInv DEF TypeOK
  <2> QED
    BY <2>1, <2>2
<1> QED
  BY <1>1, <1>2 DEF UnmarkedIsPlain, Present

LEMMA RejectInv == ASSUME Inv, NEW t \in Threads, Reject(t) PROVE Inv'
<1> USE DEF Inv, Reject, Goto
<1>1. TypeOK'
  BY DEF TypeOK, Steps, Replies
<1>2. ASSUME NEW u \in Threads PROVE ThreadInv(u)'
  <2>1. CASE u = t
    BY <2>1 DEF TypeOK, ThreadInv, Owner, Holding, Calls, PlainCopy, Working,
                Abstract!Error, Abstract!NoReply
  <2>2. CASE u # t
    BY <2>2, OtherInv DEF TypeOK
  <2> QED
    BY <2>1, <2>2
<1> QED
  BY <1>1, <1>2 DEF UnmarkedIsPlain, Present

\* The mutex is free, so no thread of the instance holds it.
LEMMA LockInv == ASSUME Inv, NEW t \in Threads, Lock(t) PROVE Inv'
<1> USE DEF Inv, Lock, Goto
<1>1. TypeOK'
  BY DEF TypeOK, Steps
<1>2. ASSUME NEW u \in Threads PROVE ThreadInv(u)'
  <2>1. CASE u = t
    BY <2>1, HomeAssumption
    DEF TypeOK, ThreadInv, Owner, Holding, Calls, PlainCopy, Working
  <2>2. CASE u # t
    <3>1. Holding(u) => Home[u] # Home[t]
      BY MutexAssumption DEF ThreadInv, Owner
    <3> QED
      BY <2>2, <3>1, HomeAssumption, OtherInv DEF TypeOK
  <2> QED
    BY <2>1, <2>2
<1> QED
  BY <1>1, <1>2 DEF UnmarkedIsPlain, Present

\* An instance without a key loads no file that is marked.
LEMMA LoadInv == ASSUME Inv, NEW t \in Threads, Load(t) PROVE Inv'
<1> USE DEF Inv, Load, Goto
<1> DEFINE f == IF disk = NoFile THEN Empty(Encrypted(t)) ELSE disk
<1>1. f \in Files /\ (~Encrypted(t) => IsPlain(f))
  <2>1. CASE disk = NoFile
    BY <2>1, EmptyType DEF Encrypted, IsPlain
  <2>2. CASE disk # NoFile
    BY <2>2 DEF TypeOK, Loadable, UnmarkedIsPlain, IsPlain
  <2> QED
    BY <2>1, <2>2
<1>2. file' = [file EXCEPT ![t] = f]
  OBVIOUS
<1> HIDE DEF f
<1>3. TypeOK'
  BY <1>1, <1>2 DEF TypeOK, Steps
<1>4. ASSUME NEW u \in Threads PROVE ThreadInv(u)'
  <2>1. CASE u = t
    BY <1>1, <1>2, <2>1
    DEF TypeOK, ThreadInv, Owner, Holding, Calls, PlainCopy, Working,
        Encrypted, KeyOf, IsPlain, Present
  <2>2. CASE u # t
    BY <1>2, <2>2, OtherInv DEF TypeOK
  <2> QED
    BY <2>1, <2>2
<1> QED
  BY <1>3, <1>4 DEF UnmarkedIsPlain, Present

\* Sealing records keeps the type of a file.
LEMMA MigratedType ==
    ASSUME NEW f \in Files, NEW k \in Keys
    PROVE  Migrated(f, k) \in Files
<1>1. ASSUME NEW id \in Present(f)
      PROVE  [f.creds[id] EXCEPT !.sealed = k] \in Records
  BY <1>1 DEF Files, Present, Records
<1> QED
  BY <1>1 DEF Migrated, Files, Present

LEMMA MigrateInv == ASSUME Inv, NEW t \in Threads, Migrate(t) PROVE Inv'
<1> USE DEF Inv, Goto
<1>1. file' \in [Threads -> Files]
  <2>1. Encrypted(t) => KeyOf(t) \in Keys
    BY HomeAssumption DEF TypeOK, Encrypted, KeyOf
  <2> QED
    BY <2>1, MigratedType DEF Migrate, TypeOK
<1>2. TypeOK'
  BY <1>1 DEF Migrate, TypeOK, Steps
<1>3. ASSUME NEW u \in Threads PROVE ThreadInv(u)'
  <2>1. CASE u = t
    BY <2>1 DEF Migrate, TypeOK, ThreadInv, Owner, Holding, Calls, PlainCopy,
                Working, Encrypted, KeyOf, IsPlain, Present
  <2>2. CASE u # t
    BY <2>2, OtherInv DEF Migrate, TypeOK
  <2> QED
    BY <2>1, <2>2
<1> QED
  BY <1>2, <1>3 DEF Migrate, UnmarkedIsPlain, Present

\* Whatever is written is a file, and a plain one if it is not marked.
LEMMA ReplaceType ==
    ASSUME Inv, NEW t \in Threads, Working(t), Replace(t)
    PROVE  disk' \in Files /\ UnmarkedIsPlain'
<1> USE DEF Inv, Replace
<1>1. file[t] \in Files
  BY DEF TypeOK
<1>2. disk' \in Files /\ disk'.marked = Encrypted(t) /\ disk'.creds = file[t].creds
  BY <1>1 DEF Files, Encrypted
<1>3. ASSUME ~disk'.marked, NEW id \in Present(disk)'
      PROVE  disk'.creds[id].sealed = NoKey
  BY <1>2, <1>3 DEF ThreadInv, PlainCopy, IsPlain, Present
<1> QED
  BY <1>2, <1>3 DEF UnmarkedIsPlain

LEMMA WriteMigratedInv ==
    ASSUME Inv, NEW t \in Threads, WriteMigrated(t) PROVE Inv'
<1> USE DEF WriteMigrated, Goto
<1>1. disk' \in Files /\ UnmarkedIsPlain'
  BY ReplaceType DEF Working
<1>2. TypeOK'
  BY <1>1 DEF Inv, TypeOK, Steps
<1>3. ASSUME NEW u \in Threads PROVE ThreadInv(u)'
  <2>1. CASE u = t
    BY <2>1 DEF Inv, TypeOK, ThreadInv, Owner, Holding, Calls, PlainCopy,
                Working, Encrypted, KeyOf, IsPlain, Present
  <2>2. CASE u # t
    BY <2>2, OtherInv DEF Inv, TypeOK
  <2> QED
    BY <2>1, <2>2
<1> QED
  BY <1>1, <1>2, <1>3 DEF Inv

\* A record is replaced in the thread's copy of the file.
LEMMA ChangeInv ==
    ASSUME Inv, NEW t \in Threads, pc[t] = "operate",
           call[t].op \in {"save", "delete"}, NEW r \in Records \cup {Absent},
           ~Encrypted(t) /\ r # Absent => r.sealed = NoKey,
           file' = [file EXCEPT ![t].creds[call[t].id] = r],
           Goto(t, "write"), UNCHANGED <<disk, key, mutex, call, reply>>
    PROVE  Inv'
<1> USE DEF Inv, Goto
<1>1. file[t] \in Files /\ t \in DOMAIN file
  BY DEF TypeOK
<1>2. /\ file'[t] \in Files
      /\ file'[t].creds = [file[t].creds EXCEPT ![call[t].id] = r]
  BY <1>1 DEF Files
<1>3. TypeOK'
  BY <1>2 DEF TypeOK, Steps
<1>4. ASSUME NEW u \in Threads PROVE ThreadInv(u)'
  <2>1. CASE u = t
    <3>1. PlainCopy(t)'
      BY <1>1, <1>2 DEF TypeOK, ThreadInv, PlainCopy, Working, Encrypted,
                        KeyOf, IsPlain, Present, Files
    <3> QED
      BY <2>1, <3>1 DEF TypeOK, ThreadInv, Owner, Holding, Calls
  <2>2. CASE u # t
    BY <2>2, OtherInv DEF TypeOK
  <2> QED
    BY <2>1, <2>2
<1> QED
  BY <1>3, <1>4 DEF UnmarkedIsPlain, Present

LEMMA SaveInv == ASSUME Inv, NEW t \in Threads, Save(t) PROVE Inv'
<1> DEFINE r == [secret |-> call[t].secret, sealed |-> KeyOf(t)]
<1>1. call[t] \in [op : {"save"}, id : Ids, secret : Secrets]
  BY DEF Save, Inv, ThreadInv, Calls, Abstract!Request
<1>2. KeyOf(t) \in Keys \cup {NoKey}
  BY HomeAssumption DEF Inv, TypeOK, KeyOf
<1>3. r \in Records /\ (~Encrypted(t) => r.sealed = NoKey)
  BY <1>1, <1>2 DEF Records, Encrypted
<1> QED
  BY <1>3, ChangeInv DEF Save

LEMMA DeleteInv == ASSUME Inv, NEW t \in Threads, Delete(t) PROVE Inv'
BY ChangeInv DEF Delete

LEMMA WriteInv == ASSUME Inv, NEW t \in Threads, Write(t) PROVE Inv'
<1>1. disk' \in Files /\ UnmarkedIsPlain'
  BY ReplaceType DEF Write, Working
<1>2. Abstract!Ok \in Replies /\ Abstract!Ok # Abstract!NoReply
  BY DEF Replies, Abstract!Ok, Abstract!NoReply
<1> QED
  BY <1>1, <1>2, AnswerInv DEF Write, Holding

LEMMA GetInv == ASSUME Inv, NEW t \in Threads, Get(t) PROVE Inv'
<1> DEFINE r == file[t].creds[call[t].id]
           a == IF r # Absent /\ r.sealed = KeyOf(t)
                THEN Abstract!Found(r.secret) ELSE Abstract!Error
<1>1. r \in Records \cup {Absent}
  <2>1. call[t].id \in Ids
    BY DEF Get, Inv, ThreadInv, Calls, Abstract!Request
  <2>2. file[t] \in Files
    BY DEF Inv, TypeOK
  <2> QED
    BY <2>1, <2>2 DEF Files
<1>2. a \in Replies /\ a # Abstract!NoReply
  <2>1. r # Absent => r.secret \in Secrets
    BY <1>1 DEF Records
  <2> QED
    BY <2>1 DEF Replies, Abstract!Found, Abstract!Error, Abstract!NoReply
<1>3. Answer(t, a) /\ UNCHANGED <<disk, key, call>>
  BY DEF Get
<1>4. disk' \in Files \cup {NoFile, Garbage} /\ UnmarkedIsPlain'
  BY <1>3 DEF Inv, TypeOK, UnmarkedIsPlain, Present
<1> HIDE DEF a
<1> QED
  BY <1>2, <1>3, <1>4, AnswerInv DEF Get, Holding

LEMMA FailInv == ASSUME Inv, NEW t \in Threads, Fail(t) PROVE Inv'
<1>1. disk' \in Files \cup {NoFile, Garbage} /\ UnmarkedIsPlain'
  BY DEF Fail, Inv, TypeOK, UnmarkedIsPlain, Present
<1>2. Abstract!Error \in Replies /\ Abstract!Error # Abstract!NoReply
  BY DEF Replies, Abstract!Error, Abstract!NoReply
<1> QED
  BY <1>1, <1>2, AnswerInv DEF Fail, Holding

LEMMA ReturnInv == ASSUME Inv, NEW t \in Threads, Return(t) PROVE Inv'
<1> USE DEF Inv, Return, Goto
<1>1. TypeOK'
  BY DEF TypeOK, Steps, Replies
<1>2. ASSUME NEW u \in Threads PROVE ThreadInv(u)'
  <2>1. CASE u = t
    BY <2>1 DEF TypeOK, ThreadInv, Owner, Holding, Calls, PlainCopy, Working
  <2>2. CASE u # t
    BY <2>2, OtherInv DEF TypeOK
  <2> QED
    BY <2>1, <2>2
<1> QED
  BY <1>1, <1>2 DEF UnmarkedIsPlain, Present

\* A process starts again: its threads have forgotten everything, and those
\* of other processes have noticed nothing.
LEMMA RestartInv == ASSUME Inv, NEW i \in Instances, Restart(i) PROVE Inv'
<1> USE DEF Inv
<1>1. /\ pc' = [t \in Threads |-> IF Home[t] = i THEN "idle" ELSE pc[t]]
      /\ file' = [t \in Threads |-> IF Home[t] = i THEN Empty(FALSE) ELSE file[t]]
      /\ call' = [t \in Threads |->
                     IF Home[t] = i THEN Abstract!NoCall ELSE call[t]]
      /\ reply' = [t \in Threads |->
                      IF Home[t] = i THEN Abstract!NoReply ELSE reply[t]]
      /\ mutex' = [mutex EXCEPT ![i] = Free]
      /\ UNCHANGED disk
  BY DEF Restart
<1>2. PICK k \in Keys \cup {NoKey} : key' = [key EXCEPT ![i] = k]
  BY DEF Restart
<1>3. TypeOK'
  BY <1>1, <1>2, EmptyType DEF TypeOK, Steps, Replies
<1>4. ASSUME NEW u \in Threads PROVE ThreadInv(u)'
  <2>1. CASE Home[u] = i
    BY <1>1, <2>1 DEF ThreadInv, Owner, Holding, Calls, PlainCopy, Working
  <2>2. CASE Home[u] # i
    <3>1. /\ pc'[u] = pc[u] /\ file'[u] = file[u] /\ call'[u] = call[u]
          /\ reply'[u] = reply[u]
      BY <1>1, <2>2
    <3>2. key'[Home[u]] = key[Home[u]] /\ mutex'[Home[u]] = mutex[Home[u]]
      BY <1>1, <1>2, <2>2, HomeAssumption DEF TypeOK
    <3> QED
      BY <3>1, <3>2 DEF ThreadInv, Owner, Holding, Calls, PlainCopy, Working,
                        Encrypted, KeyOf, IsPlain, Present
  <2> QED
    BY <2>1, <2>2
<1> QED
  BY <1>1, <1>3, <1>4 DEF UnmarkedIsPlain, Present

LEMMA NextInv == Inv /\ [Next]_vars => Inv'
<1> SUFFICES ASSUME Inv, [Next]_vars PROVE Inv'
  OBVIOUS
<1>1. ASSUME NEW t \in Threads, Ask(t) \/ Reject(t) \/ Lock(t) PROVE Inv'
  BY <1>1, AskInv, RejectInv, LockInv
<1>2. ASSUME NEW t \in Threads, Step(t) PROVE Inv'
  BY <1>2, LoadInv, MigrateInv, WriteMigratedInv, SaveInv, DeleteInv, WriteInv,
     GetInv, FailInv, ReturnInv DEF Step
<1>3. ASSUME NEW i \in Instances, Restart(i) PROVE Inv'
  BY <1>3, RestartInv
<1>4. CASE UNCHANGED vars
  <2>1. UNCHANGED <<disk, key, mutex, pc, file, call, reply>>
    BY <1>4 DEF vars
  <2>2. \A u \in Threads : ThreadInv(u)'
    BY <2>1, OtherInv DEF Inv
  <2> QED
    BY <2>1, <2>2 DEF Inv, TypeOK, UnmarkedIsPlain, Present
<1> QED
  BY <1>1, <1>2, <1>3, <1>4 DEF Next

LEMMA Invariance == Spec => []Inv
BY InitInv, NextInv, PTL DEF Spec

\* The store's file is a store file whatever instant a writer died at, for
\* any number of processes sharing it.
THEOREM TypeCorrect == Spec => []TypeOK
<1>1. Inv => TypeOK
  BY DEF Inv
<1> QED
  BY <1>1, Invariance, PTL

\* The other direction of Owner: nobody holds a mutex from outside.
Inside ==
    \A i \in Instances, t \in Threads : mutex[i] = t => Holding(t) /\ Home[t] = i

LEMMA InitInside == Init => Inside
BY MutexAssumption DEF Init, Inside

\* A step that moves a thread keeps the mutex where it is, or takes or gives
\* back that of the thread's instance.
LEMMA MoveInside ==
    ASSUME Inv, Inside, NEW t \in Threads, NEW to, Goto(t, to),
           \/ ~Holding(t) /\ UNCHANGED mutex
           \/ to \in {"loaded", "migrating", "operate", "write"} /\ UNCHANGED mutex
           \/ mutex' = [mutex EXCEPT ![Home[t]] = Free]
           \/ to = "load" /\ mutex' = [mutex EXCEPT ![Home[t]] = t]
    PROVE  Inside'
<1> USE HomeAssumption, MutexAssumption DEF Inv, TypeOK, Goto
<1> SUFFICES ASSUME NEW i \in Instances, NEW u \in Threads, mutex'[i] = u
             PROVE  Holding(u)' /\ Home[u] = i
  BY DEF Inside
<1>1. CASE u = t
  BY <1>1 DEF Inside, Holding
<1>2. CASE u # t
  <2>1. mutex[i] = u
    BY <1>2
  <2> QED
    BY <1>2, <2>1 DEF Inside, Holding
<1> QED
  BY <1>1, <1>2

\* Unlock is deferred, so every answer runs it; a restart frees the mutex.
LEMMA NextInside == Inv /\ Inside /\ [Next]_vars => Inside'
<1> SUFFICES ASSUME Inv, Inside, [Next]_vars PROVE Inside'
  OBVIOUS
<1>1. ASSUME NEW t \in Threads, Ask(t) \/ Reject(t) \/ Lock(t) \/ Return(t)
      PROVE  Inside'
  BY <1>1, MoveInside DEF Ask, Reject, Lock, Return, Holding
<1>2. ASSUME NEW t \in Threads, Load(t) \/ Migrate(t) \/ WriteMigrated(t)
      PROVE  Inside'
  BY <1>2, MoveInside DEF Load, Migrate, WriteMigrated
<1>3. ASSUME NEW t \in Threads, Save(t) \/ Delete(t) PROVE Inside'
  BY <1>3, MoveInside DEF Save, Delete
<1>4. ASSUME NEW t \in Threads, Write(t) \/ Get(t) \/ Fail(t) PROVE Inside'
  BY <1>4, MoveInside DEF Write, Get, Fail, Answer
<1>5. ASSUME NEW i \in Instances, Restart(i) PROVE Inside'
  <2>1. mutex' = [mutex EXCEPT ![i] = Free]
    BY <1>5 DEF Restart
  <2>2. pc' = [t \in Threads |-> IF Home[t] = i THEN "idle" ELSE pc[t]]
    BY <1>5 DEF Restart
  <2> QED
    BY <2>1, <2>2, MutexAssumption DEF Inside, Holding, Inv, TypeOK
<1>6. CASE UNCHANGED vars
  BY <1>6 DEF vars, Inside, Holding
<1> QED
  BY <1>1, <1>2, <1>3, <1>4, <1>5, <1>6 DEF Next, Step

\* An instance's mutex is held by exactly the thread that is inside: the
\* safety half of the return of every operation.
THEOREM MutexesAreReleased == Spec => []HeldInside
<1>1. Inv /\ Inside => HeldInside
  BY HomeAssumption DEF Inv, ThreadInv, Owner, Inside, HeldInside
<1>2. Inv /\ Inside /\ [Next]_vars /\ Inv' => Inside'
  BY NextInside
<1> QED
  BY <1>1, <1>2, InitInside, Invariance, PTL DEF Spec

\* Of the threads of one instance at most one is between Lock and Unlock.
THEOREM ThreadsExclude == Spec => []MutualExclusion
<1>1. Inv => MutualExclusion
  BY DEF Inv, ThreadInv, Owner, MutualExclusion
<1> QED
  BY <1>1, Invariance, PTL

\* No process ever leaves a ciphertext in a file that says it is plain, also
\* when processes with and without a key share the file.
THEOREM NoCiphertextUnmarked == Spec => []UnmarkedIsPlain
<1>1. Inv => UnmarkedIsPlain
  BY DEF Inv
<1> QED
  BY <1>1, Invariance, PTL

-----------------------------------------------------------------------------
(***************************************************************************)
(* One instance: no other process writes the file.                         *)
(***************************************************************************)
OneInstance == \A t, u \in Threads : Home[t] = Home[u]

IsSealed(f) == \A id \in Present(f) : f.creds[id].sealed # NoKey

Value(f, id) == IF f.creds[id] = Absent THEN Absent ELSE f.creds[id].secret

\* A file that was just read is the one on disk, or a new one.
Fetched(t) ==
    pc[t] = "loaded" =>
        IF disk = NoFile THEN file[t] = Empty(Encrypted(t)) ELSE file[t] = disk

\* The credential a thread has changed in its copy, if it has.
Changed(t) == IF pc[t] = "write" THEN {call[t].id} ELSE {}

Copied(t) ==
    /\ Working(t) =>
          /\ disk # Garbage
          /\ \A id \in Ids \ Changed(t) :
                Value(file[t], id) = Credentials(disk)[id]
    /\ pc[t] = "write" =>
          Value(file[t], call[t].id) =
              IF call[t].op = "save" THEN call[t].secret ELSE Absent

Unmarked(t) == Working(t) /\ ~Encrypted(t) => ~Marked(disk)

DiskSealed == disk \in Files => IsSealed(disk)

Sealing(t) ==
    Encrypted(t) =>
        /\ pc[t] \in {"migrating", "operate", "write"} => IsSealed(file[t])
        /\ pc[t] \in {"operate", "write"} => DiskSealed
        /\ reply[t].is \in {"ok", "found"} => DiskSealed

SingleInv(t) == Fetched(t) /\ Copied(t) /\ Unmarked(t) /\ Sealing(t)

Single ==
    /\ Inv
    /\ OneInstance
    /\ \A t \in Threads : SingleInv(t)

LEMMA InitSingle == Init /\ OneInstance => Single
<1> SUFFICES ASSUME Init, OneInstance PROVE Single
  OBVIOUS
<1>1. ASSUME NEW t \in Threads PROVE SingleInv(t)
  BY DEF Init, SingleInv, Fetched, Copied, Working, Unmarked, Sealing,
         Abstract!NoReply
<1> QED
  BY <1>1, InitInv DEF Single

\* With a key that opens the file, migrating it seals every record and
\* changes no credential; where there is nothing to migrate all are sealed.
LEMMA MigrationSeals ==
    ASSUME NEW f \in Files, NEW k \in Keys, ~Blocked(f, k)
    PROVE  /\ IsSealed(Migrated(f, k))
           /\ ~NeedsMigration(f, k) => IsSealed(f)
           /\ \A id \in Ids : Value(Migrated(f, k), id) = Value(f, id)
<1>1. \A id \in Present(f) : id \in Ids /\ f.creds[id] \in Records
  BY DEF Present, Files
<1>2. \A id \in Present(f) : [f.creds[id] EXCEPT !.sealed = k] \in Records
  BY <1>1 DEF Records
<1>3. ASSUME NEW id \in Present(f), f.marked,
             Decryptable(f.creds[id], k) # "no"
      PROVE  f.creds[id].sealed = k
  BY <1>3 DEF Blocked, Decryptable
<1>4. Present(Migrated(f, k)) = Present(f)
  BY <1>2, NoFileType DEF Migrated, Present
<1>5. ASSUME NEW id \in Present(f)
      PROVE  /\ Migrated(f, k).creds[id].sealed = k
             /\ Migrated(f, k).creds[id].secret = f.creds[id].secret
             /\ Migrated(f, k).creds[id] # Absent
  BY <1>1, <1>2, <1>3, <1>5, NoFileType DEF Migrated, Records
<1>6. ASSUME NEW id \in Ids, id \notin Present(f)
      PROVE  Migrated(f, k).creds[id] = f.creds[id]
  BY <1>6 DEF Migrated
<1>7. IsSealed(Migrated(f, k))
  BY <1>4, <1>5, KeyAssumption DEF IsSealed
<1>8. ~NeedsMigration(f, k) => IsSealed(f)
  BY <1>3, KeyAssumption DEF NeedsMigration, IsSealed
<1>9. \A id \in Ids : Value(Migrated(f, k), id) = Value(f, id)
  BY <1>5, <1>6 DEF Value, Present
<1> QED
  BY <1>7, <1>8, <1>9

\* What the map is read from.
LEMMA CredentialsOfFile ==
    ASSUME NEW d \in Files, NEW id \in Ids
    PROVE  Credentials(d)[id] = Value(d, id)
BY NoFileType DEF Credentials, Value

\* Threads that a step of another leaves alone, when the file stays.
LEMMA OtherSingle ==
    ASSUME NEW u \in Threads, SingleInv(u), UNCHANGED <<disk, key>>,
           pc'[u] = pc[u], file'[u] = file[u], call'[u] = call[u],
           reply'[u] = reply[u]
    PROVE  SingleInv(u)'
BY DEF SingleInv, Fetched, Copied, Changed, Working, Unmarked, Sealing,
       DiskSealed, Encrypted, KeyOf, IsSealed, Present, Value, Marked

\* A step that neither works on a copy nor answers with success.
LEMMA QuietSingle ==
    ASSUME Single, Inv', UNCHANGED <<disk, key>>, NEW t \in Threads,
           ~Working(t)', reply'[t].is \notin {"ok", "found"},
           \A u \in Threads \ {t} :
              /\ pc'[u] = pc[u] /\ file'[u] = file[u]
              /\ call'[u] = call[u] /\ reply'[u] = reply[u]
    PROVE  Single'
<1>1. ASSUME NEW u \in Threads PROVE SingleInv(u)'
  <2>1. CASE u = t
    BY <2>1 DEF SingleInv, Fetched, Copied, Working, Unmarked, Sealing
  <2>2. CASE u # t
    BY <2>2, OtherSingle DEF Single
  <2> QED
    BY <2>1, <2>2
<1> QED
  BY <1>1 DEF Single, OneInstance

LEMMA QuietSteps ==
    ASSUME Single, Inv', NEW t \in Threads,
           Ask(t) \/ Reject(t) \/ Lock(t) \/ Fail(t) \/ Return(t)
    PROVE  Single'
<1> USE DEF Single, Inv, TypeOK, Goto, Working
<1>1. CASE Ask(t) \/ Lock(t)
  <2>1. pc'[t] \in {"waiting", "load"} /\ reply'[t] = Abstract!NoReply
    BY <1>1 DEF Ask, Lock, ThreadInv, Calls
  <2> QED
    BY <1>1, <2>1, QuietSingle DEF Ask, Lock, Abstract!NoReply
<1>2. CASE Reject(t)
  BY <1>2, QuietSingle DEF Reject, Abstract!Error
<1>3. CASE Fail(t)
  BY <1>3, QuietSingle DEF Fail, Answer, Abstract!Error
<1>4. CASE Return(t)
  BY <1>4, QuietSingle DEF Return, Abstract!NoReply
<1> QED
  BY <1>1, <1>2, <1>3, <1>4

\* A step that changes the thread's own copy only: it is enough to look at
\* that thread.
LEMMA OwnSingle ==
    ASSUME Single, Inv', UNCHANGED <<disk, key>>, NEW t \in Threads,
           \A u \in Threads \ {t} :
              /\ pc'[u] = pc[u] /\ file'[u] = file[u]
              /\ call'[u] = call[u] /\ reply'[u] = reply[u],
           SingleInv(t)'
    PROVE  Single'
<1>1. ASSUME NEW u \in Threads, u # t PROVE SingleInv(u)'
  BY <1>1, OtherSingle DEF Single
<1> QED
  BY <1>1 DEF Single, OneInstance

LEMMA LoadSingle ==
    ASSUME Single, Inv', NEW t \in Threads, Load(t) PROVE Single'
<1> USE DEF Single, Inv, TypeOK, Load, Goto
<1>1. /\ pc'[t] = "loaded" /\ reply'[t] = Abstract!NoReply
      /\ file'[t] = IF disk = NoFile THEN Empty(Encrypted(t)) ELSE disk
  BY DEF ThreadInv, Calls
<1>2. Fetched(t)'
  BY <1>1 DEF Fetched, Encrypted, KeyOf
<1>3. Copied(t)'
  <2>1. ASSUME NEW id \in Ids PROVE Value(file'[t], id) = Credentials(disk)[id]
    <3>1. CASE disk = NoFile
      BY <1>1, <3>1, NoFileType DEF Value, Credentials, Empty
    <3>2. CASE disk # NoFile
      BY <1>1, <3>2, CredentialsOfFile DEF Loadable
    <3> QED
      BY <3>1, <3>2
  <2> QED
    BY <1>1, <2>1 DEF Copied, Changed, Loadable, Value
<1>4. Unmarked(t)'
  BY NoFileType DEF Unmarked, Working, Marked, Loadable, Encrypted, KeyOf
<1>5. Sealing(t)'
  BY <1>1 DEF Sealing, Abstract!NoReply
<1>6. SingleInv(t)'
  BY <1>2, <1>3, <1>4, <1>5 DEF SingleInv
<1> QED
  BY <1>6, OwnSingle

LEMMA MigrateSingle ==
    ASSUME Single, Inv', NEW t \in Threads, Migrate(t) PROVE Single'
<1> USE DEF Single, Inv, TypeOK, Goto
<1>1. /\ pc[t] = "loaded" /\ reply'[t] = Abstract!NoReply
      /\ UNCHANGED <<disk, key, call, reply>>
  BY DEF Migrate, ThreadInv, Calls
<1>2. disk # Garbage /\ \A id \in Ids : Value(file[t], id) = Credentials(disk)[id]
  BY <1>1 DEF SingleInv, Copied, Changed, Working
<1>3. ~Encrypted(t) => ~Marked(disk)
  BY <1>1 DEF SingleInv, Unmarked, Working
<1>4. CASE Encrypted(t) /\ NeedsMigration(file[t], KeyOf(t))
  <2>1. /\ pc'[t] = "migrating"
        /\ file'[t] = Migrated(file[t], KeyOf(t))
    BY <1>4 DEF Migrate
  <2>2. KeyOf(t) \in Keys /\ file[t] \in Files /\ ~Blocked(file[t], KeyOf(t))
    BY <1>4, HomeAssumption DEF Encrypted, KeyOf, Migrate
  <2>3. /\ IsSealed(file'[t])
        /\ \A id \in Ids : Value(file'[t], id) = Value(file[t], id)
    BY <2>1, <2>2, MigrationSeals
  <2>4. Copied(t)'
    BY <1>1, <1>2, <2>1, <2>3 DEF Copied, Changed, Value
  <2>5. Sealing(t)'
    BY <1>1, <2>1, <2>3 DEF Sealing, Abstract!NoReply, IsSealed, Present
  <2>6. Unmarked(t)'
    BY <1>1, <1>3 DEF Unmarked, Encrypted, KeyOf, Marked
  <2>7. Fetched(t)'
    BY <2>1 DEF Fetched
  <2>8. SingleInv(t)'
    BY <2>4, <2>5, <2>6, <2>7 DEF SingleInv
  <2> QED
    BY <1>4, <2>8, OwnSingle DEF Migrate
<1>5. CASE ~(Encrypted(t) /\ NeedsMigration(file[t], KeyOf(t)))
  <2>1. pc'[t] = "operate" /\ file'[t] = file[t]
    BY <1>5 DEF Migrate
  <2>2. Encrypted(t) => IsSealed(file[t])
    <3>1. Encrypted(t) => /\ KeyOf(t) \in Keys /\ file[t] \in Files
                          /\ ~Blocked(file[t], KeyOf(t))
      BY HomeAssumption DEF Encrypted, KeyOf, Migrate
    <3> QED
      BY <1>5, <3>1, MigrationSeals
  <2>3. Encrypted(t) => DiskSealed
    BY <1>1, <2>2, NoFileType DEF SingleInv, Fetched, DiskSealed
  <2>4. Copied(t)'
    BY <1>1, <1>2, <2>1 DEF Copied, Changed, Value
  <2>5. Sealing(t)'
    BY <1>1, <2>1, <2>2, <2>3
    DEF Sealing, DiskSealed, IsSealed, Present, Encrypted, KeyOf
  <2>6. Unmarked(t)'
    BY <1>1, <1>3 DEF Unmarked, Encrypted, KeyOf, Marked
  <2>7. Fetched(t)'
    BY <2>1 DEF Fetched
  <2>8. SingleInv(t)'
    BY <2>4, <2>5, <2>6, <2>7 DEF SingleInv
  <2> QED
    BY <1>5, <2>1, <2>8, OwnSingle DEF Migrate
<1> QED
  BY <1>4, <1>5

\* Save and Delete change the copy at one credential.
LEMMA ChangeSingle ==
    ASSUME Single, Inv', NEW t \in Threads, pc[t] = "operate",
           NEW r \in Records \cup {Absent},
           Encrypted(t) /\ r # Absent => r.sealed # NoKey,
           (IF r = Absent THEN Absent ELSE r.secret)
              = (IF call[t].op = "save" THEN call[t].secret ELSE Absent),
           file' = [file EXCEPT ![t].creds[call[t].id] = r],
           Goto(t, "write"), UNCHANGED <<disk, key, mutex, call, reply>>
    PROVE  Single'
<1> USE DEF Goto
<1>1. /\ file[t] \in Files /\ t \in DOMAIN file /\ pc'[t] = "write"
      /\ reply[t] = Abstract!NoReply
  BY DEF Single, Inv, TypeOK, ThreadInv, Calls
<1>2. call[t].id \in Ids
  BY DEF Single, Inv, ThreadInv, Calls, Abstract!Request
<1>3. file'[t].creds = [file[t].creds EXCEPT ![call[t].id] = r]
  BY <1>1 DEF Files
<1>4. /\ file'[t].creds[call[t].id] = r
      /\ \A id \in Ids \ {call[t].id} : file'[t].creds[id] = file[t].creds[id]
  BY <1>1, <1>2, <1>3 DEF Files
<1>5. Copied(t)'
  <2>1. /\ disk # Garbage
        /\ \A id \in Ids : Value(file[t], id) = Credentials(disk)[id]
    BY DEF Single, SingleInv, Copied, Changed, Working
  <2>2. ASSUME NEW id \in Ids \ {call[t].id}
        PROVE  Value(file'[t], id) = Credentials(disk)[id]
    BY <1>4, <2>1 DEF Value
  <2>3. Value(file'[t], call[t].id)
           = IF call[t].op = "save" THEN call[t].secret ELSE Absent
    BY <1>4 DEF Value
  <2> QED
    BY <1>1, <2>1, <2>2, <2>3 DEF Copied, Changed, Value
<1>6. Sealing(t)'
  <2>1. ASSUME Encrypted(t) PROVE IsSealed(file'[t]) /\ DiskSealed
    <3>1. IsSealed(file[t]) /\ DiskSealed
      BY <2>1 DEF Single, SingleInv, Sealing
    <3> QED
      BY <1>2, <1>4, <2>1, <3>1 DEF IsSealed, Present
  <2> QED
    BY <1>1, <2>1 DEF Sealing, Encrypted, KeyOf, DiskSealed, IsSealed, Present
<1>7. Unmarked(t)'
  BY DEF Single, SingleInv, Unmarked, Working, Encrypted, KeyOf, Marked
<1>8. Fetched(t)'
  BY <1>1 DEF Fetched
<1>9. SingleInv(t)'
  BY <1>5, <1>6, <1>7, <1>8 DEF SingleInv
<1> QED
  BY <1>9, OwnSingle DEF Single, Inv, TypeOK

LEMMA SaveSingle ==
    ASSUME Single, Inv', NEW t \in Threads, Save(t) PROVE Single'
<1> DEFINE r == [secret |-> call[t].secret, sealed |-> KeyOf(t)]
<1>1. call[t] \in [op : {"save"}, id : Ids, secret : Secrets]
  BY DEF Save, Single, Inv, ThreadInv, Calls, Abstract!Request
<1>2. KeyOf(t) \in Keys \cup {NoKey}
  BY HomeAssumption DEF Single, Inv, TypeOK, KeyOf
<1>3. r \in Records /\ r # Absent
  BY <1>1, <1>2, NoFileType DEF Records
<1>4. r.secret = call[t].secret /\ (Encrypted(t) => r.sealed # NoKey)
  BY DEF Encrypted
<1> QED
  BY <1>1, <1>3, <1>4, ChangeSingle DEF Save

LEMMA DeleteSingle ==
    ASSUME Single, Inv', NEW t \in Threads, Delete(t) PROVE Single'
BY ChangeSingle DEF Delete

\* A found credential is an answer of success: the file it is from is sealed.
LEMMA GetSingle ==
    ASSUME Single, Inv', NEW t \in Threads, Get(t) PROVE Single'
<1> USE DEF Single, Inv, TypeOK, Get, Answer, Goto
<1>1. pc'[t] = "returned" /\ UNCHANGED <<disk, key, call>>
  OBVIOUS
<1>2. Encrypted(t) => DiskSealed
  BY DEF SingleInv, Sealing
<1>3. Sealing(t)'
  BY <1>1, <1>2 DEF Sealing, Encrypted, KeyOf, DiskSealed, IsSealed, Present
<1>4. SingleInv(t)'
  BY <1>1, <1>3 DEF SingleInv, Fetched, Copied, Working, Unmarked
<1> QED
  BY <1>1, <1>4, OwnSingle

\* With one instance, nobody else is working on the file.
LEMMA Alone ==
    ASSUME Single, NEW t \in Threads, Holding(t), NEW u \in Threads, u # t
    PROVE  ~Holding(u) /\ KeyOf(u) = KeyOf(t)
BY DEF Single, OneInstance, Inv, ThreadInv, Owner, KeyOf

\* The file a thread leaves behind is sealed when there is a key, and says so.
LEMMA ReplaceSeals ==
    ASSUME Single, NEW t \in Threads, pc[t] \in {"migrating", "write"},
           Replace(t)
    PROVE  /\ disk' \in Files /\ disk' # Garbage /\ disk' # NoFile
           /\ Marked(disk') <=> Encrypted(t)
           /\ Encrypted(t) => IsSealed(disk')
           /\ \A id \in Ids : Credentials(disk')[id] = Value(file[t], id)
<1>1. file[t] \in Files
  BY DEF Single, Inv, TypeOK
<1>2. /\ disk' \in Files
      /\ disk'.marked = Encrypted(t)
      /\ disk'.creds = file[t].creds
  BY <1>1 DEF Replace, Files, Encrypted
<1>3. disk' # Garbage /\ disk' # NoFile /\ (Marked(disk') <=> Encrypted(t))
  BY <1>2, NoFileType DEF Marked
<1>4. Encrypted(t) => IsSealed(disk')
  BY <1>2 DEF Single, SingleInv, Sealing, IsSealed, Present
<1>5. \A id \in Ids : Credentials(disk')[id] = Value(file[t], id)
  BY <1>2, CredentialsOfFile DEF Value
<1> QED
  BY <1>2, <1>3, <1>4, <1>5

\* The other threads of a step that writes the file: none has a copy of it.
LEMMA OtherReplaced ==
    ASSUME Single, NEW t \in Threads, pc[t] \in {"migrating", "write"},
           Replace(t), UNCHANGED key, NEW u \in Threads, u # t,
           pc'[u] = pc[u], file'[u] = file[u], call'[u] = call[u],
           reply'[u] = reply[u]
    PROVE  SingleInv(u)'
<1>1. ~Holding(u) /\ KeyOf(u) = KeyOf(t)
  BY Alone DEF Holding
<1>2. Encrypted(u) => DiskSealed'
  BY <1>1, ReplaceSeals DEF Encrypted, DiskSealed, IsSealed, Present
<1> QED
  BY <1>1, <1>2 DEF SingleInv, Fetched, Copied, Working, Unmarked, Sealing,
                    Holding, Encrypted, KeyOf

LEMMA WriteMigratedSingle ==
    ASSUME Single, Inv', NEW t \in Threads, WriteMigrated(t) PROVE Single'
<1> USE DEF WriteMigrated, Goto
<1>1. /\ pc'[t] = "operate" /\ UNCHANGED <<key, call, reply, file>>
      /\ reply[t] = Abstract!NoReply
  BY DEF Single, Inv, TypeOK, ThreadInv, Calls
<1>2. /\ disk' # Garbage
      /\ Marked(disk') <=> Encrypted(t)
      /\ Encrypted(t) => IsSealed(disk')
      /\ \A id \in Ids : Credentials(disk')[id] = Value(file[t], id)
  BY ReplaceSeals
<1>3. Encrypted(t) => IsSealed(file[t])
  BY DEF Single, SingleInv, Sealing
<1>4. Copied(t)'
  BY <1>1, <1>2 DEF Copied, Changed, Value
<1>5. Unmarked(t)'
  BY <1>1, <1>2 DEF Unmarked, Encrypted, KeyOf, Marked
<1>6. Sealing(t)'
  BY <1>1, <1>2, <1>3
  DEF Sealing, Encrypted, KeyOf, DiskSealed, IsSealed, Present
<1>7. Fetched(t)'
  BY <1>1 DEF Fetched
<1>8. SingleInv(t)'
  BY <1>4, <1>5, <1>6, <1>7 DEF SingleInv
<1>9. ASSUME NEW u \in Threads, u # t PROVE SingleInv(u)'
  <2>1. pc'[u] = pc[u]
    BY <1>9 DEF Single, Inv, TypeOK
  <2> QED
    BY <1>1, <1>9, <2>1, OtherReplaced
<1> QED
  BY <1>8, <1>9 DEF Single, OneInstance

LEMMA WriteSingle ==
    ASSUME Single, Inv', NEW t \in Threads, Write(t) PROVE Single'
<1> USE DEF Write, Answer, Goto
<1>1. pc'[t] = "returned" /\ UNCHANGED <<key, call>>
  BY DEF Single, Inv, TypeOK
<1>2. Encrypted(t) => DiskSealed'
  BY ReplaceSeals DEF DiskSealed, IsSealed, Present
<1>3. SingleInv(t)'
  BY <1>1, <1>2 DEF SingleInv, Fetched, Copied, Working, Unmarked, Sealing,
                    Encrypted, KeyOf
<1>4. ASSUME NEW u \in Threads, u # t PROVE SingleInv(u)'
  <2>1. /\ pc'[u] = pc[u] /\ file'[u] = file[u] /\ call'[u] = call[u]
        /\ reply'[u] = reply[u]
    BY <1>1, <1>4 DEF Single, Inv, TypeOK
  <2> QED
    BY <1>1, <1>4, <2>1, OtherReplaced
<1> QED
  BY <1>3, <1>4 DEF Single, OneInstance

LEMMA RestartSingle ==
    ASSUME Single, Inv', NEW i \in Instances, Restart(i) PROVE Single'
<1>1. /\ pc' = [t \in Threads |-> IF Home[t] = i THEN "idle" ELSE pc[t]]
      /\ file' = [t \in Threads |-> IF Home[t] = i THEN Empty(FALSE) ELSE file[t]]
      /\ call' = [t \in Threads |->
                     IF Home[t] = i THEN Abstract!NoCall ELSE call[t]]
      /\ reply' = [t \in Threads |->
                      IF Home[t] = i THEN Abstract!NoReply ELSE reply[t]]
      /\ UNCHANGED disk
  BY DEF Restart
<1>2. PICK k \in Keys \cup {NoKey} : key' = [key EXCEPT ![i] = k]
  BY DEF Restart
<1>3. ASSUME NEW u \in Threads PROVE SingleInv(u)'
  <2>1. CASE Home[u] = i
    BY <1>1, <2>1 DEF SingleInv, Fetched, Copied, Working, Unmarked, Sealing,
                      Abstract!NoReply
  <2>2. CASE Home[u] # i
    <3>1. key'[Home[u]] = key[Home[u]]
      BY <1>2, <2>2, HomeAssumption DEF Single, Inv, TypeOK
    <3> QED
      BY <1>1, <2>2, <3>1
      DEF Single, SingleInv, Fetched, Copied, Changed, Working, Unmarked,
          Sealing, DiskSealed, Encrypted, KeyOf, IsSealed, Present, Value, Marked
  <2> QED
    BY <2>1, <2>2
<1> QED
  BY <1>3 DEF Single, OneInstance

LEMMA NextSingle == Single /\ [Next]_vars => Single'
<1> SUFFICES ASSUME Single, [Next]_vars PROVE Single'
  OBVIOUS
<1>1. Inv'
  BY NextInv DEF Single
<1>2. ASSUME NEW t \in Threads, Ask(t) \/ Reject(t) \/ Lock(t) PROVE Single'
  BY <1>1, <1>2, QuietSteps
<1>3. ASSUME NEW t \in Threads, Step(t) PROVE Single'
  BY <1>1, <1>3, QuietSteps, LoadSingle, MigrateSingle, WriteMigratedSingle,
     SaveSingle, DeleteSingle, WriteSingle, GetSingle DEF Step
<1>4. ASSUME NEW i \in Instances, Restart(i) PROVE Single'
  BY <1>1, <1>4, RestartSingle
<1>5. CASE UNCHANGED vars
  <2>1. UNCHANGED <<disk, key, mutex, pc, file, call, reply>>
    BY <1>5 DEF vars
  <2> QED
    BY <1>1, <2>1, OtherSingle DEF Single, OneInstance
<1> QED
  BY <1>2, <1>3, <1>4, <1>5 DEF Next

LEMMA SingleInvariance == Spec /\ OneInstance => []Single
BY InitSingle, NextSingle, PTL DEF Spec

\* With one process on the file, a success of an instance with a key means
\* that nothing on disk is in plaintext, also what older versions left there.
THEOREM SuccessMeansSealed == Spec /\ OneInstance => []SuccessSealsAll
<1>1. Single => SuccessSealsAll
  BY DEF Single, SingleInv, Sealing, SuccessSealsAll, DiskSealed, IsSealed
<1> QED
  BY <1>1, SingleInvariance, PTL

\* And an encrypted file is never turned back into a plaintext one, whatever
\* key the process is restarted with.
THEOREM NoDowngrade == Spec /\ OneInstance => NeverDowngraded
<1> DEFINE A == Marked(disk) => Marked(disk)'
<1>1. ASSUME Single, [Next]_vars PROVE [A]_disk
  <2>1. ASSUME NEW t \in Threads, WriteMigrated(t) \/ Write(t) PROVE A
    <3>1. /\ pc[t] \in {"migrating", "write"} /\ Replace(t)
      BY <2>1 DEF WriteMigrated, Write
    <3>2. Marked(disk') <=> Encrypted(t)
      BY <1>1, <3>1, ReplaceSeals
    <3>3. ~Encrypted(t) => ~Marked(disk)
      BY <1>1, <3>1 DEF Single, SingleInv, Unmarked, Working
    <3> QED
      BY <3>2, <3>3 DEF Marked
  <2>2. CASE UNCHANGED vars
    BY <2>2 DEF vars
  <2> QED
    BY <1>1, <2>1, <2>2
    DEF Next, Step, Ask, Reject, Lock, Load, Migrate, Save, Delete, Get, Fail,
        Return, Restart
<1> QED
  BY <1>1, SingleInvariance, PTL DEF Spec, NeverDowngraded

-----------------------------------------------------------------------------
(***************************************************************************)
(* The store implements CredentialMap: what its file says is the map.      *)
(***************************************************************************)
LEMMA InitIsInit == Init => Abstract!Init
<1> SUFFICES ASSUME Init PROVE Abstract!Init
  OBVIOUS
<1>1. disk \in Files \cup {NoFile, Garbage}
  BY InitInv DEF Inv, TypeOK
<1>2. Credentials(disk) \in [Ids -> Secrets \cup {Absent}]
  <2>1. CASE disk \in {NoFile, Garbage}
    BY <2>1 DEF Credentials
  <2>2. CASE disk \in Files
    BY <2>2, NoFileType DEF Credentials, Files, Records
  <2> QED
    BY <1>1, <2>1, <2>2
<1> QED
  BY <1>2 DEF Init, Abstract!Init

\* A client whose operation is under way has an open request.
LEMMA OpenCall ==
    ASSUME Inv, NEW t \in Threads, pc[t] \notin {"idle", "returned"}
    PROVE  Abstract!Open(t) /\ call[t] \in Abstract!Request
<1>1. call[t] \in Abstract!Request /\ reply[t] = Abstract!NoReply
  BY DEF Inv, ThreadInv, Calls
<1>2. call[t] # Abstract!NoCall
  BY <1>1 DEF Abstract!Request, Abstract!NoCall
<1> QED
  BY <1>1, <1>2 DEF Abstract!Open

\* An error is an operation that failed without effect.
LEMMA ErrorIsFail ==
    ASSUME Inv, NEW t \in Threads, pc[t] \notin {"idle", "returned"},
           reply' = [reply EXCEPT ![t] = Abstract!Error],
           UNCHANGED <<disk, call>>
    PROVE  Abstract!Fail(t)
BY OpenCall DEF Abstract!Fail

\* A found credential is the map's.
LEMMA GetIsGet ==
    ASSUME Single, NEW t \in Threads, Get(t)
    PROVE  Abstract!Get(t) \/ Abstract!Fail(t)
<1> DEFINE id == call[t].id
           r == file[t].creds[id]
<1>1. Abstract!Open(t) /\ id \in Ids /\ call[t].op = "get"
  BY OpenCall DEF Single, Get, Abstract!Request
<1>2. Value(file[t], id) = Credentials(disk)[id]
  BY <1>1 DEF Get, Single, SingleInv, Copied, Changed, Working
<1>3. UNCHANGED <<disk, call>>
  BY DEF Get
<1>4. CASE r # Absent /\ r.sealed = KeyOf(t)
  <2>1. reply' = [reply EXCEPT ![t] = Abstract!Found(r.secret)]
    BY <1>4 DEF Get, Answer
  <2>2. Credentials(disk)[id] = r.secret
    BY <1>2, <1>4 DEF Value
  <2>3. r.secret # Absent
    <3>1. r \in Records
      BY <1>1, <1>4 DEF Single, Inv, TypeOK, Files
    <3> QED
      BY <3>1, SecretAssumption DEF Records
  <2> QED
    BY <1>1, <1>3, <2>1, <2>2, <2>3 DEF Abstract!Get
<1>5. CASE ~(r # Absent /\ r.sealed = KeyOf(t))
  <2>1. reply' = [reply EXCEPT ![t] = Abstract!Error]
    BY <1>5 DEF Get, Answer
  <2> QED
    BY <1>3, <2>1, ErrorIsFail DEF Single, Get
<1> QED
  BY <1>4, <1>5

\* The rename is the instant at which a Save or Delete takes effect.
LEMMA WriteIsChange ==
    ASSUME Single, NEW t \in Threads, Write(t)
    PROVE  Abstract!Save(t) \/ Abstract!Delete(t)
<1> DEFINE id == call[t].id
           value == IF call[t].op = "save" THEN call[t].secret ELSE Absent
<1>1. Abstract!Open(t) /\ id \in Ids /\ call[t].op \in {"save", "delete"}
  BY OpenCall DEF Single, Inv, ThreadInv, Calls, Write, Abstract!Request
<1>2. /\ Value(file[t], id) = value
      /\ \A i \in Ids \ {id} : Value(file[t], i) = Credentials(disk)[i]
  BY DEF Write, Single, SingleInv, Copied, Changed, Working
<1>3. \A i \in Ids : Credentials(disk')[i] = Value(file[t], i)
  BY ReplaceSeals DEF Write
<1>4. Credentials(disk') = [Credentials(disk) EXCEPT ![id] = value]
  <2> DEFINE old == Credentials(disk)
             new == Credentials(disk')
  <2>1. /\ new = [i \in Ids |-> new[i]]
        /\ old = [i \in Ids |-> old[i]]
    BY DEF Credentials
  <2> HIDE DEF old, new
  <2>2. \A i \in Ids : new[i] = IF i = id THEN value ELSE old[i]
    BY <1>2, <1>3 DEF old, new
  <2> HIDE DEF id, value
  <2>3. new = [old EXCEPT ![id] = value]
    BY <1>1, <2>1, <2>2
  <2> QED
    BY <2>3 DEF old, new
<1>5. reply' = [reply EXCEPT ![t] = Abstract!Ok] /\ UNCHANGED call
  BY DEF Write, Answer
<1>6. CASE call[t].op = "save"
  BY <1>1, <1>4, <1>5, <1>6 DEF Abstract!Save
<1>7. CASE call[t].op = "delete"
  BY <1>1, <1>4, <1>5, <1>7 DEF Abstract!Delete
<1> QED
  BY <1>1, <1>6, <1>7

\* Migration rewrites the file and leaves the map as it is.
LEMMA MigrationStutters ==
    ASSUME Single, NEW t \in Threads, WriteMigrated(t)
    PROVE  UNCHANGED Abstract!mapVars
<1>1. \A i \in Ids : Credentials(disk')[i] = Credentials(disk)[i]
  BY ReplaceSeals
  DEF WriteMigrated, Single, SingleInv, Copied, Changed, Working
<1>2. Credentials(disk') = Credentials(disk)
  BY <1>1 DEF Credentials
<1> QED
  BY <1>2 DEF WriteMigrated, Abstract!mapVars

\* A restart kills the clients of the instance.
LEMMA RestartIsDie ==
    ASSUME Single, NEW i \in Instances, Restart(i)
    PROVE  \E dead \in SUBSET Threads : Abstract!Die(dead)
<1> DEFINE dead == {t \in Threads : Home[t] = i}
<1>1. /\ call' = [t \in Threads |-> IF t \in dead THEN Abstract!NoCall
                                                   ELSE call[t]]
      /\ reply' = [t \in Threads |-> IF t \in dead THEN Abstract!NoReply
                                                    ELSE reply[t]]
      /\ UNCHANGED disk
  BY DEF Restart
<1>2. Abstract!Die(dead)
  BY <1>1 DEF Abstract!Die
<1> QED
  BY <1>2

\* Every step is one of the map, or none.
LEMMA StepIsStep ==
    Single /\ [Next]_vars => [Abstract!Next]_(Abstract!mapVars)
<1> SUFFICES ASSUME Single, [Next]_vars
             PROVE  Abstract!Next \/ UNCHANGED Abstract!mapVars
  OBVIOUS
<1>1. ASSUME NEW t \in Threads, Ask(t) PROVE Abstract!Ask(t)
  BY <1>1 DEF Ask, Abstract!Ask, Single, Inv, ThreadInv, Calls
<1>2. ASSUME NEW t \in Threads, Reject(t) \/ Fail(t) PROVE Abstract!Fail(t)
  BY <1>2, ErrorIsFail DEF Reject, Fail, Answer, Single
<1>3. ASSUME NEW t \in Threads,
             Lock(t) \/ Load(t) \/ Migrate(t) \/ Save(t) \/ Delete(t)
      PROVE  UNCHANGED Abstract!mapVars
  BY <1>3 DEF Lock, Load, Migrate, Save, Delete, Abstract!mapVars
<1>4. ASSUME NEW t \in Threads, Return(t) PROVE Abstract!Return(t)
  BY <1>4 DEF Return, Abstract!Return, Single, Inv, ThreadInv, Calls
<1>5. ASSUME NEW t \in Threads, Step(t)
      PROVE  Abstract!Next \/ UNCHANGED Abstract!mapVars
  BY <1>2, <1>3, <1>4, <1>5, MigrationStutters, WriteIsChange, GetIsGet
  DEF Step, Abstract!Next
<1>6. ASSUME NEW i \in Instances, Restart(i) PROVE Abstract!Next
  BY <1>6, RestartIsDie DEF Abstract!Next
<1>7. CASE UNCHANGED vars
  BY <1>7 DEF vars, Abstract!mapVars
<1> QED
  BY <1>1, <1>2, <1>3, <1>5, <1>6, <1>7 DEF Next, Abstract!Next

\* The file store of one process is the map its interface promises: each
\* operation takes effect at one instant or not at all, through migration,
\* failures and restarts at any point.
THEOREM StoreIsLinearizable == Spec /\ OneInstance => Linearizable
<1>1. Spec /\ OneInstance => Abstract!Init
  BY InitIsInit DEF Spec
<1> QED
  BY <1>1, SingleInvariance, StepIsStep, PTL
  DEF Spec, Linearizable, Abstract!Spec
=============================================================================
