--------------------------- MODULE FileTokenStore ---------------------------
(***************************************************************************)
(* internal/feishu/token_store.go: OAuth credentials in one JSON file that *)
(* every operation reads, may migrate, and rewrites whole.  An instance    *)
(* (FileTokenStore) has a mutex and at most one AES key; the file says     *)
(* whether it is encrypted.  Instances live in processes of their own and  *)
(* are restarted after a crash, perhaps with another key.                  *)
(*                                                                         *)
(* A record's tokens are one secret, and the sealing key says whether and  *)
(* how it is encrypted; the temporary file of writeLocked becomes visible  *)
(* only by the rename, so writing it and renaming it are one step.         *)
(***************************************************************************)
CONSTANTS
    Instances,      \* FileTokenStore values sharing the path
    Threads,        \* goroutines calling them
    Home,           \* the instance each thread calls
    Ids,            \* credential IDs
    Secrets,        \* tokens
    Base64Secrets,  \* those that decode as base64 longer than a nonce
    Keys,           \* AES keys
    NoKey,          \* no key configured, or a secret in plaintext
    Absent,         \* no record under an ID
    NoFile,         \* the file does not exist or is blank
    Garbage,        \* the file is not JSON
    Free            \* an unlocked mutex

ASSUME HomeAssumption == Home \in [Threads -> Instances]
ASSUME SecretAssumption == Base64Secrets \subseteq Secrets /\ Absent \notin Secrets
ASSUME KeyAssumption == NoKey \notin Keys
ASSUME MutexAssumption == Free \notin Threads

Records == [secret : Secrets, sealed : Keys \cup {NoKey}]
Files == [marked : BOOLEAN, creds : [Ids -> Records \cup {Absent}]]

ASSUME DistinctAssumption ==
    /\ Absent \notin Records
    /\ NoFile \notin Files
    /\ Garbage \notin Files
    /\ NoFile # Garbage

VARIABLES
    disk,       \* the file at the store's path
    key,        \* aead of each instance
    mutex,      \* holder of each instance's mu
    pc,         \* where each thread is
    file,       \* the tokenStoreFile it has loaded
    call,       \* the operation it runs
    reply       \* what the operation returned

vars == <<disk, key, mutex, pc, file, call, reply>>

\* The promise, with the map read off the file.
Credentials(d) ==
    IF d \in {NoFile, Garbage} THEN [id \in Ids |-> Absent]
    ELSE [id \in Ids |-> IF d.creds[id] = Absent THEN Absent
                                                 ELSE d.creds[id].secret]

Abstract == INSTANCE CredentialMap WITH Clients <- Threads,
                                        map <- Credentials(disk)

Empty(marked) == [marked |-> marked, creds |-> [id \in Ids |-> Absent]]

Plain == [secret : Secrets, sealed : {NoKey}]

\* A new store, a broken file, a plaintext file, an encrypted file, and one
\* marked encrypted in which older versions left plaintext.
Init ==
    /\ disk \in {NoFile, Garbage}
         \cup [marked : {FALSE}, creds : [Ids -> Plain \cup {Absent}]]
         \cup [marked : {TRUE}, creds : [Ids -> Records \cup {Absent}]]
    /\ key \in [Instances -> Keys \cup {NoKey}]
    /\ mutex = [i \in Instances |-> Free]
    /\ pc = [t \in Threads |-> "idle"]
    /\ file = [t \in Threads |-> Empty(FALSE)]
    /\ call = [t \in Threads |-> Abstract!NoCall]
    /\ reply = [t \in Threads |-> Abstract!NoReply]

KeyOf(t) == key[Home[t]]

Encrypted(t) == KeyOf(t) # NoKey

\* canDecrypt: a plaintext token that looks like a ciphertext, or one sealed
\* with another key, is an error.
Decryptable(r, k) ==
    IF r.sealed = NoKey /\ r.secret \notin Base64Secrets THEN "no"
    ELSE IF r.sealed = k THEN "yes" ELSE "error"

Present(f) == {id \in Ids : f.creds[id] # Absent}

\* In a file marked encrypted every record is tried with the key.
Blocked(f, k) ==
    f.marked /\ \E id \in Present(f) : Decryptable(f.creds[id], k) = "error"

\* Mutant: plaintext that is left in a marked file is not looked for.
NeedsMigrationUnmarked(f, k) == ~f.marked

NeedsMigration(f, k) ==
    ~f.marked \/ \E id \in Present(f) : Decryptable(f.creds[id], k) = "no"

Migrated(f, k) ==
    [marked |-> TRUE,
     creds |-> [id \in Ids |->
        IF id \in Present(f) /\ (f.marked => Decryptable(f.creds[id], k) = "no")
        THEN [f.creds[id] EXCEPT !.sealed = k] ELSE f.creds[id]]]

\* Mutant: an instance without a key takes an encrypted file for a plain one.
LoadableAnyway(t) == disk # Garbage

\* loadLocked succeeds.
Loadable(t) ==
    /\ disk # Garbage
    /\ disk # NoFile => (disk.marked => Encrypted(t))

Goto(t, to) == pc' = [pc EXCEPT ![t] = to]

\* Mutant: the mutex is kept.
AnswerLocked(t, r) ==
    /\ Goto(t, "returned")
    /\ reply' = [reply EXCEPT ![t] = r]
    /\ file' = [file EXCEPT ![t] = Empty(FALSE)]
    /\ UNCHANGED mutex

\* The operation returns and the deferred Unlock runs.
Answer(t, r) ==
    /\ Goto(t, "returned")
    /\ reply' = [reply EXCEPT ![t] = r]
    /\ mutex' = [mutex EXCEPT ![Home[t]] = Free]
    /\ file' = [file EXCEPT ![t] = Empty(FALSE)]

Ask(t) ==
    /\ pc[t] = "idle"
    /\ \E r \in Abstract!Request : call' = [call EXCEPT ![t] = r]
    /\ Goto(t, "waiting")
    /\ UNCHANGED <<disk, key, mutex, file, reply>>

\* A context already done, or a blank ID.
Reject(t) ==
    /\ pc[t] = "waiting"
    /\ Goto(t, "returned")
    /\ reply' = [reply EXCEPT ![t] = Abstract!Error]
    /\ UNCHANGED <<disk, key, mutex, file, call>>

\* Mutant: readers and writers do not exclude each other.
LockShared(t) ==
    /\ pc[t] = "waiting"
    /\ mutex' = [mutex EXCEPT ![Home[t]] = t]
    /\ Goto(t, "load")
    /\ UNCHANGED <<disk, key, file, call, reply>>

Lock(t) ==
    /\ pc[t] = "waiting"
    /\ mutex[Home[t]] = Free
    /\ mutex' = [mutex EXCEPT ![Home[t]] = t]
    /\ Goto(t, "load")
    /\ UNCHANGED <<disk, key, file, call, reply>>

Load(t) ==
    /\ pc[t] = "load"
    /\ Loadable(t)
    /\ file' = [file EXCEPT ![t] = IF disk = NoFile THEN Empty(Encrypted(t))
                                                    ELSE disk]
    /\ Goto(t, "loaded")
    /\ UNCHANGED <<disk, key, mutex, call, reply>>

\* migratePlaintextRecordsLocked: nothing to do, or a rewrite of the file.
Migrate(t) ==
    /\ pc[t] = "loaded"
    /\ Encrypted(t) => ~Blocked(file[t], KeyOf(t))
    /\ IF Encrypted(t) /\ NeedsMigration(file[t], KeyOf(t))
       THEN /\ file' = [file EXCEPT ![t] = Migrated(@, KeyOf(t))]
            /\ Goto(t, "migrating")
       ELSE /\ Goto(t, "operate")
            /\ UNCHANGED file
    /\ UNCHANGED <<disk, key, mutex, call, reply>>

\* writeLocked, and the file's mark follows the instance's key.
Replace(t) == disk' = [file[t] EXCEPT !.marked = Encrypted(t)]

WriteMigrated(t) ==
    /\ pc[t] = "migrating"
    /\ Replace(t)
    /\ Goto(t, "operate")
    /\ UNCHANGED <<key, mutex, file, call, reply>>

Save(t) ==
    /\ pc[t] = "operate"
    /\ call[t].op = "save"
    /\ file' = [file EXCEPT ![t].creds[call[t].id] =
                   [secret |-> call[t].secret, sealed |-> KeyOf(t)]]
    /\ Goto(t, "write")
    /\ UNCHANGED <<disk, key, mutex, call, reply>>

Delete(t) ==
    /\ pc[t] = "operate"
    /\ call[t].op = "delete"
    /\ file' = [file EXCEPT ![t].creds[call[t].id] = Absent]
    /\ Goto(t, "write")
    /\ UNCHANGED <<disk, key, mutex, call, reply>>

Write(t) ==
    /\ pc[t] = "write"
    /\ Replace(t)
    /\ Answer(t, Abstract!Ok)
    /\ UNCHANGED <<key, call>>

\* Get: no record under the ID is an error.
Get(t) ==
    /\ pc[t] = "operate"
    /\ call[t].op = "get"
    /\ LET r == file[t].creds[call[t].id] IN
         Answer(t, IF r # Absent /\ r.sealed = KeyOf(t)
                   THEN Abstract!Found(r.secret) ELSE Abstract!Error)
    /\ UNCHANGED <<disk, key, call>>

\* Mutant: an error is returned after the rename has been done.
FailAfterRename(t) ==
    /\ pc[t] = "write"
    /\ Replace(t)
    /\ Answer(t, Abstract!Error)
    /\ UNCHANGED <<key, call>>

\* The file cannot be read, decoded, opened with this key, or written: the
\* temporary file is removed and the error returned.
Fail(t) ==
    /\ pc[t] \in {"load", "loaded", "migrating", "write"}
    /\ pc[t] = "loaded" => Encrypted(t)
    /\ Answer(t, Abstract!Error)
    /\ UNCHANGED <<disk, key, call>>

Return(t) ==
    /\ pc[t] = "returned"
    /\ Goto(t, "idle")
    /\ call' = [call EXCEPT ![t] = Abstract!NoCall]
    /\ reply' = [reply EXCEPT ![t] = Abstract!NoReply]
    /\ UNCHANGED <<disk, key, mutex, file>>

\* The process dies with its threads and starts again with some key.
Restart(i) ==
    /\ LET Reset(f, v) == [t \in Threads |-> IF Home[t] = i THEN v ELSE f[t]]
       IN  /\ pc' = Reset(pc, "idle")
           /\ file' = Reset(file, Empty(FALSE))
           /\ call' = Reset(call, Abstract!NoCall)
           /\ reply' = Reset(reply, Abstract!NoReply)
    /\ mutex' = [mutex EXCEPT ![i] = Free]
    /\ \E k \in Keys \cup {NoKey} : key' = [key EXCEPT ![i] = k]
    /\ UNCHANGED disk

\* What an operation does once it has begun.
Step(t) ==
    \/ Load(t) \/ Migrate(t) \/ WriteMigrated(t)
    \/ Save(t) \/ Delete(t) \/ Write(t) \/ Get(t) \/ Fail(t) \/ Return(t)

Next ==
    \/ \E t \in Threads : Ask(t) \/ Reject(t) \/ Lock(t) \/ Step(t)
    \/ \E i \in Instances : Restart(i)

Spec == Init /\ [][Next]_vars

\* File operations end, and sync.Mutex starves no waiter.
FairSpec == Spec /\ \A t \in Threads : WF_vars(Step(t)) /\ SF_vars(Lock(t))

-----------------------------------------------------------------------------
Steps == {"idle", "waiting", "load", "loaded", "migrating", "operate",
          "write", "returned"}

Replies == {Abstract!NoReply, Abstract!Ok, Abstract!Error}
             \cup {Abstract!Found(s) : s \in Secrets}

\* The file is absent, broken or a tokenStoreFile, whatever instant a writer
\* was interrupted at; locals keep their types.
TypeOK ==
    /\ disk \in Files \cup {NoFile, Garbage}
    /\ key \in [Instances -> Keys \cup {NoKey}]
    /\ mutex \in [Instances -> Threads \cup {Free}]
    /\ pc \in [Threads -> Steps]
    /\ file \in [Threads -> Files]
    /\ call \in [Threads -> Abstract!Request \cup {Abstract!NoCall}]
    /\ reply \in [Threads -> Replies]

Marked(d) == d \in Files /\ d.marked

Holding(t) == pc[t] \in {"load", "loaded", "migrating", "operate", "write"}

\* Threads of one instance are never both between Lock and Unlock: what one
\* loaded is still the file when it replaces it (lines 99-100, 125-126,
\* 150-151).
MutualExclusion ==
    \A t, u \in Threads :
        Holding(t) /\ Holding(u) /\ Home[t] = Home[u] => t = u

\* An instance's mutex is held exactly by the thread that is between Lock and
\* Unlock: no return path, error or restart leaves it locked behind itself,
\* which would stop every later operation (lines 99-100, 125-126, 150-151).
HeldInside ==
    \A i \in Instances, t \in Threads :
        mutex[i] = t <=> Holding(t) /\ Home[t] = i

\* A file that is not marked encrypted holds plaintext only, whoever wrote
\* it and when: an instance without a key never stores a ciphertext as if it
\* were a token (lines 182-184, 250-252).
UnmarkedIsPlain ==
    disk \in Files /\ ~disk.marked =>
        \A id \in Present(disk) : disk.creds[id].sealed = NoKey

\* When an operation of an instance with a key has succeeded, no secret is
\* left in plaintext on disk (lines 188-214), until another instance writes.
SuccessSealsAll ==
    \A t \in Threads :
        Encrypted(t) /\ reply[t].is \in {"ok", "found"} /\ disk \in Files =>
            \A id \in Present(disk) : disk.creds[id].sealed # NoKey

\* Across restarts with and without the key, one instance never turns an
\* encrypted file back into a plaintext one (lines 182-184).
NeverDowngraded == [][Marked(disk) => Marked(disk)']_disk

\* Every operation of the file store is one operation of the promised map,
\* taken at one instant, or has no effect; a crash anywhere leaves the map
\* before or after it.
Linearizable == Abstract!Spec

\* Every call returns, or its process is restarted.
EveryCallReturns == \A t \in Threads : (pc[t] = "waiting") ~> (pc[t] = "idle")
=============================================================================
