# A formal model of lark-docs-mcp

TLA+ modules, TLC configurations and TLAPS proofs for the connector in
`internal/` and `cmd/`: an MCP server that lets agents read, write and comment
Feishu/Lark documents. Paths below are relative to `src/`.

## The system

| part | code | state | operations |
| --- | --- | --- | --- |
| HTTP client, tenant token cache | `internal/feishu/http_client.go` | `cachedToken`, `tokenExpiry` under `tokenMu`; one loop counter per `doJSON` | `GetJSON`, `PostJSON`, `doJSON`, `TenantToken` |
| credential store | `internal/feishu/token_store.go` | one JSON file; a mutex and a key per instance | `Save`, `Get`, `Delete`, each with load and migration |
| user token refresh | `internal/feishu/oauth_token.go`, `token_source.go` | a mutex per credential | `UserFirstTokenSource.Token`, `Credential`, `RefreshUserToken` |
| document writes, comments | `internal/feishu/service.go`, `comment.go`, `permission.go`, `write.go`, `canonicalize.go` | none beyond a call's locals | `CreateDocument`, `AppendDocument`, `CreateComment`, `ReplyComment`, `ResolveComment`, `CheckPermission` |
| document reads | `internal/feishu/service.go`, `raw_parse.go` | `readState` of one read | `ReadDocument` and its recursion `readChildren` |
| skill execution | `internal/skills/executor.go`, `manifest.go` | the latest `permissionPreflight` of one run | `Run` |
| permission answers | `internal/feishu/permission.go` | none | `permissionSnapshotFromRaw` |
| skill registry | `internal/skills/registry.go` | manifests, fixed after the start | `LoadRegistry`, `Get`, `List` |
| start of the programs | `internal/config/config.go`, `internal/mcp/feishu_tools_config.go`, `cmd/` | none after the start | `Load`, `ValidateRemoteMCPSecurity`, `NewService`, `main` |
| tool dispatch | `internal/mcp/feishu_tools.go` | none | `CallTool` |
| remote MCP server | `internal/mcp/http_server.go`, its `main` | a goroutine per POST, one deadline each | `handleMCP`, `handleBatch` |
| stdio MCP server | `internal/mcp/server.go`, its `main` | the line in hand | `Serve`, `HandleRequest` |
| pure functions | `resolver.go`, `markdown.go`, `raw_parse.go`, `oauth.go` | none | parsing and formatting |

How they interact. A server hands each request to `CallTool`; the HTTP server
gives each POST a goroutine and, once its body is read, a deadline of 120 s,
and all of them share one `Service`, and so one HTTP client, one token cache
and one credential store. The stdio server and the command line make one call
at a time.
`CallTool` calls the service, or the skill executor, which calls `CallTool`
again for each step. The service sends one upstream request after another
through the client. Each attempt of a request asks the token source for a
token: the tenant cache, which may run a request of its own to fetch one, or,
when the tool call names a credential, the refresher, which reads and writes
the credential store.

What is hard in it, and where it is looked at:

- *Interleaving.* Calls of the HTTP server share the token cache, whose lock is
  dropped during a fetch. Calls for one credential race to refresh it: that is
  a matter of `internal/feishu` as a library, as the HTTP server lets no call
  name a credential and the other programs call one after the other. Every
  operation on the store may rewrite the whole file, and two stdio processes
  on one store race outside any mutex, which `token_store.go:28` leaves to the
  callers.
- *Lost answers and retries.* A request may take effect although its answer is
  lost, and is then sent again; a refresh token is good only once.
- *Crashes.* `ListenAndServe` returns as soon as `Shutdown` starts, so the HTTP
  server's `main` exits with calls in flight. A process killed, or a call
  cancelled by a signal, between the rotation of a refresh token and its
  `Save` loses it. The store must survive the end of the process at any step,
  and a restart with another key.
- *Ends.* A deadline, a client that leaves, a signal and a closed pipe each end
  a server's work in the middle of a batch or a line. A client that stays and
  stops reading does not end it: it can hold the write of an answer for ever.
- *Partial failure.* A create has two mutations, a skill run has many, and a
  document read loses a part of the tree.
- *Order of checks.* Dry-run switches, permission checks and the skill gates
  are spread over several functions. A link is resolved before the check and
  may name another document later. A permission answer speaks in one of four
  objects and many spellings, or is silent.
- *Start.* Each program reacts differently to a bad key or a bad manifest.
- *Limits.* Retries, blocks, depth, steps and expiry times have their edges.

What makes each part correct: the token cache serves no expired token and its
retries are bounded; the store is a map from IDs to secrets that fails without
effect and seals what it should; the refresher asks only when it must, and
never puts an older credential over a newer one; a write is checked and done
in full, or reported; a read is the document up to a cut it admits to; a skill
changes nothing that its preflight did not allow; a server handles messages in
order, answers those with an ID and acts on no others; a registry is loaded
whole or not at all.

## Modules

| module | models | used by |
| --- | --- | --- |
| `HTTPClient` | `doJSON`, `TenantToken`, the platform's tokens | `MCHTTPClient`, `HTTPClient_proofs` |
| `CredentialMap` | what the `TokenStore` interface promises | `FileTokenStore` (refinement) |
| `FileTokenStore` | the store, its threads, instances and restarts | `MCFileTokenStore`, `FileTokenStore_proofs` |
| `UserTokenRefresher` | the refresher, the token source and the platform's OAuth endpoint | `MCUserTokenRefresher`, `UserTokenRefresher_proofs` |
| `PermissionAnswer` | how an answer of the permission endpoint is read | `DocumentWrites` |
| `DocumentWrites` | the mutating operations of the service | `MCDocumentWrites`, `SkillRun_proofs` |
| `SkillRun` | one skill run, extending `DocumentWrites` with the executor | `MCSkillRun`, `SkillRun_proofs` |
| `DocumentRead` | one read of a document | `MCDocumentRead`, `DocumentRead_proofs` |
| `RequestServer` | what a server promises its clients | `HTTPServer`, `StdioServer` (refinements) |
| `HTTPServer` | the remote server: a POST from arrival to answer | `MCHTTPServer`, `HTTPServer_proofs` |
| `StdioServer` | the stdio loop and its process | `MCStdioServer`, `StdioServer_proofs` |
| `SkillRegistry` | loading manifests from a file system | `Startup` |
| `Startup` | the start of the three programs, extending `SkillRegistry` | `MCStartup`, `Startup_proofs` |

`PROJECT.json` maps every definition to the lines it translates. Definitions
whose comment begins with "Mutant:" are not part of a model: each is a
definition with a plausible bug, and putting it in the place of the one after
it makes one property of one run fail.

### HTTPClient

`pc` is where a call is in `doJSON`: `acquire` (asking for a token), `fetch`
and `received` (inside the nested `doJSON` of `TenantToken`, before and after
the answer), `send`, `backoff`, `done`. `level` says which of the two loops
the call is in and `attempt` holds both counters. A tenant token is its number
in the order of minting; `expires` and `revoked` are the platform's knowledge.
The time between minting and storing is bounded by `Lag`, the request timeout,
assumed to be at most the cache's margin of one minute (`LagAssumption`: 15 s
by default; a timeout configured above a minute would void it). The platform
never answers with a longer lifetime than it grants, and grants at least the
default of 90 minutes when it names none. `SendTransient` lets a request take
effect although its answer is lost. The token source here is the tenant's; a
user token is `UserTokenRefresher`'s. Building URLs and encoding bodies, which
fail before anything is sent, are left out, as is a negative retry count,
which the configuration cannot give.

### FileTokenStore and CredentialMap

An operation is `Ask`, `Lock`, `Load`, `Migrate`, perhaps `WriteMigrated`,
then `Save`/`Delete` and `Write`, or `Get`; `Fail` is an error of any of them.
A file is the mark `encrypted` and a record per ID; a record is a secret and
the key that sealed it, `NoKey` for plaintext. The temporary file is invisible
until the rename, so writing and renaming are one step, and a crash before it
is a crash with the old file; a temporary file left over by a crash is not
modelled. `Base64Secrets` are plaintexts that `canDecrypt` mistakes for
ciphertexts. `Restart` kills the threads of an instance and may change its key.
`CredentialMap` is the linearizable map: an operation takes effect once, at one
instant, or fails without effect. The mapping reads the map off the file, so
`Write` is the abstract `Save` or `Delete`, and everything else stutters.

### UserTokenRefresher

`Begin` to `SaveFails` are the steps of `UserFirstTokenSource.Token` and
`Credential`. A binding is the numbers of its two tokens, 0 for an empty one;
`issued` and `accepted` are the platform's. The platform may rotate the refresh
token, may answer without a lifetime (the token is then expired at once), and
may perform a refresh whose answer is lost. The store's `Get` and `Save` are
atomic and may fail, which is what `FileTokenStore` is shown to implement for
one process. `spilled` is a history variable: the credentials whose new
refresh token was lost on the way to the store. `Crash` is the process exiting
with calls in flight. Two IDs that differ only in blanks at their ends are not
modelled.

### DocumentWrites and SkillRun

One upstream request is one step, and may take effect while it reports an error
(what `HTTPClient` allows). `pc` goes through `canonicalize`, `prepare`
(validation and dry run), `check`, `post`. A document is given by its token or
by a link, which `canonicalize` asks the platform about, with any result, as
the link may be re-pointed at any time; the check and the write both use what
was resolved then. A create with content goes round again with `phase =
"append"`. `mutations` is what the platform performed for the operations that
are open; a finished operation is forgotten when its slot is reused. The
operation ID is left out: the code computes and returns it and nothing else. A
permission check is answered anew each time, so permissions change freely, and
`PermissionAnswer` reads the answer: the first of four objects that is not
empty, in it the first spelling that says yes or no, and the entities that
stand for a group. The platform performs what it is sent, so only the
connector's own checks stand between a request and its effect. A folder token
of blanks only, which the code sends without a check, is not among the inputs.

`SkillRun` adds the executor: step *i* of the manifest is operation *i*. The
gates (`ManifestAllowed`, `Acceptable`) are evaluated before the first call,
`MayCall` before each step. Of the arguments only what the gates look at is
kept. The preflight and the step it gates are compared as the texts of their
inputs, as the code does; when a link is re-pointed between them, it is the
tool's own check that covers the change. The configuration has the executor's
two switches separately, as its options have; the server sets both from one.

### DocumentRead

The recursion of `readChildren` is a stack of frames. `Page(n)` is an answered
request for children, with any number of them up to the page size; `PageFails`
is one that failed, at any point. The block whose children are read is appended
to the list below when its frame returns, which is when the code appends it.
The document does not change during the read, an answer says `has_more` exactly
when there are more children, and only the empty list has an empty page. A
block without an ID (`Nameless`) is taken and not descended into, whatever it
says it contains, as its children cannot be asked for; a document in the model
is what can. What an answer is compared with is written without a stack:
`Preorder` lists so many levels of the blocks under each block, by recursion
over the levels, and `Under` is what lies below a block.

### RequestServer, HTTPServer and StdioServer

`RequestServer` is the promise: a client's messages are handled one after the
other in its order, one with an ID is answered at most once, one without is
never answered and never acts, answers arrive in order, and the platform
performs nothing that was not asked, perhaps late. Both servers are shown to
implement it. A message is reduced to what decides its handling: whether it
has an ID and whether it calls a tool that changes a document.

In `HTTPServer` each connection carries one POST; `phase` is where its handler
is, from `received` (headers read) through `read` and `handling` to `writing`,
when it has settled its answer, and `done`, when that is written.
The method and the bearer token are looked at first, then the body and its
size, then the batch limit. The deadline (`Deadline`) starts after the body
was read, and it and the client's departure (`Leave`) end the context that all
calls of the POST share (`ended`). A client may also stay and stop reading
(`Stall`). `Write` is possible then, as a small answer fits into what the
connection buffers, but it need not happen: the server sets no `WriteTimeout`.
`Shutdown` closes the listener and then
ends the process with handlers at any phase. An empty API key without the
explicit permission to go without makes every POST a 401. CORS headers and the
health endpoint have no state and are left out.

`StdioServer` is the loop of `Serve`: it looks at the signal only between
lines, and `Scan` waits for a line without looking at it. A write to a closed
standard output ends the process (`Killed`, SIGPIPE) or returns an error;
`exit` is how `main` ended. A client that has stopped reading without closing
the pipe (`StopReading`) can block the write of an answer, which looks at no
context (`Blocked`).

### SkillRegistry and Startup

A file system is a record of what the registry asks of it: where a configured
directory resolves to, which manifest files are found under a root, whether
everything below it can be listed, where each file leads when links are
followed, and what is there. A root below which something cannot be listed
fails the load (`WalkRoots`), as `WalkDir` reports it. A link that leads out of
the root is skipped, one that leads nowhere fails the load, and so do a write
skill without the switch and a second skill of one name, also when it is the
same file found through a directory configured twice or nested in another.
`LoadFile(f)` handles one file, the first that is left in the order of
`sort.Strings` (`Before`): the directories in order, and the files in order
within each. What decides is `Refused`; `Fail` discards everything. The files
of all the directories are listed before the first is loaded, which makes no
difference as the file system stands still.

`Startup` is each program's way to serving. Only the remote server validates
its configuration first, and what it validates is the key of the token store,
not its API key. A key of a wrong length makes `NewService` drop the store
without a word; the stdio server and the command line go on without it. A key
is the number of its bytes and of the blanks around them: `LoadConfig` drops
the blanks, the check of the remote server drops them once more, and the store
takes what is left as it is. The first tool call, as far as the choice of its
token, shows what became of the key.

## Runs

| run | shows | bounds |
| --- | --- | --- |
| `HTTPClient` | `ServedTokenIsLive`, `EffectsAccounted`, `EveryCallEnds`, `CallsAdvance` | two calls, one retry, two tokens, and a clock in which margin, lag, lifetime and default all matter |
| `FileTokenStore` | `SuccessSealsAll`, `NeverDowngraded`, `Linearizable`, `EveryCallReturns` | two threads on one instance, two IDs, two keys, any number of restarts, every initial file |
| `FileTokenStoreShared` | `UnmarkedIsPlain` | two instances with a thread each, one key, so that each also restarts without it |
| `UserTokenRefresher` | `StoredRefreshes`, `HeldInside`, `RefreshOnlyLapsed`, `StoredOnlyNewer`, `EveryCallReturns` | three calls for one credential, three refresh tokens |
| `DocumentWrites` | `DryRunMutatesNothing`, `OkMeansDone`, `MutationWasChecked` | one operation with every argument, two tokens, one link, seven kinds of answer: operations share no state in the connector |
| `SkillRun` | `RunTypeOK`, `RealMutationGated`, `PreflightPrecedes`, `FailureStopsRun` | every manifest of one or two of eleven steps, with and without a third, the built-in `create-draft-doc`, one that is too long |
| `SkillRunPreflight` | a statement of `create-draft-doc` that does not hold | the same |
| `DocumentRead` | `TypeOK`, `CutAtTheLimit`, `MissingIsExplained`, `TruncatedIsTrue`, `ReadEnds`, `ReadAdvances` | every tree of five blocks, one of them without an ID, pages of up to two, limits below, at and above the size |
| `DocumentReadDepth` | the unreachable report of the depth limit | the same |
| `HTTPServer` | `TypeOK`, `AnswersComplete`, `NothingSentAfterEnd`, `ServesRequests`, `EveryPostEnds` | one connection, as POSTs share only the process, whose client may leave or stop reading at every step; ten bodies, from none to a batch over a limit of three |
| `StdioServer` | `AnsweredBeforeReadingOn`, `ServesRequests`, `EveryLineIsHandled`, `EndsAfterSignal`, `LoopAdvances` | three lines of every kind, each end of the pipes closed or not read at every step |
| `Startup` | `RegistryIsWhatIsThere`, `RemoteStartsWhole`, `UserCallsFollowTheKey` | three programs, keys that are empty, too short or fit for AES, with and without blanks that would change that, none to two directories of four names, 144 file trees |

The bounds on clocks, tokens and issues only stop counters that the system
does not bound; they are guards of the platform's actions and never of the
connector's. Two calls (three at a mutex) are enough for every race here: each
involves one shared cell (the cache, a mutex, the file) and a call that comes
between two steps of another. Three lines or messages let one come before,
one at and one behind whatever ends the work. The proofs remove the bounds
where they exist. Deadlock is checked except where the system stops: a skill
run that is over (`SkillRun`), a server whose process is gone or whose clients
are served (`HTTPServer`, `StdioServer`), a program that has started
(`Startup`).

Fairness. A call that has begun goes on (`WF` on its steps): requests have a
timeout, timers fire, file operations end. `sync.Mutex` hands the lock to a
waiter within a bounded time (its starvation mode), which is `SF` on `Lock`.
A server's handler goes on by itself (`WF` on `Serve`), except where it waits
for a client, and there it waits without a timeout:

- The body of a POST is read when the client sends it; `EveryPostEnds` begins
  when it has been read.
- The stdio loop waits for a line; `EndsAfterSignal` needs a line or the end of
  the input.
- An answer is written when the client reads it, leaves or closes the pipe. A
  write is fair only then (`Holds` and `Blocked` are the exceptions). A client
  that stays and stops reading may hold the handler, or the stdio loop, in
  `Write`, `Encode` or `AnswerGarbled` for ever, after a deadline and after a
  signal too. `EveryPostEnds`, `EveryLineIsHandled` and `EndsAfterSignal` say
  that nothing else can: the work ends, or it is in such a write from some
  point on. All that is assumed of a client is that one which has not stopped
  reading for good reads on in the end.

Nothing is assumed of the clock, of restarts, of the platform, or of any
particular answer.

Each of these liveness properties has a safety half, an invariant or an
action property that needs no fairness and is proved for every size:

| liveness | what keeps it from failing but for fairness |
| --- | --- |
| `EveryCallEnds` | `CallsAdvance`: with `r` retries a call takes at most `(r + 1)(2r + 5)` steps |
| `EveryCallReturns` (both) | `HeldInside`: a mutex is held by exactly the call that is between `Lock` and `Unlock`, and from there each step moves on |
| `ReadEnds` | `ReadAdvances`: a read limited to `n` blocks takes at most `5n + 7` steps |
| `EveryPostEnds` | `HandlersAdvance`: `n` messages take a handler at most `3n + 1` steps, up to the write of its answer |
| `EveryLineIsHandled` | `LoopAdvances`: `n` lines take the loop at most `5(n + 1)` steps |
| `EndsAfterSignal` | `LoopAdvances`: after a signal it takes at most five |

### What does not hold

Two runs end in a counterexample to something the repository says; each is a
finding in `PROJECT.json` with the line quoted.

- `create-draft-doc` runs its preflight on a document with the folder's token
  (`PreflightOfMutatedResource`); the create itself checks the folder, so the
  change is still checked (`MutationWasChecked`).
- The depth limit cuts without the warning the code has for it
  (`DepthLimitIsReported`).

More that the models do, and that no property speaks of because the code has
nothing that could prevent it:

- a write whose answer is lost is sent again and may be performed twice
  (`HTTPClient`, `SendTransient` and `Retry`);
- calls that find the token cache empty all fetch a token;
- a create whose append fails is reported as an error without the document it
  created (`DocumentWrites`, `PostThenAppend`);
- a tenant token refused with 401 stays in the cache until it expires by its
  lifetime;
- the operation ID an agent repeats is returned but neither sent upstream nor
  remembered;
- the calls in flight when the remote server shuts down are performed or not,
  and nobody is told;
- two processes on one store may each spend a credential's refresh token, and
  one may undo what the other has saved;
- a client that stays and stops reading may hold its handler, or the stdio
  server, in the write of an answer, where no deadline and no signal is looked
  at (`http_server.go:150`, `server.go:44` and `52`);
- a client that never finishes its body holds its handler as well;
- what lies under a block without an ID is left out of a read without a warning
  (`service.go:289`).

## Proofs

TLAPS proves, for all values of the constants:

- `HTTPClient_proofs`: `TypeOK`, `ServedTokenIsLive`, `EffectsAccounted`,
  `CallsAdvance`. The first bounds the loop counters, which needs to know which
  loop a call is in (`InLevel`) and that a call backs off only below the limit
  (`Counted`). `ServedTokenIsLive` is not inductive: the cache's belief has to
  be traced back to the answer it came from. `Received` says of an answer on
  its way that it is at most `Lag` old and promises no more than the platform
  keeps, and `Stored` that what is cached overstates by at most `Lag`,
  whichever answer was stored last. With `Lag =< Margin` the margin covers
  that. `Accounted` ties effects to attempts of the outer loop only. For
  `CallsAdvance` the two counters are the digits of a number that every step
  lowers: a retry of the outer loop resets the inner counter, and pays for it
  with one of its own.
- `UserTokenRefresher_proofs`: `TypeOK`, `StoredRefreshes`,
  `RefreshOnlyLapsed`, `StoredOnlyNewer`, `HeldInside`. The invariant says that
  a call between `Lock` and `Unlock` is the owner of its credential's mutex
  (`Owner`), hence that no other call changes what it read, so that when it
  asks, the store still holds the lapsed binding it read (`Asking`), and when
  it saves, its access token is the newest there is and its refresh token the
  accepted one (`Saving`). `Inside` is the converse of `Owner`: whoever holds a
  mutex has yet to unlock it.
- `FileTokenStore_proofs`, for any number of instances: `TypeOK`, `HeldInside`,
  `MutualExclusion`, `UnmarkedIsPlain`. A thread between `Lock` and its reply
  owns its instance's mutex (`Owner`), and what it is about to write without a
  key is plain (`PlainCopy`), whatever other instances have written since. For
  one instance (`OneInstance`: all threads have the same home):
  `SuccessSealsAll`, `NeverDowngraded` and `Linearizable`, the refinement of
  `CredentialMap`, initial state and every step. There the mutex makes what a
  thread loaded the file as it is (`Fetched`) and what it holds the map with
  its own change (`Copied`), and after migration a keyed instance has sealed
  all of it (`Sealing`). With two instances these three do not hold: one may
  overwrite the other's file with what it read before, which is why the
  hypothesis is there.
- `SkillRun_proofs`, of the single calls: `TypeOK`, `DryRunMutatesNothing`,
  `OkMeansDone`, `MutationWasChecked`, and that an answer which allows an
  action affirms it (`PermissionIsAffirmed`), for any answers of the form
  `AnswerAssumption` gives. The invariant follows an operation along its chain:
  what it is about is settled before the check (`Known`), a dry run never
  reaches the check (`Meant`), and one about to mutate carries the check made
  for it (`Checked`). Of the runs: a run is a behaviour of `DocumentWrites`
  (`RunsAreCalls`), so all that holds of its steps; and `RunTypeOK`,
  `RealMutationGated`, `FailureStopsRun`, `PreflightPrecedes`, for any
  manifests. The gates hold from the start of the run to its end (`Gate`),
  operations are opened in order, one at a time (`Slot`, `Ready`), the open one
  is what its step says (`Calling`), and what has changed was gated when it was
  called (`Mutated`).
- `HTTPServer_proofs`, for any connections, limit and messages: `TypeOK`,
  `NothingSentAfterEnd`, `AnswersComplete`, `HandlersAdvance`, and
  `ServesRequests`, the refinement of `RequestServer`, initial state and every
  step. Only an admissible post gets as far as being handled (`Admitted`,
  `Denied`), the messages handled so far have a response each if they have an
  ID (`Counted`), and what was sent precedes the end of the context (`InTime`).
  A handler that is writing has settled the answer its client will be told
  (`Done`), so that `Write` is the `Tell` of `RequestServer`.
- `StdioServer_proofs`, for any number of lines: `TypeOK`,
  `AnsweredBeforeReadingOn`, `LoopAdvances`, and `ServesRequests`, the
  refinement of `RequestServer`. The lines before the one in hand are answered
  (`Behind`) and the answer about to be written is that line's (`Encoding`).
  The mapping takes from the output the answers that name a line; that an
  answer written adds at most itself to them is a lemma on that recursion. The
  measures of the loop need of all this only that the line in hand has been
  written.
- `DocumentRead_proofs`, for any documents, pagings and limits: `TypeOK`,
  `CutAtTheLimit`, `MissingIsExplained`, `TruncatedIsTrue`, `ReadAdvances`.
  None of the three in the middle is inductive: they speak of the end, and the
  invariant has to say what every frame holds before it. A frame has been
  through `Taken` children of its block; the page it holds is the next of them
  (`FrameOK`), and each frame's block is the child its caller came to last
  (`Calls`). What a frame has collected stands to the `Part` of `Preorder` it
  has been through as an answer stands to the document: equal to it without
  warnings, never longer, and short only of what lies under a warning
  (`Whole`). Once the limit is met, the innermost list is a proper prefix
  (`CutOff`), which the list of its caller inherits when it returns. `Counted`
  adds up the lists of the stack to `readState.seen`, so that the limit on the
  counter is a limit on the answer; a failed page breaks that sum, and its
  warning says so. The measure of `ReadAdvances` does not mention the document:
  a block that is taken lowers the room left by one, which pays for the frame
  it may open, its pages and its return.
- `Startup_proofs`, for any file systems, directories and keys: `TypeOK`,
  `RegistryIsWhatIsThere`, `RemoteStartsWhole`, `UserCallsFollowTheKey`. While
  files are left (`Reading`), each wanted manifest is loaded or left, and every
  one loaded is wanted; a file that is refused makes the whole unloadable,
  whichever others came before it, so the order does not matter. `Behind` says
  what each stage has behind it: from the environment to the call, the key is
  the trimmed one, the remote server has found it fit, and the store is the one
  made for it.

Assumed: the named assumptions in the modules. They say that counters are
numbers, that the marks for "none" are not values, that answers, messages and
manifests have their form, that a run's steps are numbered by its operations,
and `LagAssumption`. TLC evaluates each of them in the runs of its module.
The type invariants of `DocumentRead`, `HTTPServer` and `SkillRun` are also
checked by runs, the others only proved, and so are `MutualExclusion`,
`HandlersAdvance` and `HeldInside` of `FileTokenStore`; every other property
in these lists is also the property of a run.

What a recursive definition computes is proved by induction as a statement
about sets of numbers: `NatByInduction` follows from the well-foundedness of
`<` on the naturals, and `RecursionExists` and `RecursionUnique` give a
recursive function its equations without an operator as a parameter.

One attempt at a proof corrected a property. `TruncatedIsTrue` once said that
a truncated answer lacks blocks. `FEISHU_DOC_MAX_BLOCKS=0` passes
`getenvInt`, the limit is then met before the first page is asked for, and
the answer for an empty document says truncated although nothing is missing;
the property now names that case, which no TLC run had bounds for.

Only model-checked: every liveness property (`EveryCallEnds`,
`EveryCallReturns`, `ReadEnds`, `EveryPostEnds`, `EveryLineIsHandled`,
`EndsAfterSignal`), as fairness and `ENABLED` are out of the prover's reach;
their safety halves, in the table above, are theorems, so what rests on TLC
alone is that no call is stuck with nothing enabled, and that fairness runs
what is. Every invariant, action property and refinement a passing run checks
is also a theorem.

## Not modelled

- The grammar of document URLs and the keys of a lookup's answer
  (`resolver.go`, `canonicalize.go`): which part of a text is a token. A model
  would repeat the string operations; what depends on the result, that a text
  is a token or has to be looked up, is in `DocumentWrites`.
- Markdown conversion (`markdown.go`) and most of `raw_parse.go`: formatting of
  one block without state.
- The authorization URL (`oauth.go`) and `ExchangeOAuthCode`: no program calls
  them.
- How environment variables are parsed (`config.go`): data of `Startup`.
- `GetMetadata` and `ListComments`: one request without state, as in
  `HTTPClient`.
- The health endpoint and the CORS headers of the remote server.

## Plan

Done: tokens, credentials, writes, skills, reads, servers, start, and the
proofs above. What is left:

1. `UserTokenRefresher` for two processes on one store: which of its
   properties survive, and what the second loses.
2. The resolver as an operator over texts split at their separators, against
   the list of forms the documentation gives, if its length stays below the
   code's.
