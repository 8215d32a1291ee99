----------------------------- MODULE HTTPServer -----------------------------
(***************************************************************************)
(* The remote MCP server: handleMCP and handleBatch of                     *)
(* internal/mcp/http_server.go, HandleRequest and HandleNotification of    *)
(* server.go, and main of cmd/feishu-doc-mcp-http-server.  Each POST runs  *)
(* in a goroutine of its own and shares nothing with the others but the    *)
(* process, so a connection carries one request here.                      *)
(*                                                                         *)
(* A message is kept as what decides its handling: whether it has an ID,   *)
(* and whether it calls a tool that changes a document ("write") or does   *)
(* anything else (another tool, a method answered here, an error in it).   *)
(* A tool call is one upstream request, sent under the context of the      *)
(* POST; HTTPClient and DocumentWrites look inside it.                     *)
(***************************************************************************)
EXTENDS Naturals, SequencesExt

CONSTANTS
    Connections,
    MaxBatch,       \* MCP_MAX_BATCH_REQUESTS
    Batches,        \* the message sequences clients post as a batch
    Singles         \* the messages they post alone

ASSUME MaxBatchAssumption == MaxBatch \in Nat \ {0}

ASSUME MessageAssumption ==
    LET Message == [id : BOOLEAN, method : {"write", "other"}]
    IN  Singles \subseteq Message /\ Batches \subseteq Seq(Message)

Bodies == [is : {"empty", "too large", "garbled"}]
            \cup [is : {"single"}, messages : {<<m>> : m \in Singles}]
            \cup [is : {"batch"}, messages : Batches]

Posts == [method : {"POST", "OPTIONS", "GET"},
          token : {"none", "wrong", "right"}, body : Bodies]

NoPost == [method |-> "none"]

VARIABLES
    config,     \* whether a key is configured, whether none is needed
    process,    \* "serving", "closed" to new requests, or "gone"
    conn,       \* each connection: its post and the handler's locals
    sent,       \* messages whose request was sent upstream
    performed   \* platform: those it performed

vars == <<config, process, conn, sent, performed>>

\* phase is where the handler is, next the index of the message at hand, and
\* ended what it was when the context of the post ended, 0 before.  left says
\* that the client closed the connection, stalled that it stays and has stopped
\* reading for good: one that reads on after a pause only delays the server.
\* status (0 before) and answer are what the handler writes to the client and,
\* when it is done, what it may read.
Fresh == [phase |-> "idle", post |-> NoPost, next |-> 1, responses |-> <<>>,
          ended |-> 0, left |-> FALSE, stalled |-> FALSE,
          status |-> 0, answer |-> <<>>]

Working == {"handling", "calling", "sent"}

Init ==
    /\ config \in [apiKey : BOOLEAN, allowUnauthenticated : BOOLEAN]
    /\ process = "serving"
    /\ conn = [c \in Connections |-> Fresh]
    /\ sent = {}
    /\ performed = {}

Phase(c, phase) == conn[c].phase = phase

Goto(c, phase) == conn' = [conn EXCEPT ![c].phase = phase]

Unsent == UNCHANGED <<config, process, sent, performed>>

\* What is to be written; Write does it.
Respond(c, code, rs) ==
    conn' = [conn EXCEPT ![c].phase  = "writing",
                         ![c].status = code,
                         ![c].answer = rs]

\* The answer to a body that is not a request.
BadRequest == <<[to |-> 0, is |-> "error"]>>

Authorized(r) ==
    IF config.apiKey THEN r.token = "right" ELSE config.allowUnauthenticated

Arrive(c, r) ==
    /\ process = "serving"
    /\ Phase(c, "idle")
    /\ conn' = [conn EXCEPT ![c].phase = "received", ![c].post = r]
    /\ Unsent

\* The method, and then the bearer token, are looked at before the body.
Refuse(c) ==
    LET r == conn[c].post IN
    /\ Phase(c, "received")
    /\ \/ r.method = "OPTIONS" /\ Respond(c, 204, <<>>)
       \/ r.method = "GET" /\ Respond(c, 405, <<>>)
       \/ r.method = "POST" /\ ~Authorized(r) /\ Respond(c, 401, <<>>)
    /\ Unsent

\* The body arrives when the client sends it; that it cannot be read, because
\* the client has left, is answered like a body over the limit.
ReadBody(c) ==
    LET r == conn[c].post IN
    /\ Phase(c, "received")
    /\ r.method = "POST"
    /\ Authorized(r)
    /\ \/ /\ conn[c].left \/ r.body.is = "too large"
          /\ Respond(c, 413, <<>>)
       \/ r.body.is # "too large" /\ Goto(c, "read")
    /\ Unsent

\* Mutant: the limit is off by one.
OverBatchLimitByOne(b) == b.is = "batch" /\ Len(b.messages) > MaxBatch + 1

OverBatchLimit(b) == b.is = "batch" /\ Len(b.messages) > MaxBatch

RejectBody(c) ==
    LET b == conn[c].post.body IN
    /\ Phase(c, "read")
    /\ \/ b.is = "empty" /\ Respond(c, 400, <<>>)
       \/ /\ b.is = "garbled" \/ OverBatchLimit(b)
          /\ Respond(c, 200, BadRequest)
    /\ Unsent

\* The deadline of the whole POST starts here; the context of a client that
\* has left is over already.
StartHandling(c) ==
    LET b == conn[c].post.body IN
    /\ Phase(c, "read")
    /\ b.is \in {"single", "batch"}
    /\ ~OverBatchLimit(b)
    /\ conn' = [conn EXCEPT ![c].phase = "handling",
                            ![c].ended = IF conn[c].left THEN 1 ELSE 0]
    /\ Unsent

Messages(c) == conn[c].post.body.messages

InHand(c) == Messages(c)[conn[c].next]

Pending(c) == Phase(c, "handling") /\ conn[c].next <= Len(Messages(c))

\* The result is appended to the responses and the loop goes on.
Result(c, result) ==
    /\ conn' = [conn EXCEPT
                   ![c].phase = "handling",
                   ![c].next = @ + 1,
                   ![c].responses =
                       Append(@, [to |-> conn[c].next, is |-> result])]
    /\ Unsent

\* Mutant: $/cancelRequest waits until there is nothing left to cancel.
HandleNotificationWhenEnded(c) ==
    /\ Pending(c)
    /\ ~InHand(c).id
    /\ conn[c].ended # 0
    /\ conn' = [conn EXCEPT ![c].next = @ + 1]
    /\ Unsent

\* HandleNotification does nothing, whatever the method.
HandleNotification(c) ==
    /\ Pending(c)
    /\ ~InHand(c).id
    /\ conn' = [conn EXCEPT ![c].next = @ + 1]
    /\ Unsent

HandleOther(c) ==
    /\ Pending(c)
    /\ InHand(c) = [id |-> TRUE, method |-> "other"]
    /\ \E result \in {"ok", "error"} : Result(c, result)

\* Mutant: a call without an ID is made all the same.
CallToolUnasked(c) ==
    /\ Pending(c)
    /\ InHand(c).method = "write"
    /\ Goto(c, "calling")
    /\ Unsent

CallTool(c) ==
    /\ Pending(c)
    /\ InHand(c) = [id |-> TRUE, method |-> "write"]
    /\ Goto(c, "calling")
    /\ Unsent

\* Mutant: each call gets a context of its own.
SendUnderOwnContext(c) ==
    /\ Phase(c, "calling")
    /\ sent' = sent \cup {<<c, conn[c].next>>}
    /\ Goto(c, "sent")
    /\ UNCHANGED <<config, process, performed>>

\* net/http sends nothing under a context that is over.
Send(c) ==
    /\ Phase(c, "calling")
    /\ conn[c].ended = 0
    /\ sent' = sent \cup {<<c, conn[c].next>>}
    /\ Goto(c, "sent")
    /\ UNCHANGED <<config, process, performed>>

Perform(message) ==
    /\ performed' = performed \cup {message}
    /\ UNCHANGED <<config, process, conn, sent>>

CallSucceeds(c) ==
    /\ Phase(c, "sent")
    /\ <<c, conn[c].next>> \in performed
    /\ Result(c, "ok")

\* An error of the tool, before or after it sent its request, becomes a
\* result that says so (server.go, lines 88-91), and the batch goes on.
CallFails(c) ==
    /\ conn[c].phase \in {"calling", "sent"}
    /\ Result(c, "error")

\* All responses at once; 202 when there is none to give.
Reply(c) ==
    LET rs == conn[c].responses IN
    Respond(c, IF rs = <<>> THEN 202 ELSE 200, rs)

\* Mutant: a batch stops when its deadline has passed.
FinishAtDeadline(c) ==
    /\ Phase(c, "handling")
    /\ conn[c].next > Len(Messages(c)) \/ conn[c].ended # 0
    /\ Reply(c)
    /\ Unsent

Finish(c) ==
    /\ Phase(c, "handling")
    /\ conn[c].next > Len(Messages(c))
    /\ Reply(c)
    /\ Unsent

\* The answer goes to the connection.  Writing to a client that has gone fails
\* silently (lines 150-154).  One that has stopped reading may block the write
\* for ever, as the server sets no WriteTimeout (main.go, lines 39-43), or the
\* answer may fit into what the connection buffers.
Write(c) ==
    /\ Phase(c, "writing")
    /\ conn' = [conn EXCEPT
                   ![c].phase  = "done",
                   ![c].status = IF conn[c].left THEN 0 ELSE @,
                   ![c].answer = IF conn[c].left THEN <<>> ELSE @]
    /\ Unsent

\* 120 seconds have passed since the body was read.
Deadline(c) ==
    /\ conn[c].phase \in Working
    /\ conn[c].ended = 0
    /\ conn' = [conn EXCEPT ![c].ended = conn[c].next]
    /\ Unsent

\* The client closes the connection, which ends the request's context.
Leave(c) ==
    /\ conn[c].phase \in {"received", "read", "writing"} \cup Working
    /\ ~conn[c].left
    /\ conn' = [conn EXCEPT
                   ![c].left = TRUE,
                   ![c].ended = IF conn[c].phase \in Working /\ @ = 0
                                THEN conn[c].next ELSE @]
    /\ Unsent

\* The client keeps the connection but reads no more of what is written to it.
Stall(c) ==
    /\ conn[c].phase \in {"received", "read", "writing"} \cup Working
    /\ ~conn[c].left /\ ~conn[c].stalled
    /\ conn' = [conn EXCEPT ![c].stalled = TRUE]
    /\ Unsent

\* A signal starts Shutdown, which closes the listener and makes
\* ListenAndServe return; main does not wait for the handlers.
Shutdown ==
    /\ \/ process = "serving" /\ process' = "closed"
       \/ process = "closed" /\ process' = "gone"
    /\ UNCHANGED <<config, conn, sent, performed>>

\* What a handler does by itself, its last write apart.
Serve(c) ==
    /\ process # "gone"
    /\ \/ Refuse(c) \/ RejectBody(c) \/ StartHandling(c)
       \/ HandleNotification(c) \/ HandleOther(c) \/ CallTool(c)
       \/ Send(c) \/ CallSucceeds(c) \/ CallFails(c) \/ Finish(c)

Next ==
    \/ \E c \in Connections :
          \/ Serve(c)
          \/ process # "gone" /\ (ReadBody(c) \/ Write(c) \/ Deadline(c)
                                     \/ Leave(c) \/ Stall(c))
          \/ \E r \in Posts : Arrive(c, r)
    \/ \E message \in sent \ performed : Perform(message)
    \/ Shutdown

Spec == Init /\ [][Next]_vars

\* The client has stopped reading and has not left: it can hold a write.
Holds(c) == conn[c].stalled /\ ~conn[c].left

\* Handlers are goroutines, and every upstream request has a timeout.  A write
\* ends when the client reads or leaves.  A client need not send its body, nor
\* read the answer, nor the platform perform anything.
FairSpec ==
    /\ Spec
    /\ \A c \in Connections :
          /\ WF_vars(Serve(c))
          /\ WF_vars(process # "gone" /\ ~Holds(c) /\ Write(c))

-----------------------------------------------------------------------------
\* The posts whose messages may be handled at all: from an agent with the key,
\* or from anybody when there is no key and that is allowed explicitly, and
\* within the limits.
Admissible(r) ==
    /\ r.method = "POST"
    /\ r.token = "right" \/ ~config.apiKey
    /\ config.apiKey \/ config.allowUnauthenticated
    /\ r.body.is \in {"single", "batch"}
    /\ Len(r.body.messages) <= MaxBatch

Abstract == INSTANCE RequestServer WITH
    Clients  <- Connections,
    Requests <- {<<m>> : m \in Singles} \cup Batches,
    asked    <- [c \in Connections |->
                    IF Admissible(conn[c].post) THEN Messages(c) ELSE <<>>],
    handled  <- [c \in Connections |-> conn[c].next - 1],
    outcomes <- [c \in Connections |-> conn[c].responses],
    told     <- [c \in Connections |->
                    IF Phase(c, "done") /\ conn[c].answer # BadRequest
                    THEN conn[c].answer ELSE <<>>],
    effects  <- performed

Results == [to : 1..MaxBatch, is : {"ok", "error"}]

TypeOK ==
    /\ config \in [apiKey : BOOLEAN, allowUnauthenticated : BOOLEAN]
    /\ process \in {"serving", "closed", "gone"}
    /\ \A c \in Connections :
          LET h == conn[c] IN
          /\ h.phase \in {"idle", "received", "read", "writing", "done"}
                            \cup Working
          /\ h.post \in Posts \cup {NoPost}
          /\ h.next \in 1..(MaxBatch + 1)
          /\ h.responses \in BoundedSeq(Results, MaxBatch)
          /\ h.ended \in 0..(MaxBatch + 1)
          /\ {h.left, h.stalled} \subseteq BOOLEAN
          /\ h.status \in {0, 200, 202, 204, 400, 401, 405, 413}
          /\ h.answer \in {<<>>, BadRequest, h.responses}
    /\ sent \subseteq Connections \X (1..MaxBatch)
    /\ performed \subseteq sent

\* Whatever is posted, by whom and with whatever fails, each connection is
\* served as RequestServer promises: only admissible posts are handled, in
\* order, calls without an ID never act, and the answers are those of the
\* messages with an ID, in their order (lines 70-148).
ServesRequests == Abstract!Spec

\* A client that stays is answered in full: one response for each message
\* with an ID, also when the deadline passed in the middle of a batch and the
\* remaining calls failed for it (lines 109, 122-134).
AnswersComplete ==
    \A c \in Connections :
        LET h == conn[c]
            asking == {i \in DOMAIN Messages(c) : Messages(c)[i].id}
        IN  Phase(c, "done") /\ ~h.left /\ Admissible(h.post) =>
                /\ Len(h.answer) = Cardinality(asking)
                /\ {r.to : r \in Range(h.answer)} = asking
                /\ h.status = IF asking = {} THEN 202 ELSE 200

\* Once the deadline of a POST has passed or its client has left, no later
\* message of it reaches the platform: the batch shares one context (lines
\* 93-96, 123-129).
NothingSentAfterEnd ==
    \A c \in Connections, i \in 1..MaxBatch :
        <<c, i>> \in sent /\ conn[c].ended # 0 => i <= conn[c].ended

\* What the handler of a connection has come to, whatever became of its
\* context and its client.
Progress(c) ==
    [conn[c] EXCEPT !.ended = 0, !.left = FALSE, !.stalled = FALSE]

\* The steps a handler still takes: three for each message that is left.
StepsLeft(c) ==
    LET left == 3 * (Len(Messages(c)) + 1 - conn[c].next)
    IN  CASE Phase(c, "handling") -> left + 1
          [] Phase(c, "calling") -> left
          [] Phase(c, "sent") -> left - 1
          [] OTHER -> 0

\* A batch of n messages is handled in 3n + 1 steps at most, up to the write of
\* its answer: neither a failed call, nor the deadline, nor what the client does
\* with the connection makes the handler turn back to a message, and no other
\* connection gives it more to do (lines 122-148).
HandlersAdvance ==
    [][\A c \in Connections :
          conn[c].phase \in Working /\ Progress(c)' # Progress(c) =>
              StepsLeft(c)' \in 0..(StepsLeft(c) - 1)]_conn

\* A POST whose body has been read ends, unless the process does: no deadline
\* and no departure, before or in the write, leaves the handler waiting.  Only a
\* client that neither reads nor leaves may hold it, and only in the write of
\* its answer, when everything else is done (lines 93-96, 109-148, 150-154).
EveryPostEnds ==
    \A c \in Connections :
        (conn[c].phase \in {"read", "writing"} \cup Working)
            ~> (\/ Phase(c, "done") \/ process = "gone"
                \/ [](Phase(c, "writing") /\ Holds(c)))
=============================================================================
