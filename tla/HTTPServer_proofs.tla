------------------------- MODULE HTTPServer_proofs -------------------------
(***************************************************************************)
(* Proofs about HTTPServer, for any connections, limits and messages.      *)
(* The invariant follows one connection through its handler: what is known *)
(* of it before its messages are handled (Begin, Posted), that only an     *)
(* admissible post gets that far (Admitted, Denied), that each handled     *)
(* message with an ID has its response (Counted), and that what was sent   *)
(* for it precedes the end of its context (InTime).                        *)
(***************************************************************************)
EXTENDS HTTPServer, SequenceTheorems, FiniteSetTheorems, TLAPS

Message == [id : BOOLEAN, method : {"write", "other"}]

Phases == {"idle", "received", "read", "writing", "done"} \cup Working

Configs == [apiKey : BOOLEAN, allowUnauthenticated : BOOLEAN]

Codes == {0, 200, 202, 204, 400, 401, 405, 413}

Answers == [to : Nat, is : {"ok", "error"}]

Handlers ==
    [phase : Phases, post : Posts \cup {NoPost}, next : 1..(MaxBatch + 1),
     responses : Seq(Results), ended : 0..(MaxBatch + 1), left : BOOLEAN,
     stalled : BOOLEAN, status : Codes, answer : Seq(Answers)]

Early == {"idle", "received", "read"}

Msgs(h) == h.post.body.messages

\* The messages that have been handled and want an answer.
Asking(h) == {i \in 1..(h.next - 1) : Msgs(h)[i].id}

SentBy(c) == {i \in 1..MaxBatch : <<c, i>> \in sent}

Begin(h) == h.phase \in Early =>
    /\ h.next = 1 /\ h.ended = 0
    /\ h.responses = <<>> /\ h.answer = <<>>

Posted(h) ==
    /\ IF h.phase = "idle" THEN h.post = NoPost ELSE h.post \in Posts
    /\ h.phase = "read" => h.post.method = "POST" /\ Authorized(h.post)

Admitted(h) == h.phase \in Working => Admissible(h.post) /\ h.answer = <<>>

Denied(h) == ~Admissible(h.post) =>
    /\ h.next = 1 /\ h.responses = <<>>
    /\ h.answer \in {<<>>, BadRequest}

Counted(h) ==
    /\ Len(h.responses) < h.next
    /\ Admissible(h.post) =>
          /\ h.next <= Len(Msgs(h)) + 1
          /\ Len(h.responses) = Cardinality(Asking(h))
          /\ {r.to : r \in Range(h.responses)} = Asking(h)

InCall(h) == h.phase \in {"calling", "sent"} =>
    /\ h.next <= Len(Msgs(h))
    /\ Msgs(h)[h.next] = [id |-> TRUE, method |-> "write"]

Done(h) == h.phase \in {"writing", "done"} =>
    /\ h.answer \in {<<>>, BadRequest, h.responses}
    /\ Admissible(h.post) /\ ~h.left =>
          /\ h.next = Len(Msgs(h)) + 1
          /\ h.answer = h.responses
          /\ h.status = IF h.responses = <<>> THEN 202 ELSE 200

InTime(h, S) ==
    /\ h.ended <= h.next
    /\ \A i \in S : /\ h.phase \notin Early
                    /\ Admissible(h.post)
                    /\ i <= Len(Msgs(h)) /\ i <= h.next
                    /\ Msgs(h)[i] = [id |-> TRUE, method |-> "write"]
                    /\ h.ended # 0 => i <= h.ended

HandlerInv(h, S) ==
    /\ Begin(h) /\ Posted(h) /\ Admitted(h) /\ Denied(h)
    /\ Counted(h) /\ InCall(h) /\ Done(h) /\ InTime(h, S)

Inv ==
    /\ config \in Configs
    /\ process \in {"serving", "closed", "gone"}
    /\ conn \in [Connections -> Handlers]
    /\ sent \subseteq Connections \X (1..MaxBatch)
    /\ performed \subseteq sent
    /\ \A c \in Connections : HandlerInv(conn[c], SentBy(c))

-----------------------------------------------------------------------------
\* A response replaces one handler.
Responded(h, code, rs) ==
    [h EXCEPT !.phase = "writing", !.status = code, !.answer = rs]

LEMMA RespondIsExcept ==
    ASSUME conn \in [Connections -> Handlers], NEW c \in Connections,
           NEW code, NEW rs, Respond(c, code, rs)
    PROVE  conn' = [conn EXCEPT ![c] = Responded(conn[c], code, rs)]
BY DEF Respond, Responded

\* An admissible post carries a sequence of messages within the limit.
LEMMA AdmissiblePost ==
    ASSUME NEW r \in Posts, Admissible(r)
    PROVE  /\ r.body.messages \in Seq(Message)
           /\ r.body.messages \in {<<m>> : m \in Singles} \cup Batches
           /\ Len(r.body.messages) \in 0..MaxBatch
<1>1. \A m \in Singles : <<m>> \in Seq(Message)
  BY MessageAssumption DEF Message
<1>2. r.body.messages \in {<<m>> : m \in Singles} \cup Batches
  BY DEF Admissible, Posts, Bodies
<1>3. r.body.messages \in Seq(Message)
  BY <1>1, <1>2, MessageAssumption DEF Message
<1> QED
  BY <1>2, <1>3, LenProperties, MaxBatchAssumption DEF Admissible

LEMMA NobodyAdmissible == ~Admissible(NoPost)
BY DEF Admissible, NoPost

\* What is said of a handler depends on no variable but the configuration.
LEMMA SamePredicate ==
    ASSUME UNCHANGED config, NEW d \in Connections,
           HandlerInv(conn'[d], SentBy(d)')
    PROVE  HandlerInv(conn[d], SentBy(d))'
<1>1. Posted(conn[d])' /\ Begin(conn[d])'
  BY DEF HandlerInv, Posted, Begin, Authorized
<1>2. Admitted(conn[d])' /\ Denied(conn[d])'
  BY DEF HandlerInv, Admitted, Denied, Admissible
<1>3. Counted(conn[d])'
  <2>1. Asking(conn[d])' = Asking(conn'[d])
    BY DEF Asking, Msgs
  <2> QED
    BY <2>1 DEF HandlerInv, Counted, Admissible, Msgs
<1>4. InCall(conn[d])' /\ Done(conn[d])'
  BY DEF HandlerInv, InCall, Done, Admissible, Msgs
<1>5. InTime(conn[d], SentBy(d))'
  BY DEF HandlerInv, InTime, Admissible, Msgs
<1> QED
  BY <1>1, <1>2, <1>3, <1>4, <1>5 DEF HandlerInv

\* A step of one handler: the others, and what was sent for them, stay.
LEMMA HandlerStep ==
    ASSUME Inv, NEW c \in Connections, NEW h \in Handlers,
           conn' = [conn EXCEPT ![c] = h],
           UNCHANGED <<config, process, sent, performed>>,
           HandlerInv(h, SentBy(c))
    PROVE  Inv'
<1>1. ASSUME NEW d \in Connections PROVE HandlerInv(conn'[d], SentBy(d)')
  BY DEF Inv, SentBy
<1>2. ASSUME NEW d \in Connections PROVE HandlerInv(conn[d], SentBy(d))'
  BY <1>1, SamePredicate
<1> QED
  BY <1>2 DEF Inv

LEMMA InitInv == Init => Inv
<1> SUFFICES ASSUME Init PROVE Inv
  OBVIOUS
<1>1. Fresh \in Handlers
  BY MaxBatchAssumption DEF Fresh, Handlers, Phases, Codes
<1>2. HandlerInv(Fresh, {})
  BY NobodyAdmissible, MaxBatchAssumption
  DEF Fresh, HandlerInv, Begin, Posted, Admitted, Denied, Counted, InCall,
      Done, InTime, Working, Early
<1>3. \A c \in Connections : SentBy(c) = {}
  BY DEF Init, SentBy
<1> QED
  BY <1>1, <1>2, <1>3 DEF Init, Inv, Configs

\* Answering an early handler, or one whose messages are done.
LEMMA RespondInv ==
    ASSUME Inv, NEW c \in Connections, NEW code \in Codes \ {0}, NEW rs,
           Respond(c, code, rs), Unsent,
           \/ /\ conn[c].phase \in {"received", "read"}
              /\ rs \in {<<>>, BadRequest}
              /\ ~conn[c].left => ~Admissible(conn[c].post)
           \/ /\ conn[c].phase = "handling"
              /\ conn[c].next = Len(Messages(c)) + 1
              /\ rs = conn[c].responses
              /\ code = IF rs = <<>> THEN 202 ELSE 200
    PROVE  Inv'
<1> DEFINE old == conn[c]
           h == [old EXCEPT !.phase = "writing", !.status = code, !.answer = rs]
<1>1. old \in Handlers /\ HandlerInv(old, SentBy(c))
  BY DEF Inv
<1>2. conn' = [conn EXCEPT ![c] = h]
  <2>1. conn \in [Connections -> Handlers]
    BY DEF Inv
  <2>2. conn' = [conn EXCEPT ![c] = Responded(old, code, rs)]
    BY <2>1, RespondIsExcept
  <2> QED
    BY <2>2 DEF Responded
<1>3. rs \in Seq(Answers)
  <2>1. BadRequest \in Seq(Answers)
    BY DEF BadRequest, Answers
  <2>2. old.responses \in Seq(Answers)
    <3>1. Results \subseteq Answers
      BY DEF Results, Answers
    <3>2. old.responses \in Seq(Results)
      BY <1>1 DEF Handlers
    <3> QED
      BY <3>1, <3>2, SeqMonotonic
  <2> QED
    BY <2>1, <2>2, EmptySeq
<1>4. h \in Handlers
  <2>1. h.answer \in Seq(Answers)
    BY <1>1, <1>3, EmptySeq DEF Handlers
  <2>2. h.status \in Codes
    BY <1>1 DEF Handlers, Codes
  <2> QED
    BY <1>1, <2>1, <2>2 DEF Handlers, Phases
<1>5. Begin(h) /\ Posted(h) /\ Admitted(h) /\ InCall(h) /\ Done(h)
  BY <1>1 DEF HandlerInv, Begin, Posted, Admitted, InCall, Done, Handlers,
              Msgs, Messages, Working, Early
<1>6. Counted(h) /\ Denied(h)
  <2>1. Asking(h) = Asking(old)
    BY DEF Asking, Msgs
  <2> QED
    BY <1>1, <2>1
    DEF HandlerInv, Counted, Denied, Admitted, Begin, Msgs, Handlers,
        Working, Early
<1>7. InTime(h, SentBy(c))
  BY <1>1 DEF HandlerInv, InTime, Msgs, Handlers, Early
<1> QED
  BY <1>2, <1>4, <1>5, <1>6, <1>7, HandlerStep DEF HandlerInv, Unsent

\* Changing the phase, the post or the context of a handler keeps what is
\* counted.
LEMMA SameCount ==
    ASSUME NEW old, NEW h, h.next = old.next, h.responses = old.responses,
           h.post = old.post, Counted(old)
    PROVE  Counted(h)
<1>1. Asking(h) = Asking(old)
  BY DEF Asking, Msgs
<1> QED
  BY <1>1 DEF Counted, Msgs

LEMMA ArriveInv ==
    ASSUME Inv, NEW c \in Connections, NEW r \in Posts, Arrive(c, r)
    PROVE  Inv'
<1> DEFINE old == conn[c]
           h == [old EXCEPT !.phase = "received", !.post = r]
<1>1. old \in Handlers /\ HandlerInv(old, SentBy(c))
  BY DEF Inv
<1>2. conn' = [conn EXCEPT ![c] = h] /\ old.phase = "idle"
  BY DEF Arrive, Phase, Inv
<1>3. h \in Handlers
  BY <1>1 DEF Handlers, Phases
<1>4. /\ old.next = 1 /\ old.ended = 0
      /\ old.responses = <<>> /\ old.answer = <<>>
  BY <1>1, <1>2 DEF HandlerInv, Begin, Early
<1>5. Begin(h) /\ Posted(h) /\ Admitted(h) /\ Denied(h) /\ InCall(h) /\ Done(h)
  BY <1>1, <1>4 DEF Begin, Posted, Admitted, Denied, InCall, Done, Handlers,
                    Working
<1>6. Counted(h)
  <2>1. Asking(h) = {} /\ Range(h.responses) = {}
    BY <1>1, <1>4 DEF Asking, Handlers, Range
  <2>2. Admissible(r) => Len(r.body.messages) \in Nat
    BY AdmissiblePost, MaxBatchAssumption
  <2>3. {m.to : m \in Range(h.responses)} = Asking(h)
    BY <2>1
  <2>4. Len(h.responses) = 0 /\ Cardinality(Asking(h)) = 0
    BY <1>1, <1>4, <2>1, FS_EmptySet DEF Handlers
  <2>5. h.next = 1 /\ h.post = r
    BY <1>1, <1>4 DEF Handlers
  <2> QED
    BY <2>2, <2>3, <2>4, <2>5 DEF Counted, Msgs
<1>7. SentBy(c) = {}
  BY <1>1, <1>2 DEF HandlerInv, InTime, Early
<1> QED
  BY <1>1, <1>2, <1>3, <1>4, <1>5, <1>6, <1>7, HandlerStep
  DEF HandlerInv, InTime, Arrive, Unsent, Handlers

LEMMA RefuseInv == ASSUME Inv, NEW c \in Connections, Refuse(c) PROVE Inv'
<1>1. \E code \in Codes \ {0} : Respond(c, code, <<>>)
  BY DEF Refuse, Codes
<1>2. ~Admissible(conn[c].post)
  BY DEF Refuse, Admissible, Authorized, Inv, Configs
<1> QED
  BY <1>1, <1>2, RespondInv DEF Refuse, Phase

LEMMA RejectBodyInv ==
    ASSUME Inv, NEW c \in Connections, RejectBody(c) PROVE Inv'
<1>1. \E code \in Codes \ {0}, rs \in {<<>>, BadRequest} : Respond(c, code, rs)
  BY DEF RejectBody, Codes
<1>2. ~Admissible(conn[c].post)
  <2> SUFFICES ASSUME Admissible(conn[c].post) PROVE FALSE
    OBVIOUS
  <2>1. conn[c].post \in Posts
    BY DEF RejectBody, Phase, Inv, HandlerInv, Posted
  <2>2. Len(conn[c].post.body.messages) \in 0..MaxBatch
    BY <2>1, AdmissiblePost
  <2> QED
    BY <2>2, MaxBatchAssumption DEF RejectBody, Admissible, OverBatchLimit
<1> QED
  BY <1>1, <1>2, RespondInv DEF RejectBody, Phase

LEMMA FinishInv == ASSUME Inv, NEW c \in Connections, Finish(c) PROVE Inv'
<1>1. conn[c] \in Handlers /\ HandlerInv(conn[c], SentBy(c))
  BY DEF Inv
<1>2. Admissible(conn[c].post) /\ conn[c].post \in Posts
  BY <1>1 DEF Finish, Phase, HandlerInv, Admitted, Posted, Working
<1>3. conn[c].next = Len(Messages(c)) + 1
  <2>1. Len(Messages(c)) \in Nat /\ conn[c].next \in Nat
    BY <1>1, <1>2, AdmissiblePost, MaxBatchAssumption DEF Handlers, Messages
  <2> QED
    <3>1. conn[c].next > Len(Messages(c))
      BY DEF Finish
    <3>2. conn[c].next <= Len(Messages(c)) + 1
      BY <1>1, <1>2 DEF HandlerInv, Counted, Msgs, Messages
    <3> QED
      BY <2>1, <3>1, <3>2
<1> QED
  BY <1>3, RespondInv DEF Finish, Reply, Phase, Codes

\* A handler moves on, or its context ends, between two messages.
LEMMA MoveInv ==
    ASSUME Inv, NEW c \in Connections, NEW h \in Handlers,
           conn' = [conn EXCEPT ![c] = h],
           UNCHANGED <<config, process, sent, performed>>,
           h = [conn[c] EXCEPT !.phase = h.phase, !.ended = h.ended,
                               !.left = h.left],
           conn[c].phase \in {"received", "read"} \cup Working,
           h.phase \in {"received", "read"} \cup Working,
           h.phase \in Early => conn[c].phase \in Early /\ h.ended = 0,
           h.phase = "read" => h.post.method = "POST" /\ Authorized(h.post),
           h.phase \in Working => Admissible(h.post),
           h.ended \in {0, h.next} \/ h.ended = conn[c].ended,
           conn[c].ended # 0 => h.ended = conn[c].ended,
           InCall(h)
    PROVE  Inv'
<1> DEFINE old == conn[c]
<1>1. old \in Handlers /\ HandlerInv(old, SentBy(c))
  BY DEF Inv
<1>2. /\ h.post = old.post /\ h.next = old.next
      /\ h.responses = old.responses /\ h.answer = old.answer
  BY <1>1 DEF Handlers
<1>3. Counted(h)
  BY <1>1, <1>2, SameCount DEF HandlerInv
<1>4. Begin(h) /\ Posted(h) /\ Admitted(h) /\ Denied(h) /\ Done(h)
  <2>1. old.answer = <<>>
    BY <1>1 DEF HandlerInv, Begin, Admitted, Handlers, Phases, Early, Working
  <2> QED
    BY <1>1, <1>2, <2>1
    DEF HandlerInv, Begin, Posted, Admitted, Denied, Done, Early, Working
<1>5. InTime(h, SentBy(c))
  BY <1>1, <1>2 DEF HandlerInv, InTime, Handlers, Msgs
<1> QED
  BY <1>3, <1>4, <1>5, HandlerStep DEF HandlerInv

LEMMA ReadBodyInv == ASSUME Inv, NEW c \in Connections, ReadBody(c) PROVE Inv'
<1> DEFINE old == conn[c]
           h == [old EXCEPT !.phase = "read"]
<1>1. old \in Handlers /\ HandlerInv(old, SentBy(c)) /\ old.phase = "received"
  BY DEF Inv, ReadBody, Phase
<1>2. CASE (old.left \/ old.post.body.is = "too large") /\ Respond(c, 413, <<>>)
  <2>1. ~old.left => ~Admissible(old.post)
    BY <1>2 DEF Admissible
  <2>2. 413 \in Codes \ {0}
    BY DEF Codes
  <2> QED
    BY <1>1, <1>2, <2>1, <2>2, RespondInv DEF ReadBody
<1>3. CASE Goto(c, "read")
  <2>1. conn' = [conn EXCEPT ![c] = h]
    BY <1>3 DEF Goto, Inv
  <2>2. /\ h \in Handlers /\ h.phase = "read" /\ h.post = old.post
        /\ h.ended = old.ended /\ h.next = old.next
        /\ h = [old EXCEPT !.phase = h.phase, !.ended = h.ended,
                           !.left = h.left]
    BY <1>1 DEF Handlers, Phases
  <2>3. h.ended = 0
    BY <1>1, <2>2 DEF HandlerInv, Begin, Early
  <2> QED
    BY <1>1, <2>1, <2>2, <2>3, MoveInv
    DEF ReadBody, Unsent, Working, Early, InCall
<1> QED
  BY <1>2, <1>3 DEF ReadBody

LEMMA StartHandlingInv ==
    ASSUME Inv, NEW c \in Connections, StartHandling(c) PROVE Inv'
<1> DEFINE old == conn[c]
           h == [old EXCEPT !.phase = "handling",
                            !.ended = IF old.left THEN 1 ELSE 0]
<1>1. old \in Handlers /\ HandlerInv(old, SentBy(c)) /\ old.phase = "read"
  BY DEF Inv, StartHandling, Phase
<1>2. conn' = [conn EXCEPT ![c] = h]
  BY DEF StartHandling, Inv
<1>3. /\ h \in Handlers /\ h.phase = "handling" /\ h.post = old.post
      /\ h.ended \in {0, 1} /\ h.next = old.next
      /\ h = [old EXCEPT !.phase = h.phase, !.ended = h.ended,
                         !.left = h.left]
  <2>1. 0 \in 0..(MaxBatch + 1) /\ 1 \in 0..(MaxBatch + 1)
    BY MaxBatchAssumption
  <2> QED
    BY <1>1, <2>1 DEF Handlers, Phases, Working
<1>4. h.next = 1 /\ old.ended = 0
  BY <1>1, <1>3 DEF HandlerInv, Begin, Early
<1>5. Admissible(h.post)
  <2>1. /\ old.post \in Posts /\ old.post.method = "POST"
        /\ Authorized(old.post)
    BY <1>1 DEF HandlerInv, Posted
  <2>2. CASE old.post.body.is = "single"
    <3>1. PICK m \in Singles : old.post.body.messages = <<m>>
      BY <2>1, <2>2 DEF Posts, Bodies
    <3> QED
      <4>1. Len(old.post.body.messages) <= MaxBatch
        BY <3>1, MaxBatchAssumption
      <4> QED
        BY <1>3, <2>1, <2>2, <4>1
        DEF Admissible, Authorized, Inv, Configs
  <2>3. CASE old.post.body.is = "batch"
    <3>1. old.post.body.messages \in Seq(Message)
      BY <2>1, <2>3, MessageAssumption DEF Posts, Bodies, Message
    <3> QED
      BY <1>3, <2>1, <2>3, <3>1, MaxBatchAssumption, LenProperties
      DEF Admissible, Authorized, Inv, Configs, StartHandling, OverBatchLimit
  <2> QED
    BY <2>2, <2>3 DEF StartHandling
<1>6. UNCHANGED <<config, process, sent, performed>>
  BY DEF StartHandling, Unsent
<1>7. InCall(h)
  BY <1>3 DEF InCall
<1>8. /\ h.phase \notin Early /\ h.phase \in Working
      /\ old.phase \in {"received", "read"}
  BY <1>1, <1>3 DEF Early, Working
<1>9. h.ended \in {0, h.next} /\ (old.ended # 0 => h.ended = old.ended)
  BY <1>3, <1>4
<1> HIDE DEF h
<1> QED
  BY <1>2, <1>3, <1>5, <1>6, <1>7, <1>8, <1>9, MoveInv

LEMMA CallToolInv == ASSUME Inv, NEW c \in Connections, CallTool(c) PROVE Inv'
<1> DEFINE old == conn[c]
           h == [old EXCEPT !.phase = "calling"]
<1>1. old \in Handlers /\ HandlerInv(old, SentBy(c)) /\ old.phase = "handling"
  BY DEF Inv, CallTool, Pending, Phase
<1>2. conn' = [conn EXCEPT ![c] = h]
  BY DEF CallTool, Goto, Inv
<1>3. /\ h \in Handlers /\ h.phase = "calling" /\ h.post = old.post
      /\ h.ended = old.ended /\ h.next = old.next
      /\ h = [old EXCEPT !.phase = h.phase, !.ended = h.ended,
                         !.left = h.left]
  BY <1>1 DEF Handlers, Phases, Working
<1>4. Admissible(h.post)
  BY <1>1, <1>3 DEF HandlerInv, Admitted, Working
<1>5. InCall(h)
  BY <1>3 DEF CallTool, Pending, InHand, Messages, InCall, Msgs
<1> QED
  BY <1>1, <1>2, <1>3, <1>4, <1>5, MoveInv
  DEF CallTool, Unsent, Working, Early

\* While the answer is written and after it, the client may go without it.
LEMMA WritingInv ==
    ASSUME Inv, NEW c \in Connections, NEW h \in Handlers,
           conn' = [conn EXCEPT ![c] = h],
           UNCHANGED <<config, process, sent, performed>>,
           conn[c].phase = "writing", h.phase \in {"writing", "done"},
           h.post = conn[c].post, h.next = conn[c].next,
           h.responses = conn[c].responses, h.ended = conn[c].ended,
           h.answer \in {<<>>, conn[c].answer},
           \/ h.left
           \/ /\ h.left = conn[c].left /\ h.status = conn[c].status
              /\ h.answer = conn[c].answer
    PROVE  Inv'
<1> DEFINE old == conn[c]
<1>1. old \in Handlers /\ HandlerInv(old, SentBy(c))
  BY DEF Inv
<1>2. Counted(h)
  BY <1>1, SameCount DEF HandlerInv
<1>3. Begin(h) /\ Posted(h) /\ Admitted(h) /\ Denied(h) /\ InCall(h)
  BY <1>1
  DEF HandlerInv, Begin, Posted, Admitted, Denied, InCall, Early, Working
<1>4. Done(h)
  BY <1>1 DEF HandlerInv, Done, Msgs
<1>5. InTime(h, SentBy(c))
  BY <1>1 DEF HandlerInv, InTime, Early, Msgs
<1> QED
  BY <1>2, <1>3, <1>4, <1>5, HandlerStep DEF HandlerInv

Written(h) == [h EXCEPT !.phase  = "done",
                        !.status = IF h.left THEN 0 ELSE h.status,
                        !.answer = IF h.left THEN <<>> ELSE h.answer]

LEMMA WrittenIs ==
    ASSUME NEW h \in Handlers
    PROVE  /\ Written(h) \in Handlers /\ Written(h).phase = "done"
           /\ Written(h).post = h.post /\ Written(h).next = h.next
           /\ Written(h).responses = h.responses
           /\ Written(h).ended = h.ended /\ Written(h).left = h.left
           /\ Written(h).status = IF h.left THEN 0 ELSE h.status
           /\ Written(h).answer = IF h.left THEN <<>> ELSE h.answer
<1> DEFINE code == IF h.left THEN 0 ELSE h.status
           rs == IF h.left THEN <<>> ELSE h.answer
<1>1. code \in Codes /\ rs \in Seq(Answers)
  BY EmptySeq DEF Handlers, Codes
<1>2. Written(h) = [h EXCEPT !.phase = "done", !.status = code, !.answer = rs]
  BY DEF Written
<1> HIDE DEF code, rs
<1>3. /\ Written(h) \in Handlers /\ Written(h).phase = "done"
      /\ Written(h).post = h.post /\ Written(h).next = h.next
      /\ Written(h).responses = h.responses
      /\ Written(h).ended = h.ended /\ Written(h).left = h.left
      /\ Written(h).status = code /\ Written(h).answer = rs
  BY <1>1, <1>2 DEF Handlers, Phases
<1> QED
  BY <1>3 DEF code, rs

LEMMA WriteStep ==
    ASSUME Inv, NEW c \in Connections, Write(c)
    PROVE  conn' = [conn EXCEPT ![c] = Written(conn[c])]
BY DEF Write, Written, Inv

LEMMA WriteInv == ASSUME Inv, NEW c \in Connections, Write(c) PROVE Inv'
<1> DEFINE old == conn[c]
           h == Written(old)
<1>1. old \in Handlers /\ old.phase = "writing"
  BY DEF Inv, Write, Phase
<1>2. conn' = [conn EXCEPT ![c] = h]
  BY WriteStep
<1>3. /\ h \in Handlers /\ h.phase = "done"
      /\ h.post = old.post /\ h.next = old.next
      /\ h.responses = old.responses
      /\ h.ended = old.ended /\ h.left = old.left
      /\ h.status = IF h.left THEN 0 ELSE old.status
      /\ h.answer = IF h.left THEN <<>> ELSE old.answer
  BY <1>1, WrittenIs
<1> HIDE DEF h
<1> QED
  BY <1>1, <1>2, <1>3, WritingInv DEF Write, Unsent

\* That the client reads no more shows in nothing else.
LEMMA StallInv == ASSUME Inv, NEW c \in Connections, Stall(c) PROVE Inv'
<1> DEFINE old == conn[c]
           h == [old EXCEPT !.stalled = TRUE]
<1>1. old \in Handlers /\ HandlerInv(old, SentBy(c))
  BY DEF Inv
<1>2. conn' = [conn EXCEPT ![c] = h]
  BY DEF Stall, Inv
<1>3. /\ h \in Handlers /\ h.phase = old.phase
      /\ h.post = old.post /\ h.next = old.next
      /\ h.responses = old.responses /\ h.ended = old.ended
      /\ h.left = old.left /\ h.status = old.status
      /\ h.answer = old.answer
  BY <1>1 DEF Handlers
<1> HIDE DEF h
<1>4. Counted(h)
  BY <1>1, <1>3, SameCount DEF HandlerInv
<1>5. Begin(h) /\ Posted(h) /\ Admitted(h) /\ Denied(h)
  BY <1>1, <1>3 DEF HandlerInv, Begin, Posted, Admitted, Denied
<1>6. InCall(h) /\ Done(h) /\ InTime(h, SentBy(c))
  BY <1>1, <1>3 DEF HandlerInv, InCall, Done, InTime, Msgs
<1> QED
  BY <1>2, <1>3, <1>4, <1>5, <1>6, HandlerStep DEF HandlerInv, Stall, Unsent

LEMMA LeaveWritingInv ==
    ASSUME Inv, NEW c \in Connections, Leave(c), conn[c].phase = "writing"
    PROVE  Inv'
<1> DEFINE old == conn[c]
           h == [old EXCEPT !.left = TRUE]
<1>1. old \in Handlers
  BY DEF Inv
<1>2. conn' = [conn EXCEPT ![c] = h]
  BY <1>1 DEF Leave, Inv, Handlers, Working
<1>3. /\ h \in Handlers /\ h.phase = "writing"
      /\ h.post = old.post /\ h.next = old.next
      /\ h.responses = old.responses /\ h.ended = old.ended
      /\ h.left /\ h.answer = old.answer
  BY <1>1 DEF Handlers
<1> HIDE DEF h
<1> QED
  BY <1>2, <1>3, WritingInv DEF Leave, Unsent

\* The context of a post ends, by its deadline or with its client.
LEMMA EndInv ==
    ASSUME Inv, NEW c \in Connections, Deadline(c) \/ Leave(c),
           conn[c].phase # "writing"
    PROVE  Inv'
<1> DEFINE old == conn[c]
           left == IF Leave(c) THEN TRUE ELSE old.left
           ended == IF old.phase \in Working /\ old.ended = 0
                    THEN old.next ELSE old.ended
           h == [old EXCEPT !.left = left, !.ended = ended]
<1>1. /\ old \in Handlers /\ HandlerInv(old, SentBy(c))
      /\ old.phase \in {"received", "read"} \cup Working
  BY DEF Inv, Deadline, Leave
<1>2. conn' = [conn EXCEPT ![c] = h]
  <2>1. CASE Leave(c)
    BY <1>1, <2>1 DEF Leave, Inv, Handlers
  <2>2. CASE Deadline(c) /\ ~Leave(c)
    <3>1. h = [old EXCEPT !.ended = old.next]
      BY <1>1, <2>2 DEF Deadline, Handlers
    <3> QED
      BY <2>2, <3>1 DEF Deadline, Inv
  <2> QED
    BY <2>1, <2>2
<1>3. /\ h \in Handlers /\ h.phase = old.phase /\ h.post = old.post
      /\ h.ended = ended /\ h.next = old.next
      /\ h = [old EXCEPT !.phase = h.phase, !.ended = h.ended,
                         !.left = h.left]
  <2>1. ended \in 0..(MaxBatch + 1) /\ left \in BOOLEAN
    <3>1. /\ old.next \in 1..(MaxBatch + 1) /\ old.left \in BOOLEAN
          /\ old.ended \in 0..(MaxBatch + 1)
      BY <1>1 DEF Handlers
    <3>2. left \in BOOLEAN
      BY <3>1, Zenon
    <3>3. ended \in {old.next, old.ended}
      OBVIOUS
    <3> HIDE DEF ended, left
    <3> QED
      BY <3>1, <3>2, <3>3, MaxBatchAssumption
  <2> HIDE DEF ended, left
  <2> QED
    BY <1>1, <2>1 DEF Handlers
<1>4. old.phase \in Early => old.ended = 0 /\ ended = 0
  BY <1>1 DEF HandlerInv, Begin, Early, Working
<1>5. InCall(h)
  BY <1>1, <1>3 DEF HandlerInv, InCall, Msgs
<1>6. /\ h.phase = "read" => h.post.method = "POST" /\ Authorized(h.post)
      /\ h.phase \in Working => Admissible(h.post)
  BY <1>1, <1>3 DEF HandlerInv, Posted, Admitted
<1>7. /\ h.phase \in {"received", "read"} \cup Working
      /\ old.ended # 0 => ended = old.ended
      /\ ended \in {0, old.next} \/ ended = old.ended
  BY <1>1, <1>3 DEF Working
<1>8. UNCHANGED <<config, process, sent, performed>>
  BY DEF Deadline, Leave, Unsent
<1> HIDE DEF ended, left, h
<1> QED
  BY <1>2, <1>3, <1>4, <1>5, <1>6, <1>7, <1>8, MoveInv

\* A message that is done is counted when it has an ID.
LEMMA NextCounted ==
    ASSUME NEW old \in Handlers, NEW h, Counted(old),
           Admissible(old.post), old.post \in Posts,
           old.next <= Len(Msgs(old)),
           h.post = old.post, h.next = old.next + 1,
           \/ ~Msgs(old)[old.next].id /\ h.responses = old.responses
           \/ /\ Msgs(old)[old.next].id
              /\ \E w \in {"ok", "error"} :
                    h.responses = Append(old.responses,
                                         [to |-> old.next, is |-> w])
    PROVE  Counted(h) /\ h.responses \in Seq(Results)
<1> DEFINE n == old.next
           rs == old.responses
<1>1. n \in 1..MaxBatch /\ rs \in Seq(Results) /\ Len(Msgs(h)) \in Nat
  BY AdmissiblePost, MaxBatchAssumption DEF Handlers, Msgs
<1>2. /\ Len(rs) < n /\ Len(rs) = Cardinality(Asking(old))
      /\ {r.to : r \in Range(rs)} = Asking(old)
  BY DEF Counted
<1> DEFINE M == Msgs(old)
<1>0. /\ Asking(old) = {i \in 1..(n - 1) : M[i].id}
      /\ Asking(h) = {i \in 1..n : M[i].id}
  <2>1. Msgs(h) = M /\ h.next - 1 = n
    BY <1>1 DEF Msgs
  <2> QED
    BY <2>1 DEF Asking
<1>3. IsFiniteSet(Asking(old)) /\ n \notin Asking(old)
  <2>1. IsFiniteSet(1..(n - 1))
    <3>1. 1 \in Int /\ n - 1 \in Int
      BY <1>1
    <3> QED
      BY <3>1, FS_Interval
  <2> QED
    BY <1>1, <2>1, FS_Subset DEF Asking
<1>4. CASE ~Msgs(old)[n].id /\ h.responses = rs
  <2> HIDE DEF M
  <2>1. 1..n = (1..(n - 1)) \cup {n}
    BY <1>1
  <2>2. ~M[n].id
    BY <1>4 DEF M
  <2>3. Asking(h) = Asking(old)
    BY <1>0, <2>1, <2>2
  <2>4. h.next <= Len(Msgs(h)) + 1 /\ Len(rs) < h.next
    BY <1>1, <1>2, LenProperties DEF Msgs
  <2> QED
    BY <1>1, <1>2, <1>4, <2>3, <2>4 DEF Counted
<1>5. ASSUME Msgs(old)[n].id, NEW w \in {"ok", "error"},
             h.responses = Append(rs, [to |-> n, is |-> w])
      PROVE  Counted(h) /\ h.responses \in Seq(Results)
  <2> DEFINE r == [to |-> n, is |-> w]
  <2>1. r \in Results
    BY <1>1 DEF Results
  <2>2. Asking(h) = Asking(old) \cup {n}
    <3> HIDE DEF M
    <3>1. 1..n = (1..(n - 1)) \cup {n}
      BY <1>1
    <3>2. M[n].id
      BY <1>5 DEF M
    <3> QED
      BY <1>0, <3>1, <3>2
  <2>3. Cardinality(Asking(h)) = Len(rs) + 1
    <3>1. Cardinality(Asking(old) \cup {n}) = Cardinality(Asking(old)) + 1
      BY <1>3, FS_AddElement
    <3> QED
      BY <1>2, <2>2, <3>1
  <2>4. /\ h.responses \in Seq(Results) /\ Len(h.responses) = Len(rs) + 1
        /\ \A i \in 1..Len(rs) : h.responses[i] = rs[i]
        /\ h.responses[Len(rs) + 1] = r
    BY <1>1, <1>5, <2>1, AppendProperties
  <2>5. Range(h.responses) = Range(rs) \cup {r}
    <3>1. /\ Range(rs) = {rs[i] : i \in 1..Len(rs)} /\ Len(rs) \in Nat
          /\ Range(h.responses) =
               {h.responses[i] : i \in 1..(Len(rs) + 1)}
      <4>1. Range(rs) = {rs[i] : i \in 1..Len(rs)} /\ Len(rs) \in Nat
        BY <1>1, RangeEquality, LenProperties
      <4>2. Range(h.responses) =
               {h.responses[i] : i \in 1..Len(h.responses)}
        BY <2>4, RangeEquality
      <4> QED
        BY <2>4, <4>1, <4>2
    <3> QED
      BY <2>4, <3>1
  <2>6. {m.to : m \in Range(h.responses)} = Asking(h)
    <3>1. r.to = n
      OBVIOUS
    <3> HIDE DEF r
    <3> QED
      BY <1>2, <2>2, <2>5, <3>1
  <2>7. h.next <= Len(Msgs(h)) + 1 /\ Len(h.responses) < h.next
    BY <1>1, <1>2, <2>4, LenProperties DEF Msgs
  <2> QED
    BY <2>3, <2>4, <2>6, <2>7 DEF Counted
<1> QED
  BY <1>1, <1>4, <1>5

LEMMA NextMessageInv ==
    ASSUME Inv, NEW c \in Connections, NEW h,
           conn' = [conn EXCEPT ![c] = h], Unsent,
           conn[c].phase \in Working,
           conn[c].next <= Len(Messages(c)),
           h = [conn[c] EXCEPT !.phase = "handling", !.next = conn[c].next + 1,
                               !.responses = h.responses],
           \/ ~InHand(c).id /\ h.responses = conn[c].responses
           \/ /\ InHand(c).id
              /\ \E w \in {"ok", "error"} :
                    h.responses = Append(conn[c].responses,
                                         [to |-> conn[c].next, is |-> w])
    PROVE  Inv'
<1> DEFINE old == conn[c]
<1>1. old \in Handlers /\ HandlerInv(old, SentBy(c))
  BY DEF Inv
<1>2. Admissible(old.post) /\ old.post \in Posts /\ old.answer = <<>>
  BY <1>1 DEF HandlerInv, Admitted, Posted, Working
<1>3. /\ h.phase = "handling" /\ h.post = old.post /\ h.next = old.next + 1
      /\ h.answer = <<>> /\ h.ended = old.ended
  BY <1>1, <1>2 DEF Handlers
<1>4. Counted(h) /\ h.responses \in Seq(Results)
  BY <1>1, <1>2, <1>3, NextCounted DEF HandlerInv, Msgs, Messages, InHand
<1>5. h.next \in 1..(MaxBatch + 1)
  BY <1>1, <1>2, <1>3, AdmissiblePost, MaxBatchAssumption
  DEF Handlers, Messages
<1>6. h \in Handlers
  <2>1. h = [old EXCEPT !.phase = h.phase, !.next = h.next,
                        !.responses = h.responses]
    BY <1>3
  <2>2. h.phase \in Phases
    BY <1>3 DEF Phases, Working
  <2> QED
    BY <1>1, <1>4, <1>5, <2>1, <2>2 DEF Handlers
<1>7. Begin(h) /\ Posted(h) /\ Admitted(h) /\ Denied(h) /\ InCall(h) /\ Done(h)
  BY <1>2, <1>3 DEF Begin, Posted, Admitted, Denied, InCall, Done, Early
<1>8. InTime(h, SentBy(c))
  <2>1. old.ended \in Nat /\ old.next \in Nat /\ SentBy(c) \subseteq Nat
    BY <1>1, MaxBatchAssumption DEF Handlers, SentBy
  <2>2. h.phase \notin Early /\ Msgs(h) = Msgs(old)
    BY <1>3 DEF Early, Msgs
  <2>3. InTime(old, SentBy(c))
    BY <1>1 DEF HandlerInv
  <2> HIDE DEF old
  <2> QED
    BY <1>2, <1>3, <2>1, <2>2, <2>3 DEF InTime
<1> QED
  BY <1>4, <1>6, <1>7, <1>8, HandlerStep DEF HandlerInv, Unsent

LEMMA ResultInv ==
    ASSUME Inv, NEW c \in Connections, NEW w \in {"ok", "error"}, Result(c, w),
           conn[c].phase \in Working, conn[c].next <= Len(Messages(c)),
           InHand(c).id
    PROVE  Inv'
<1> DEFINE old == conn[c]
           h == [old EXCEPT
                   !.phase = "handling", !.next = old.next + 1,
                   !.responses = Append(old.responses,
                                        [to |-> old.next, is |-> w])]
<1>1. old \in Handlers
  BY DEF Inv
<1>2. conn' = [conn EXCEPT ![c] = h]
  BY DEF Result, Inv
<1>3. h.responses = Append(old.responses, [to |-> old.next, is |-> w])
  BY <1>1 DEF Handlers
<1> QED
  BY <1>2, <1>3, NextMessageInv DEF Result

LEMMA MessageInv ==
    ASSUME Inv, NEW c \in Connections,
           \/ HandleNotification(c) \/ HandleOther(c)
           \/ CallSucceeds(c) \/ CallFails(c)
    PROVE  Inv'
<1> DEFINE old == conn[c]
<1>1. old \in Handlers /\ HandlerInv(old, SentBy(c))
  BY DEF Inv
<1>2. CASE HandleNotification(c)
  <2> DEFINE h == [old EXCEPT !.next = old.next + 1]
  <2>1. old.phase = "handling" /\ old.next <= Len(Messages(c)) /\ ~InHand(c).id
    BY <1>2 DEF HandleNotification, Pending, Phase
  <2>2. conn' = [conn EXCEPT ![c] = h]
    BY <1>2 DEF HandleNotification, Inv
  <2>3. /\ h.responses = old.responses
        /\ h = [old EXCEPT !.phase = "handling", !.next = old.next + 1,
                           !.responses = h.responses]
    BY <1>1, <2>1 DEF Handlers
  <2> QED
    BY <1>2, <2>1, <2>2, <2>3, NextMessageInv DEF HandleNotification, Working
<1>3. CASE HandleOther(c)
  BY <1>3, ResultInv DEF HandleOther, Pending, Phase, Working
<1>4. CASE CallSucceeds(c) \/ CallFails(c)
  <2>1. old.next <= Len(Messages(c)) /\ InHand(c).id
    BY <1>1, <1>4
    DEF HandlerInv, InCall, CallSucceeds, CallFails, Phase, Msgs, Messages,
        InHand
  <2> QED
    BY <1>4, <2>1, ResultInv DEF CallSucceeds, CallFails, Phase, Working
<1> QED
  BY <1>2, <1>3, <1>4

\* The only step that sends: the context has not ended yet.
LEMMA SendInv == ASSUME Inv, NEW c \in Connections, Send(c) PROVE Inv'
<1> DEFINE old == conn[c]
           h == [old EXCEPT !.phase = "sent"]
<1>1. /\ old \in Handlers /\ HandlerInv(old, SentBy(c))
      /\ old.phase = "calling" /\ old.ended = 0
  BY DEF Inv, Send, Phase
<1>2. conn' = [conn EXCEPT ![c] = h]
  BY DEF Send, Goto, Inv
<1>3. /\ h \in Handlers /\ h.phase = "sent" /\ h.post = old.post
      /\ h.next = old.next /\ h.responses = old.responses
      /\ h.answer = old.answer /\ h.ended = old.ended
  BY <1>1 DEF Handlers, Phases, Working
<1>4. Admissible(old.post) /\ old.answer = <<>> /\ old.post \in Posts
  BY <1>1 DEF HandlerInv, Admitted, Posted, Working
<1>5. InCall(h)
  BY <1>1, <1>3 DEF HandlerInv, InCall, Msgs
<1>6. old.next \in 1..MaxBatch
  BY <1>1, <1>4, AdmissiblePost, MaxBatchAssumption
  DEF HandlerInv, InCall, Msgs, Handlers
<1>7. Counted(h)
  BY <1>1, <1>3, SameCount DEF HandlerInv
<1>8. Begin(h) /\ Posted(h) /\ Admitted(h) /\ Denied(h) /\ Done(h)
  BY <1>1, <1>3, <1>4
  DEF HandlerInv, Begin, Posted, Admitted, Denied, Done, Early
<1>9. /\ sent' = sent \cup {<<c, old.next>>}
      /\ SentBy(c)' = SentBy(c) \cup {old.next}
  BY <1>6 DEF Send, SentBy
<1>10. InTime(h, SentBy(c)')
  BY <1>1, <1>3, <1>4, <1>5, <1>9
  DEF HandlerInv, InTime, InCall, Handlers, Msgs, Early
<1>11. conn' \in [Connections -> Handlers]
  BY <1>2, <1>3 DEF Inv
<1>12. ASSUME NEW d \in Connections PROVE HandlerInv(conn'[d], SentBy(d)')
  <2>1. CASE d = c
    BY <1>2, <1>5, <1>7, <1>8, <1>10, <2>1 DEF Inv, HandlerInv
  <2>2. CASE d # c
    <3>1. conn'[d] = conn[d] /\ SentBy(d)' = SentBy(d)
      BY <1>2, <1>9, <2>2 DEF Inv, SentBy
    <3> QED
      BY <3>1 DEF Inv
  <2> QED
    BY <2>1, <2>2
<1>13. ASSUME NEW d \in Connections PROVE HandlerInv(conn[d], SentBy(d))'
  BY <1>12, SamePredicate DEF Send
<1> QED
  BY <1>6, <1>9, <1>11, <1>13 DEF Inv, Send

\* The platform and the process do nothing to a handler.
LEMMA OutsideInv ==
    ASSUME Inv, UNCHANGED <<config, conn, sent>>,
           process' \in {"serving", "closed", "gone"},
           performed' \subseteq sent
    PROVE  Inv'
<1>1. ASSUME NEW d \in Connections PROVE HandlerInv(conn'[d], SentBy(d)')
  BY DEF Inv, SentBy
<1>2. ASSUME NEW d \in Connections PROVE HandlerInv(conn[d], SentBy(d))'
  BY <1>1, SamePredicate
<1> QED
  BY <1>2 DEF Inv

LEMMA NextInv == Inv /\ [Next]_vars => Inv'
<1> SUFFICES ASSUME Inv, [Next]_vars PROVE Inv'
  OBVIOUS
<1>1. ASSUME NEW c \in Connections, Serve(c) PROVE Inv'
  BY <1>1, RefuseInv, RejectBodyInv, StartHandlingInv, MessageInv,
     CallToolInv, SendInv, FinishInv
  DEF Serve
<1>2. ASSUME NEW c \in Connections,
             \/ ReadBody(c) \/ Write(c) \/ Deadline(c)
             \/ Leave(c) \/ Stall(c)
      PROVE  Inv'
  <2>1. CASE Deadline(c)
    BY <2>1, EndInv DEF Deadline, Working
  <2>2. CASE Leave(c)
    BY <2>2, EndInv, LeaveWritingInv
  <2> QED
    BY <1>2, <2>1, <2>2, ReadBodyInv, WriteInv, StallInv
<1>3. ASSUME NEW m \in sent \ performed, Perform(m) PROVE Inv'
  BY <1>3, OutsideInv DEF Perform, Inv
<1>4. CASE Shutdown
  BY <1>4, OutsideInv DEF Shutdown, Inv
<1>5. CASE UNCHANGED vars
  BY <1>5, OutsideInv DEF vars, Inv
<1> QED
  BY <1>1, <1>2, <1>3, <1>4, <1>5, ArriveInv DEF Next

LEMMA Invariance == Spec => []Inv
<1> QED
  BY InitInv, NextInv, PTL DEF Spec

-----------------------------------------------------------------------------
\* The handlers keep their types, and no batch over the limit gets as far as
\* being handled (http_server.go, lines 118-121).
THEOREM TypeCorrect == Spec => []TypeOK
<1>1. ASSUME Inv, NEW c \in Connections
      PROVE  /\ conn[c].responses \in BoundedSeq(Results, MaxBatch)
             /\ conn[c].answer \in {<<>>, BadRequest, conn[c].responses}
  <2> DEFINE h == conn[c]
  <2>1. h \in Handlers /\ HandlerInv(h, SentBy(c))
    BY <1>1 DEF Inv
  <2>2. h.responses \in Seq(Results) /\ Len(h.responses) \in 0..MaxBatch
    BY <2>1, LenProperties, MaxBatchAssumption DEF Handlers, HandlerInv, Counted
  <2>3. h.responses \in [1..Len(h.responses) -> Results]
    BY <2>2, LenProperties
  <2>4. h.answer \in {<<>>, BadRequest, h.responses}
    BY <2>1
    DEF Handlers, Phases, HandlerInv, Begin, Admitted, Done, Early, Working
  <2> QED
    BY <2>2, <2>3, <2>4 DEF BoundedSeq, SeqOf
<1>2. ASSUME Inv, NEW c \in Connections
      PROVE  LET h == conn[c] IN
             /\ h.phase \in {"idle", "received", "read", "writing", "done"}
                               \cup Working
             /\ h.post \in Posts \cup {NoPost}
             /\ h.next \in 1..(MaxBatch + 1)
             /\ h.ended \in 0..(MaxBatch + 1)
             /\ {h.left, h.stalled} \subseteq BOOLEAN
             /\ h.status \in {0, 200, 202, 204, 400, 401, 405, 413}
  <2>1. conn[c] \in Handlers
    BY <1>2 DEF Inv
  <2> QED
    BY <2>1 DEF Handlers, Phases, Codes
<1>3. Inv => TypeOK
  BY <1>1, <1>2 DEF Inv, TypeOK, Configs
<1> QED
  BY <1>3, Invariance, PTL

-----------------------------------------------------------------------------
(***************************************************************************)
(* The measure of HandlersAdvance, as a function of one handler.           *)
(***************************************************************************)
Reached(h) == [h EXCEPT !.ended = 0, !.left = FALSE, !.stalled = FALSE]

StepsOf(h) ==
    LET left == 3 * (Len(Msgs(h)) + 1 - h.next)
    IN  CASE h.phase = "handling" -> left + 1
          [] h.phase = "calling" -> left
          [] h.phase = "sent" -> left - 1
          [] OTHER -> 0

\* What a step of a handler at work does to it.
OneStepOn(h, g) ==
    \/ Reached(g) = Reached(h)
    \/ h.phase \in Working /\ g.phase = "writing"
    \/ /\ g.post = h.post
       /\ \/ h.phase = "handling" /\ g.phase = "calling" /\ g.next = h.next
                /\ h.next <= Len(Msgs(h))
          \/ h.phase = "calling" /\ g.phase = "sent" /\ g.next = h.next
          \/ /\ h.phase \in Working /\ h.next <= Len(Msgs(h))
             /\ g.phase = "handling" /\ g.next = h.next + 1

LEMMA StepsFall ==
    ASSUME NEW h \in Handlers, NEW g, Admissible(h.post), Counted(h), InCall(h),
           h.phase \in Working, OneStepOn(h, g), Reached(g) # Reached(h)
    PROVE  StepsOf(g) \in 0..(StepsOf(h) - 1)
<1>1. h.post \in Posts
  BY NobodyAdmissible DEF Handlers
<1>2. Len(Msgs(h)) \in Nat /\ h.next \in Nat \ {0}
  BY <1>1, AdmissiblePost, MaxBatchAssumption DEF Msgs, Handlers
<1>3. h.next <= Len(Msgs(h)) + 1
  BY DEF Counted
<1>4. h.phase # "handling" => h.next <= Len(Msgs(h))
  BY DEF InCall, Working
<1>5. CASE g.phase = "writing"
  BY <1>2, <1>3, <1>4, <1>5 DEF StepsOf, Working
<1>6. CASE g.phase # "writing"
  <2>1. Msgs(g) = Msgs(h)
    BY <1>6 DEF OneStepOn, Msgs
  <2>2. CASE /\ h.phase = "handling" /\ g.phase = "calling" /\ g.next = h.next
             /\ h.next <= Len(Msgs(h))
    BY <1>2, <2>1, <2>2 DEF StepsOf
  <2>3. CASE h.phase = "calling" /\ g.phase = "sent" /\ g.next = h.next
    BY <1>2, <1>4, <2>1, <2>3 DEF StepsOf
  <2>4. CASE /\ h.phase \in Working /\ h.next <= Len(Msgs(h))
             /\ g.phase = "handling" /\ g.next = h.next + 1
    <3>1. StepsOf(g) = 3 * (Len(Msgs(h)) + 1 - (h.next + 1)) + 1
      BY <2>1, <2>4 DEF StepsOf
    <3>2. StepsOf(h) >= 3 * (Len(Msgs(h)) + 1 - h.next) - 1
      BY <1>2, <2>4 DEF StepsOf, Working
    <3>3. StepsOf(h) \in Int
      BY <1>2, <2>4 DEF StepsOf, Working
    <3> QED
      BY <1>2, <2>4, <3>1, <3>2, <3>3
  <2> QED
    BY <1>6, <2>2, <2>3, <2>4 DEF OneStepOn
<1> QED
  BY <1>5, <1>6

\* Each step of Next is such a step for every handler at work.
LEMMA HandlersMoveOn ==
    ASSUME Inv, Next, NEW d \in Connections, conn[d].phase \in Working
    PROVE  OneStepOn(conn[d], conn'[d])
<1> USE DEF Inv, Working, Unsent
<1>1. ASSUME conn'[d] = conn[d] PROVE OneStepOn(conn[d], conn'[d])
  BY <1>1 DEF OneStepOn
<1>2. ASSUME NEW c \in Connections, Serve(c) PROVE OneStepOn(conn[d], conn'[d])
  <2>1. CASE Refuse(c) \/ RejectBody(c)
    <3>1. c # d /\ \E code, rs : Respond(c, code, rs)
      BY <2>1 DEF Refuse, RejectBody, Phase
    <3> QED
      BY <1>1, <3>1 DEF Respond
  <2>2. CASE StartHandling(c)
    BY <1>1, <2>2 DEF StartHandling, Phase
  <2>3. CASE HandleNotification(c)
    BY <1>1, <2>3
    DEF HandleNotification, Pending, Phase, OneStepOn, Handlers, Messages, Msgs
  <2>4. CASE HandleOther(c)
    BY <1>1, <2>4
    DEF HandleOther, Result, Pending, Phase, OneStepOn, Handlers, Messages, Msgs
  <2>5. CASE CallTool(c)
    BY <1>1, <2>5
    DEF CallTool, Goto, Pending, Phase, OneStepOn, Handlers, Messages, Msgs
  <2>6. CASE Send(c)
    BY <1>1, <2>6 DEF Send, Goto, Phase, OneStepOn, Handlers
  <2>7. CASE CallSucceeds(c) \/ CallFails(c)
    <3>1. \E w : Result(c, w)
      BY <2>7 DEF CallSucceeds, CallFails
    <3>2. conn[c].phase \in {"calling", "sent"}
      BY <2>7 DEF CallSucceeds, CallFails, Phase
    <3>3. conn[c].next <= Len(Msgs(conn[c]))
      BY <3>2 DEF HandlerInv, InCall
    <3> QED
      BY <1>1, <3>1, <3>2, <3>3 DEF Result, OneStepOn, Handlers
  <2>8. CASE Finish(c)
    BY <1>1, <2>8 DEF Finish, Reply, Respond, Phase, OneStepOn, Handlers
  <2> QED
    BY <1>2, <2>1, <2>2, <2>3, <2>4, <2>5, <2>6, <2>7, <2>8 DEF Serve
<1>3. ASSUME NEW c \in Connections, ReadBody(c)
      PROVE  OneStepOn(conn[d], conn'[d])
  <2>1. c # d /\ (Goto(c, "read") \/ Respond(c, 413, <<>>))
    BY <1>3 DEF ReadBody, Phase
  <2> QED
    BY <1>1, <2>1 DEF Respond, Goto
<1>4. ASSUME NEW c \in Connections, Deadline(c) \/ Leave(c) \/ Stall(c)
      PROVE  OneStepOn(conn[d], conn'[d])
  <2>1. CASE d # c
    BY <1>1, <1>4, <2>1 DEF Deadline, Leave, Stall
  <2>2. CASE d = c /\ Deadline(c)
    <3>1. conn'[d] = [conn[d] EXCEPT !.ended = conn[d].next]
      BY <2>2 DEF Deadline
    <3>2. Reached(conn'[d]) = Reached(conn[d])
      BY <3>1 DEF Reached, Handlers
    <3> QED
      BY <3>2 DEF OneStepOn
  <2>3. CASE d = c /\ Leave(c)
    <3> DEFINE x == IF conn[d].phase \in Working /\ conn[d].ended = 0
                    THEN conn[d].next ELSE conn[d].ended
    <3>1. conn'[d] = [conn[d] EXCEPT !.left = TRUE, !.ended = x]
      BY <2>3 DEF Leave
    <3> HIDE DEF x
    <3>2. Reached(conn'[d]) = Reached(conn[d])
      BY <3>1 DEF Reached, Handlers
    <3> QED
      BY <3>2 DEF OneStepOn
  <2>4. CASE d = c /\ Stall(c)
    <3>1. conn'[d] = [conn[d] EXCEPT !.stalled = TRUE]
      BY <2>4 DEF Stall
    <3>2. Reached(conn'[d]) = Reached(conn[d])
      BY <3>1 DEF Reached, Handlers
    <3> QED
      BY <3>2 DEF OneStepOn
  <2> QED
    BY <1>4, <2>1, <2>2, <2>3, <2>4
<1>5. ASSUME NEW c \in Connections, NEW r \in Posts, Arrive(c, r)
      PROVE  OneStepOn(conn[d], conn'[d])
  BY <1>1, <1>5 DEF Arrive, Phase
<1>6. CASE Shutdown
  BY <1>1, <1>6 DEF Shutdown
<1>7. ASSUME NEW m \in sent \ performed, Perform(m)
      PROVE  OneStepOn(conn[d], conn'[d])
  BY <1>1, <1>7 DEF Perform
<1>8. ASSUME NEW c \in Connections, Write(c)
      PROVE  OneStepOn(conn[d], conn'[d])
  BY <1>1, <1>8 DEF Write, Phase
<1> QED
  BY <1>2, <1>3, <1>4, <1>5, <1>6, <1>7, <1>8 DEF Next

\* Whatever fails and whoever leaves, a batch is handled in three steps for
\* each message and one for the answer.
THEOREM HandlersAreBounded == Spec => HandlersAdvance
<1> DEFINE A == \A c \in Connections :
                  conn[c].phase \in Working /\ Progress(c)' # Progress(c) =>
                      StepsLeft(c)' \in 0..(StepsLeft(c) - 1)
<1>1. Inv /\ [Next]_vars => [A]_conn
  <2> SUFFICES ASSUME Inv, Next, NEW c \in Connections,
                      conn[c].phase \in Working, Progress(c)' # Progress(c)
               PROVE  StepsLeft(c)' \in 0..(StepsLeft(c) - 1)
    BY DEF vars
  <2>1. StepsLeft(c) = StepsOf(conn[c]) /\ StepsLeft(c)' = StepsOf(conn'[c])
    BY DEF StepsLeft, StepsOf, Messages, Msgs, Phase
  <2>2. Reached(conn'[c]) # Reached(conn[c])
    BY DEF Progress, Reached
  <2>3. /\ conn[c] \in Handlers /\ Admissible(conn[c].post)
        /\ Counted(conn[c]) /\ InCall(conn[c])
    BY DEF Inv, HandlerInv, Admitted
  <2>4. OneStepOn(conn[c], conn'[c])
    BY HandlersMoveOn
  <2> QED
    BY <2>1, <2>2, <2>3, <2>4, StepsFall
<1> QED
  BY <1>1, Invariance, PTL DEF Spec, HandlersAdvance

-----------------------------------------------------------------------------
\* After the deadline of a post, or the departure of its client, no message
\* behind the one in hand is sent to the platform.
THEOREM NothingLate == Spec => []NothingSentAfterEnd
<1>1. Inv => NothingSentAfterEnd
  BY DEF Inv, NothingSentAfterEnd, HandlerInv, InTime, SentBy
<1> QED
  BY <1>1, Invariance, PTL

\* A client that stays gets one response to each of its messages with an ID,
\* whatever became of the calls.
THEOREM BatchesAreAnswered == Spec => []AnswersComplete
<1> DEFINE S(c) == {i \in DOMAIN Messages(c) : Messages(c)[i].id}
<1>1. ASSUME Inv, NEW c \in Connections, Phase(c, "done"), ~conn[c].left,
             Admissible(conn[c].post)
      PROVE  /\ Len(conn[c].answer) = Cardinality(S(c))
             /\ {r.to : r \in Range(conn[c].answer)} = S(c)
             /\ conn[c].status = IF S(c) = {} THEN 202 ELSE 200
  <2> DEFINE h == conn[c]
  <2>1. h \in Handlers /\ HandlerInv(h, SentBy(c)) /\ h.phase = "done"
    BY <1>1 DEF Inv, Phase
  <2>2. /\ Done(h) /\ Counted(h) /\ Posted(h)
        /\ Admissible(h.post) /\ ~h.left
    BY <1>1, <2>1 DEF HandlerInv
  <2>3. /\ h.next = Len(Msgs(h)) + 1 /\ h.answer = h.responses
        /\ h.status = IF h.responses = <<>> THEN 202 ELSE 200
    BY <2>2, <2>1 DEF Done
  <2>4. /\ Len(h.responses) = Cardinality(Asking(h))
        /\ {r.to : r \in Range(h.responses)} = Asking(h)
    BY <2>2 DEF Counted
  <2>5. Msgs(h) \in Seq(Message)
    BY <2>2, <2>1, AdmissiblePost DEF Posted, Msgs
  <2>6. Asking(h) = {i \in DOMAIN Messages(c) : Messages(c)[i].id}
    BY <2>3, <2>5, LenProperties DEF Asking, Msgs, Messages
  <2>7. h.responses = <<>> <=> Asking(h) = {}
    <3>1. h.responses \in Seq(Results)
      BY <2>1 DEF Handlers
    <3>2. h.responses = <<>> <=> Len(h.responses) = 0
      BY <3>1, EmptySeq
    <3>3. IsFiniteSet(Asking(h))
      <4>1. IsFiniteSet(1..Len(Msgs(h)))
        BY <2>5, LenProperties, FS_Interval
      <4> QED
        BY <2>3, <2>5, <4>1, LenProperties, FS_Subset DEF Asking
    <3> QED
      BY <2>4, <3>2, <3>3, FS_EmptySet
  <2> QED
    BY <2>3, <2>4, <2>6, <2>7
<1>2. Inv => AnswersComplete
  BY <1>1 DEF AnswersComplete
<1> QED
  BY <1>2, Invariance, PTL

-----------------------------------------------------------------------------
(***************************************************************************)
(* HTTPServer implements RequestServer: what a connection has asked,       *)
(* handled and been told is read off its handler.                          *)
(***************************************************************************)
Asked(h) == IF Admissible(h.post) THEN Msgs(h) ELSE <<>>

Told(h) ==
    IF h.phase = "done" /\ h.answer # BadRequest THEN h.answer ELSE <<>>

\* A step that leaves alone what the client sees is a stutter.
LEMMA UnseenStep ==
    ASSUME UNCHANGED <<config, performed>>,
           \A c \in Connections :
              /\ Asked(conn'[c]) = Asked(conn[c])
              /\ conn'[c].next = conn[c].next
              /\ conn'[c].responses = conn[c].responses
              /\ Told(conn'[c]) = Told(conn[c])
    PROVE  UNCHANGED Abstract!serverVars
<1>1. ASSUME NEW c \in Connections
      PROVE  (IF Admissible(conn[c].post) THEN Messages(c) ELSE <<>>)' =
             IF Admissible(conn[c].post) THEN Messages(c) ELSE <<>>
  BY DEF Asked, Msgs, Messages, Admissible
<1>2. ASSUME NEW c \in Connections
      PROVE  (IF Phase(c, "done") /\ conn[c].answer # BadRequest
              THEN conn[c].answer ELSE <<>>)' =
             IF Phase(c, "done") /\ conn[c].answer # BadRequest
             THEN conn[c].answer ELSE <<>>
  BY DEF Told, BadRequest, Phase
<1> QED
  BY <1>1, <1>2 DEF Abstract!serverVars

asked == [c \in Connections |->
             IF Admissible(conn[c].post) THEN Messages(c) ELSE <<>>]
handled == [c \in Connections |-> conn[c].next - 1]
outcomes == [c \in Connections |-> conn[c].responses]
told == [c \in Connections |->
            IF Phase(c, "done") /\ conn[c].answer # BadRequest
            THEN conn[c].answer ELSE <<>>]

\* A step of one handler, as its client sees it.
LEMMA SeenStep ==
    ASSUME Inv, NEW c \in Connections, NEW h, conn' = [conn EXCEPT ![c] = h],
           UNCHANGED config
    PROVE  /\ asked' = [asked EXCEPT ![c] = Asked(h)]
           /\ handled' = [handled EXCEPT ![c] = h.next - 1]
           /\ outcomes' = [outcomes EXCEPT ![c] = h.responses]
           /\ told' = [told EXCEPT ![c] = Told(h)]
<1>1. \A d \in Connections : conn'[d] = IF d = c THEN h ELSE conn[d]
  BY DEF Inv
<1>2. asked' = [asked EXCEPT ![c] = Asked(h)]
  <2>1. ASSUME NEW d \in Connections
        PROVE  asked'[d] = IF d = c THEN Asked(h) ELSE asked[d]
    BY <1>1 DEF asked, Asked, Admissible, Messages, Msgs
  <2>2. asked' = [d \in Connections |-> asked'[d]]
    BY DEF asked
  <2>3. asked = [d \in Connections |-> asked[d]]
    BY DEF asked
  <2> QED
    BY <2>1, <2>2, <2>3
<1>3. /\ handled' = [handled EXCEPT ![c] = h.next - 1]
      /\ outcomes' = [outcomes EXCEPT ![c] = h.responses]
  <2>1. ASSUME NEW d \in Connections
        PROVE  /\ handled'[d] = IF d = c THEN h.next - 1 ELSE handled[d]
               /\ outcomes'[d] = IF d = c THEN h.responses ELSE outcomes[d]
    BY <1>1 DEF handled, outcomes
  <2>2. /\ handled' = [d \in Connections |-> handled'[d]]
        /\ outcomes' = [d \in Connections |-> outcomes'[d]]
    BY DEF handled, outcomes
  <2>3. /\ handled = [d \in Connections |-> handled[d]]
        /\ outcomes = [d \in Connections |-> outcomes[d]]
    BY DEF handled, outcomes
  <2> QED
    BY <2>1, <2>2, <2>3
<1>4. told' = [told EXCEPT ![c] = Told(h)]
  <2>1. told' = [d \in Connections |-> Told(conn'[d])]
    BY DEF told, Told, BadRequest, Phase
  <2>2. told = [d \in Connections |-> Told(conn[d])]
    BY DEF told, Told, Phase
  <2> QED
    BY <1>1, <2>1, <2>2
<1> QED
  BY <1>2, <1>3, <1>4

LEMMA InitIsInit == Init => Abstract!Init
<1> SUFFICES ASSUME Init PROVE Abstract!Init
  OBVIOUS
<1>1. ASSUME NEW c \in Connections PROVE ~Admissible(conn[c].post)
  BY NobodyAdmissible DEF Init, Fresh
<1> QED
  BY <1>1 DEF Init, Abstract!Init, Fresh, Phase

\* The messages of an admissible post are asked when it arrives.
LEMMA ArriveIsAsk ==
    ASSUME Inv, NEW c \in Connections, NEW r \in Posts, Arrive(c, r)
    PROVE  Abstract!Ask(c) \/ UNCHANGED Abstract!serverVars
<1> DEFINE old == conn[c]
           h == [old EXCEPT !.phase = "received", !.post = r]
<1>1. /\ old \in Handlers /\ old.phase = "idle" /\ old.post = NoPost
  BY DEF Inv, HandlerInv, Posted, Arrive, Phase
<1>2. conn' = [conn EXCEPT ![c] = h] /\ UNCHANGED <<config, performed>>
  BY DEF Arrive, Inv, Unsent
<1>3. /\ h.next = old.next /\ h.responses = old.responses
      /\ h.answer = old.answer /\ h.post = r /\ h.phase = "received"
  BY <1>1 DEF Handlers
<1>4. Asked(old) = <<>>
  BY <1>1, NobodyAdmissible DEF Asked
<1>5. CASE ~Admissible(r)
  <2>1. Asked(h) = <<>> /\ Told(h) = Told(old)
    BY <1>1, <1>3, <1>5 DEF Asked, Told
  <2> QED
    BY <1>2, <1>3, <1>4, <2>1, UnseenStep DEF Inv
<1>6. CASE Admissible(r)
  <2> DEFINE s == r.body.messages
  <2>1. s \in Seq(Message) /\ s \in {<<m>> : m \in Singles} \cup Batches
    BY <1>6, AdmissiblePost
  <2>2. Asked(h) = s /\ asked[c] = <<>>
    BY <1>1, <1>3, <1>6, NobodyAdmissible DEF Asked, Msgs, asked
  <2>3. asked[c] \o s = s
    BY <2>1, <2>2, ConcatEmptySeq
  <2>4. /\ asked' = [asked EXCEPT ![c] = asked[c] \o s]
        /\ UNCHANGED <<handled, outcomes, told>>
    <3>1. /\ Told(h) = told[c] /\ h.next - 1 = handled[c]
          /\ h.responses = outcomes[c]
      BY <1>1, <1>3 DEF Told, told, handled, outcomes, Phase
    <3>2. /\ handled' = [handled EXCEPT ![c] = handled[c]]
          /\ outcomes' = [outcomes EXCEPT ![c] = outcomes[c]]
          /\ told' = [told EXCEPT ![c] = told[c]]
          /\ asked' = [asked EXCEPT ![c] = s]
      <4>1. /\ asked' = [asked EXCEPT ![c] = Asked(h)]
            /\ handled' = [handled EXCEPT ![c] = h.next - 1]
            /\ outcomes' = [outcomes EXCEPT ![c] = h.responses]
            /\ told' = [told EXCEPT ![c] = Told(h)]
        <5> HIDE DEF h
        <5> QED
          BY <1>2, SeenStep
      <4> HIDE DEF h
      <4> QED
        BY <2>2, <3>1, <4>1
    <3> QED
      BY <2>3, <3>2 DEF handled, outcomes, told
  <2>5. Abstract!Ask(c)
    BY <1>2, <2>1, <2>4 DEF Abstract!Ask, asked, handled, outcomes, told
  <2> QED
    BY <2>5
<1> QED
  BY <1>5, <1>6

\* Until it is written, an answer tells the client nothing.
LEMMA RespondUnseen ==
    ASSUME Inv, NEW c \in Connections, NEW code, NEW rs,
           Respond(c, code, rs), Unsent, conn[c].phase # "done"
    PROVE  UNCHANGED Abstract!serverVars
<1> DEFINE old == conn[c]
           h == [old EXCEPT !.phase = "writing", !.status = code, !.answer = rs]
<1>1. old \in Handlers
  BY DEF Inv
<1>2. conn' = [conn EXCEPT ![c] = h] /\ UNCHANGED <<config, performed>>
  BY DEF Respond, Inv, Unsent
<1>3. /\ h.next = old.next /\ h.responses = old.responses
      /\ h.post = old.post /\ h.phase = "writing"
  BY <1>1 DEF Handlers
<1>4. Asked(h) = Asked(old) /\ Told(h) = Told(old)
  BY <1>3 DEF Asked, Told, Msgs
<1> HIDE DEF h
<1> QED
  BY <1>2, <1>3, <1>4, UnseenStep DEF Inv

\* All answers at once.
LEMMA WriteIsTell ==
    ASSUME Inv, NEW c \in Connections, Write(c)
    PROVE  Abstract!Tell(c) \/ UNCHANGED Abstract!serverVars
<1> DEFINE old == conn[c]
           rs == old.responses
           h == Written(old)
<1>1. old \in Handlers /\ old.phase = "writing" /\ Done(old)
  BY DEF Inv, HandlerInv, Write, Phase
<1>2. conn' = [conn EXCEPT ![c] = h] /\ UNCHANGED <<config, performed>>
  BY WriteStep DEF Write, Unsent
<1>3. /\ h.next = old.next /\ h.responses = rs /\ h.post = old.post
      /\ h.answer \in {<<>>, old.answer} /\ h.phase = "done"
  BY <1>1, WrittenIs
<1>4. rs \in Seq(Results)
  BY <1>1 DEF Handlers
<1>5. Asked(h) = Asked(old) /\ Told(old) = <<>>
  BY <1>1, <1>3 DEF Asked, Told, Msgs
<1> HIDE DEF h
<1>6. CASE h.answer \in {<<>>, BadRequest}
  <2>1. Told(h) = Told(old)
    BY <1>3, <1>5, <1>6 DEF Told
  <2> QED
    BY <1>2, <1>3, <1>5, <2>1, UnseenStep DEF Inv
<1>7. CASE h.answer \notin {<<>>, BadRequest}
  <2>1. Told(h) = rs
    BY <1>1, <1>3, <1>7 DEF Told, Done
  <2>2. /\ told' = [told EXCEPT ![c] = rs]
        /\ UNCHANGED <<asked, handled, outcomes>>
    <3>1. /\ asked[c] = Asked(old) /\ handled[c] = old.next - 1
          /\ outcomes[c] = rs
      BY DEF asked, Asked, Msgs, Messages, handled, outcomes
    <3>2. /\ asked' = [asked EXCEPT ![c] = asked[c]]
          /\ handled' = [handled EXCEPT ![c] = handled[c]]
          /\ outcomes' = [outcomes EXCEPT ![c] = outcomes[c]]
          /\ told' = [told EXCEPT ![c] = rs]
      <4>1. /\ asked' = [asked EXCEPT ![c] = Asked(h)]
            /\ handled' = [handled EXCEPT ![c] = h.next - 1]
            /\ outcomes' = [outcomes EXCEPT ![c] = h.responses]
            /\ told' = [told EXCEPT ![c] = Told(h)]
        BY <1>2, SeenStep
      <4> QED
        BY <1>3, <1>5, <2>1, <3>1, <4>1
    <3> QED
      BY <3>2 DEF asked, handled, outcomes
  <2>3. /\ outcomes[c] = rs /\ told[c] = <<>>
        /\ Len(rs) \in Len(told[c])..Len(outcomes[c])
        /\ SubSeq(outcomes[c], 1, Len(rs)) = rs
    <3>1. outcomes[c] = rs /\ told[c] = <<>>
      BY <1>5 DEF outcomes, told, Told, Phase
    <3> QED
      BY <1>4, <3>1, SubSeqFull, LenProperties, EmptySeq
  <2>4. Abstract!Tell(c)
    <3>1. told' = [told EXCEPT ![c] = SubSeq(outcomes[c], 1, Len(rs))]
      BY <2>2, <2>3
    <3>2. \E n \in Len(told[c])..Len(outcomes[c]) :
             told' = [told EXCEPT ![c] = SubSeq(outcomes[c], 1, n)]
      BY <2>3, <3>1
    <3> QED
      BY <1>2, <2>2, <3>2 DEF Abstract!Tell, asked, handled, outcomes, told
  <2> QED
    BY <2>4
<1> QED
  BY <1>6, <1>7

\* A message that is done is ignored or answered.
LEMMA NextMessageSeen ==
    ASSUME Inv, NEW c \in Connections, NEW h,
           conn' = [conn EXCEPT ![c] = h], UNCHANGED config,
           conn[c].phase \in Working,
           h.post = conn[c].post, h.phase \in Working,
           h.next = conn[c].next + 1
    PROVE  /\ asked[c] = Messages(c)
           /\ handled[c] + 1 = conn[c].next
           /\ handled' = [handled EXCEPT ![c] = conn[c].next]
           /\ outcomes' = [outcomes EXCEPT ![c] = h.responses]
           /\ UNCHANGED <<asked, told>>
<1> DEFINE old == conn[c]
<1>1. old \in Handlers /\ Admissible(old.post) /\ old.next \in Nat
  BY MaxBatchAssumption DEF Inv, HandlerInv, Admitted, Handlers
<1>2. /\ asked[c] = Messages(c) /\ asked[c] = Asked(h)
      /\ handled[c] + 1 = old.next /\ h.next - 1 = old.next
      /\ told[c] = Told(h)
  BY <1>1 DEF asked, handled, told, Told, Asked, Msgs, Messages, Phase, Working
<1>3. /\ asked' = [asked EXCEPT ![c] = Asked(h)]
      /\ handled' = [handled EXCEPT ![c] = h.next - 1]
      /\ outcomes' = [outcomes EXCEPT ![c] = h.responses]
      /\ told' = [told EXCEPT ![c] = Told(h)]
  BY SeenStep
<1>4. /\ asked' = [asked EXCEPT ![c] = asked[c]]
      /\ told' = [told EXCEPT ![c] = told[c]]
  BY <1>2, <1>3
<1>5. UNCHANGED <<asked, told>>
  BY <1>4 DEF asked, told
<1> QED
  BY <1>2, <1>3, <1>5

LEMMA NotificationIsIgnore ==
    ASSUME Inv, NEW c \in Connections, HandleNotification(c)
    PROVE  Abstract!Ignore(c)
<1> DEFINE old == conn[c]
           h == [old EXCEPT !.next = old.next + 1]
<1>1. /\ old \in Handlers /\ old.phase \in Working
      /\ old.next <= Len(Messages(c)) /\ ~Messages(c)[old.next].id
  BY DEF Inv, HandleNotification, Pending, Phase, Working, InHand
<1>2. conn' = [conn EXCEPT ![c] = h] /\ UNCHANGED <<config, performed>>
  BY DEF HandleNotification, Inv, Unsent
<1>3. /\ h.post = old.post /\ h.phase = old.phase
      /\ h.next = old.next + 1 /\ h.responses = old.responses
  BY <1>1 DEF Handlers
<1> HIDE DEF h
<1>4. /\ asked[c] = Messages(c) /\ handled[c] + 1 = old.next
      /\ handled' = [handled EXCEPT ![c] = old.next]
      /\ outcomes' = [outcomes EXCEPT ![c] = h.responses]
      /\ UNCHANGED <<asked, told>>
  BY <1>1, <1>2, <1>3, NextMessageSeen
<1>5. UNCHANGED outcomes
  <2>1. outcomes' = [outcomes EXCEPT ![c] = outcomes[c]]
    BY <1>3, <1>4 DEF outcomes
  <2> QED
    BY <2>1 DEF outcomes
<1>6. handled[c] \in Nat /\ Len(Messages(c)) \in Nat
  BY <1>1, AdmissiblePost, MaxBatchAssumption
  DEF Inv, HandlerInv, Admitted, Posted, Handlers, handled, Messages, Working
<1>7. /\ handled[c] < Len(asked[c]) /\ ~asked[c][handled[c] + 1].id
      /\ handled' = [handled EXCEPT ![c] = handled[c] + 1]
  <2>1. handled[c] < Len(asked[c])
    BY <1>1, <1>4, <1>6
  <2>2. ~asked[c][handled[c] + 1].id
    BY <1>1, <1>4
  <2> QED
    BY <1>4, <2>1, <2>2
<1> QED
  BY <1>2, <1>4, <1>5, <1>7
  DEF Abstract!Ignore, asked, handled, outcomes, told

LEMMA ResultIsAnswer ==
    ASSUME Inv, NEW c \in Connections, NEW w \in {"ok", "error"}, Result(c, w),
           conn[c].phase \in Working, conn[c].next <= Len(Messages(c)),
           InHand(c).id,
           w = "ok" /\ InHand(c).method = "write" =>
               <<c, conn[c].next>> \in performed
    PROVE  Abstract!Answer(c, w)
<1> DEFINE old == conn[c]
           r == [to |-> old.next, is |-> w]
           h == [old EXCEPT !.phase = "handling", !.next = old.next + 1,
                            !.responses = Append(old.responses, r)]
<1>1. old \in Handlers
  BY DEF Inv
<1>2. conn' = [conn EXCEPT ![c] = h] /\ UNCHANGED <<config, performed>>
  BY DEF Result, Inv, Unsent
<1>3. /\ h.post = old.post /\ h.phase \in Working
      /\ h.next = old.next + 1
      /\ h.responses = Append(outcomes[c], r)
  BY <1>1 DEF Handlers, outcomes, Working
<1> HIDE DEF h
<1>4. /\ asked[c] = Messages(c) /\ handled[c] + 1 = old.next
      /\ handled' = [handled EXCEPT ![c] = old.next]
      /\ outcomes' = [outcomes EXCEPT ![c] = h.responses]
      /\ UNCHANGED <<asked, told>>
  BY <1>2, <1>3, NextMessageSeen
<1>5. /\ handled[c] + 1 <= Len(asked[c]) /\ asked[c][handled[c] + 1].id
      /\ w = "ok" /\ Abstract!Acts(asked[c][handled[c] + 1]) =>
             <<c, handled[c] + 1>> \in performed
      /\ handled' = [handled EXCEPT ![c] = handled[c] + 1]
      /\ outcomes' = [outcomes EXCEPT
                        ![c] = Append(outcomes[c],
                                      [to |-> handled[c] + 1, is |-> w])]
  BY <1>3, <1>4 DEF InHand, Abstract!Acts
<1> QED
  BY <1>2, <1>4, <1>5
  DEF Abstract!Answer, asked, handled, outcomes, told

\* What the platform performs was sent for a message at hand or before it.
LEMMA PerformIsPerform ==
    ASSUME Inv, NEW m \in sent \ performed, Perform(m)
    PROVE  \E c \in Connections : Abstract!Perform(c)
<1>1. PICK c \in Connections, i \in 1..MaxBatch : m = <<c, i>>
  BY DEF Inv
<1>2. i \in SentBy(c)
  BY <1>1 DEF SentBy
<1>3. /\ Admissible(conn[c].post) /\ i <= Len(Messages(c))
      /\ i <= conn[c].next
      /\ Messages(c)[i] = [id |-> TRUE, method |-> "write"]
  BY <1>2 DEF Inv, HandlerInv, InTime, Msgs, Messages
<1>4. asked[c] = Messages(c) /\ i \in 1..(handled[c] + 1)
  <2>1. conn[c].next \in Nat
    BY MaxBatchAssumption DEF Inv, Handlers
  <2> QED
    BY <1>3, <2>1, MaxBatchAssumption DEF asked, handled
<1>5. /\ i <= Len(asked[c]) /\ Abstract!Acts(asked[c][i])
      /\ performed' = performed \cup {<<c, i>>}
  BY <1>1, <1>3, <1>4 DEF Abstract!Acts, Perform
<1>6. UNCHANGED <<asked, handled, outcomes, told>>
  BY DEF Perform, asked, handled, outcomes, told, Admissible, Messages,
         BadRequest, Phase
<1>7. Abstract!Perform(c)
  BY <1>4, <1>5, <1>6
  DEF Abstract!Perform, asked, handled, outcomes, told
<1> QED
  BY <1>7

\* Every step is one RequestServer allows, or one its clients do not see.
LEMMA StepIsStep ==
    Inv /\ [Next]_vars => [Abstract!Next]_(Abstract!serverVars)
<1> SUFFICES ASSUME Inv, [Next]_vars
             PROVE  Abstract!Next \/ UNCHANGED Abstract!serverVars
  OBVIOUS
<1>1. ASSUME NEW c \in Connections,
             Refuse(c) \/ RejectBody(c) \/ ReadBody(c) \/ Finish(c),
             NEW code, NEW rs, Respond(c, code, rs)
      PROVE  UNCHANGED Abstract!serverVars
  BY <1>1, RespondUnseen DEF Refuse, RejectBody, ReadBody, Finish, Phase
<1>2. ASSUME NEW c \in Connections, NEW phase, Goto(c, phase),
             UNCHANGED <<config, performed>>,
             phase # "done", conn[c].phase # "done"
      PROVE  UNCHANGED Abstract!serverVars
  <2> DEFINE h == [conn[c] EXCEPT !.phase = phase]
  <2>1. /\ conn' = [conn EXCEPT ![c] = h]
        /\ h.next = conn[c].next /\ h.responses = conn[c].responses
        /\ h.post = conn[c].post /\ h.phase = phase
    BY <1>2 DEF Goto, Inv, Handlers
  <2> HIDE DEF h
  <2> QED
    BY <1>2, <2>1, UnseenStep DEF Inv, Asked, Told, Msgs
<1>3. ASSUME NEW c \in Connections,
             StartHandling(c) \/ Deadline(c) \/ Leave(c) \/ Stall(c)
      PROVE  UNCHANGED Abstract!serverVars
  <2>1. \A d \in Connections :
           /\ conn'[d].next = conn[d].next
           /\ conn'[d].responses = conn[d].responses
           /\ conn'[d].post = conn[d].post
           /\ conn'[d].answer = conn[d].answer
           /\ conn'[d].phase = "done" <=> conn[d].phase = "done"
    <3>1. CASE StartHandling(c)
      BY <3>1 DEF StartHandling, Phase, Inv, Handlers
    <3>2. CASE Deadline(c)
      BY <3>2 DEF Deadline, Inv, Handlers
    <3>3. CASE Leave(c)
      BY <3>3 DEF Leave, Inv, Handlers
    <3>4. CASE Stall(c)
      BY <3>4 DEF Stall, Inv, Handlers
    <3> QED
      BY <1>3, <3>1, <3>2, <3>3, <3>4
  <2> QED
    BY <1>3, <2>1, UnseenStep
    DEF StartHandling, Deadline, Leave, Stall, Unsent, Asked, Told, Msgs
<1>4. ASSUME NEW c \in Connections, HandleOther(c)
      PROVE  Abstract!Next
  <2>1. /\ conn[c].phase \in Working
        /\ conn[c].next <= Len(Messages(c))
        /\ InHand(c).id /\ InHand(c).method = "other"
    BY <1>4 DEF HandleOther, Pending, Phase, Working
  <2> QED
    BY <1>4, <2>1, ResultIsAnswer DEF HandleOther, Abstract!Next
<1>5. ASSUME NEW c \in Connections, CallSucceeds(c) \/ CallFails(c)
      PROVE  Abstract!Next
  <2>1. /\ conn[c].phase \in Working
        /\ conn[c].next <= Len(Messages(c)) /\ InHand(c).id
    BY <1>5 DEF CallSucceeds, CallFails, Phase, Working, Inv, HandlerInv,
                InCall, Msgs, Messages, InHand
  <2> QED
    BY <1>5, <2>1, ResultIsAnswer DEF CallSucceeds, CallFails, Abstract!Next
<1>6. ASSUME NEW c \in Connections, Serve(c)
      PROVE  Abstract!Next \/ UNCHANGED Abstract!serverVars
  <2>1. CASE Refuse(c)
    BY <1>1, <2>1 DEF Refuse
  <2>2. CASE RejectBody(c)
    BY <1>1, <2>2 DEF RejectBody
  <2>3. CASE CallTool(c) \/ Send(c)
    BY <1>2, <2>3 DEF CallTool, Send, Unsent, Pending, Phase
  <2>4. CASE HandleNotification(c)
    BY <2>4, NotificationIsIgnore DEF Abstract!Next
  <2>5. CASE Finish(c)
    BY <1>1, <2>5 DEF Finish, Reply
  <2> QED
    BY <1>3, <1>4, <1>5, <1>6, <2>1, <2>2, <2>3, <2>4, <2>5 DEF Serve
<1>7. ASSUME NEW c \in Connections, ReadBody(c)
      PROVE  UNCHANGED Abstract!serverVars
  BY <1>1, <1>2, <1>7 DEF ReadBody, Unsent, Phase
<1>8. ASSUME NEW c \in Connections, NEW r \in Posts, Arrive(c, r)
      PROVE  Abstract!Next \/ UNCHANGED Abstract!serverVars
  BY <1>8, ArriveIsAsk DEF Abstract!Next
<1>9. ASSUME NEW m \in sent \ performed, Perform(m) PROVE Abstract!Next
  BY <1>9, PerformIsPerform DEF Abstract!Next
<1>10. CASE Shutdown \/ UNCHANGED vars
  BY <1>10, UnseenStep DEF Shutdown, vars
<1>11. ASSUME NEW c \in Connections, Write(c)
       PROVE  Abstract!Next \/ UNCHANGED Abstract!serverVars
  BY <1>11, WriteIsTell DEF Abstract!Next
<1> QED
  BY <1>3, <1>6, <1>7, <1>8, <1>9, <1>10, <1>11 DEF Next

\* For any connections at any limits the remote server is a RequestServer:
\* through deadlines, departures and a shutdown at any step, only admissible
\* posts act, in order, and each client learns of its own calls in order.
THEOREM ServerServes == Spec => ServesRequests
<1> QED
  BY InitIsInit, Invariance, StepIsStep, PTL
  DEF Spec, ServesRequests, Abstract!Spec
=============================================================================
