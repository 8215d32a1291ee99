--------------------------- MODULE DocumentWrites ---------------------------
(***************************************************************************)
(* The mutating operations of internal/feishu: CreateDocument and          *)
(* AppendDocument (service.go) and the comment operations, which share     *)
(* executeCommentMutation (comment.go).  Each is a chain of upstream       *)
(* requests with a permission check (permission.go) before the mutation,   *)
(* and returns early when it is a dry run.  Operations of several clients  *)
(* run at once.                                                            *)
(*                                                                         *)
(* A resource is a kind and a token; a document may also be given by a     *)
(* link, that of a wiki node or drive file, whose document the platform is *)
(* asked for and which may name another one later.  One upstream request   *)
(* is one step:                                                            *)
(* HTTPClient models what happens inside it, and lets it take effect       *)
(* although it reports an error.  Permissions change at any time, so each  *)
(* check gets any answer, which PermissionAnswer reads, and the platform   *)
(* performs whatever it is sent: it is the connector's own checks that are *)
(* examined.                                                               *)
(***************************************************************************)
EXTENDS PermissionAnswer

CONSTANTS
    Ops,            \* tool calls
    Tokens,         \* tokens of documents and folders
    Links,          \* wiki nodes and drive files
    Answers,        \* what the permission endpoint may answer
    NoToken,        \* no folder given
    Actors,         \* credentials requests are made with
    NewDocument(_)  \* token of the document an operation creates

\* An answer has its four objects (PermissionAnswer).
ASSUME AnswerAssumption ==
    \A a \in Answers : DOMAIN a = {"permission", "public", "data", "raw"}

Documents == Tokens \cup {NewDocument(o) : o \in Ops}

Docx(t)   == <<"docx", t>>
Folder(t) == <<"folder", t>>

Resources == {Docx(t) : t \in Documents} \cup {Folder(t) : t \in Tokens}

ASSUME NoTokenAssumption == NoToken \notin Resources

Capabilities == {"write", "comment"}

\* A permission check: who asked about what, and the answer that was taken.
Checks == [actor : Actors, on : Resources, answer : Answers]

Tools == {"create", "append", "comment"}

\* The arguments: dryRun is a pointer in the code, so it may be unset, and
\* valid says whether title, body and identifiers pass validation.
Requests ==
    [tool : {"append", "comment"}, target : Tokens \cup Links, markdown : {FALSE},
     actor : Actors, dryRun : {"unset", "yes", "no"}, valid : BOOLEAN]
    \cup
    [tool : {"create"}, target : Tokens \cup {NoToken}, markdown : BOOLEAN,
     actor : Actors, dryRun : {"unset", "yes", "no"}, valid : BOOLEAN]

VARIABLES
    dryRunDefault,  \* cfg.WriteDryRunDefault
    pc,             \* where each operation is
    req,            \* its arguments, once it was called
    phase,          \* "own", or "append" while a create fills its document
    checked,        \* its last permission check that allowed it to go on
    documentId,     \* the document it is about, result.DocumentID
    answer,         \* what the client is told
    mutations       \* platform: mutations performed by these operations

callVars == <<pc, req, phase, checked, documentId, answer>>
vars == <<dryRunDefault, callVars, mutations>>

NoCheck == [actor |-> NoToken, on |-> NoToken, answer |-> NoToken]
NoRequest == [tool |-> "none"]

TypeOK ==
    /\ dryRunDefault \in BOOLEAN
    /\ pc \in [Ops -> {"idle", "canonicalize", "prepare", "check", "post",
                       "done"}]
    /\ req \in [Ops -> Requests \cup {NoRequest}]
    /\ phase \in [Ops -> {"own", "append"}]
    /\ checked \in [Ops -> Checks \cup {NoCheck}]
    /\ documentId \in [Ops -> Documents \cup {NoToken}]
    /\ answer \in [Ops -> {"none", "dry run", "ok", "error"}]
    /\ mutations \subseteq [op : Ops, on : Resources \cup {NoToken},
                            to : Capabilities]

Init ==
    /\ dryRunDefault \in BOOLEAN
    /\ pc = [o \in Ops |-> "idle"]
    /\ req = [o \in Ops |-> NoRequest]
    /\ phase = [o \in Ops |-> "own"]
    /\ checked = [o \in Ops |-> NoCheck]
    /\ documentId = [o \in Ops |-> NoToken]
    /\ answer = [o \in Ops |-> "none"]
    /\ mutations = {}

\* Mutant: the server's default is ignored.
DryRunByArgument(r) == r.dryRun = "yes"

\* writeDryRun
DryRun(r) == r.dryRun = "yes" \/ (r.dryRun = "unset" /\ dryRunDefault)

Creating(o) == req[o].tool = "create" /\ phase[o] = "own"

\* What the operation is about to change, and the capability it checks for.
Target(o) ==
    IF ~Creating(o) THEN Docx(documentId[o])
    ELSE IF req[o].target # NoToken THEN Folder(req[o].target) ELSE NoToken

Needed(o) == IF req[o].tool = "comment" THEN "comment" ELSE "write"

Goto(o, to) == pc' = [pc EXCEPT ![o] = to]

Finish(o, a) == Goto(o, "done") /\ answer' = [answer EXCEPT ![o] = a]

\* An error from any call is returned, and the server makes a text of it.
Error(o) == Finish(o, "error")

\* The tool call reaches the service.
Call(o, r) ==
    /\ pc[o] = "idle"
    /\ req' = [req EXCEPT ![o] = r]
    /\ Goto(o, IF r.tool = "create" THEN "prepare" ELSE "canonicalize")
    /\ UNCHANGED <<dryRunDefault, phase, checked, documentId, answer,
                   mutations>>

\* The documents a lookup of the input may find at this moment.
Named(input) == IF input \in Links THEN Tokens ELSE {input}

\* Resolve and CanonicalizeIdentity: everything after it is about the
\* document that was found.
Canonicalize(o) ==
    /\ pc[o] = "canonicalize"
    /\ \/ /\ \E t \in Named(req[o].target) :
               documentId' = [documentId EXCEPT ![o] = t]
          /\ Goto(o, "prepare")
          /\ UNCHANGED answer
       \/ Error(o) /\ UNCHANGED documentId
    /\ UNCHANGED <<dryRunDefault, req, phase, checked, mutations>>

\* Validation comes first, then the dry run returns; a create in no folder
\* has nothing to check.
Prepare(o) ==
    /\ pc[o] = "prepare"
    /\ \/ ~req[o].valid /\ Error(o)
       \/ req[o].valid /\ DryRun(req[o]) /\ Finish(o, "dry run")
       \/ /\ req[o].valid
          /\ ~DryRun(req[o])
          /\ Goto(o, IF Target(o) = NoToken THEN "post" ELSE "check")
          /\ UNCHANGED answer
    /\ UNCHANGED <<dryRunDefault, req, phase, checked, documentId,
                   mutations>>

Allows(a, to) == IF to = "comment" THEN CanComment(a) ELSE CanWrite(a)

\* The permission endpoint answers, at this moment, that the actor may.
CheckAllowed(o) ==
    /\ pc[o] = "check"
    /\ \E a \in Answers :
          /\ Allows(a, Needed(o))
          /\ checked' = [checked EXCEPT ![o] =
                [actor |-> req[o].actor, on |-> Target(o), answer |-> a]]
    /\ Goto(o, "post")
    /\ UNCHANGED <<dryRunDefault, req, phase, documentId, answer,
                   mutations>>

\* It answers that the actor may not, or the endpoint failed.  An append inside
\* a create that ends before its check, because the new document cannot be
\* resolved or the markdown is refused, ends for its client in the same way.
CheckDenied(o) ==
    /\ pc[o] = "check"
    /\ Error(o)
    /\ UNCHANGED <<dryRunDefault, req, phase, checked, documentId,
                   mutations>>

\* Mutant: the mutation looks its input up once more.
PerformResolvedAgain(o) ==
    \E t \in IF Creating(o) THEN {NoToken} ELSE
             Named(IF phase[o] = "append" THEN documentId[o]
                                          ELSE req[o].target) :
        mutations' = mutations \cup
            {[op |-> o, on |-> IF Creating(o) THEN Target(o) ELSE Docx(t),
              to |-> Needed(o)]}

Perform(o) ==
    mutations' = mutations \cup
        {[op |-> o, on |-> Target(o), to |-> Needed(o)]}

\* Mutant: the content of a create is forgotten.
PostAnsweredEarly(o) ==
    /\ pc[o] = "post"
    /\ Perform(o)
    /\ Finish(o, "ok")
    /\ IF Creating(o)
       THEN documentId' = [documentId EXCEPT ![o] = NewDocument(o)]
       ELSE UNCHANGED documentId
    /\ UNCHANGED <<dryRunDefault, req, phase, checked>>

\* An answered mutation: an append or comment is finished, and so is a create
\* without content.
PostAnswered(o) ==
    /\ pc[o] = "post"
    /\ Perform(o)
    /\ \/ ~Creating(o) /\ Finish(o, "ok") /\ UNCHANGED documentId
       \/ /\ Creating(o) /\ ~req[o].markdown
          /\ documentId' = [documentId EXCEPT ![o] = NewDocument(o)]
          /\ Finish(o, "ok")
    /\ UNCHANGED <<dryRunDefault, req, phase, checked>>

\* Mutant: whoever may create in the folder is taken to own the document.
PostThenAppendUnchecked(o) ==
    /\ pc[o] = "post"
    /\ Creating(o)
    /\ req[o].markdown
    /\ Perform(o)
    /\ documentId' = [documentId EXCEPT ![o] = NewDocument(o)]
    /\ phase' = [phase EXCEPT ![o] = "append"]
    /\ Goto(o, "post")
    /\ UNCHANGED <<dryRunDefault, req, checked, answer>>

\* A create with content goes on with AppendDocument on the new document,
\* which checks the permission on it first.
PostThenAppend(o) ==
    /\ pc[o] = "post"
    /\ Creating(o)
    /\ req[o].markdown
    /\ Perform(o)
    /\ documentId' = [documentId EXCEPT ![o] = NewDocument(o)]
    /\ phase' = [phase EXCEPT ![o] = "append"]
    /\ Goto(o, "check")
    /\ UNCHANGED <<dryRunDefault, req, checked, answer>>

\* The request failed, or it was performed and its answer was lost, could not
\* be decoded or named no document.
PostFailed(o) ==
    /\ pc[o] = "post"
    /\ Perform(o) \/ UNCHANGED mutations
    /\ Error(o)
    /\ UNCHANGED <<dryRunDefault, req, phase, checked, documentId>>

\* The slot is free for another call; what the platform did for the old one
\* is forgotten.
Return(o) ==
    /\ pc[o] = "done"
    /\ Goto(o, "idle")
    /\ req' = [req EXCEPT ![o] = NoRequest]
    /\ phase' = [phase EXCEPT ![o] = "own"]
    /\ checked' = [checked EXCEPT ![o] = NoCheck]
    /\ documentId' = [documentId EXCEPT ![o] = NoToken]
    /\ answer' = [answer EXCEPT ![o] = "none"]
    /\ mutations' = {m \in mutations : m.op # o}
    /\ UNCHANGED dryRunDefault

Step(o) ==
    \/ Canonicalize(o) \/ Prepare(o) \/ CheckAllowed(o) \/ CheckDenied(o)
    \/ PostAnswered(o) \/ PostThenAppend(o) \/ PostFailed(o)

Next ==
    \E o \in Ops : Step(o) \/ Return(o) \/ \E r \in Requests : Call(o, r)

Spec == Init /\ [][Next]_vars

-----------------------------------------------------------------------------
\* An operation that is a dry run, by its argument or by the server's
\* default, mutates nothing, whichever of its steps fail; in particular the
\* append of a create does not fall back to the default (lines 153-184).
DryRunMutatesNothing ==
    \A m \in mutations :
        \/ req[m.op].dryRun = "no"
        \/ req[m.op].dryRun = "unset" /\ ~dryRunDefault

\* The answer says of one of the keys that it is one of the values.
Says(a, keys, values) ==
    \E part \in DOMAIN a : \E i \in DOMAIN keys :
        keys[i] \in DOMAIN a[part] /\ a[part][keys[i]] \in values

\* The answer has a yes for the capability, or opens comments to a group;
\* one that is silent, or opens the document for reading only, has neither.
Affirms(a, to) ==
    IF to = "write"
    THEN Says(a, WriteKeys, {"yes"})
    ELSE \/ Says(a, CommentKeys, {"yes"})
         \/ Says(a, CommentEntityKeys, Viewers \cup Editors)

\* Whatever is changed, other than a document created in no folder, had been
\* checked by the same operation for the same actor, on the very resource it
\* changes, also when it was given by a link that has come to name another
\* one, and the platform's answer affirmed the capability the change needs
\* (service.go 163-171 and 233-239, comment.go 160-166).
MutationWasChecked ==
    [][\A m \in mutations' \ mutations : m.on # NoToken =>
          /\ checked[m.op].actor = req[m.op].actor
          /\ checked[m.op].on = m.on
          /\ Affirms(checked[m.op].answer, m.to)]_mutations

\* A client that is told of success has had everything done: the document
\* was created and, when there was content, the content was appended.
OkMeansDone ==
    \A o \in Ops : answer[o] = "ok" =>
        /\ \E m \in mutations : m.op = o
        /\ req[o].tool = "create" /\ req[o].markdown =>
              \E m \in mutations : m.op = o /\ m.on = Docx(NewDocument(o))

=============================================================================
