--------------------------- MODULE SkillRun_proofs ---------------------------
(***************************************************************************)
(* Proofs about DocumentWrites and about SkillRun, which extends it.       *)
(*                                                                         *)
(* First the single calls, for any operations, resources, actors and       *)
(* answers of the permission endpoint.  The inductive invariant Inv        *)
(* follows an operation along its chain: what it is about is settled       *)
(* before it is checked (Known), a dry run never gets as far as a check    *)
(* (Meant), and an operation about to mutate carries the check that was    *)
(* made for it (Checked).                                                  *)
(*                                                                         *)
(* Then the runs, for any registry, number of steps and inputs: a run's    *)
(* steps are the only ones its operations take.  RunInv adds to Inv that   *)
(* the executor's gates hold from the start to the end of the run (Gate),  *)
(* that operations are opened one after the other (Slot), and that the     *)
(* open one is the call its step describes (Calling).                      *)
(***************************************************************************)
EXTENDS SkillRun, TLAPS

\* Nothing of an earlier operation is left in the slot.
Fresh(o) ==
    /\ pc[o] # "done" => answer[o] = "none"
    /\ pc[o] \in {"idle", "canonicalize", "prepare"} => phase[o] = "own"

Called(o) ==
    /\ pc[o] # "idle" => req[o] \in Requests
    /\ pc[o] = "canonicalize" => req[o].tool # "create"

Filling(o) ==
    phase[o] = "append" =>
        /\ req[o].tool = "create"
        /\ documentId[o] = NewDocument(o)

Meant(o) == pc[o] \in {"check", "post"} => ~DryRun(req[o])

Known(o) ==
    pc[o] \in {"prepare", "check", "post"} /\ ~Creating(o) =>
        documentId[o] \in Documents

Checked(o) ==
    /\ pc[o] = "check" => Target(o) # NoToken
    /\ pc[o] = "post" /\ Target(o) # NoToken =>
          /\ checked[o].actor = req[o].actor
          /\ checked[o].on = Target(o)
          /\ Affirms(checked[o].answer, Needed(o))

OpInv(o) ==
    /\ Fresh(o) /\ Called(o) /\ Filling(o) /\ Meant(o) /\ Known(o)
    /\ Checked(o)

\* A mutation belongs to an operation that is open and not a dry run.
MutationInv ==
    \A m \in mutations : pc[m.op] # "idle" /\ ~DryRun(req[m.op])

Inv ==
    /\ TypeOK
    /\ \A o \in Ops : OpInv(o)
    /\ MutationInv
    /\ OkMeansDone

-----------------------------------------------------------------------------
\* The object that decides is one of the answer's four.
LEMMA PermIsPart ==
    ASSUME NEW a \in Answers
    PROVE  \E part \in DOMAIN a : perm(a) = a[part]
BY AnswerAssumption DEF perm, orElse

\* A decisive yes is something the answer says.
LEMMA BoolIsSaid ==
    ASSUME NEW a \in Answers, NEW keys, firstBool(perm(a), keys)
    PROVE  Says(a, keys, {"yes"})
<1>1. PICK part \in DOMAIN a : perm(a) = a[part]
  BY PermIsPart
<1>2. PICK i \in DOMAIN keys : /\ Tells(perm(a), keys[i])
                               /\ perm(a)[keys[i]] = "yes"
  BY DEF firstBool
<1> QED
  BY <1>1, <1>2 DEF Says, Tells

\* And so is a decisive entity.
LEMMA EntityIsSaid ==
    ASSUME NEW a \in Answers, NEW keys, NEW entities,
           EntityIn(perm(a), keys, entities)
    PROVE  Says(a, keys, entities)
<1>1. PICK part \in DOMAIN a : perm(a) = a[part]
  BY PermIsPart
<1>2. PICK i \in DOMAIN keys : /\ keys[i] \in DOMAIN perm(a)
                               /\ perm(a)[keys[i]] \in entities
  BY DEF EntityIn
<1> QED
  BY <1>1, <1>2 DEF Says

\* The more values, the more is said.
LEMMA SaysMore ==
    ASSUME NEW a, NEW keys, NEW few, NEW many, few \subseteq many,
           Says(a, keys, few)
    PROVE  Says(a, keys, many)
BY DEF Says

\* Whatever spelling decides, an answer that is read as a permission affirms
\* it: CanWrite and CanComment of permissionSnapshotFromRaw never come from
\* what the platform left out.
THEOREM PermissionIsAffirmed ==
    ASSUME NEW a \in Answers, NEW to \in Capabilities, Allows(a, to)
    PROVE  Affirms(a, to)
<1>1. CASE to = "write"
  <2>1. firstBool(perm(a), WriteKeys)
    BY <1>1 DEF Allows, CanWrite
  <2> QED
    BY <1>1, <2>1, BoolIsSaid DEF Affirms
<1>2. CASE to = "comment"
  <2>1. CASE firstBool(perm(a), CommentKeys)
    BY <1>2, <2>1, BoolIsSaid DEF Affirms
  <2>2. CASE EntityIn(perm(a), CommentEntityKeys, Editors)
    <3>1. Says(a, CommentEntityKeys, Editors)
      BY <2>2, EntityIsSaid
    <3> QED
      BY <1>2, <3>1, SaysMore DEF Affirms
  <2>3. CASE EntityIn(perm(a), CommentEntityKeys, Viewers)
    <3>1. Says(a, CommentEntityKeys, Viewers)
      BY <2>3, EntityIsSaid
    <3> QED
      BY <1>2, <3>1, SaysMore DEF Affirms
  <2> QED
    BY <1>2, <2>1, <2>2, <2>3 DEF Allows, CanComment
<1> QED
  BY <1>1, <1>2 DEF Capabilities

-----------------------------------------------------------------------------
LEMMA InitInv == Init => Inv
BY DEF Init, Inv, TypeOK, OpInv, Fresh, Called, Filling, Meant, Known, Checked,
       MutationInv, OkMeansDone

\* What is about to be changed is a resource, or no folder at all.
LEMMA TargetType ==
    ASSUME Inv, NEW o \in Ops, pc[o] \in {"prepare", "check", "post"}
    PROVE  Target(o) \in Resources \cup {NoToken}
<1> USE DEF Inv, OpInv
<1>1. CASE Creating(o)
  <2>1. req[o].target \in Tokens \cup {NoToken}
    BY <1>1 DEF Creating, Called, Requests
  <2> QED
    BY <1>1, <2>1 DEF Target, Resources
<1>2. CASE ~Creating(o)
  <2>1. documentId[o] \in Documents
    BY <1>2 DEF Known
  <2> QED
    BY <1>2, <2>1 DEF Target, Resources
<1> QED
  BY <1>1, <1>2

\* A step that opens no operation and mutates nothing.
LEMMA MutationFrame ==
    ASSUME TypeOK, MutationInv, UNCHANGED <<dryRunDefault, req, mutations>>,
           \A p \in Ops : pc[p] # "idle" => pc'[p] # "idle"
    PROVE  MutationInv'
BY DEF TypeOK, MutationInv, DryRun

\* A step that tells no client of success.
LEMMA DoneFrame ==
    ASSUME OkMeansDone, UNCHANGED req, mutations \subseteq mutations',
           \A p \in Ops : answer'[p] = "ok" => answer[p] = "ok"
    PROVE  OkMeansDone'
<1> SUFFICES ASSUME NEW o \in Ops, answer'[o] = "ok"
             PROVE  /\ \E m \in mutations' : m.op = o
                    /\ req[o].tool = "create" /\ req[o].markdown =>
                          \E m \in mutations' :
                             m.op = o /\ m.on = Docx(NewDocument(o))
  BY DEF OkMeansDone, Docx
<1> QED
  BY DEF OkMeansDone, Docx

\* The other operations are where they were.
LEMMA OpFrame ==
    ASSUME NEW p \in Ops, OpInv(p), UNCHANGED dryRunDefault,
           pc'[p] = pc[p], req'[p] = req[p], phase'[p] = phase[p],
           checked'[p] = checked[p], documentId'[p] = documentId[p],
           answer'[p] = answer[p]
    PROVE  OpInv(p)'
BY DEF OpInv, Fresh, Called, Filling, Meant, Known, Checked, Creating, Target,
       Needed, DryRun

\* A request is read into a free slot.
LEMMA CallInv ==
    ASSUME Inv, NEW o \in Ops, NEW r \in Requests, Call(o, r) PROVE Inv'
<1> USE DEF Inv, Call, Goto
<1>1. TypeOK'
  BY DEF TypeOK
<1>2. ASSUME NEW p \in Ops PROVE OpInv(p)'
  <2>1. CASE p = o
    BY <2>1 DEF TypeOK, OpInv, Fresh, Called, Filling, Meant, Known, Checked,
                Creating, Target
  <2>2. CASE p # o
    BY <2>2, OpFrame DEF TypeOK
  <2> QED
    BY <2>1, <2>2
<1>3. MutationInv'
  BY DEF TypeOK, MutationInv, DryRun
<1>4. OkMeansDone'
  BY DEF TypeOK, OpInv, Fresh, OkMeansDone
<1> QED
  BY <1>1, <1>2, <1>3, <1>4

\* The document is found, whichever it is at the moment.
LEMMA CanonicalizeInv ==
    ASSUME Inv, NEW o \in Ops, Canonicalize(o) PROVE Inv'
<1> USE DEF Inv, Canonicalize, Goto, Finish, Error
<1>1. ASSUME NEW t \in Named(req[o].target) PROVE t \in Documents
  <2>1. req[o].target \in Tokens \cup Links
    BY DEF OpInv, Called, Requests
  <2> QED
    BY <1>1, <2>1 DEF Named, Documents
<1>2. TypeOK'
  <2>1. pc' \in [Ops -> {"idle", "canonicalize", "prepare", "check", "post",
                         "done"}]
    BY DEF TypeOK
  <2>2. documentId' \in [Ops -> Documents \cup {NoToken}]
    BY <1>1 DEF TypeOK
  <2>3. answer' \in [Ops -> {"none", "dry run", "ok", "error"}]
    BY DEF TypeOK
  <2> QED
    BY <2>1, <2>2, <2>3 DEF TypeOK
<1>3. ASSUME NEW p \in Ops PROVE OpInv(p)'
  <2>1. CASE p = o
    BY <1>1, <2>1 DEF TypeOK, OpInv, Fresh, Called, Filling, Meant, Known,
                      Checked, Creating, Target
  <2>2. CASE p # o
    BY <2>2, OpFrame DEF TypeOK
  <2> QED
    BY <2>1, <2>2
<1>4. MutationInv'
  BY MutationFrame DEF TypeOK
<1>5. OkMeansDone'
  BY DoneFrame DEF TypeOK
<1> QED
  BY <1>2, <1>3, <1>4, <1>5

\* A dry run returns here.
LEMMA PrepareInv ==
    ASSUME Inv, NEW o \in Ops, Prepare(o) PROVE Inv'
<1> USE DEF Inv, Prepare, Goto, Finish, Error
<1>1. TypeOK'
  BY DEF TypeOK
<1>2. ASSUME NEW p \in Ops PROVE OpInv(p)'
  <2>1. CASE p = o
    <3>1. Fresh(o)' /\ Called(o)' /\ Filling(o)'
      BY DEF TypeOK, OpInv, Fresh, Called, Filling
    <3>2. Meant(o)' /\ Known(o)'
      BY DEF TypeOK, OpInv, Meant, Known, Creating, DryRun
    <3>3. Checked(o)'
      BY DEF TypeOK, OpInv, Checked, Creating, Target
    <3> QED
      BY <2>1, <3>1, <3>2, <3>3 DEF OpInv
  <2>2. CASE p # o
    BY <2>2, OpFrame DEF TypeOK
  <2> QED
    BY <2>1, <2>2
<1>3. MutationInv'
  BY MutationFrame DEF TypeOK
<1>4. OkMeansDone'
  BY DoneFrame DEF TypeOK
<1> QED
  BY <1>1, <1>2, <1>3, <1>4

\* The answer that was taken affirms what the operation needs.
LEMMA CheckAllowedInv ==
    ASSUME Inv, NEW o \in Ops, CheckAllowed(o) PROVE Inv'
<1> USE DEF Inv, CheckAllowed, Goto
<1>1. PICK a \in Answers :
         /\ Allows(a, Needed(o))
         /\ checked' = [checked EXCEPT ![o] =
               [actor |-> req[o].actor, on |-> Target(o), answer |-> a]]
  BY DEF CheckAllowed
<1>2. Target(o) \in Resources
  BY TargetType DEF OpInv, Checked
<1>3. TypeOK'
  <2>1. req[o].actor \in Actors
    BY DEF OpInv, Called, Requests
  <2>2. [actor |-> req[o].actor, on |-> Target(o), answer |-> a] \in Checks
    BY <1>2, <2>1 DEF Checks
  <2> QED
    BY <1>1, <2>2 DEF TypeOK
<1>4. Affirms(a, Needed(o))
  BY <1>1, PermissionIsAffirmed DEF Needed, Capabilities
<1>5. ASSUME NEW p \in Ops PROVE OpInv(p)'
  <2>1. CASE p = o
    <3>1. /\ checked'[o].actor = req'[o].actor
          /\ checked'[o].on = Target(o)
          /\ Affirms(checked'[o].answer, Needed(o))
      BY <1>1, <1>4 DEF TypeOK
    <3>2. Target(o)' = Target(o) /\ Needed(o)' = Needed(o)
      BY DEF Target, Needed, Creating
    <3>3. Checked(o)'
      BY <3>1, <3>2 DEF TypeOK, Checked
    <3> QED
      BY <2>1, <3>3 DEF TypeOK, OpInv, Fresh, Called, Filling, Meant, Known,
                        Creating, DryRun
  <2>2. CASE p # o
    BY <1>1, <2>2, OpFrame DEF TypeOK
  <2> QED
    BY <2>1, <2>2
<1>6. MutationInv'
  BY MutationFrame DEF TypeOK
<1>7. OkMeansDone'
  BY DoneFrame DEF TypeOK
<1> QED
  BY <1>3, <1>5, <1>6, <1>7

\* The check said no, or failed.
LEMMA CheckDeniedInv ==
    ASSUME Inv, NEW o \in Ops, CheckDenied(o) PROVE Inv'
<1> USE DEF Inv, CheckDenied, Goto, Finish, Error
<1>1. TypeOK'
  BY DEF TypeOK
<1>2. ASSUME NEW p \in Ops PROVE OpInv(p)'
  <2>1. CASE p = o
    BY <2>1 DEF TypeOK, OpInv, Fresh, Called, Filling, Meant, Known, Checked,
                Creating
  <2>2. CASE p # o
    BY <2>2, OpFrame DEF TypeOK
  <2> QED
    BY <2>1, <2>2
<1>3. MutationInv'
  BY MutationFrame DEF TypeOK
<1>4. OkMeansDone'
  BY DoneFrame DEF TypeOK
<1> QED
  BY <1>1, <1>2, <1>3, <1>4

\* What is performed is of its type, and of an operation that is no dry run.
LEMMA PerformKeeps ==
    ASSUME Inv, NEW o \in Ops, pc[o] = "post", Perform(o),
           UNCHANGED <<dryRunDefault, req>>,
           \A p \in Ops : pc[p] # "idle" => pc'[p] # "idle"
    PROVE  /\ mutations' \subseteq [op : Ops, on : Resources \cup {NoToken},
                                    to : Capabilities]
           /\ MutationInv'
<1> USE DEF Inv, Perform
<1>1. [op |-> o, on |-> Target(o), to |-> Needed(o)]
         \in [op : Ops, on : Resources \cup {NoToken}, to : Capabilities]
  BY TargetType DEF Needed, Capabilities
<1>2. mutations' \subseteq [op : Ops, on : Resources \cup {NoToken},
                           to : Capabilities]
  BY <1>1 DEF TypeOK
<1>3. ASSUME NEW m \in mutations' PROVE pc'[m.op] # "idle" /\ ~DryRun(req[m.op])'
  <2>1. CASE m \in mutations
    BY <1>2, <2>1 DEF MutationInv, DryRun
  <2>2. CASE m.op = o
    BY <2>2 DEF OpInv, Meant, DryRun
  <2> QED
    BY <2>1, <2>2
<1> QED
  BY <1>2, <1>3 DEF MutationInv

\* An append, a comment or an empty create is done.
LEMMA PostAnsweredInv ==
    ASSUME Inv, NEW o \in Ops, PostAnswered(o) PROVE Inv'
<1> USE DEF Inv, PostAnswered, Goto, Finish
<1>1. /\ \A p \in Ops : pc[p] # "idle" => pc'[p] # "idle"
      /\ UNCHANGED <<dryRunDefault, req>>
  BY DEF TypeOK
<1>2. /\ mutations' \subseteq [op : Ops, on : Resources \cup {NoToken},
                              to : Capabilities]
      /\ MutationInv'
  BY <1>1, PerformKeeps
<1>3. TypeOK'
  <2>1. NewDocument(o) \in Documents
    BY DEF Documents
  <2>2. documentId' \in [Ops -> Documents \cup {NoToken}]
    BY <2>1 DEF TypeOK
  <2> QED
    BY <1>2, <2>2 DEF TypeOK
<1>4. ASSUME NEW p \in Ops PROVE OpInv(p)'
  <2>1. CASE p = o
    <3>1. Filling(o)'
      BY DEF TypeOK, OpInv, Filling
    <3> QED
      BY <2>1, <3>1 DEF TypeOK, OpInv, Fresh, Called, Meant, Known, Checked
  <2>2. CASE p # o
    BY <2>2, OpFrame DEF TypeOK
  <2> QED
    BY <2>1, <2>2
<1>5. OkMeansDone'
  <2> DEFINE new == [op |-> o, on |-> Target(o), to |-> Needed(o)]
  <2>1. new \in mutations' /\ mutations \subseteq mutations'
    BY DEF Perform
  <2>2. SUFFICES ASSUME NEW p \in Ops, answer'[p] = "ok"
                 PROVE  /\ \E m \in mutations' : m.op = p
                        /\ req[p].tool = "create" /\ req[p].markdown =>
                              \E m \in mutations' :
                                 m.op = p /\ m.on = Docx(NewDocument(p))
    BY <1>1 DEF OkMeansDone, Docx
  <2>3. CASE p = o
    <3>1. ASSUME req[o].tool = "create", req[o].markdown
          PROVE  new.on = Docx(NewDocument(o))
      <4>1. ~Creating(o)
        BY <3>1
      <4>2. phase[o] = "append"
        BY <3>1, <4>1 DEF Creating, TypeOK
      <4> QED
        BY <4>1, <4>2 DEF OpInv, Filling, Target
    <3> QED
      BY <2>1, <2>3, <3>1
  <2>4. CASE p # o
    <3>1. answer[p] = "ok"
      BY <2>2, <2>4 DEF TypeOK
    <3> QED
      BY <2>1, <3>1 DEF OkMeansDone
  <2> QED
    BY <2>3, <2>4
<1> QED
  BY <1>2, <1>3, <1>4, <1>5

\* The append of a create starts over with a check of the new document.
LEMMA PostThenAppendInv ==
    ASSUME Inv, NEW o \in Ops, PostThenAppend(o) PROVE Inv'
<1> USE DEF Inv, PostThenAppend, Goto
<1>1. /\ \A p \in Ops : pc[p] # "idle" => pc'[p] # "idle"
      /\ UNCHANGED <<dryRunDefault, req>>
  BY DEF TypeOK
<1>2. /\ mutations' \subseteq [op : Ops, on : Resources \cup {NoToken},
                              to : Capabilities]
      /\ MutationInv'
  BY <1>1, PerformKeeps
<1>3. NewDocument(o) \in Documents
  BY DEF Documents
<1>4. TypeOK'
  BY <1>2, <1>3 DEF TypeOK
<1>5. ASSUME NEW p \in Ops PROVE OpInv(p)'
  <2>1. CASE p = o
    <3>1. Target(o)' = Docx(NewDocument(o))
      BY DEF TypeOK, Target, Creating, Docx
    <3>2. Target(o)' # NoToken
      BY <3>1, <1>3, NoTokenAssumption DEF Resources
    <3> QED
      BY <1>3, <2>1, <3>2 DEF TypeOK, OpInv, Fresh, Called, Filling, Meant,
                              Known, Checked, Creating, DryRun
  <2>2. CASE p # o
    BY <2>2, OpFrame DEF TypeOK
  <2> QED
    BY <2>1, <2>2
<1>6. OkMeansDone'
  BY DoneFrame DEF Perform
<1> QED
  BY <1>2, <1>4, <1>5, <1>6

\* The mutation failed, or only its answer did.
LEMMA PostFailedInv ==
    ASSUME Inv, NEW o \in Ops, PostFailed(o) PROVE Inv'
<1> USE DEF Inv, PostFailed, Goto, Finish, Error
<1>1. /\ \A p \in Ops : pc[p] # "idle" => pc'[p] # "idle"
      /\ UNCHANGED <<dryRunDefault, req>>
  BY DEF TypeOK
<1>2. /\ mutations' \subseteq [op : Ops, on : Resources \cup {NoToken},
                              to : Capabilities]
      /\ MutationInv'
  <2>1. CASE Perform(o)
    BY <1>1, <2>1, PerformKeeps
  <2>2. CASE UNCHANGED mutations
    <3>1. MutationInv'
      BY <1>1, <2>2, MutationFrame
    <3> QED
      BY <2>2, <3>1 DEF TypeOK
  <2> QED
    BY <2>1, <2>2
<1>3. TypeOK'
  BY <1>2 DEF TypeOK
<1>4. ASSUME NEW p \in Ops PROVE OpInv(p)'
  <2>1. CASE p = o
    BY <2>1 DEF TypeOK, OpInv, Fresh, Called, Filling, Meant, Known, Checked
  <2>2. CASE p # o
    BY <2>2, OpFrame DEF TypeOK
  <2> QED
    BY <2>1, <2>2
<1>5. OkMeansDone'
  <2>1. \A p \in Ops : answer'[p] = "ok" => answer[p] = "ok"
    BY DEF TypeOK
  <2> QED
    BY <2>1, DoneFrame DEF Perform
<1> QED
  BY <1>2, <1>3, <1>4, <1>5

\* The slot is cleared.
LEMMA ReturnInv ==
    ASSUME Inv, NEW o \in Ops, Return(o) PROVE Inv'
<1> USE DEF Inv, Return, Goto
<1>1. TypeOK'
  BY DEF TypeOK
<1>2. ASSUME NEW p \in Ops PROVE OpInv(p)'
  <2>1. CASE p = o
    BY <2>1 DEF TypeOK, OpInv, Fresh, Called, Filling, Meant, Known, Checked
  <2>2. CASE p # o
    BY <2>2, OpFrame DEF TypeOK
  <2> QED
    BY <2>1, <2>2
<1>3. MutationInv'
  <2> SUFFICES ASSUME NEW m \in mutations'
               PROVE  pc'[m.op] # "idle" /\ ~DryRun(req[m.op])'
    BY DEF MutationInv
  <2>1. m \in mutations /\ m.op \in Ops /\ m.op # o
    BY DEF TypeOK
  <2>2. pc'[m.op] = pc[m.op] /\ req'[m.op] = req[m.op]
    BY <2>1 DEF TypeOK
  <2> QED
    BY <2>1, <2>2 DEF MutationInv, DryRun
<1>4. OkMeansDone'
  <2> SUFFICES ASSUME NEW p \in Ops, answer'[p] = "ok"
               PROVE  /\ \E m \in mutations' : m.op = p
                      /\ req'[p].tool = "create" /\ req'[p].markdown =>
                            \E m \in mutations' :
                               m.op = p /\ m.on = Docx(NewDocument(p))
    BY DEF OkMeansDone, Docx
  <2>1. p # o /\ answer[p] = "ok" /\ req'[p] = req[p]
    BY DEF TypeOK
  <2>2. \A m \in mutations : m.op = p => m \in mutations'
    BY <2>1
  <2> QED
    BY <2>1, <2>2 DEF OkMeansDone
<1> QED
  BY <1>1, <1>2, <1>3, <1>4

\* Every step preserves the invariant.
LEMMA NextInv == Inv /\ [Next]_vars => Inv'
<1> SUFFICES ASSUME Inv, [Next]_vars PROVE Inv'
  OBVIOUS
<1>1. ASSUME NEW o \in Ops, Step(o) PROVE Inv'
  BY <1>1, CanonicalizeInv, PrepareInv, CheckAllowedInv, CheckDeniedInv,
     PostAnsweredInv, PostThenAppendInv, PostFailedInv DEF Step
<1>2. ASSUME NEW o \in Ops, Return(o) PROVE Inv'
  BY <1>2, ReturnInv
<1>3. ASSUME NEW o \in Ops, NEW r \in Requests, Call(o, r) PROVE Inv'
  BY <1>3, CallInv
<1>4. CASE UNCHANGED vars
  <2>1. UNCHANGED <<dryRunDefault, pc, req, phase, checked, documentId, answer,
                    mutations>>
    BY <1>4 DEF vars, callVars
  <2>2. \A o \in Ops : OpInv(o)'
    BY <2>1, OpFrame DEF Inv
  <2>3. MutationInv'
    BY <2>1, MutationFrame DEF Inv
  <2>4. OkMeansDone'
    BY <2>1, DoneFrame DEF Inv
  <2> QED
    BY <2>1, <2>2, <2>3, <2>4 DEF Inv, TypeOK
<1> QED
  BY <1>1, <1>2, <1>3, <1>4 DEF Next

LEMMA Invariance == Spec => []Inv
BY InitInv, NextInv, PTL DEF Spec

\* Arguments, checks and mutations keep their types: what is checked and
\* changed is a resource that was named or created.
THEOREM TypeCorrect == Spec => []TypeOK
<1>1. Inv => TypeOK
  BY DEF Inv
<1> QED
  BY <1>1, Invariance, PTL

\* No dry run changes anything, however many calls are open and whichever of
\* their requests fail.
THEOREM DryRunsAreDry == Spec => []DryRunMutatesNothing
<1>1. ASSUME Inv PROVE DryRunMutatesNothing
  <2> SUFFICES ASSUME NEW m \in mutations
               PROVE  \/ req[m.op].dryRun = "no"
                      \/ req[m.op].dryRun = "unset" /\ ~dryRunDefault
    BY DEF DryRunMutatesNothing
  <2>1. m.op \in Ops
    BY <1>1 DEF Inv, TypeOK
  <2>2. req[m.op] \in Requests /\ ~DryRun(req[m.op])
    BY <1>1, <2>1 DEF Inv, OpInv, Called, MutationInv
  <2>3. req[m.op].dryRun \in {"unset", "yes", "no"}
    BY <2>2 DEF Requests
  <2> QED
    BY <2>2, <2>3 DEF DryRun
<1> QED
  BY <1>1, Invariance, PTL

\* Success is told only of work that was done in full.
THEOREM SuccessIsWhole == Spec => []OkMeansDone
<1>1. Inv => OkMeansDone
  BY DEF Inv
<1> QED
  BY <1>1, Invariance, PTL

\* What a step newly mutates, it performed itself.
LEMMA PerformedNow ==
    ASSUME Inv, NEW o \in Ops, pc[o] = "post", UNCHANGED req,
           Perform(o) \/ UNCHANGED mutations,
           NEW m \in mutations' \ mutations, m.on # NoToken
    PROVE  /\ checked[m.op].actor = req[m.op].actor
           /\ checked[m.op].on = m.on
           /\ Affirms(checked[m.op].answer, m.to)
<1>1. m = [op |-> o, on |-> Target(o), to |-> Needed(o)]
  BY DEF Perform
<1> QED
  BY <1>1 DEF Inv, OpInv, Checked

\* A mutation is preceded by a check of the same resource for the same
\* actor, and by a platform that affirmed it.
THEOREM MutationsAreChecked == Spec => MutationWasChecked
<1> DEFINE Had(m) == /\ checked[m.op].actor = req[m.op].actor
                     /\ checked[m.op].on = m.on
                     /\ Affirms(checked[m.op].answer, m.to)
           New == \A m \in mutations' \ mutations : m.on # NoToken => Had(m)
<1>1. ASSUME Inv, [Next]_vars PROVE [New]_mutations
  <2>1. ASSUME NEW o \in Ops,
               PostAnswered(o) \/ PostThenAppend(o) \/ PostFailed(o)
        PROVE  New
    BY <1>1, <2>1, PerformedNow DEF PostAnswered, PostThenAppend, PostFailed
  <2>2. ASSUME NEW o \in Ops,
               \/ Canonicalize(o) \/ Prepare(o) \/ CheckAllowed(o)
               \/ CheckDenied(o) \/ Return(o)
               \/ \E r \in Requests : Call(o, r)
        PROVE  New
    BY <2>2 DEF Canonicalize, Prepare, CheckAllowed, CheckDenied, Return, Call
  <2>3. CASE UNCHANGED vars
    BY <2>3 DEF vars
  <2> QED
    BY <1>1, <2>1, <2>2, <2>3 DEF Next, Step
<1> QED
  BY <1>1, Invariance, PTL DEF Spec, MutationWasChecked

-----------------------------------------------------------------------------
\* The runs.

RequestType ==
    request \in [dryRun : {"unset", "yes", "no"},
                 target : Tokens \cup Links \cup {NoToken},
                 operationId : {Unset, "blank", "given"}]

Gate == run \in {"running", "calling"} => Acceptable

\* A step that called nothing, or whose call succeeded.
Complete(i) == pc[i] = "idle" \/ answer[i] \in {"ok", "dry run"}

Slot(i) ==
    /\ pc[i] = "idle" => req[i] = NoRequest
    /\ pc[i] = "done" => answer[i] # "none"
    /\ i > index => pc[i] = "idle"
    /\ i < index => Complete(i)

\* The operation of the step that comes next is not open yet.
Ready == run \in {"start", "running"} /\ index \in Ops => pc[index] = "idle"

Calling ==
    run = "calling" =>
        /\ index \in Ops
        /\ index \in DOMAIN steps
        /\ IsWrite(step)
        /\ MayCall(step)
        /\ req[index].tool = step.tool
        /\ req[index].actor = ActorOf(step)
        /\ Dry => req[index].dryRun = "yes"

Mutated ==
    /\ mutations # {} => Acceptable /\ ~Dry
    /\ \A m \in mutations : m.op \in DOMAIN steps /\ IsWrite(steps[m.op])

RunInv ==
    /\ Inv
    /\ RunTypeOK
    /\ RequestType
    /\ Gate
    /\ \A i \in Ops : Slot(i)
    /\ Ready
    /\ Calling
    /\ Mutated

-----------------------------------------------------------------------------
LEMMA RunInitInv == RunInit => RunInv
<1> SUFFICES ASSUME RunInit PROVE RunInv
  OBVIOUS
<1>1. Inv
  BY InitInv DEF RunInit
<1>2. RunTypeOK
  BY <1>1, StepAssumption
  DEF Inv, RunInit, RunTypeOK, NoPreflight, Credentials
<1>3. RequestType /\ Gate /\ Calling
  BY DEF RunInit, RequestType, Gate, Calling
<1>4. ASSUME NEW i \in Ops PROVE Slot(i) /\ Ready
  BY StepAssumption DEF RunInit, Init, Slot, Ready
<1>5. Mutated
  BY DEF RunInit, Init, Mutated
<1>6. Ready
  BY <1>4 DEF Ready
<1> QED
  BY <1>1, <1>2, <1>3, <1>4, <1>5, <1>6 DEF RunInv

\* What the gates look at stays as it is: the configuration, the manifest and
\* the request are read once.
LEMMA GatesStay ==
    ASSUME UNCHANGED <<options, manifest, request>>
    PROVE  /\ UNCHANGED <<Acceptable, Dry, steps>>
           /\ \A s : TargetOf(s)' = TargetOf(s)
BY DEF Acceptable, ManifestAllowed, ReadOnly, Interpolates, ResolvesOperation,
       Dry, steps, TargetOf

\* A step of the manifest, and what the executor makes of its arguments.
LEMMA StepType ==
    ASSUME RunInv, NEW i \in DOMAIN steps
    PROVE  /\ steps[i] \in Steps
           /\ TargetOf(steps[i]) \in Tokens \cup Links \cup {NoToken}
<1>1. steps \in Seq(Steps)
  BY ManifestAssumption DEF RunInv, RunTypeOK, steps
<1>2. steps[i] \in Steps
  BY <1>1
<1>3. steps[i].target \in Tokens \cup Links \cup {FromInput, NoToken}
  BY <1>2 DEF Steps
<1> QED
  BY <1>2, <1>3 DEF TargetOf, RunInv, RequestType

\* Within a run the step is one of the manifest's and of the operations.
LEMMA IndexType ==
    ASSUME RunInv, AtStep
    PROVE  /\ index \in DOMAIN steps
           /\ index \in Ops
           /\ index + 1 \in 1..(MaxSteps + 1)
<1>1. Len(steps) <= MaxSteps /\ index \in Nat /\ 1 <= index
  BY StepAssumption DEF AtStep, RunInv, Gate, Acceptable, RunTypeOK
<1>2. steps \in Seq(Steps)
  BY ManifestAssumption DEF RunInv, RunTypeOK, steps
<1> QED
  BY <1>1, <1>2, StepAssumption DEF AtStep

\* Steps of the executor that call nothing: they touch no operation.
LEMMA CallsNothing ==
    ASSUME RunInv, UNCHANGED <<vars, options, manifest, request>>,
           RunTypeOK', Gate', Calling', Ready', \A i \in Ops : Slot(i)'
    PROVE  RunInv'
<1>1. UNCHANGED vars
  OBVIOUS
<1>2. Inv'
  BY NextInv DEF RunInv
<1>3. RequestType'
  BY DEF RunInv, RequestType
<1>4. Mutated'
  BY GatesStay DEF RunInv, Mutated, vars
<1> QED
  BY <1>2, <1>3, <1>4 DEF RunInv

LEMMA OpsAreNumbers == Ops \subseteq Nat
BY StepAssumption

\* The run goes on to the next step, past one that is complete.
LEMMA SlotsPass ==
    ASSUME RunInv, index \in Ops, UNCHANGED vars, index' = index + 1,
           Complete(index)
    PROVE  Ready' /\ \A i \in Ops : Slot(i)'
<1>1. UNCHANGED <<pc, req, answer>>
  BY DEF vars, callVars
<1>2. ASSUME NEW i \in Ops PROVE Slot(i)'
  <2>1. i \in Nat /\ index \in Nat /\ Slot(i)
    BY OpsAreNumbers DEF RunInv
  <2>2. i > index' => pc[i] = "idle"
    BY <2>1 DEF Slot
  <2>3. i < index' => Complete(i)
    <3>1. CASE i = index
      BY <3>1
    <3>2. CASE i # index
      BY <2>1, <3>2 DEF Slot
    <3> QED
      BY <3>1, <3>2
  <2> QED
    BY <1>1, <2>1, <2>2, <2>3 DEF Slot, Complete
<1>3. Ready'
  <2>1. index' > index
    BY OpsAreNumbers
  <2> QED
    BY <1>1, <2>1 DEF RunInv, Slot, Ready
<1> QED
  BY <1>2, <1>3

\* Everything is validated before the first call.
LEMMA StartInv == ASSUME RunInv, Start PROVE RunInv'
<1> USE DEF Start, End
<1>1. RunTypeOK'
  BY DEF RunInv, RunTypeOK, TypeOK, vars, callVars
<1>2. Gate' /\ Calling'
  BY GatesStay DEF Gate, Calling
<1>3. Ready' /\ \A i \in Ops : Slot(i)'
  BY DEF RunInv, Slot, Complete, Ready, vars, callVars
<1> QED
  BY <1>1, <1>2, <1>3, CallsNothing

\* The run ends with its operations as they are.
LEMMA EndInv ==
    ASSUME RunInv, NEW o \in {"denied", "failed", "ok"}, End(o),
           UNCHANGED <<vars, options, manifest, request, index, preflight>>
    PROVE  RunInv'
<1>1. RunTypeOK'
  BY DEF End, RunInv, RunTypeOK, TypeOK, vars, callVars
<1>2. Gate' /\ Calling'
  BY DEF End, Gate, Calling
<1>3. Ready' /\ \A i \in Ops : Slot(i)'
  BY DEF End, RunInv, Slot, Complete, Ready, vars, callVars
<1> QED
  BY <1>1, <1>2, <1>3, CallsNothing

\* A reading step is passed.
LEMMA ReadStepInv == ASSUME RunInv, ReadStep PROVE RunInv'
<1> USE DEF ReadStep
<1>1. RunTypeOK'
  BY IndexType DEF RunInv, RunTypeOK, TypeOK, vars, callVars
<1>2. Gate' /\ Calling'
  BY GatesStay DEF AtStep, RunInv, Gate, Calling
<1>3. Ready' /\ \A i \in Ops : Slot(i)'
  <2>1. index \in Ops /\ pc[index] = "idle"
    BY IndexType DEF AtStep, RunInv, Ready
  <2> QED
    BY <2>1, SlotsPass DEF Complete
<1> QED
  BY <1>1, <1>2, <1>3, CallsNothing

\* A permission check replaces the preflight.
LEMMA CheckPermissionInv == ASSUME RunInv, CheckPermission PROVE RunInv'
<1> USE DEF CheckPermission
<1>1. preflight' \in [token : Tokens \cup Links \cup {NoToken},
                     credential : Credentials, allows : SUBSET Capabilities]
  <2>1. /\ TargetOf(step) \in Tokens \cup Links \cup {NoToken}
        /\ step \in Steps
    BY IndexType, StepType DEF step
  <2>2. step.credential \in Credentials
    BY <2>1 DEF Steps
  <2> QED
    BY <2>1, <2>2
<1>2. RunTypeOK'
  BY <1>1, IndexType DEF RunInv, RunTypeOK, TypeOK, vars, callVars
<1>3. Gate' /\ Calling'
  BY GatesStay DEF AtStep, RunInv, Gate, Calling
<1>4. Ready' /\ \A i \in Ops : Slot(i)'
  <2>1. index \in Ops /\ pc[index] = "idle"
    BY IndexType DEF AtStep, RunInv, Ready
  <2> QED
    BY <2>1, SlotsPass DEF Complete
<1> QED
  BY <1>2, <1>3, <1>4, CallsNothing

\* A tool that succeeded is left behind; one that failed ends the run.
LEMMA StepReturnsInv == ASSUME RunInv, StepReturns PROVE RunInv'
<1> USE DEF StepReturns
<1>1. CASE answer[index] = "error"
  BY <1>1, EndInv
<1>2. CASE answer[index] # "error"
  <2>1. index \in Ops /\ index + 1 \in 1..(MaxSteps + 1)
    BY StepAssumption DEF RunInv, Calling
  <2>2. answer[index] \in {"ok", "dry run"}
    BY <1>2, <2>1 DEF RunInv, Inv, TypeOK, Slot
  <2>3. RunTypeOK'
    BY <1>2, <2>1 DEF RunInv, RunTypeOK, TypeOK, vars, callVars
  <2>4. Gate' /\ Calling'
    BY <1>2, GatesStay DEF RunInv, Gate, Calling
  <2>5. Ready' /\ \A i \in Ops : Slot(i)'
    BY <1>2, <2>1, <2>2, SlotsPass DEF Complete
  <2> QED
    BY <2>3, <2>4, <2>5, CallsNothing
<1> QED
  BY <1>1, <1>2

\* A write is called only past the gates.
LEMMA WriteStepInv == ASSUME RunInv, WriteStep PROVE RunInv'
<1>1. PICK r \in Requests :
         /\ r.tool = step.tool
         /\ r.target = TargetOf(step)
         /\ r.actor = ActorOf(step)
         /\ r.dryRun = IF Dry THEN "yes" ELSE "no"
         /\ Call(index, r)
  BY DEF WriteStep
<1>2. /\ AtStep /\ IsWrite(step) /\ MayCall(step) /\ run' = "calling"
      /\ UNCHANGED <<options, manifest, request, index, preflight, outcome>>
  BY DEF WriteStep
<1>3. index \in Ops /\ index \in DOMAIN steps
  BY <1>2, IndexType
<1>4. Inv'
  BY <1>1, <1>3, CallInv DEF RunInv
<1>5. RunTypeOK' /\ RequestType'
  BY <1>2, <1>4 DEF RunInv, RunTypeOK, RequestType, Inv
<1>6. Gate'
  BY <1>2, GatesStay DEF AtStep, RunInv, Gate
<1>7. req'[index] = r /\ pc'[index] \in {"prepare", "canonicalize"}
  <2>1. req \in [Ops -> Requests \cup {NoRequest}] /\ index \in DOMAIN pc
    BY <1>3 DEF RunInv, Inv, TypeOK
  <2> QED
    BY <1>1, <1>3, <2>1 DEF Call, Goto
<1>8. Calling'
  <2>1. UNCHANGED <<Dry, steps, step>> /\ TargetOf(step)' = TargetOf(step)
    BY <1>2, GatesStay DEF step
  <2>2. MayCall(step)'
    BY <1>2, <2>1 DEF MayCall, IsWrite, PreflightTargets, PreflightAllows
  <2>3. ActorOf(step)' = ActorOf(step) /\ IsWrite(step)'
    BY <1>2, <2>1 DEF ActorOf, IsWrite
  <2> QED
    BY <1>1, <1>2, <1>3, <1>7, <2>1, <2>2, <2>3 DEF Calling
<1>9. \A i \in Ops : Slot(i)'
  <2> SUFFICES ASSUME NEW i \in Ops PROVE Slot(i)'
    OBVIOUS
  <2>1. Slot(i) /\ answer' = answer /\ index' = index
    BY <1>1, <1>2 DEF RunInv, Call
  <2>2. CASE i = index
    <3>1. ~(i > index) /\ ~(i < index)
      BY <1>3, <2>2, OpsAreNumbers
    <3> QED
      BY <1>7, <2>1, <2>2, <3>1 DEF Slot, Complete
  <2>3. CASE i # index
    <3>1. pc'[i] = pc[i] /\ req'[i] = req[i]
      BY <1>1, <2>3 DEF RunInv, Inv, TypeOK, Call, Goto
    <3> QED
      BY <2>1, <3>1 DEF Slot, Complete
  <2> QED
    BY <2>2, <2>3
<1>10. Ready'
  BY <1>2 DEF Ready
<1>11. Mutated'
  <2>1. mutations' = mutations /\ UNCHANGED <<Acceptable, Dry, steps>>
    BY <1>1, <1>2, GatesStay DEF Call
  <2> QED
    BY <2>1 DEF RunInv, Mutated, IsWrite
<1> QED
  BY <1>4, <1>5, <1>6, <1>8, <1>9, <1>10, <1>11 DEF RunInv

\* An operation's step opens no other one, and when it ends it has an answer.
LEMMA StepFrame ==
    ASSUME TypeOK, NEW o \in Ops, Step(o)
    PROVE  /\ UNCHANGED req
           /\ pc'[o] # "idle"
           /\ pc'[o] = "done" => answer'[o] # "none"
           /\ \A i \in Ops \ {o} : pc'[i] = pc[i] /\ answer'[i] = answer[i]
<1> USE DEF TypeOK, Goto, Finish, Error
<1>1. CASE Canonicalize(o)
  BY <1>1 DEF Canonicalize
<1>2. CASE Prepare(o)
  BY <1>2 DEF Prepare
<1>3. CASE CheckAllowed(o) \/ CheckDenied(o)
  BY <1>3 DEF CheckAllowed, CheckDenied
<1>4. CASE PostAnswered(o)
  BY <1>4 DEF PostAnswered
<1>5. CASE PostThenAppend(o) \/ PostFailed(o)
  BY <1>5 DEF PostThenAppend, PostFailed
<1> QED
  BY <1>1, <1>2, <1>3, <1>4, <1>5 DEF Step

\* What an operation's step newly mutates is its own.
LEMMA StepMutates ==
    ASSUME NEW o \in Ops, Step(o), NEW m \in mutations' \ mutations
    PROVE  /\ m = [op |-> o, on |-> Target(o), to |-> Needed(o)]
           /\ pc[o] = "post"
<1>1. pc[o] = "post" /\ Perform(o)
  BY DEF Step, Canonicalize, Prepare, CheckAllowed, CheckDenied, PostAnswered,
         PostThenAppend, PostFailed
<1> QED
  BY <1>1 DEF Perform

\* An operation that mutates is one of a real run.
LEMMA MutatingRunIsReal ==
    ASSUME RunInv, run = "calling", pc[index] = "post" PROVE ~Dry
<1>1. index \in Ops /\ (Dry => req[index].dryRun = "yes")
  BY DEF RunInv, Calling
<1>2. ~DryRun(req[index])
  BY <1>1 DEF RunInv, Inv, OpInv, Meant
<1> QED
  BY <1>1, <1>2 DEF DryRun

\* The open call goes on.
LEMMA CallStepInv ==
    ASSUME RunInv, run = "calling", Step(index), UNCHANGED runVars
    PROVE  RunInv'
<1>1. UNCHANGED <<options, manifest, request, run, index, preflight, outcome>>
  BY DEF runVars
<1>2. index \in Ops /\ index \in DOMAIN steps /\ IsWrite(step) /\ Acceptable
  BY DEF RunInv, Calling, Gate
<1>3. Inv'
  BY <1>2, NextInv DEF RunInv, Next
<1>4. /\ UNCHANGED req
      /\ pc'[index] # "idle"
      /\ pc'[index] = "done" => answer'[index] # "none"
      /\ \A i \in Ops \ {index} : pc'[i] = pc[i] /\ answer'[i] = answer[i]
  BY <1>2, StepFrame DEF RunInv, Inv
<1>5. RunTypeOK' /\ RequestType'
  BY <1>1, <1>3 DEF RunInv, RunTypeOK, RequestType, Inv
<1>6. UNCHANGED <<Acceptable, Dry, steps, step>> /\ TargetOf(step)' = TargetOf(step)
  BY <1>1, GatesStay DEF step
<1>7. Gate' /\ Ready'
  BY <1>1, <1>6 DEF RunInv, Gate, Ready
<1>8. Calling'
  BY <1>1, <1>4, <1>6
  DEF RunInv, Calling, IsWrite, MayCall, PreflightTargets, PreflightAllows,
      ActorOf
<1>9. ASSUME NEW i \in Ops PROVE Slot(i)'
  <2>1. Slot(i) /\ i \in Nat /\ index \in Nat
    BY <1>2, OpsAreNumbers DEF RunInv
  <2>2. CASE i = index
    BY <1>1, <1>4, <2>1, <2>2 DEF Slot
  <2>3. CASE i # index
    BY <1>1, <1>4, <2>1, <2>3 DEF Slot, Complete
  <2> QED
    BY <2>2, <2>3
<1>10. Mutated'
  <2>1. ASSUME NEW m \in mutations' \ mutations
        PROVE  ~Dry /\ m.op = index
    BY <1>2, <2>1, StepMutates, MutatingRunIsReal
  <2>2. mutations' # {} => Acceptable /\ ~Dry
    BY <1>2, <2>1 DEF RunInv, Mutated
  <2>3. ASSUME NEW m \in mutations'
        PROVE  m.op \in DOMAIN steps /\ IsWrite(steps[m.op])
    BY <1>2, <2>1 DEF RunInv, Mutated, step
  <2> QED
    BY <1>6, <2>2, <2>3 DEF Mutated, IsWrite
<1> QED
  BY <1>3, <1>5, <1>7, <1>8, <1>9, <1>10 DEF RunInv

\* Every step of a run preserves the invariant.
LEMMA RunNextInv == RunInv /\ [RunNext]_allVars => RunInv'
<1> SUFFICES ASSUME RunInv, [RunNext]_allVars PROVE RunInv'
  OBVIOUS
<1>1. CASE Start
  BY <1>1, StartInv
<1>2. CASE Denied \/ StepFails \/ Succeed
  BY <1>2, EndInv DEF Denied, StepFails, Succeed
<1>3. CASE ReadStep \/ CheckPermission
  BY <1>3, ReadStepInv, CheckPermissionInv
<1>4. CASE WriteStep \/ StepReturns
  BY <1>4, WriteStepInv, StepReturnsInv
<1>5. CASE run = "calling" /\ Step(index) /\ UNCHANGED runVars
  BY <1>5, CallStepInv
<1>6. CASE UNCHANGED allVars
  <2>1. /\ UNCHANGED <<vars, options, manifest, request, run, index, preflight,
                       outcome>>
        /\ UNCHANGED <<pc, req, answer>>
    BY <1>6 DEF allVars, runVars, vars, callVars
  <2>2. UNCHANGED <<Acceptable, steps, step>> /\ TargetOf(step)' = TargetOf(step)
    BY <2>1, GatesStay DEF step
  <2>3. RunTypeOK' /\ Gate' /\ Ready'
    BY <2>1, <2>2 DEF RunInv, RunTypeOK, TypeOK, Gate, Ready, vars, callVars
  <2>4. Calling'
    BY <2>1, <2>2, GatesStay
    DEF RunInv, Calling, IsWrite, MayCall, PreflightTargets, PreflightAllows,
        ActorOf
  <2>5. \A i \in Ops : Slot(i)'
    BY <2>1 DEF RunInv, Slot, Complete
  <2> QED
    BY <2>1, <2>3, <2>4, <2>5, CallsNothing
<1> QED
  BY <1>1, <1>2, <1>3, <1>4, <1>5, <1>6 DEF RunNext

LEMMA RunInvariance == RunSpec => []RunInv
BY RunInitInv, RunNextInv, PTL DEF RunSpec

\* The run stays within its manifest and its limit of steps, and its calls
\* within the types of DocumentWrites.
THEOREM RunTypeCorrect == RunSpec => []RunTypeOK
<1>1. RunInv => RunTypeOK
  BY DEF RunInv
<1> QED
  BY <1>1, RunInvariance, PTL

\* What a run does to documents is what calls from an agent could do: it is
\* a behaviour of DocumentWrites, and whatever holds of one holds of it.
THEOREM RunsAreCalls == RunSpec => Spec
<1>1. RunInit => Init
  BY DEF RunInit
<1>2. ASSUME RunInv, [RunNext]_allVars PROVE [Next]_vars
  <2>1. CASE WriteStep
    <3>1. index \in Ops /\ \E r \in Requests : Call(index, r)
      BY <1>2, <2>1, IndexType DEF WriteStep
    <3> QED
      BY <3>1 DEF Next
  <2>2. CASE run = "calling" /\ Step(index)
    BY <1>2, <2>2 DEF RunInv, Calling, Next
  <2>3. CASE UNCHANGED vars
    BY <2>3
  <2> QED
    BY <1>2, <2>1, <2>2, <2>3
    DEF RunNext, Start, Denied, StepFails, ReadStep, CheckPermission,
        StepReturns, Succeed, allVars
<1> QED
  BY <1>1, <1>2, RunInvariance, PTL DEF RunSpec, Spec

\* No order of steps, no mixture of switches and no number of calls lets a
\* skill change anything unless all of the request, the manifest and the
\* configuration allow it.
THEOREM RealMutationsAreGated == RunSpec => []RealMutationGated
<1>1. ASSUME RunInv PROVE RealMutationGated
  <2> SUFFICES ASSUME NEW m \in mutations
               PROVE  /\ request.dryRun = "no"
                      /\ ~options.readOnly /\ options.write
                      /\ options.realWrites /\ manifest.write
                      /\ ResolvesOperation(steps[m.op])
    BY DEF RealMutationGated
  <2>1. /\ Acceptable /\ ~Dry
        /\ m.op \in DOMAIN steps /\ IsWrite(steps[m.op])
    BY <1>1 DEF RunInv, Mutated
  <2>2. ~ReadOnly
    BY <2>1 DEF ReadOnly
  <2> QED
    BY <2>1, <2>2 DEF Acceptable, ManifestAllowed, Dry
<1> QED
  BY <1>1, RunInvariance, PTL

\* No step is called past one that failed or was denied.
THEOREM FailuresStopTheRun == RunSpec => []FailureStopsRun
<1>1. ASSUME RunInv PROVE FailureStopsRun
  <2> SUFFICES ASSUME NEW i \in Ops, NEW j \in Ops, i < j,
                      req[i] # NoRequest, req[j] # NoRequest
               PROVE  answer[i] \in {"ok", "dry run"}
    BY DEF FailureStopsRun
  <2>1. i \in Nat /\ j \in Nat /\ index \in Nat
    BY <1>1, OpsAreNumbers, StepAssumption DEF RunInv, RunTypeOK
  <2>2. ~(j > index)
    BY <1>1 DEF RunInv, Slot
  <2>3. i < index
    BY <2>1, <2>2
  <2> QED
    BY <1>1, <2>3 DEF RunInv, Slot, Complete
<1> QED
  BY <1>1, RunInvariance, PTL

\* The preflight that lets a write through is the latest one, of the same
\* actor and the same token, and it granted what the write needs.
THEOREM PreflightsPrecede == RunSpec => PreflightPrecedes
<1> DEFINE Covered(m) ==
              /\ preflight.token = TargetOf(steps[m.op])
              /\ preflight.credential # "blank"
              /\ req[m.op].actor = IF preflight.credential = Unset
                                   THEN Tenant ELSE preflight.credential
              /\ Needed(m.op) \in preflight.allows
           New == \A m \in mutations' \ mutations : Covered(m)
<1>1. ASSUME RunInv, [RunNext]_allVars PROVE [New]_mutations
  <2>1. ASSUME run = "calling", Step(index), NEW m \in mutations' \ mutations
        PROVE  Covered(m)
    <3>1. index \in Ops /\ m.op = index /\ pc[index] = "post"
      BY <1>1, <2>1, StepMutates DEF RunInv, Calling
    <3>2. ~Dry
      BY <1>1, <2>1, <3>1, MutatingRunIsReal
    <3>3. /\ PreflightTargets(step) /\ PreflightAllows(step)
          /\ req[index].tool = step.tool
          /\ req[index].actor = ActorOf(step)
      BY <1>1, <2>1, <3>2 DEF RunInv, Calling, MayCall
    <3> QED
      BY <3>1, <3>3 DEF PreflightTargets, PreflightAllows, ActorOf, Needed, step
  <2>2. CASE WriteStep
    BY <2>2 DEF WriteStep, Call
  <2>3. CASE UNCHANGED vars
    BY <2>3 DEF vars
  <2> QED
    BY <1>1, <2>1, <2>2, <2>3
    DEF RunNext, Start, Denied, StepFails, ReadStep, CheckPermission,
        StepReturns, Succeed, allVars
<1> QED
  BY <1>1, RunInvariance, PTL DEF RunSpec, PreflightPrecedes
=============================================================================
