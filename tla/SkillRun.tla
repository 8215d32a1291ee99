------------------------------ MODULE SkillRun ------------------------------
(***************************************************************************)
(* internal/skills: one run of a skill (executor.go) whose manifest was    *)
(* loaded from the registry (manifest.go).  The executor validates the     *)
(* manifest and the request, resolves the arguments of every step, and     *)
(* then calls the tools in order (mcp/feishu_tools.go); a mutating tool    *)
(* call is the operation of DocumentWrites numbered like its step.         *)
(*                                                                         *)
(* Of an argument only what the executor or the gates look at is kept: the *)
(* document or folder token ("input", "folderToken"), credentialId and     *)
(* operationId; argument names are the schema's.                           *)
(***************************************************************************)
EXTENDS DocumentWrites, Naturals, Sequences

CONSTANTS
    Manifests,      \* skills in the registry
    MaxSteps,       \* MaxReadOnlySkillSteps, 50
    Tenant,         \* actor of requests without a credential
    FromInput,      \* an argument "${name}"
    Unset           \* an argument that is not there

ReadTools == {"read", "check_permission"}

Credentials == (Actors \ {Tenant}) \cup {"blank", Unset}

\* Steps and manifests as far as the executor looks at them; broken is an
\* argument with an interpolation it does not support.
Steps == [tool : Tools \cup ReadTools \cup {"other"},
          target : Tokens \cup Links \cup {FromInput, NoToken},
          credential : Credentials,
          operationId : {Unset, "blank", "literal", FromInput},
          broken : BOOLEAN]

IsWrite(s) == s.tool \in Tools

\* The steps of a run are numbered by its operations.
ASSUME StepAssumption == MaxSteps \in Nat /\ Ops = 1..MaxSteps

ASSUME ManifestAssumption ==
    \A m \in Manifests : m.steps \in Seq(Steps)

\* Manifest.Validate, which the registry requires of what it loads.
Validate(m) ==
    /\ m.writeCapability => m.write
    /\ \A i \in DOMAIN m.steps :
          /\ m.steps[i].tool \in Tools \cup ReadTools
          /\ IsWrite(m.steps[i]) => m.write

VARIABLES
    options,        \* readOnly, EnableWrite, EnableRealWrites and the
                    \* server's AllowCredentialSelection
    manifest,       \* the skill that runs
    request,        \* RunRequest: dryRun and the inputs
    run,            \* where the run is
    index,          \* the step it is at
    preflight,      \* permissionPreflight
    outcome         \* how the run ended

runVars == <<options, manifest, request, run, index, preflight, outcome>>
allVars == <<vars, runVars>>

NoPreflight == [token |-> NoToken, credential |-> Unset, allows |-> {}]

RunInit ==
    /\ Init
    /\ options \in [readOnly : BOOLEAN, write : BOOLEAN, realWrites : BOOLEAN,
                    selectCredential : BOOLEAN]
    /\ options.readOnly => ~options.write /\ ~options.realWrites
    /\ manifest \in {m \in Manifests : Validate(m)}
    /\ request \in [dryRun : {"unset", "yes", "no"},
                    target : Tokens \cup Links \cup {NoToken},
                    operationId : {Unset, "blank", "given"}]
    /\ run = "start"
    /\ index = 1
    /\ preflight = NoPreflight
    /\ outcome = "none"

\* effectiveDryRun: a dry run unless the request says otherwise.
Dry == request.dryRun # "no"

steps == manifest.steps

\* validateReadOnlyManifest
ReadOnly == /\ ~manifest.write
            /\ ~manifest.writeCapability
            /\ \A i \in DOMAIN steps : ~IsWrite(steps[i])

\* hasOperationID, on the argument as written and as resolved.
NamesOperation(s) == s.operationId \notin {Unset, "blank"}

ResolvesOperation(s) ==
    \/ s.operationId = "literal"
    \/ s.operationId = FromInput /\ request.operationId = "given"

\* Mutant: one switch enables skills that write and their real writes.
ManifestAllowedBySkillSwitch ==
    IF options.readOnly \/ ~options.write \/ ~manifest.write THEN ReadOnly
    ELSE /\ manifest.writeCapability
         /\ \A i \in DOMAIN steps : IsWrite(steps[i]) /\ ~Dry =>
               /\ NamesOperation(steps[i])
               /\ \E j \in 1..(i - 1) : steps[j].tool = "check_permission"

\* validateManifestForRun
ManifestAllowed ==
    IF options.readOnly \/ ~options.write \/ ~manifest.write THEN ReadOnly
    ELSE /\ manifest.writeCapability
         /\ \A i \in DOMAIN steps : IsWrite(steps[i]) /\ ~Dry =>
               /\ options.realWrites
               /\ NamesOperation(steps[i])
               /\ \E j \in 1..(i - 1) : steps[j].tool = "check_permission"

\* interpolateArgs; a missing operationId input counts as an empty string.
Interpolates(s) ==
    ~s.broken /\ (s.target = FromInput => request.target # NoToken)

TargetOf(s) == IF s.target = FromInput THEN request.target ELSE s.target

\* Mutant: a run of any length.
AcceptableAtAnyLength ==
    /\ ManifestAllowed
    /\ \A i \in DOMAIN steps : Interpolates(steps[i])
    /\ ~Dry => \A i \in DOMAIN steps :
                  IsWrite(steps[i]) => ResolvesOperation(steps[i])

Acceptable ==
    /\ ManifestAllowed
    /\ Len(steps) <= MaxSteps
    /\ \A i \in DOMAIN steps : Interpolates(steps[i])
    \* validateResolvedRealWriteSteps
    /\ ~Dry => \A i \in DOMAIN steps :
                  IsWrite(steps[i]) => ResolvesOperation(steps[i])

End(o) == run' = "over" /\ outcome' = o

\* Run validates everything before the first call.
Start ==
    /\ run = "start"
    /\ IF Acceptable THEN run' = "running" /\ UNCHANGED outcome
                     ELSE End("rejected")
    /\ UNCHANGED <<vars, options, manifest, request, index, preflight>>

step == steps[index]

AtStep == run = "running" /\ index <= Len(steps)

\* Mutant: a preflight made with another credential counts.
PreflightTargetsByToken(s) ==
    /\ TargetOf(s) # NoToken
    /\ preflight.token = TargetOf(s)

\* permissionTargetsWrite: same token, and the same credential or none.
PreflightTargets(s) ==
    /\ TargetOf(s) # NoToken
    /\ preflight.token = TargetOf(s)
    /\ preflight.credential = s.credential
    /\ s.credential # "blank"

\* permissionAllowsTool
PreflightAllows(s) ==
    (IF s.tool = "comment" THEN "comment" ELSE "write") \in preflight.allows

MayCall(s) ==
    IsWrite(s) /\ ~Dry => PreflightTargets(s) /\ PreflightAllows(s)

Denied ==
    /\ AtStep
    /\ ~MayCall(step)
    /\ End("denied")
    /\ UNCHANGED <<vars, options, manifest, request, index, preflight>>

\* validateCredentialID: the HTTP server lets no caller choose a credential.
Selectable(s) == s.credential \in {Unset, "blank"} \/ options.selectCredential

ActorOf(s) == IF s.credential \in {Unset, "blank"} THEN Tenant
                                                   ELSE s.credential

\* Arguments the tool does not take, or its call fails.
StepFails ==
    /\ AtStep
    /\ MayCall(step)
    /\ End("failed")
    /\ UNCHANGED <<vars, options, manifest, request, index, preflight>>

ReadStep ==
    /\ AtStep
    /\ step.tool = "read"
    /\ Selectable(step)
    /\ index' = index + 1
    /\ UNCHANGED <<vars, options, manifest, request, run, preflight, outcome>>

\* The result of a permission check replaces that of the previous one.
CheckPermission ==
    /\ AtStep
    /\ step.tool = "check_permission"
    /\ Selectable(step)
    /\ TargetOf(step) # NoToken
    /\ \E a \in Answers :
         preflight' = [token |-> TargetOf(step),
                       credential |-> step.credential,
                       allows |-> {c \in Capabilities : Allows(a, c)}]
    /\ index' = index + 1
    /\ UNCHANGED <<vars, options, manifest, request, run, outcome>>

\* The step's tool is called with args["dryRun"] set by the executor.
WriteStep ==
    /\ AtStep
    /\ IsWrite(step)
    /\ MayCall(step)
    /\ Selectable(step)
    /\ \E r \in Requests :
         /\ r.tool = step.tool
         /\ r.target = TargetOf(step)
         /\ r.actor = ActorOf(step)
         /\ r.dryRun = IF Dry THEN "yes" ELSE "no"
         /\ Call(index, r)
    /\ run' = "calling"
    /\ UNCHANGED <<options, manifest, request, index, preflight, outcome>>

\* Mutant: the next step is run whatever this one returned.
StepReturnsRegardless ==
    /\ run = "calling"
    /\ pc[index] = "done"
    /\ run' = "running"
    /\ index' = index + 1
    /\ UNCHANGED <<vars, options, manifest, request, preflight, outcome>>

\* The tool returned: an error ends the run and its results are dropped.
StepReturns ==
    /\ run = "calling"
    /\ pc[index] = "done"
    /\ IF answer[index] = "error"
       THEN End("failed") /\ UNCHANGED index
       ELSE run' = "running" /\ index' = index + 1 /\ UNCHANGED outcome
    /\ UNCHANGED <<vars, options, manifest, request, preflight>>

Succeed ==
    /\ run = "running"
    /\ index > Len(steps)
    /\ End("ok")
    /\ UNCHANGED <<vars, options, manifest, request, index, preflight>>

RunNext ==
    \/ Start \/ Denied \/ StepFails \/ ReadStep \/ CheckPermission
    \/ WriteStep \/ StepReturns \/ Succeed
    \/ run = "calling" /\ Step(index) /\ UNCHANGED runVars

RunSpec == RunInit /\ [][RunNext]_allVars

-----------------------------------------------------------------------------
\* The run's own state and that of the operations under it.
RunTypeOK ==
    /\ TypeOK
    /\ manifest \in Manifests
    /\ run \in {"start", "running", "calling", "over"}
    /\ index \in 1..(MaxSteps + 1)
    /\ preflight \in [token : Tokens \cup Links \cup {NoToken},
                      credential : Credentials, allows : SUBSET Capabilities]
    /\ outcome \in {"none", "rejected", "denied", "failed", "ok"}

\* README.md:60: a skill changes something only with dryRun:false, an
\* operationId, and writing enabled in the server's configuration, whatever
\* the order of its steps and the server's default for dry runs.
RealMutationGated ==
    mutations # {} =>
        /\ request.dryRun = "no"
        /\ ~options.readOnly /\ options.write /\ options.realWrites
        /\ manifest.write
        /\ \A m \in mutations : ResolvesOperation(steps[m.op])

\* docs/plans/2026-06-09-agent-skill-development-breakdown.md:277-278: the
\* last permission check before a mutation was for the token and the actor
\* of the mutation and granted what it needs; one that denied stops the
\* later writes.
PreflightPrecedes ==
    [][\A m \in mutations' \ mutations :
          /\ preflight.token = TargetOf(steps[m.op])
          /\ preflight.credential # "blank"
          /\ req[m.op].actor = IF preflight.credential = Unset
                               THEN Tenant ELSE preflight.credential
          /\ Needed(m.op) \in preflight.allows]_mutations

\* A mutating step is called only when every mutating step before it was
\* completed: a failure or a denial is never skipped (lines 136-152).
FailureStopsRun ==
    \A i, j \in Ops :
        i < j /\ req[i] # NoRequest /\ req[j] # NoRequest =>
            answer[i] \in {"ok", "dry run"}

\* skills/create-draft-doc.yaml:17, "target folder token used for permission
\* preflight and document creation": the resource a mutation changes is the
\* one the preflight asked about.  The check_permission tool asks about the
\* document of that token.
PreflightOfMutatedResource ==
    [][\A m \in mutations' \ mutations :
          phase[m.op] = "own" => m.on = Docx(preflight.token)]_mutations
=============================================================================
