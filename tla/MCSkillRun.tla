----------------------------- MODULE MCSkillRun -----------------------------
(***************************************************************************)
(* Every manifest of one or two of the steps below, perhaps with an append *)
(* to the input document after them, the built-in create-draft-doc, and    *)
(* one that is too long, run with every request and configuration.         *)
(***************************************************************************)
EXTENDS SkillRun, TLC

CONSTANTS d1, d2, l1, u1

Created(o) == <<"new", o>>

Like(tool, target) ==
    [tool |-> tool, target |-> target, credential |-> Unset,
     operationId |-> Unset, broken |-> FALSE]

Write(tool, target, credential, operationId) ==
    [Like(tool, target) EXCEPT !.credential = credential,
                               !.operationId = operationId]

SmallSteps ==
    {Like("check_permission", d1), Like("check_permission", FromInput),
     Write("check_permission", d1, u1, Unset),
     Write("check_permission", d1, "blank", Unset),
     Write("append", FromInput, Unset, FromInput),
     Write("append", d1, u1, "literal"),
     Write("comment", d1, Unset, "literal"),
     Write("comment", d1, "blank", "literal"),
     Write("append", d1, Unset, "blank"),
     Like("read", d1), [Like("read", d1) EXCEPT !.broken = TRUE]}

OneStep  == {<<s>> : s \in SmallSteps}
TwoSteps == {<<s, t>> : s, t \in SmallSteps}

SmallManifests ==
    [write : BOOLEAN, writeCapability : BOOLEAN,
     steps : OneStep \cup TwoSteps
               \cup {<<s, t, Write("append", FromInput, Unset, FromInput)>> :
                        s, t \in SmallSteps}]

CreateDraftDoc ==
    {[write |-> TRUE, writeCapability |-> TRUE,
      steps |-> <<Like("check_permission", FromInput),
                  Write("create", FromInput, Unset, FromInput)>>]}

\* One step more than MaxSteps.
TooLong ==
    {[write |-> FALSE, writeCapability |-> FALSE,
      steps |-> [i \in 1..4 |-> Like("read", d1)]]}

Empty == [key \in {} |-> "no"]

Silent == [permission |-> Empty, public |-> Empty, data |-> Empty,
           raw |-> Empty]

\* None of the capabilities, both, one or the other.
PlatformAnswers ==
    {Silent,
     [Silent EXCEPT !.data = "can_edit" :> "yes" @@ "can_comment" :> "yes"],
     [Silent EXCEPT !.data = "can_edit" :> "yes"],
     [Silent EXCEPT !.public = "comment_entity" :> "tenant_editable"]}

Registry == SmallManifests \cup CreateDraftDoc \cup TooLong
=============================================================================
