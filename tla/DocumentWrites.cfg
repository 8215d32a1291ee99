SPECIFICATION Spec
CONSTANTS
    new = new
    Ops = {o1}
    Tokens = {d1, d2}
    Links = {l1}
    NoToken = NoToken
    Answers <- PlatformAnswers
    Actors = {a1, a2}
    NewDocument <- Created
INVARIANTS DryRunMutatesNothing OkMeansDone
PROPERTY MutationWasChecked
