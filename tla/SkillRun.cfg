SPECIFICATION RunSpec
CONSTANTS
    d1 = d1
    d2 = d2
    u1 = u1
    Ops = {1, 2, 3}
    Tokens = {d1, d2}
    Links = {l1}
    l1 = l1
    NoToken = NoToken
    Answers <- PlatformAnswers
    Actors = {u1, Tenant}
    Tenant = Tenant
    NewDocument <- Created
    Manifests <- Registry
    MaxSteps = 3
    FromInput = FromInput
    Unset = Unset
CHECK_DEADLOCK FALSE
INVARIANTS RunTypeOK RealMutationGated FailureStopsRun
PROPERTY PreflightPrecedes
