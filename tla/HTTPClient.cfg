SPECIFICATION FairSpec
CONSTANTS
    NoToken = NoToken
    StaticToken = StaticToken
    Calls = {c1, c2}
    MaxRetries = 1
    Lifetimes = {2}
    DefaultTTL = 2
    Margin = 1
    Lag = 1
    MaxTime = 2
    MaxTokens = 2
INVARIANTS ServedTokenIsLive EffectsAccounted
PROPERTIES EveryCallEnds CallsAdvance
