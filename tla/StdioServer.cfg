SPECIFICATION FairSpec
CONSTANTS
    Client = agent
    MaxLines = 3
INVARIANT AnsweredBeforeReadingOn
PROPERTIES ServesRequests EveryLineIsHandled EndsAfterSignal
PROPERTY LoopAdvances
CHECK_DEADLOCK FALSE
