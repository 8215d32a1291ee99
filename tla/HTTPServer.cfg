SPECIFICATION FairSpec
CONSTANTS
    Connections = {c1}
    MaxBatch = 3
    Singles <- SomeSingles
    Batches <- SomeBatches
INVARIANTS TypeOK AnswersComplete NothingSentAfterEnd
PROPERTIES ServesRequests EveryPostEnds
CHECK_DEADLOCK FALSE
