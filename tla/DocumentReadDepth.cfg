SPECIFICATION Spec
CONSTANTS
    Root = 0
    Blocks <- FiveBlocks
    Nameless = {5}
    Trees <- AllTrees
    PageSize = 2
    DocMaxBlocks = 5
    DocMaxDepth = 3
    AskedBlocks = {0, 1, 3, 6}
    AskedDepths <- Depths
INVARIANT DepthLimitIsReported
