\* Two files that are there from the start and get new contents between the runs only, and
\* two runs without --force-reindex.
SPECIFICATION SparseSpec
CONSTANTS
    Files = {f1, f2}
    MaxVersion = 2
    ChunkCount <- MCChunkCount
    MayFail = FALSE
    Forces = {FALSE}
    MaxRuns = 2
CHECK_DEADLOCK FALSE
INVARIANTS
    SparseCoversFiles
