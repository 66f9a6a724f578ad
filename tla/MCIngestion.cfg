\* Two files with two versions each and three runs: a run after runs that crashed, were
\* forced or raced with an edit, and the loss of a chunk between the versions.
SPECIFICATION Spec
CONSTANTS
    Files = {f1, f2}
    MaxVersion = 2
    ChunkCount <- MCChunkCount
    MayFail = TRUE
    Forces = {TRUE, FALSE}
    MaxRuns = 3
SYMMETRY Symmetry
CHECK_DEADLOCK FALSE
INVARIANTS
    FreshAfterRun
    SavedMeansSent
    SparseResolves
