\* Every pair of lists of up to three of four chunks, fused to three and re-ranked to
\* two, with scores below the limit, between the limits and above both.
SPECIFICATION Spec
CONSTANTS
    py = py
    yml = yml
    sql = sql
    md = md
    Chunks = {py, yml, sql, md}
    Flagged = {py, yml}
    Code = {py, sql}
    DocSize <- MCDocSize
    RawSize <- MCRawSize
    DocStripped <- MCDocStripped
    RawStripped <- MCRawStripped
    HeaderSize = 5
    Budget = 100
    TopK = 3
    TopFused = 3
    TopRerank = 2
    RRFk = 60
    Logits = {5, 30, 80}
CHECK_DEADLOCK FALSE
INVARIANTS
    FusionAgrees
    FlaggedIsRedacted
    BestSourcesUsed
