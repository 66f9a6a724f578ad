\* Every catalogue over nine rows between four tables, every centre and depth.
SPECIFICATION Spec
CONSTANTS
    a = a
    b = b
    c = c
    d = d
    x = x
    y = y
    Tables = {a, b, c, d}
    Columns = {x, y}
    Candidates <- MCCandidates
    MaxDepth = 3
    Catalogued = {a, b, c}
    PII <- MCPII
    Kind <- MCKind
    Exposed = {b}
CHECK_DEADLOCK FALSE
INVARIANTS
    TablesWithinDepth
    EdgesOnce
