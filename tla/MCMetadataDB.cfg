\* Two seeders, of which one may start again, next to two threads of the API and the MCP
\* server: a seeder over a file that is read, over one that another is writing or has just
\* finished, and over what a check created.
\* The tools are those with more than one query; table_detail asks what dq_check does, which
\* also writes.
SPECIFICATION Spec
CONSTANTS
    Seeders = {s1, s2}
    ApiThreads = {loop, pool}
    Others = {mcp}
    Tools = {"slo_report", "schema_drift", "dq_check"}
    MaxFiles = 2
    MaxStarts = 2
SYMMETRY Symmetry
CHECK_DEADLOCK FALSE
INVARIANTS
    ReadsWhole
    DoneMeansComplete
    DriftHasCatalogue
