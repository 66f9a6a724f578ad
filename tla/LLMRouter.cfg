\* The API with two threads that each call the model once, for the agent or the intent
\* classifier, and the ingestion, whose calls follow each other; with and without a
\* secondary key.
SPECIFICATION Spec
CONSTANTS
    Threads = {t1, t2}
    CallTypes = {"agent", "intent", "summary"}
    MaxCalls = 1
CHECK_DEADLOCK FALSE
INVARIANTS
    LimitedOnlyAfterAll
    StatsNeverOverReport
PROPERTIES
    CallsReturn
