\* Two sessions and four requests in all: enough for an approval of each session with
\* a lost answer and a repeated click, and for two open calls at once.
SPECIFICATION Spec
CONSTANTS
    Sessions = {s1, s2}
    MaxRequests = 4
CHECK_DEADLOCK FALSE
INVARIANTS
    TypeOK
    GateShowsOpenCall
    RepeatsNeedLostAnswers
    ToldTheTruth
PROPERTIES
    ApprovalKept
    RequestServed
    ImplementsHumanGate
