\* One session, three requests: the chat, an Allow whose answer is lost, and a Deny.
SPECIFICATION Spec
CONSTANTS
    Sessions = {s1}
    MaxRequests = 3
CHECK_DEADLOCK FALSE
INVARIANTS
    DeniedMeansUnchanged
