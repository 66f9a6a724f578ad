\* Messages of no, one or two calls: of an ungated tool, with arguments that are an
\* object or raise, and of the gated tool.
SPECIFICATION Spec
CONSTANTS
    ToolCalls <- MCToolCalls
    MaxCalls = 2
    NoTool = NoTool
CHECK_DEADLOCK FALSE
INVARIANTS
    GateHolds
    ConversationComplete
    RequestsBounded
PROPERTIES
    Termination
    ImplementsAgentRun
