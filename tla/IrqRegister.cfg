SPECIFICATION Spec
CONSTANTS
    Vectors = {32, 118}
    Handlers = {h1, h2, h3}
    Priorities = {10, 20}
    Kinds = {"static", "dynamic"}
    MaxCalls = 3
INVARIANTS
    TypeOK
    InterruptsReturn
    FlagRestored
    DispatchSafe
    DynamicHandlersRun
    DecreasingPriority
