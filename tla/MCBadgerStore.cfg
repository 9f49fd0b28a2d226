CONSTANTS
    Span <- SpanDef
    Query <- QueryDef
    Writer = {w1, w2}
    Nothing = "none"
    TTL = 1
    MaxTime = 2
    MaxWrites = 3
    MaxFaults = 1
    MaxRestarts = 1
SPECIFICATION Spec
INVARIANTS LiveNamesListed  
SYMMETRY WriterSymmetry
CHECK_DEADLOCK FALSE
