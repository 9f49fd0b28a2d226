CONSTANTS
    Span <- SpanDef
    Reader = {r1, r2}
    Dependencies = links
    MaxTraces = 2
    MaxWrites = 4
    MaxCopies = 1
    MaxQueries = 2
SPECIFICATION Spec
INVARIANTS RingKeepsNewest
PROPERTIES AnswersSettle SkewFits
SYMMETRY ReaderSymmetry
CHECK_DEADLOCK FALSE
