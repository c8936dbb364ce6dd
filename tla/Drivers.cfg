SPECIFICATION Spec
CONSTANTS
    Drivers = {"sqlite", "postgres", "clickhouse"}
    NoMap = NoMap
    Fold <- TheFold
    Upper <- TheUpper
    DefaultLimit = 2
    MaxLimit = 3
    Recs <- TheRecs
    SpanShapes <- TheSpans
    Times = {1, 2}
    idSeq = 4
    PurgeLabel = "tenant"
    Values = {"acme", "umbra"}
    MaxRows = 2
    MaxSaves = 3
    MaxRemovals = 2
    MaxRestarts = 1
    Filters <- TheFilters
    SpanFilters <- TheSpanFilters
    TraceFilters <- TheTraceFilters
    Buckets = {1, 2}
    Rules = {"r1", "r2"}
    Routes = {"", "/orders"}
CHECK_DEADLOCK FALSE
INVARIANTS
    IdsAscend
    
    QuantilesAgree
    ViewsReconcile
PROPERTIES
    ImplementsLogStore
