SPECIFICATION Spec
CONSTANTS
    Drivers = {"sqlite", "postgres", "clickhouse"}
    Tenants = {"acme", "ACME", "umbra"}
    Fold <- CaseTwins
    Traces = {"t1", "none"}
    NoTrace = "none"
    MaxRows = 1
    IdSeq = 4
    RecordAge = 1
    LineAge = 1
    Origins <- MCOrigins
    MaxRecords = 2
    MaxLines = 1
    MaxPurges = 1
    MaxTime = 2
CHECK_DEADLOCK FALSE
INVARIANT PurgeLiteral
