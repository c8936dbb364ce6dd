SPECIFICATION Spec
CONSTANTS
    c1 = c1
    c2 = c2
    Clients = {c1, c2}
    Setups <- MCSetups
    Asks <- MCAsks
    Page = 1
    AnalysisRows = 2
    MaxRecords = 3
    MaxLines = 2
    MaxQueued = 2
    SpanPolicy <- Policy
    DefaultMaxPer = 2
    MaxTracked = 2
INVARIANTS
    AuditAccounts
    GrantedOnly
    PagedReadsCover
    SpansAccounted
