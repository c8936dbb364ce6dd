CONSTANTS
    Docs <- MCDocs
    EditDocs <- MCEditDocs
    Clients = {c1}
    MaxEdits = 2
    MaxSignals = 2
    DefaultQueue = 4096
    DefaultMaxRows = 100000
    DefaultBuckets <- MCBuckets
    MaxAnalysisRows = 500000
    RegisteredStores = {"memory"}
    RegisteredExporters = {"plugin"}
SPECIFICATION AgentSpec
INVARIANTS EngineMatchesLive ChangesNamed AcceptedDocumentStarts
PROPERTY HupTakesEffect
