SPECIFICATION LiveSpec
CONSTANTS
    N = 2
    TakesLogs = {2}
    Records = {r1, r2}
    Lines = {l1}
    QueueSize = 1
    Hung = {1}
    BatchSize = 2
INVARIANTS
    BoundedInOrder
    Accounted
    DrainComplete
PROPERTIES
    OthersUnhindered
CHECK_DEADLOCK FALSE
