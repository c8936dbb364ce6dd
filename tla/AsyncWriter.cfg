SPECIFICATION LiveSpec
CONSTANTS
    Records = {r1, r2, r3}
    QueueSize = 2
    MaxRows = 1
    Horizons = {"logs"}
INVARIANTS
    InOrder
    DropsCounted
    DrainedBeforeClose
PROPERTIES
    WorkerDuties
CHECK_DEADLOCK FALSE
