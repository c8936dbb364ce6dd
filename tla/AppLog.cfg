\* Both ways in, and the shutdown at any moment.
SPECIFICATION LiveSpec
CONSTANTS
    Global <- MCGlobal
    Rules <- MCRules
    MaxTracked = 1
    Scripts <- MCScripts
    Sources = {"child"}
    MaxQueue = 2
    MaxBatch = 1
    QueueCap = 1
INVARIANTS
    SinkHonest LinesBalance GovernedAndCapped
PROPERTIES ShutdownDrains
CHECK_DEADLOCK FALSE
