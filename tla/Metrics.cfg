\* Reloads that drop and restore a label while three exchanges are observed.
CONSTANTS
    k1 = k1  v1 = v1  v2 = v2  v3 = v3  o1 = o1  o2 = o2  o3 = o3
    Keys <- MCKeys
    Values <- MCValues
    Observers <- MCObservers
    FirstSchema <- MCFirst
    Schemas <- MCSchemas
    Cap = 1
    MaxGens = 3
SPECIFICATION Spec
SYMMETRY Perms
CHECK_DEADLOCK FALSE
INVARIANTS CountedOnce CapExact
