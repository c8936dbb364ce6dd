SPECIFICATION Spec
CONSTANTS
    Kinds <- AllKinds
    BatchSize = 2
    MaxBytes = 4
    PipeSize = 1
    MaxItems = 4
    MaxPosted = 3
    MaxFlight = 2
    MaxChildren = 2
INVARIANTS
    ReceiverConfirms
    RotationWindow
    PluginStream
PROPERTIES
    ClosedChildGone
CHECK_DEADLOCK FALSE
