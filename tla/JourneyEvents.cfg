\* Every wait but the socket read and the bare DetachableAwaiter, under cancels and timeouts.
CONSTANTS
    MaxOps = 3
    MaxCancel = 2
    NChild = 2
    Kinds <- MCEventKinds
SPECIFICATION Spec
INVARIANTS
    WaitEndsByOwnDoer
PROPERTIES
    JourneyTerminates
\* The journey's handler returns and the system stops.
CHECK_DEADLOCK FALSE
