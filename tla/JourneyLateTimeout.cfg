\* A replobApplySync whose Timeout expires as its scope ends, then a sleepa.
CONSTANTS
    MaxOps = 2
    MaxCancel = 0
    NChild = 2
    Kinds <- MCTimeoutKinds
SPECIFICATION Spec
INVARIANTS
    TimeoutBelongsToScope
\* The journey's handler returns and the system stops.
CHECK_DEADLOCK FALSE
