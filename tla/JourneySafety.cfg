\* Every kind of wait, three operations, two cancels.
CONSTANTS
    MaxOps = 3
    MaxCancel = 2
    NChild = 2
    Kinds <- MCAllKinds
SPECIFICATION Spec
INVARIANTS
    TypeOK
    ResumeTargetsParkedJourney
    NoLostWakeup
\* The journey's handler returns and the system stops.
CHECK_DEADLOCK FALSE
