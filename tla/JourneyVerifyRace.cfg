\* One sleepa and one cancel.
CONSTANTS
    MaxOps = 1
    MaxCancel = 1
    NChild = 2
    Kinds <- MCSleepKinds
SPECIFICATION Spec
INVARIANTS
    HandleEventsSafe
\* The journey's handler returns and the system stops.
CHECK_DEADLOCK FALSE
