\* One replobApplySync whose Timeout expires before the commit.
CONSTANTS
    MaxOps = 1
    MaxCancel = 0
    NChild = 2
    Kinds <- MCApplyKinds
SPECIFICATION Spec
INVARIANTS
    NoUseOfDeadFrame
\* The journey's handler returns and the system stops.
CHECK_DEADLOCK FALSE
