\* Eviction by the Detector, with Chronos running one handler.
CONSTANTS
    Node <- MCNode
    Handler <- MCHandler
    Delay <- MCDelay
    MaxTime = 2
    MaxLog = 3
    Suspect <- MCSuspect
SPECIFICATION Spec
INVARIANTS
    TypeOK
    EvictedNodeDisconnected
    MembershipAgrees
PROPERTIES
    EvictionCompletes
\* Once the log is full and every journey has run, nothing is left to do.
CHECK_DEADLOCK FALSE
