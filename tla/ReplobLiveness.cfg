\* Without the availability timer, over a network that delivers every
\* packet: the nodes execute one log, Replob implements the abstract
\* atomic log, and every apply() is eventually executed everywhere.
CONSTANTS
    Node <- MCLiveNode
    MaxStep <- MCLiveMaxStep
    Client <- MCLiveClient
    MaxApply <- MCLiveMaxApply
    TimeoutEnabled = FALSE
    LossEnabled = FALSE
SPECIFICATION Spec
INVARIANT TypeOK
INVARIANT LogsPrefixConsistent
PROPERTY EventuallyApplied
PROPERTY ImplementsAtomicLog
\* A replob with no further client requests is idle by design.
CHECK_DEADLOCK FALSE
