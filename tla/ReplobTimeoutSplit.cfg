\* The availability timer may fire: a node that has heard a consistent
\* subset re-votes over that subset and commits without the others.
CONSTANTS
    Node <- MCNode
    MaxStep <- MCMaxStep
    Client <- MCClient
    MaxApply <- MCMaxApply
    TimeoutEnabled = TRUE
    LossEnabled = FALSE
INIT Init
NEXT Next
INVARIANT LogsPrefixConsistent
CHECK_DEADLOCK FALSE
