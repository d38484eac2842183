\* The timeout journey posted by timer_ runs Voting::timeout on its
\* captured this: the step must still be in the table when it runs.
CONSTANTS
    Node <- MCNode
    MaxStep <- MCMaxStep
    Client <- MCClient
    MaxApply <- MCMaxApply
    TimeoutEnabled = TRUE
    LossEnabled = FALSE
INIT Init
NEXT Next
INVARIANT TimeoutTargetsLiveStep
CHECK_DEADLOCK FALSE
