\* Spec 4.3 says the timer acts while a step is still being voted on: a
\* node must never give up over a step it has already committed.
CONSTANTS
    Node <- MCNode
    MaxStep <- MCMaxStep
    Client <- MCClient
    MaxApply <- MCMaxApply
    TimeoutEnabled = TRUE
    LossEnabled = FALSE
INIT Init
NEXT Next
INVARIANT NoFailOnCommittedStep
CHECK_DEADLOCK FALSE
