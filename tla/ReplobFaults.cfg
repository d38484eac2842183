\* The step table stays well formed when the availability timer fires,
\* timeout journeys run late and connections lose packets.
CONSTANTS
    Node <- MCNode
    MaxStep <- MCOneStep
    Client <- MCOneClient
    MaxApply <- MCMaxApply
    TimeoutEnabled = TRUE
    LossEnabled = TRUE
INIT Init
NEXT Next
INVARIANT PhantomTableWellFormed
\* Lost packets and failed nodes may leave every step open for good.
CHECK_DEADLOCK FALSE
