\* Two clients race in step 0; timers fire whenever a voted step is open.
CONSTANTS
    Node <- MCNode
    Client <- MCClient
    MaxStep = 0
    MaxApply = 1
SPECIFICATION Spec
INVARIANTS
    LegacyLogsAgree
