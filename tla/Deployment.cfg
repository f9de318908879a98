\* An extension enabled and disabled, calls that fail, a firewall that comes
\* and goes.
CONSTANTS
    FaultKinds = {"failed", "toggle", "firewall"}
    MaxFaults = 4
SPECIFICATION FairSpec
INVARIANTS
    TypeOK
    InitFindsItsCrds
    WithdrawnInOrder
PROPERTIES
    ImplementsContract
    DeploymentCompletes
    DeletionCompletes
CHECK_DEADLOCK FALSE
