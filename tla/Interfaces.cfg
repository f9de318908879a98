\* Two shoots that ask for different addresses, good and bad, and edit them.
CONSTANTS
    Shoots = {s1, s2}
    Nodes <- TwoNodes
    Addresses <- AllAddresses
    Foreign = {"x"}
    Requests <- Quarrel
    MaxData = 3
    None = None
    FaultKinds = {"lostReply", "failed", "edit", "lifLost"}
    MaxFaults = 1
SPECIFICATION FairSpec
INVARIANTS
    TypeOK
    LifsAreSpread
    AddressesAreValid
PROPERTIES
    ServedOrRefused
\* Shoots whose configurations are invalid wait for their owners.
CHECK_DEADLOCK FALSE
