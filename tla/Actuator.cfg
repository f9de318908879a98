\* Two shoots of a project on two clusters; the process stops, clusters go.
CONSTANTS
    Shoots = {s1, s2}
    NumClusters = 2
    None = None
    FaultKinds = {"stop", "failed", "outage", "toggle", "spoil", "letGo"}
    MaxFaults = 3
SPECIFICATION FairSpec
INVARIANTS
    TypeOK
    NeverDoublesASteadySvm
    SuccessIsComplete
    GoneIsClean
PROPERTIES
    ImplementsContract
    Settles
\* With nothing wanted and nothing left to go wrong there is nothing to do.
CHECK_DEADLOCK FALSE
