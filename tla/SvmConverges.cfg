\* Two shoots of a project on two clusters, and one disturbance of any kind.
CONSTANTS
    NumClients = 2
    Partner <- Pair
    None = None
    Shoots = {s1, s2}
    NumLifs = 2
    MaxAttempts = 1
    FaultKinds = {"lostReply", "failed", "stop", "outage", "switchover", "lifLost"}
    MaxFaults = 1
SPECIFICATION FairSpec
PROPERTIES
    ImplementsService
    ProjectConverges
    ServedDespiteOutage
