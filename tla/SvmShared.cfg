\* Two shoots of a project race on two clusters that fail, switch over and lose LIFs.
CONSTANTS
    NumClients = 2
    Partner <- Pair
    None = None
    Shoots = {s1, s2}
    NumLifs = 2
    MaxAttempts = 2
    FaultKinds = {"lostReply", "failed", "outage", "switchover", "lifLost"}
    MaxFaults = 2
SPECIFICATION Spec
INVARIANTS
    TypeOK
    NeverDoublesASteadySvm
    ServedIsComplete
    IInv
SYMMETRY ShootSymmetry
