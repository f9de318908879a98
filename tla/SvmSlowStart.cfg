\* One shoot, no disturbance at all; the SVM may take its time.
CONSTANTS
    NumClients = 2
    Partner <- Pair
    None = None
    Shoots = {s1}
    NumLifs = 2
    MaxAttempts = 2
    FaultKinds = {}
    MaxFaults = 0
SPECIFICATION Spec
PROPERTIES
    CreatedOnlyIfAbsent
