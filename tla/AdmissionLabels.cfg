\* Nothing goes wrong, and the operator's CRDs have no labels of their own.
CONSTANTS
    Nil = Nil
    Names = {"init-nvme-tcp", "modules-dir", "plugin-dir", "main"}
    FaultKinds = {}
    MaxFaults = 0
    MaxMishaps = 1
SPECIFICATION ASpec
PROPERTIES
    LabelsAreAdded
CHECK_DEADLOCK FALSE
