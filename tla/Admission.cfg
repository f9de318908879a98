\* The webhook's server restarts, its CA is rotated or workloads are edited,
\* a call of the controller fails or the extension is disabled.
CONSTANTS
    Nil = Nil
    Names = {"init-nvme-tcp", "modules-dir", "plugin-dir", "main"}
    FaultKinds = {"failed", "toggle"}
    MaxFaults = 1
    MaxMishaps = 2
SPECIFICATION AFairSpec
INVARIANTS
    NeverRefused
    WritesSettle
PROPERTIES
    WorkloadsGetReady
CHECK_DEADLOCK FALSE
