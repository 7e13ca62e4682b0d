SPECIFICATION Spec
CONSTANTS
    Reloaders = {"r1", "r2"}
    Workloads = {"w1", "w2"}
    Volumes = {"v1"}
    MaxInfo = 2
    MaxEdits = 2
INVARIANTS TypeOK VolumesBacked DeletedReloaderForgotten NothingLeft EvaluatedReloaderTracked WalkedSoFar
