SPECIFICATION Spec
CONSTANTS
    Reloaders = {"r1"}
    Workloads = {"w1", "w2", "w3"}
    Volumes = {"v1"}
    MaxInfo = 3
    MaxEdits = 0
INVARIANTS NoPanic
