SPECIFICATION Spec
CONSTANTS
    Kinds <- ReloaderLoop
    Policies = {"r1"}
    ConfigMaps = {"ns/c1"}
    Secrets = {"ns/s1"}
INVARIANTS TypeOK BatchOwned
PROPERTIES RequestServed FirstPassCompletes LoopsExit
