SPECIFICATION Spec
CONSTANTS
    Kinds <- PlainLoops
    Policies = {"p1"}
    ConfigMaps = {}
    Secrets = {}
INVARIANTS WaitGroupCounts VersionAfterFirstPass
PROPERTIES QueuesKeepPromise
