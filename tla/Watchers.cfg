SPECIFICATION Spec
CONSTANTS
    Policies = {"p1"}
    Reloaders = {"r1"}
    CustomGVKs <- OneCRD
    WorkloadKinds = {"Deployment"}
    NatsContents = {"v1", "v2"}
    MaxEdits = 1
    MaxFailures = 1
INVARIANTS TypeOK NoForgottenGVK
PROPERTIES SelectedGVKWatched OutdatedConfigurationNoticed
