SPECIFICATION ProcessSpec
CONSTANTS
    Order <- MCOrder
    GVKs = {"deployments", "services"}
    Clusters <- MCClusters
    MaxChanges = 2
    MaxEndings = 1
INVARIANTS ProcessTypeOK ChangeNoticed
PROPERTIES  AgentRecovers
CHECK_DEADLOCK FALSE
