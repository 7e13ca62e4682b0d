SPECIFICATION ProcessSpec
CONSTANTS
    Order <- MCOrder
    GVKs = {"deployments", "services"}
    Clusters <- MCClusters
    MaxChanges = 0
    MaxEndings = 1
PROPERTY GenerationsStartAlive
CHECK_DEADLOCK FALSE
