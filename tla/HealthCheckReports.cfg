CONSTANTS
  NoSpec = NoSpec
  Specs = {healthy, degraded}
  InitialHealth = {healthy}
  Writers <- MCWriters
  Modes = {TRUE, FALSE}
  MaxChanges = 1
  MaxCreations = 2
  MaxFaults = 1
SPECIFICATION Spec
INVARIANTS TypeOK NoSilentUpdate
PROPERTIES HealthDelivered OrphanCleaned DeletionCompletes
CHECK_DEADLOCK FALSE
