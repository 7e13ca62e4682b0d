CONSTANTS
  NoSpec = NoSpec
  NoVersion = NoVersion
  NoScript = NoScript
  Specs = {TRUE, FALSE}
  Writers <- MCWriters
  Selectors = {"pods", "nodes"}
  Deployed = {"pods"}
  ClassifierSpecs <- MCClassifierSpecs
  Versions <- MCVersions
  Modes = {TRUE, FALSE}
  MaxChanges = 1
  MaxCreations = 1
  MaxFaults = 1
SPECIFICATION Spec
INVARIANTS TypeOK OutdatedReportNoticed NoSilentUpdate GoneFromMaps
PROPERTIES MatchDelivered OrphanCleaned
CHECK_DEADLOCK FALSE
