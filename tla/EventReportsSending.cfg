CONSTANTS
  NoSpec = NoSpec
  NoMatch = NoMatch
  Matches = {NoMatch, pods}
  Events = {e1}
  MatchingEvents = {e1}
  Subs = {"nats"}
  Specs <- MCSpecs
  Writers <- MCWriters
  Modes = {TRUE}
  MaxChanges = 1
  MaxCreations = 1
  MaxFaults = 0
SPECIFICATION Spec
PROPERTY MatchingDelivered
CHECK_DEADLOCK FALSE
