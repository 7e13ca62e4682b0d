CONSTANTS
  NoSpec = NoSpec
  NoMatch = NoMatch
  Matches = {NoMatch}
  Events = {e1}
  MatchingEvents = {e1}
  Subs = {"jetstream"}
  Specs <- MCSpecs
  Writers <- MCWriters
  Modes = {TRUE, FALSE}
  MaxChanges = 0
  MaxCreations = 1
  MaxFaults = 1
SPECIFICATION Spec
INVARIANTS TypeOK AckedEventRecorded
PROPERTY EventDelivered
CHECK_DEADLOCK FALSE
