SPECIFICATION DocSpec
CONSTANTS
  d1 = d1
  v1 = v1
  v2 = v2
  licence = licence
  insurance = insurance
  Driver = d1
  Vehicles = {v1, v2}
  Fleet = {v1}
  Types <- TypesOf
  Required <- RequiredOf
  Held <- HeldFirst
  MaxDocs = 4
  MaxRequests = 3
  RequestOps <- DocOpSets
  MaxStops = 1
INVARIANTS
  DocTypeOK
  VerifiedWasReviewed
  FleetOfVerifiedDriver
  PapersKept
  VersionsInOrder
  PrimaryKept
PROPERTIES
  VerifiedStaysAsReviewed
CHECK_DEADLOCK FALSE
