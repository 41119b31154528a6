SPECIFICATION Spec
CONSTANTS
  d1 = d1
  d2 = d2
  d3 = d3
  r1 = r1
  r2 = r2
  x1 = x1
  p1 = p1
  p2 = p2
  p3 = p3
  Drivers = {d1, d2, d3}
  Subscribed = {d1, d2, d3}
  Reachable = {d1, d2, d3}
  Rides = {r1}
  Passengers = {x1}
  PassengerOf <- OneRide
  Procs = {p1, p2, p3}
  Requests <- AllRequests
  Puts <- AllPuts
  NoDriver = NoDriver
  NoQueue = NoQueue
  LocReports <- NoReports
  PastCancels <- NoPast
  MaxRestarts = 0
SYMMETRY FullSymmetry
INVARIANTS
  TypeOK
  DispatchContinues
  NoRepeatedOffer
  CurrentRideHasDriver
