SPECIFICATION FairSpec
CONSTANTS
  d1 = d1
  d2 = d2
  d3 = d3
  r1 = r1
  r2 = r2
  x1 = x1
  p1 = p1
  p2 = p2
  p3 = p3
  Drivers = {d1, d2}
  Subscribed = {d1, d2}
  Reachable = {d1}
  Rides = {r1}
  Passengers = {x1}
  PassengerOf <- OneRide
  Procs = {p1, p2, p3}
  Requests <- BookAcceptUpdate
  Puts <- PutBackAndForth
  NoDriver = NoDriver
  NoQueue = NoQueue
  LocReports <- Offline
  PastCancels <- PastCancel
  MaxRestarts = 1
PROPERTIES
  SearchEnds
