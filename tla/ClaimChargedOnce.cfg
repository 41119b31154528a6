SPECIFICATION TripSpec
CONSTANTS
  d1 = d1
  r1 = r1
  r2 = r2
  x1 = x1
  p1 = p1
  t1 = t1
  t2 = t2
  t3 = t3
  Drivers = {d1}
  Subscribed = {d1}
  Reachable = {d1}
  Rides = {r1}
  Passengers = {x1}
  Opening <- Started
  PassengerOf <- OneRide
  DriverOf <- OneTrip
  MethodOf <- ByWallet
  Procs = {}
  Requests <- NoOps
  NoDriver = NoDriver
  NoQueue = NoQueue
  LocReports <- NoReports
  PastCancels <- NoPast
  MaxRestarts = 0
  Fare = 2
  Tips = {1}
  Tolls = {1}
  FinalFares = {0}
  Funds = 5
  Puts <- NoPuts
  TripProcs = {t1, t2}
  TripRequests <- ConfirmOnly
SYMMETRY RequestSymmetry
INVARIANTS
  ChargedOnce
