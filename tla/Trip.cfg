SPECIFICATION TripSpec
CONSTANTS
  d1 = d1
  r1 = r1
  r2 = r2
  x1 = x1
  p1 = p1
  t1 = t1
  t2 = t2
  t3 = t3
  Drivers = {d1}
  Subscribed = {d1}
  Reachable = {d1}
  Rides = {r1, r2}
  Passengers = {x1}
  Opening <- AcceptedOrStarted
  PassengerOf <- TwoRides
  DriverOf <- TwoTrips
  MethodOf <- Mixed
  Procs = {p1}
  Requests <- PassengerWrites
  NoDriver = NoDriver
  NoQueue = NoQueue
  LocReports <- NoReports
  PastCancels <- NoPast
  MaxRestarts = 1
  Fare = 2
  Tips = {1}
  Tolls = {1}
  FinalFares = {3}
  Funds = 5
  Puts <- SomePuts
  TripProcs = {t1, t2}
  TripRequests <- AllTripRequests
SYMMETRY RequestSymmetry
INVARIANTS
  TripTypeOK
  PaidIsSettled
  NoFreeCredit
  CashIsSettled
PROPERTIES
  WalletsFollowLedger
