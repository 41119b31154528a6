------------------------------ MODULE MCRideTrip ------------------------------
(* Small instances of RideTrip. *)
EXTENDS TripClaims, TLC

CONSTANTS d1, r1, r2, x1, p1, t1, t2, t3

OneRide  == r1 :> x1
OneTrip  == r1 :> d1
ByWallet == r1 :> "WALLET"
ByCash   == r1 :> "CASH"
TwoRides == r1 :> x1 @@ r2 :> x1
TwoTrips == r1 :> d1 @@ r2 :> d1
Mixed    == r1 :> "WALLET" @@ r2 :> "CASH"

Started  == {"STARTED"}
AcceptedOrStarted == {"ACCEPTED", "STARTED"}

Cancels  == {"driverCancel", "passengerCancel"}
PassengerWrites == {"passengerCancel", "update"}
NoOps    == {}
AllTripRequests == TripOps
LiveRequests == {"complete", "confirm"}

NoReports == {}
NoPast == {}
SomePuts == {"COMPLETED"}
NoPuts == {}

ConfirmOnly  == {"confirm"}
CancelAndEnd == {"complete"}

RequestSymmetry == Permutations(TripProcs)
===============================================================================
