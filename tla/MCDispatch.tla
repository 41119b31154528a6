------------------------------ MODULE MCDispatch ------------------------------
(* Small instances of Dispatch. *)
EXTENDS DispatchClaims, TLC

CONSTANTS d1, d2, d3, r1, r2, x1, p1, p2, p3

OneRide  == r1 :> x1
TwoRides == r1 :> x1 @@ r2 :> x1

AllRequests == Ops
BookAccept == {"book", "accept"}
BookAcceptUpdate == {"book", "accept", "update"}

AllPuts == RideStatuses
NoPuts  == {}
PutBackAndForth == {"REJECTED", "PENDING"}

NoPast == {}
PastCancel == {<<d2, x1>>}
NoReports == {}
Offline   == {[status |-> "OFFLINE", available |-> FALSE]}

(* Requests are interchangeable, and so are drivers where all have a token and *)
(* a subscription.                                                             *)
RequestSymmetry == Permutations(Procs)
FullSymmetry    == Permutations(Procs) \cup Permutations(Drivers)
===============================================================================
