------------------------------ MODULE RideStatus ------------------------------
(***************************************************************************)
(* The states of a ride and the two tables of legal transitions the        *)
(* services consult: DriverRideService keeps one for the driver's requests, *)
(* RidesService another for PUT /rides/:id.  The names are the members of   *)
(* the RideStatus enum, shortened.                                          *)
(***************************************************************************)

(* The members of the enum. *)
RideStatuses ==
    { "SEARCHING", "PENDING", "REJECTED", "SCHEDULED", "ACCEPTED", "STARTED",
      "REACHED", "AT_PICKUP", "HAS_PICKUP", "COMPLETED", "CANCELLED", "TIMEOUT" }

(* A ride that has not been created yet. *)
NoRide == "NONE"

(* The moves both tables allow. *)
CommonMoves ==
    [ SEARCHING  |-> {"PENDING", "ACCEPTED", "CANCELLED", "TIMEOUT"},
      PENDING    |-> {"ACCEPTED", "REJECTED", "CANCELLED", "TIMEOUT"},
      REJECTED   |-> {"PENDING", "CANCELLED"},
      SCHEDULED  |-> {"SEARCHING", "CANCELLED"},
      ACCEPTED   |-> {"STARTED"},
      STARTED    |-> {"COMPLETED", "REACHED", "CANCELLED"},
      REACHED    |-> {"COMPLETED", "CANCELLED"},
      AT_PICKUP  |-> {"COMPLETED", "TIMEOUT"},
      HAS_PICKUP |-> {"CANCELLED", "TIMEOUT"},
      COMPLETED  |-> {"CANCELLED", "TIMEOUT"},
      CANCELLED  |-> {"TIMEOUT"},
      TIMEOUT    |-> {} ]

(* validateStatusChange of DriverRideService. *)
DriverMayMove(from, to) ==
    \/ to \in CommonMoves[from]
    \/ from = "ACCEPTED" /\ to = "AT_PICKUP"
    \/ from = "AT_PICKUP" /\ to = "HAS_PICKUP"
    \/ from = "HAS_PICKUP" /\ to = "STARTED"

(* validateStatusChange of RidesService. *)
PassengerMayMove(from, to) ==
    \/ to \in CommonMoves[from]
    \/ from = "ACCEPTED" /\ to \in {"CANCELLED", "TIMEOUT"}
    \/ from = "AT_PICKUP" /\ to = "CANCELLED"
    \/ from = "HAS_PICKUP" /\ to = "COMPLETED"

(* The statuses findPassengerCurrentRide looks for: a ride with a driver on it. *)
CurrentStatuses == {"ACCEPTED", "AT_PICKUP", "HAS_PICKUP", "STARTED", "REACHED"}
===============================================================================
