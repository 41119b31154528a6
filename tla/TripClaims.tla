------------------------------ MODULE TripClaims ------------------------------
(***************************************************************************)
(* What comments and messages of the ride services say of a ride under way  *)
(* and its payment and the code does not deliver.  Each is refuted by a run *)
(* of its own.                                                              *)
(***************************************************************************)
EXTENDS RideTrip

(* t has settled the passenger's entry of its ride. *)
Charged(t) ==
    /\ trip[t].op = "confirm" /\ MethodOf[trip[t].ride] = "WALLET"
    /\ trip[t].at \in {"saveCredit", "writePassenger", "writeDriver", "settle", "done"}

(* "Check if payment is already completed": a ride is charged once.  The      *)
(* status is read many awaits before confirmPayment writes it.                *)
ChargedOnce ==
    \A t, u \in TripProcs : Charged(t) /\ Charged(u) /\ trip[t].ride = trip[u].ride => t = u
===============================================================================
