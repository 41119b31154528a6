---------------------------- MODULE DispatchClaims ----------------------------
(***************************************************************************)
(* What a comment of the ride services says of dispatch and the code does   *)
(* not deliver: a run of its own refutes it.                                 *)
(***************************************************************************)
EXTENDS Dispatch

(* p is an acceptance that has been written into its ride. *)
Won(p) == proc[p].op = "accept"
          /\ proc[p].at \in {"delQueue", "delCurrent", "transact", "busy", "done"}

(* "Check if ride is still available for assignment": one driver gets a ride. *)
(* acceptRide checks the status it read several awaits before it writes.      *)
SoleWinner ==
    \A p, q \in Procs : Won(p) /\ Won(q) /\ RideOf(p) = RideOf(q) => p = q
===============================================================================
