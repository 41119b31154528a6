------------------------------- MODULE Handlers --------------------------------
(***************************************************************************)
(* How the request handlers of the NestJS applications run: a handler is a  *)
(* sequence of reads and writes, at each await of which the other handlers  *)
(* go on, and a process that stops takes its handlers with it.              *)
(*                                                                         *)
(* A request is named by its place in the order in which the requests are   *)
(* received; a document by the request that creates it.                     *)
(***************************************************************************)
EXTENDS Naturals, FiniteSets

CONSTANTS
    MaxRequests,    \* bound: requests that are made
    Mixes,          \* which kinds of request are made together, and bound: how many
    MaxStops        \* bound: times the processes stop

ASSUME RequestsAssumption == MaxRequests \in Nat /\ MaxStops \in Nat

VARIABLES
    op,             \* the kind of each request, "none" before it is received
    at,             \* the next step of its handler
    stops

handlerVars == <<op, at, stops>>

Requests == 1..MaxRequests
Finished == {"done", "failed", "lost"}

HandlersInit ==
    /\ op = [r \in Requests |-> "none"]
    /\ at = [r \in Requests |-> "idle"]
    /\ stops = 0

At(r, step) == at[r] = step
Goto(r, step) == at' = [at EXCEPT ![r] = step] /\ UNCHANGED <<op, stops>>

Received(r) == op[r] /= "none"
Running(r)  == Received(r) /\ at[r] \notin Finished

IsTurnOf(r) == ~ Received(r) /\ \A q \in Requests : q < r => Received(q)

(* Request r is the next one, and its kind goes with those received so far. *)
IsNext(r, kind) ==
    /\ IsTurnOf(r)
    /\ \E mix \in Mixes : /\ r <= mix.upto /\ kind \in mix.kinds
                          /\ \A q \in Requests : Received(q) => op[q] \in mix.kinds

Receive(r, kind, step) ==
    /\ IsNext(r, kind)
    /\ op' = [op EXCEPT ![r] = kind]
    /\ at' = [at EXCEPT ![r] = step]
    /\ UNCHANGED stops

(* The processes stop: what is running is lost, what is saved stays. *)
Stop ==
    /\ stops < MaxStops
    /\ \E r \in Requests : Running(r)
    /\ stops' = stops + 1
    /\ at' = [r \in Requests |-> IF Running(r) THEN "lost" ELSE at[r]]
    /\ UNCHANGED op
================================================================================
