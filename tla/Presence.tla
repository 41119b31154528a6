------------------------------- MODULE Presence --------------------------------
(***************************************************************************)
(* Where a driver is and whether he takes rides: the WebSocket connections, *)
(* mapped to their users in Redis; the location document that the gateway,  *)
(* the location endpoints, the driver's profile, the logout and the handlers *)
(* of his rides all write; and the rides he has under way.                  *)
(*                                                                         *)
(* A socket is named by the request that opened it, a ride by the request   *)
(* that offers it to a driver: Dispatch tells how a ride finds its drivers  *)
(* and RideTrip how it goes on.  A handler that is one write to one         *)
(* document is one action.                                                  *)
(***************************************************************************)
EXTENDS Handlers, Sequences

CONSTANTS
    Drivers,        \* those a search may find: active, with vehicle, permit and subscription
    Passengers,
    NoSocket, NoDriver, NoRide

(* 0 is the ride a driver is on when the requests begin. *)
Rides == Requests \cup {0}

ASSUME PresenceAssumption ==
    /\ Drivers \cap Passengers = {} /\ Drivers \cup Passengers /= {}
    /\ NoSocket \notin Requests /\ NoDriver \notin Drivers /\ NoRide \notin Rides

VARIABLES
    sock,           \* the connections
    mapped,         \* Redis: socket:<type>:<user>
    pipe,           \* the commands sent to Redis on its one connection, not yet run
    loc,            \* driverLocation
    ride,           \* the rides offered to a driver
    task,           \* what each request is about
    loose           \* history: the drivers whose availability may not follow their rides

presenceVars == <<sock, mapped, pipe, loc, ride, task, loose>>

--------------------------------------------------------------------------------
Users == Drivers \cup Passengers

Socket == [state : {"none", "open", "closed", "dropped"}, user : Users]

(* Nothing tells BUSY and ON_BREAK from OFFLINE. *)
Statuses == {"ONLINE", "OFFLINE"}

Location == [doc : BOOLEAN, status : Statuses, available : BOOLEAN]
NoLocation == [doc |-> FALSE, status |-> "OFFLINE", available |-> FALSE]
Waiting == [doc |-> TRUE, status |-> "ONLINE", available |-> TRUE]
Away    == [doc |-> TRUE, status |-> "OFFLINE", available |-> FALSE]

(* arrived: RIDE_REACHED_DESTINATION, which is not over and no active ride. *)
RideStates == {"none", "offered", "active", "arrived", "over"}
Ride == [state : RideStates, driver : Drivers \cup {NoDriver}]

(* status and state: what the handler read, or was told. *)
Task == [driver : Drivers \cup {NoDriver}, ride : Rides \cup {NoRide}, status : Statuses,
         state : RideStates]
NoTask == [driver |-> NoDriver, ride |-> NoRide, status |-> "OFFLINE", state |-> "none"]

AnyUser == CHOOSE u \in Users : TRUE

PresenceInit ==
    /\ sock = [r \in Requests |-> [state |-> "none", user |-> AnyUser]]
    /\ mapped = [u \in Users |-> NoSocket]
    /\ pipe = <<>>
    /\ \E onRide \in Drivers \cup {NoDriver} :
       /\ ride = [i \in Rides |-> IF i = 0 /\ onRide /= NoDriver
                                  THEN [state |-> "active", driver |-> onRide]
                                  ELSE [state |-> "none", driver |-> NoDriver]]
       /\ loc \in [Drivers -> {NoLocation, Waiting, Away}]
       /\ \A d \in Drivers : loc[d] = Away <=> d = onRide
    /\ task = [r \in Requests |-> NoTask]
    /\ loose = {}

--------------------------------------------------------------------------------
(* The gateway's connections. *)

Send(cmd, u, c) == pipe' = Append(pipe, [cmd |-> cmd, user |-> u, sock |-> c])

(* The user of the socket is known before its mapping is stored. *)
HandleConnection(r, u) ==
    /\ Receive(r, "connect", "storeUserSocket")
    /\ sock' = [sock EXCEPT ![r] = [state |-> "open", user |-> u]]
    /\ Send("set", u, r)
    /\ UNCHANGED <<mapped, loc, ride, task, loose>>

(* Mutant: the user is known once the mapping is stored. *)
HandleDisconnectOfKnown(c) ==
    /\ sock[c].state = "open"
    /\ sock' = [sock EXCEPT ![c].state = "closed"]
    /\ IF At(c, "done") THEN Send("del", sock[c].user, c) ELSE UNCHANGED pipe
    /\ UNCHANGED <<handlerVars, mapped, loc, ride, task, loose>>

(* The mapping of the user is removed, whichever socket it is of. *)
HandleDisconnect(c) ==
    /\ sock[c].state = "open"
    /\ sock' = [sock EXCEPT ![c].state = "closed"]
    /\ Send("del", sock[c].user, c)
    /\ UNCHANGED <<handlerVars, mapped, loc, ride, task, loose>>

(* Redis runs the commands of one connection in the order they were sent. *)
StoreUserSocket ==
    /\ pipe /= <<>> /\ Head(pipe).cmd = "set"
    /\ mapped' = [mapped EXCEPT ![Head(pipe).user] = Head(pipe).sock]
    /\ pipe' = Tail(pipe)
    /\ Goto(Head(pipe).sock, "done")
    /\ UNCHANGED <<sock, loc, ride, task, loose>>

RemoveUserSocket ==
    /\ pipe /= <<>> /\ Head(pipe).cmd = "del"
    /\ mapped' = [mapped EXCEPT ![Head(pipe).user] = NoSocket]
    /\ pipe' = Tail(pipe)
    /\ UNCHANGED <<handlerVars, sock, loc, ride, task, loose>>

(* After an hour without a new connection. *)
MappingExpires(u) ==
    /\ mapped[u] /= NoSocket
    /\ mapped' = [mapped EXCEPT ![u] = NoSocket]
    /\ UNCHANGED <<handlerVars, sock, pipe, loc, ride, task, loose>>

(* sendRideRequestToDriver, sendStatusUpdateToPassenger and                   *)
(* sendDriverLocationToPassenger emit to the mapped socket.                   *)
Reached(u) == mapped[u] /= NoSocket /\ sock[mapped[u]].state = "open"

--------------------------------------------------------------------------------
(* What the rides of a driver are. *)

RidesOf(d, states) == {i \in Rides : ride[i].driver = d /\ ride[i].state \in states}

(* Mutant: no ride is active. *)
NoActiveRideByDriver(d) == {}

FindActiveRideByDriver(d) == RidesOf(d, {"active"})

RideKinds == {"accept", "complete", "cancelRide", "driverStatus"}
Handling(d) == {r \in Requests : Running(r) /\ op[r] \in RideKinds /\ task[r].driver = d}

(* The driver is made available by r: loose, when a ride of his is not over   *)
(* or another handler is at it.                                               *)
Freed(d, r) == Handling(d) \ {r} /= {} \/ RidesOf(d, {"active", "arrived"}) /= {}
LooseIf(d, freed) == loose' = IF freed THEN loose \cup {d} ELSE loose

SetLoc(d, status, available) ==
    loc' = [loc EXCEPT ![d].status = status, ![d].available = available]

(* One write, in answer to request r. *)
Answer(r, kind) == Receive(r, kind, "done") /\ UNCHANGED <<sock, mapped, pipe, ride, task>>

--------------------------------------------------------------------------------
(* The writers of the location that read nothing first. *)

UpdateLocation(r, d) ==
    /\ Answer(r, "locate")
    /\ loc' = [loc EXCEPT ![d].doc = TRUE]
    /\ UNCHANGED loose

(* The gateway's write: online and available, whatever the driver is doing.  *)
UpdateDriverLocation(d) ==
    loc' = [loc EXCEPT ![d] = [doc |-> TRUE, status |-> "ONLINE", available |-> TRUE]]

(* driver_location_update on an open socket. *)
DriverLocationUpdate(r, c) ==
    /\ sock[c].state = "open" /\ sock[c].user \in Drivers
    /\ LET d == sock[c].user IN
       /\ Answer(r, "locate")
       /\ UpdateDriverLocation(d)
       /\ LooseIf(d, Freed(d, r))

Report(r, d, status, available) ==
    /\ loc[d].doc
    /\ Answer(r, "report")
    /\ SetLoc(d, status, available)
    /\ LooseIf(d, available /\ Freed(d, r))

UpdateStatus(r, d) == \E s \in Statuses, available \in BOOLEAN : Report(r, d, s, available)
GoOnline(r, d) == Report(r, d, "ONLINE", TRUE)
GoOffline(r, d) == Report(r, d, "OFFLINE", FALSE)

SetBusy(r, d) == Report(r, d, "OFFLINE", FALSE)
Logout(r, d) == Report(r, d, "OFFLINE", FALSE)

DriverLocationRoutes(r, d) ==
    UpdateLocation(r, d) \/ UpdateStatus(r, d) \/ GoOnline(r, d) \/ GoOffline(r, d) \/ SetBusy(r, d)

--------------------------------------------------------------------------------
(* The handlers that look first. *)

Begin(r, kind, step, new) ==
    /\ Receive(r, kind, step)
    /\ task' = [task EXCEPT ![r] = new]
    /\ LooseIf(new.driver, Handling(new.driver) /= {})
    /\ UNCHANGED <<sock, mapped, pipe, loc, ride>>

Look(r, step) == Goto(r, step) /\ UNCHANGED presenceVars

(* DriverService.updateDriverStatus *)
UpdateDriverStatus(r, d, status) ==
    Begin(r, "driverStatus", IF status = "ONLINE" THEN "findActive" ELSE "writeStatus",
          [NoTask EXCEPT !.driver = d, !.status = status])

FindActive(r) ==
    /\ At(r, "findActive")
    /\ Look(r, IF FindActiveRideByDriver(task[r].driver) = {} THEN "writeStatus" ELSE "failed")

(* A driver without a location gets one, at [0, 0]. *)
WriteDriverStatus(r) ==
    /\ At(r, "writeStatus")
    /\ LET d == task[r].driver  status == task[r].status IN
       /\ loc' = [loc EXCEPT ![d] = [doc |-> TRUE, status |-> status, available |-> status = "ONLINE"]]
       /\ LooseIf(d, status = "ONLINE" /\ RidesOf(d, {"arrived"}) /= {})
    /\ Goto(r, "done")
    /\ UNCHANGED <<sock, mapped, pipe, ride, task>>

(* findNearbyDriversWithVehicles, then notifyNextDriver: a driver may be too    *)
(* far away, or silent for too long, to be found.                              *)
Found(d) == loc[d].doc /\ loc[d].status = "ONLINE" /\ loc[d].available

Offer(r, d) ==
    /\ Found(d)
    /\ Receive(r, "offer", "done")
    /\ ride' = [ride EXCEPT ![r] = [state |-> "offered", driver |-> d]]
    /\ UNCHANGED <<sock, mapped, pipe, loc, task, loose>>

(* A ride that is not on offer any more is refused as any other failure is.   *)
AcceptRide(r, i) ==
    /\ ride[i].state /= "none"
    /\ Begin(r, "accept", IF ride[i].state = "offered" THEN "availability" ELSE "reread",
             [NoTask EXCEPT !.driver = ride[i].driver, !.ride = i])

CheckAvailability(r) ==
    /\ At(r, "availability")
    /\ Look(r, IF loc[task[r].driver].available THEN "assign" ELSE "reread")

SetRide(r, state) ==
    /\ ride' = [ride EXCEPT ![task[r].ride].state = state]
    /\ UNCHANGED <<sock, mapped, pipe, loc, task, loose>>

AssignDriver(r) ==
    /\ At(r, "assign")
    /\ SetRide(r, "active")
    /\ Goto(r, "busy")

MarkBusy(r) ==
    /\ At(r, "busy")
    /\ SetLoc(task[r].driver, "OFFLINE", FALSE)
    /\ Goto(r, "done")
    /\ UNCHANGED <<sock, mapped, pipe, ride, task, loose>>

(* Whatever fails, the catch writes the status of the ride back, and makes the *)
(* driver available, in the status read.                                       *)
AcceptFails(r) ==
    /\ at[r] \in {"assign", "busy"} /\ op[r] = "accept"
    /\ Look(r, "reread")

RereadRide(r) ==
    /\ At(r, "reread")
    /\ task' = [task EXCEPT ![r].state = ride[task[r].ride].state]
    /\ Goto(r, "restore")
    /\ UNCHANGED <<sock, mapped, pipe, loc, ride, loose>>

RestoreRide(r) ==
    /\ At(r, "restore")
    /\ SetRide(r, task[r].state)
    /\ Goto(r, "rereadDriver")

RereadDriver(r) ==
    /\ At(r, "rereadDriver")
    /\ task' = [task EXCEPT ![r].status = loc[task[r].driver].status]
    /\ Goto(r, "free")
    /\ UNCHANGED <<sock, mapped, pipe, loc, ride, loose>>

FreeRefusedDriver(r) ==
    /\ At(r, "free")
    /\ SetLoc(task[r].driver, task[r].status, TRUE)
    /\ LooseIf(task[r].driver, Freed(task[r].driver, r))
    /\ Goto(r, "failed")
    /\ UNCHANGED <<sock, mapped, pipe, ride, task>>

CompleteRide(r, i) ==
    /\ ride[i].state \in {"active", "arrived"}
    /\ Begin(r, "complete", "endRide", [NoTask EXCEPT !.driver = ride[i].driver, !.ride = i])

(* By the driver: the ride goes back to the search. *)
CancelRide(r, i) ==
    /\ ride[i].state \in {"offered", "active", "arrived"}
    /\ Begin(r, "cancelRide", "endRide", [NoTask EXCEPT !.driver = ride[i].driver, !.ride = i])

EndRide(r) ==
    /\ At(r, "endRide")
    /\ SetRide(r, "over")
    /\ Goto(r, "freeDriver")

(* Whatever other ride the driver is on: he may have turned down an offer.    *)
FreeDriver(r) ==
    /\ At(r, "freeDriver")
    /\ SetLoc(task[r].driver, "ONLINE", TRUE)
    /\ LooseIf(task[r].driver, Freed(task[r].driver, r))
    /\ Goto(r, "done")
    /\ UNCHANGED <<sock, mapped, pipe, ride, task>>

--------------------------------------------------------------------------------
(* The stages a ride goes through, and the passenger, leave the location alone. *)

MoveRide(i, from, to) ==
    /\ ride[i].state \in from
    /\ ride' = [ride EXCEPT ![i].state = to]
    /\ UNCHANGED <<handlerVars, sock, mapped, pipe, loc, task, loose>>

ReachDestination(i) == MoveRide(i, {"active"}, "arrived")
PassengerCancels(i) == MoveRide(i, {"offered", "active", "arrived"}, "over")

Unremoved(c) == \E k \in DOMAIN pipe : pipe[k].cmd = "del" /\ pipe[k].sock = c

(* Every socket is closed by the end of the process, and no handler runs. *)
PresenceStop ==
    /\ sock' = [c \in Requests |-> IF sock[c].state = "open" \/ Unremoved(c)
                                     THEN [sock[c] EXCEPT !.state = "dropped"] ELSE sock[c]]
    /\ pipe' = <<>>
    /\ loose' = loose \cup {d \in Drivers : Handling(d) /= {}}
    /\ UNCHANGED <<mapped, loc, ride, task>>

PresenceReceive(r) ==
    /\ IsTurnOf(r)
    /\ \/ \E u \in Users : HandleConnection(r, u)
       \/ \E c \in Requests : DriverLocationUpdate(r, c)
       \/ \E d \in Drivers : DriverLocationRoutes(r, d) \/ Logout(r, d) \/ Offer(r, d)
       \/ \E d \in Drivers, s \in Statuses : UpdateDriverStatus(r, d, s)
       \/ \E i \in Rides : AcceptRide(r, i) \/ CompleteRide(r, i) \/ CancelRide(r, i)

PresenceStep(r) ==
    \/ FindActive(r) \/ WriteDriverStatus(r) \/ CheckAvailability(r) \/ AssignDriver(r)
    \/ MarkBusy(r) \/ AcceptFails(r) \/ RereadRide(r) \/ RestoreRide(r)
    \/ RereadDriver(r) \/ FreeRefusedDriver(r) \/ EndRide(r)
    \/ FreeDriver(r)

PresenceNext ==
    \/ \E r \in Requests : PresenceReceive(r) \/ PresenceStep(r)
    \/ \E c \in Requests : HandleDisconnect(c)
    \/ StoreUserSocket \/ RemoveUserSocket
    \/ \E u \in Users : MappingExpires(u)
    \/ \E i \in Rides : ReachDestination(i) \/ PassengerCancels(i)

PresenceSpec ==
    /\ HandlersInit /\ PresenceInit
    /\ [][PresenceNext \/ (Stop /\ PresenceStop)]_<<handlerVars, presenceVars>>

--------------------------------------------------------------------------------
PresenceTypeOK ==
    /\ sock \in [Requests -> Socket]
    /\ mapped \in [Users -> Requests \cup {NoSocket}]
    /\ pipe \in Seq([cmd : {"set", "del"}, user : Users, sock : Requests])
    /\ loc \in [Drivers -> Location]
    /\ ride \in [Rides -> Ride]
    /\ task \in [Requests -> Task]
    /\ loose \subseteq Drivers

(* A message emitted to a user goes to a connection that is open, or whose     *)
(* removal is under way, or that the end of the process closed: a disconnect   *)
(* that overtakes the storing of its own connection leaves no mapping behind.  *)
MappedSocketIsOpen ==
    \A u \in Users :
        mapped[u] /= NoSocket =>
            \/ Reached(u)
            \/ sock[mapped[u]].state = "dropped"
            \/ \E k \in DOMAIN pipe : pipe[k].cmd = "del" /\ pipe[k].user = u

(* A driver has one active ride at a time, although nothing but his            *)
(* availability, checked when he accepts and written last, keeps him to it:    *)
(* unless he reported himself available, was refused, or turned down another   *)
(* offer, while a ride of his was not over, or his handlers overlapped or were *)
(* lost.                                                                       *)
OneRideAtATime ==
    \A d \in Drivers \ loose : Cardinality(RidesOf(d, {"active"})) <= 1
================================================================================
