------------------------------- MODULE Dispatch -------------------------------
(***************************************************************************)
(* How a ride request finds its driver: RidesService books a ride, keeps   *)
(* the queue of candidate drivers in Redis and offers the ride to one      *)
(* driver at a time with a 27 second timer; DriverRideService lets a driver *)
(* accept, reject or cancel; the passenger may cancel, and PUT /rides/:id   *)
(* writes a status.                                                         *)
(*                                                                         *)
(* The API is a Node.js process: a handler runs without interruption from  *)
(* one await to the next and nothing locks a document in between.  A       *)
(* request, with the timers it arms, is a process of Procs; one action is  *)
(* one read or write of shared state, and what was read stays in the       *)
(* process record until it is used.                                         *)
(***************************************************************************)
EXTENDS RideStatus, Naturals, Sequences, FiniteSets, Functions

CONSTANTS
    Drivers,        \* driver accounts, all with a verified primary vehicle
    Subscribed,     \* those with an active paid subscription
    Reachable,      \* those with an FCM token
    Rides,          \* ride documents that may be created
    Passengers,
    PassengerOf,    \* the passenger who asks for the ride
    Procs,          \* requests the clients may issue; bounds the behaviour
    Requests,       \* the kinds of request they issue in a run
    Puts,           \* statuses sent to PUT /rides/:id
    NoDriver,
    NoQueue,        \* the Redis key is absent
    LocReports,     \* the status reports drivers send in a run
    PastCancels,    \* <<driver, passenger>> excluded by an earlier ride's cancellation
    MaxRestarts     \* bound: crashes of the API process

ASSUME FiniteAssumption  == IsFiniteSet(Drivers)
ASSUME DriverAssumption  == Subscribed \subseteq Drivers /\ Reachable \subseteq Drivers
ASSUME NoDriverAssumption == NoDriver \notin Drivers \cup Passengers
ASSUME NoRideAssumption == NoRide \notin Rides
ASSUME PassengerAssumption == PassengerOf \in [Rides -> Passengers]
ASSUME PastAssumption == PastCancels \subseteq Drivers \X Passengers
ASSUME NoQueueAssumption == NoQueue \notin Seq(Drivers)
ASSUME PutAssumption == Puts \subseteq RideStatuses
ASSUME RestartAssumption == MaxRestarts \in Nat

VARIABLES
    ride,       \* MongoDB: status and driverId of each ride
    queue,      \* Redis: ride_driver_queue
    current,    \* Redis: ride_current_driver
    offers,     \* the FCM ride requests sent for a ride, in order
    loc,        \* MongoDB: driverLocation, status and isAvailableForRides
    excluded,   \* Redis: driver_cancellation keys, <<driver, passenger>>
    txns,       \* MongoDB: <<ride, driver>> that have a CREDIT transaction
    proc,       \* the requests and timers of the API process
    restarts

store == <<ride, queue, current, offers, loc, excluded, txns>>
vars  == <<store, proc, restarts>>

-------------------------------------------------------------------------------
Users       == Drivers \cup Passengers
MaybeDriver == Drivers \cup {NoDriver}

(* PUT /rides/:id makes whoever sends it the driver of a ride, a passenger too. *)
MaybeHolder == Users \cup {NoDriver}

DriverStatuses == {"ONLINE", "OFFLINE", "BUSY", "ON_BREAK"}
DriverLoc == [status : DriverStatuses, available : BOOLEAN]
ASSUME LocAssumption == LocReports \subseteq DriverLoc
FreeLoc == [status |-> "ONLINE", available |-> TRUE]
BusyLoc == [status |-> "BUSY", available |-> FALSE]

Ops == {"none", "book", "accept", "reject", "driverCancel", "passengerCancel", "update"}

(* The awaits a booking, and the chain of notifyNextDriver, can be at. *)
BookingSteps == {"create", "find", "filter", "giveUp"}
ChainSteps   == {"move", "noneLeft", "exhausted", "store", "setCurrent",
                 "recheck", "validate", "offer", "timer", "timeout"}
AcceptSteps  == {"availability", "assign", "delQueue", "delCurrent", "transact",
                 "busy", "reread", "writeBack", "readLoc", "free"}
RejectSteps  == {"isCurrent", "record", "clear"}
CancelSteps  == {"markRejected", "exclude", "release", "delay", "markCancelled"}
UpdateSteps  == {"writeUpdate"}
EndSteps     == {"done", "refused", "lost"}

Steps == {"idle"} \cup BookingSteps \cup ChainSteps \cup AcceptSteps
                  \cup RejectSteps \cup CancelSteps \cup UpdateSteps \cup EndSteps

(* What a handler has read and not used yet: saw, a ride status read or     *)
(* asked for; near, the drivers a search returned; rest, a driver queue; had, *)
(* a driver's status.                                                         *)
Process == [op : Ops, at : Steps, ride : Rides \cup {NoRide}, driver : MaybeHolder,
            saw : RideStatuses \cup {NoRide}, near : SUBSET Drivers,
            rest : Seq(Drivers), had : DriverStatuses]

IdleProcess == [op |-> "none", at |-> "idle", ride |-> NoRide, driver |-> NoDriver,
                saw |-> NoRide, near |-> {}, rest |-> <<>>, had |-> "ONLINE"]

Init ==
    /\ ride = [r \in Rides |-> [status |-> NoRide, driver |-> NoDriver]]
    /\ queue = [r \in Rides |-> NoQueue]
    /\ current = [r \in Rides |-> NoDriver]
    /\ offers = [r \in Rides |-> <<>>]
    /\ loc = [d \in Drivers |-> FreeLoc]
    /\ excluded = PastCancels
    /\ txns = {}
    /\ proc = [p \in Procs |-> IdleProcess]
    /\ restarts = 0

-------------------------------------------------------------------------------
(* Small steps shared by the handlers. *)

At(p, step) == proc[p].at = step
RideOf(p)   == proc[p].ride

Goto(p, step) == proc' = [proc EXCEPT ![p].at = step]

Begin(p, op, r, d, saw, step) ==
    /\ At(p, "idle")
    /\ op \in Requests
    /\ proc' = [proc EXCEPT ![p] = [IdleProcess EXCEPT !.op = op, !.at = step, !.ride = r,
                                                       !.driver = d, !.saw = saw]]

SetStatus(r, s) == ride' = [ride EXCEPT ![r].status = s]

(* A driver learns of a ride from the FCM request: nearby/requests lists only *)
(* SEARCHING rides, which nothing creates.                                    *)
Knows(d, r) == d \in Range(offers[r])

Available(d) == loc[d].available
Online(d)    == loc[d].status = "ONLINE" /\ loc[d].available

(* The order in which a proximity search returns the drivers in S. *)
Orders(S) == {q \in [1..Cardinality(S) -> S] : IsInjective(q)}

-------------------------------------------------------------------------------
(* bookRide *)

CurrentRides(x) == {r \in Rides : PassengerOf[r] = x /\ ride[r].status \in CurrentStatuses}

(* validateNoActiveRide looks at the latest of the passenger's current rides; *)
(* at REACHED the answer depends on the payment, which is not modelled here.  *)
MayBook(x) ==
    \/ CurrentRides(x) = {}
    \/ \E r \in CurrentRides(x) : ride[r].status \in {"AT_PICKUP", "HAS_PICKUP", "REACHED"}

BookRide(p, r) ==
    /\ ride[r].status = NoRide
    /\ \A q \in Procs : RideOf(q) # r
    /\ MayBook(PassengerOf[r])
    /\ Begin(p, "book", r, NoDriver, NoRide, "create")
    /\ UNCHANGED <<store, restarts>>

CreateRide(p) ==
    /\ At(p, "create")
    /\ SetStatus(RideOf(p), "PENDING")
    /\ Goto(p, "find")
    /\ UNCHANGED <<queue, current, offers, loc, excluded, txns, restarts>>

(* findNearbyDriversWithVehicles: some of the free drivers are near enough. *)
FindDrivers(p) ==
    /\ At(p, "find")
    /\ \E near \in SUBSET {d \in Drivers : Online(d)} :
          proc' = [proc EXCEPT ![p].near = near,
                               ![p].at = IF near = {} THEN "giveUp" ELSE "filter"]
    /\ UNCHANGED <<store, restarts>>

(* The drivers found, nearest first, without those excluded for the passenger. *)
StoreQueue(p) ==
    LET r == RideOf(p)
        eligible == {d \in proc[p].near : <<d, PassengerOf[r]>> \notin excluded}
    IN /\ At(p, "filter")
       /\ \/ /\ eligible # {}
             /\ \E q \in Orders(eligible) : queue' = [queue EXCEPT ![r] = q]
             /\ proc' = [proc EXCEPT ![p].near = {}, ![p].at = "move"]
          \/ /\ eligible = {}
             /\ proc' = [proc EXCEPT ![p].near = {}, ![p].at = "giveUp"]
             /\ UNCHANGED queue
       /\ UNCHANGED <<ride, current, offers, loc, excluded, txns, restarts>>

(* No driver: the ride is cancelled and the booking refused. *)
GiveUp(p) ==
    /\ At(p, "giveUp")
    /\ SetStatus(RideOf(p), "CANCELLED")
    /\ Goto(p, "done")
    /\ UNCHANGED <<queue, current, offers, loc, excluded, txns, restarts>>

-------------------------------------------------------------------------------
(* notifyNextDriver and the moveToNextDriver of RedisService. *)

(* Mutant: an empty queue ends the chain without the cancellation. *)
ReadQueueStops(p) ==
    LET q == queue[RideOf(p)]
    IN /\ At(p, "move")
       /\ proc' = IF q \in {NoQueue, <<>>}
                    THEN [proc EXCEPT ![p].at = "done"]
                    ELSE [proc EXCEPT ![p].at = "store", ![p].driver = Head(q), ![p].rest = Tail(q)]
       /\ UNCHANGED <<store, restarts>>

ReadQueue(p) ==
    LET q == queue[RideOf(p)]
    IN /\ At(p, "move")
       /\ \/ /\ q \in {NoQueue, <<>>}
             /\ Goto(p, "noneLeft")
          \/ /\ q \notin {NoQueue, <<>>}
             /\ proc' = [proc EXCEPT ![p].at = "store", ![p].driver = Head(q), ![p].rest = Tail(q)]
       /\ UNCHANGED <<store, restarts>>

(* Mutant: the shortened queue is not stored. *)
StoreRestForgotten(p) ==
    /\ At(p, "store")
    /\ proc' = [proc EXCEPT ![p].at = "setCurrent", ![p].rest = <<>>]
    /\ UNCHANGED <<store, restarts>>

StoreRest(p) ==
    /\ At(p, "store")
    /\ queue' = [queue EXCEPT ![RideOf(p)] = proc[p].rest]
    /\ proc' = [proc EXCEPT ![p].at = "setCurrent", ![p].rest = <<>>]
    /\ UNCHANGED <<ride, current, offers, loc, excluded, txns, restarts>>

SetCurrent(p) ==
    /\ At(p, "setCurrent")
    /\ current' = [current EXCEPT ![RideOf(p)] = proc[p].driver]
    /\ Goto(p, "recheck")
    /\ UNCHANGED <<ride, queue, offers, loc, excluded, txns, restarts>>

ClearCurrent(p) ==
    /\ At(p, "noneLeft")
    /\ current' = [current EXCEPT ![RideOf(p)] = NoDriver]
    /\ Goto(p, "exhausted")
    /\ UNCHANGED <<ride, queue, offers, loc, excluded, txns, restarts>>

(* No more drivers: the ride is cancelled whatever its status is by now. *)
CancelExhausted(p) ==
    /\ At(p, "exhausted")
    /\ SetStatus(RideOf(p), "CANCELLED")
    /\ Goto(p, "done")
    /\ UNCHANGED <<queue, current, offers, loc, excluded, txns, restarts>>

(* A driver without an FCM token is skipped after a second. *)
Recheck(p) ==
    /\ At(p, "recheck")
    /\ \/ /\ ride[RideOf(p)].status \in {"ACCEPTED", "CANCELLED", "COMPLETED"}
          /\ Goto(p, "done")
       \/ /\ ride[RideOf(p)].status \notin {"ACCEPTED", "CANCELLED", "COMPLETED"}
          /\ Goto(p, IF proc[p].driver \in Reachable THEN "validate" ELSE "move")
    /\ UNCHANGED <<store, restarts>>

(* validateSelectedDriver; one that fails is skipped after half a second. *)
Validate(p) ==
    /\ At(p, "validate")
    /\ Goto(p, IF Online(proc[p].driver) THEN "offer" ELSE "move")
    /\ UNCHANGED <<store, restarts>>

(* The driver is recorded as current again and sent the request. *)
Offer(p) ==
    LET r == RideOf(p)
    IN /\ At(p, "offer")
       /\ current' = [current EXCEPT ![r] = proc[p].driver]
       /\ offers' = [offers EXCEPT ![r] = Append(@, proc[p].driver)]
       /\ Goto(p, "timer")
       /\ UNCHANGED <<ride, queue, loc, excluded, txns, restarts>>

(* 27 seconds later: is this driver still the current one ... *)
TimerFires(p) ==
    /\ At(p, "timer")
    /\ Goto(p, IF current[RideOf(p)] = proc[p].driver THEN "timeout" ELSE "done")
    /\ UNCHANGED <<store, restarts>>

(* Mutant: the timer looks for the wrong status. *)
TimeoutSearching(p) ==
    /\ At(p, "timeout")
    /\ Goto(p, IF ride[RideOf(p)].status = "SEARCHING" THEN "move" ELSE "done")
    /\ UNCHANGED <<store, restarts>>

(* ... and the ride still pending? Then the next driver is asked. *)
Timeout(p) ==
    /\ At(p, "timeout")
    /\ Goto(p, IF ride[RideOf(p)].status = "PENDING" THEN "move" ELSE "done")
    /\ UNCHANGED <<store, restarts>>

-------------------------------------------------------------------------------
(* acceptRide. Nothing asks whether this driver is the one notified now. *)

AcceptRide(p, r, d) ==
    /\ Knows(d, r)
    /\ Begin(p, "accept", r, d, ride[r].status,
             IF ride[r].status \in {"PENDING", "SEARCHING"} THEN "availability" ELSE "reread")
    /\ UNCHANGED <<store, restarts>>

CheckDriver(p) ==
    /\ At(p, "availability")
    /\ Goto(p, IF Available(proc[p].driver) /\ proc[p].driver \in Subscribed
                 THEN "assign" ELSE "reread")
    /\ UNCHANGED <<store, restarts>>

(* Mutant: the update leaves driverId out. *)
AssignStatusOnly(p) ==
    /\ At(p, "assign")
    /\ SetStatus(RideOf(p), "ACCEPTED")
    /\ Goto(p, "delQueue")
    /\ UNCHANGED <<queue, current, offers, loc, excluded, txns, restarts>>

AssignDriver(p) ==
    /\ At(p, "assign")
    /\ ride' = [ride EXCEPT ![RideOf(p)] = [status |-> "ACCEPTED", driver |-> proc[p].driver]]
    /\ Goto(p, "delQueue")
    /\ UNCHANGED <<queue, current, offers, loc, excluded, txns, restarts>>

(* clearDriverQueue *)
DeleteQueue(p) ==
    /\ At(p, "delQueue")
    /\ queue' = [queue EXCEPT ![RideOf(p)] = NoQueue]
    /\ Goto(p, "delCurrent")
    /\ UNCHANGED <<ride, current, offers, loc, excluded, txns, restarts>>

DeleteCurrent(p) ==
    /\ At(p, "delCurrent")
    /\ current' = [current EXCEPT ![RideOf(p)] = NoDriver]
    /\ Goto(p, "transact")
    /\ UNCHANGED <<ride, queue, offers, loc, excluded, txns, restarts>>

(* createRideTransaction swallows its errors. *)
CreateTransaction(p) ==
    /\ At(p, "transact")
    /\ \/ txns' = txns \cup {<<RideOf(p), proc[p].driver>>}
       \/ UNCHANGED txns
    /\ Goto(p, "busy")
    /\ UNCHANGED <<ride, queue, current, offers, loc, excluded, restarts>>

(* Mutant: the update replaces the document. *)
MarkBusyReplaces(p) ==
    /\ At(p, "busy")
    /\ loc' = [loc EXCEPT ![proc[p].driver] = [available |-> FALSE]]
    /\ Goto(p, "done")
    /\ UNCHANGED <<ride, queue, current, offers, excluded, txns, restarts>>

MarkBusy(p) ==
    /\ At(p, "busy")
    /\ loc' = [loc EXCEPT ![proc[p].driver] = BusyLoc]
    /\ Goto(p, "done")
    /\ UNCHANGED <<ride, queue, current, offers, excluded, txns, restarts>>

(* The catch: the status just read is written back, the driver made available. *)
RereadRide(p) ==
    /\ At(p, "reread")
    /\ proc' = [proc EXCEPT ![p].saw = ride[RideOf(p)].status, ![p].at = "writeBack"]
    /\ UNCHANGED <<store, restarts>>

WriteBackStatus(p) ==
    /\ At(p, "writeBack")
    /\ SetStatus(RideOf(p), proc[p].saw)
    /\ Goto(p, "readLoc")
    /\ UNCHANGED <<queue, current, offers, loc, excluded, txns, restarts>>

RereadDriver(p) ==
    /\ At(p, "readLoc")
    /\ proc' = [proc EXCEPT ![p].had = loc[proc[p].driver].status, ![p].at = "free"]
    /\ UNCHANGED <<store, restarts>>

FreeRefusedDriver(p) ==
    /\ At(p, "free")
    /\ loc' = [loc EXCEPT ![proc[p].driver] = [status |-> proc[p].had, available |-> TRUE]]
    /\ proc' = [proc EXCEPT ![p].at = "refused", ![p].had = "ONLINE"]
    /\ UNCHANGED <<ride, queue, current, offers, excluded, txns, restarts>>

-------------------------------------------------------------------------------
(* rejectRide *)

RejectRide(p, r, d) ==
    /\ Knows(d, r)
    /\ Begin(p, "reject", r, d, ride[r].status, "isCurrent")
    /\ UNCHANGED <<store, restarts>>

CheckCurrent(p) ==
    /\ At(p, "isCurrent")
    /\ Goto(p, IF current[RideOf(p)] = proc[p].driver /\ proc[p].saw = "PENDING"
                 THEN "record" ELSE "refused")
    /\ UNCHANGED <<store, restarts>>

(* rejectedBy and rejectedAt, which nothing reads, are written; then SETEX is *)
(* called with a TTL of 0, which Redis refuses: the handler fails there.      *)
RecordRejection(p) ==
    /\ At(p, "record")
    /\ Goto(p, "clear")
    /\ UNCHANGED <<store, restarts>>

ClearRejected(p) ==
    /\ At(p, "clear")
    /\ Goto(p, "done")
    /\ UNCHANGED <<store, restarts>>

-------------------------------------------------------------------------------
(* cancelRide of DriverRideService, which does not ask whose ride it is. *)

DriverCancel(p, r, d) ==
    /\ Knows(d, r)
    /\ Begin(p, "driverCancel", r, d, ride[r].status,
             IF ride[r].status \in {"COMPLETED", "CANCELLED"} THEN "refused" ELSE "markRejected")
    /\ UNCHANGED <<store, restarts>>

MarkRejected(p) ==
    /\ At(p, "markRejected")
    /\ SetStatus(RideOf(p), "REJECTED")
    /\ Goto(p, "exclude")
    /\ UNCHANGED <<queue, current, offers, loc, excluded, txns, restarts>>

TrackCancellation(p) ==
    /\ At(p, "exclude")
    /\ excluded' = IF proc[p].saw \in {"ACCEPTED", "AT_PICKUP", "HAS_PICKUP", "STARTED"}
                     THEN excluded \cup {<<proc[p].driver, PassengerOf[RideOf(p)]>>}
                     ELSE excluded
    /\ Goto(p, "release")
    /\ UNCHANGED <<ride, queue, current, offers, loc, txns, restarts>>

ReleaseDriver(p) ==
    /\ At(p, "release")
    /\ loc' = [loc EXCEPT ![proc[p].driver] = FreeLoc]
    /\ Goto(p, "delay")
    /\ UNCHANGED <<ride, queue, current, offers, excluded, txns, restarts>>

(* A second later the dispatch of the ride is resumed. *)
ResumeDispatch(p) ==
    /\ At(p, "delay")
    /\ Goto(p, IF ride[RideOf(p)].status \in {"PENDING", "REJECTED"} THEN "move" ELSE "done")
    /\ UNCHANGED <<store, restarts>>

-------------------------------------------------------------------------------
(* cancelRide of RidesService, called by the passenger.  Before a driver is   *)
(* assigned it fails on ride.driverId._id.                                     *)

PassengerCancel(p, r) ==
    /\ ride[r].status # NoRide
    /\ Begin(p, "passengerCancel", r, NoDriver, ride[r].status,
             IF ride[r].status \in {"COMPLETED", "CANCELLED"} \/ ride[r].driver = NoDriver
               THEN "refused" ELSE "markCancelled")
    /\ UNCHANGED <<store, restarts>>

MarkCancelled(p) ==
    /\ At(p, "markCancelled")
    /\ SetStatus(RideOf(p), "CANCELLED")
    /\ Goto(p, "done")
    /\ UNCHANGED <<queue, current, offers, loc, excluded, txns, restarts>>

-------------------------------------------------------------------------------
(* updateRide: PUT /rides/:id, by whoever is signed in.  A status is checked  *)
(* against the table of RidesService and written an await later; nothing      *)
(* starts or stops the dispatch, and an acceptance names the sender as driver. *)

UpdateRide(p, r, u, status) ==
    /\ ride[r].status # NoRide
    /\ \/ /\ PassengerMayMove(ride[r].status, status)
          /\ Begin(p, "update", r, IF status = "ACCEPTED" THEN u ELSE NoDriver, status,
                   "writeUpdate")
       \/ /\ ~ PassengerMayMove(ride[r].status, status)
          /\ Begin(p, "update", r, NoDriver, NoRide, "refused")
    /\ UNCHANGED <<store, restarts>>

WriteUpdate(p) ==
    /\ At(p, "writeUpdate")
    /\ ride' = [ride EXCEPT ![RideOf(p)] =
                   [status |-> proc[p].saw,
                    driver |-> IF proc[p].saw = "ACCEPTED" THEN proc[p].driver ELSE @.driver]]
    /\ Goto(p, "done")
    /\ UNCHANGED <<queue, current, offers, loc, excluded, txns, restarts>>

-------------------------------------------------------------------------------
(* The drivers' location service and gateway, and the passing of time. *)

(* driver_location_update on the socket: the driver is online and available. *)
LocationPing(d) ==
    /\ loc' = [loc EXCEPT ![d] = FreeLoc]
    /\ UNCHANGED <<ride, queue, current, offers, excluded, txns, proc, restarts>>

(* updateDriverStatus, setDriverAvailability, goOffline. *)
ReportStatus(d, l) ==
    /\ loc' = [loc EXCEPT ![d] = l]
    /\ UNCHANGED <<ride, queue, current, offers, excluded, txns, proc, restarts>>

(* The 3 minutes of a driver_cancellation key are over. *)
ExclusionExpires(d, x) ==
    /\ <<d, x>> \in excluded
    /\ excluded' = excluded \ {<<d, x>>}
    /\ UNCHANGED <<ride, queue, current, offers, loc, txns, proc, restarts>>

(* The API process restarts: handlers and timers are gone, the stores are not. *)
Restart ==
    /\ restarts < MaxRestarts
    /\ restarts' = restarts + 1
    /\ proc' = [p \in Procs |->
                  IF proc[p].at \in {"idle"} \cup EndSteps THEN proc[p]
                  ELSE [IdleProcess EXCEPT !.op = proc[p].op, !.ride = proc[p].ride,
                                           !.driver = proc[p].driver, !.at = "lost"]]
    /\ UNCHANGED store

-------------------------------------------------------------------------------
Notify(p) ==
    \/ ReadQueue(p) \/ StoreRest(p) \/ SetCurrent(p) \/ ClearCurrent(p)
    \/ CancelExhausted(p) \/ Recheck(p) \/ Validate(p) \/ Offer(p)
    \/ TimerFires(p) \/ Timeout(p)

Accepting(p) ==
    \/ CheckDriver(p) \/ AssignDriver(p) \/ DeleteQueue(p) \/ DeleteCurrent(p)
    \/ CreateTransaction(p) \/ MarkBusy(p) \/ RereadRide(p) \/ WriteBackStatus(p)
    \/ RereadDriver(p) \/ FreeRefusedDriver(p)

(* One step of a request already received, or of a timer it armed. *)
Step(p) ==
    \/ CreateRide(p) \/ FindDrivers(p) \/ StoreQueue(p) \/ GiveUp(p)
    \/ Notify(p)
    \/ Accepting(p)
    \/ CheckCurrent(p) \/ RecordRejection(p) \/ ClearRejected(p)
    \/ MarkRejected(p) \/ TrackCancellation(p) \/ ReleaseDriver(p) \/ ResumeDispatch(p)
    \/ MarkCancelled(p)
    \/ WriteUpdate(p)

PassengerRoutes(p, r) ==
    \/ BookRide(p, r)
    \/ PassengerCancel(p, r)
    \/ \E u \in Users, status \in Puts : UpdateRide(p, r, u, status)
DriverRoutes(p, r, d) == AcceptRide(p, r, d) \/ RejectRide(p, r, d) \/ DriverCancel(p, r, d)

Request(p) ==
    \E r \in Rides : PassengerRoutes(p, r) \/ \E d \in Drivers : DriverRoutes(p, r, d)

Elsewhere ==
    \/ \E d \in Drivers : LocationPing(d) \/ \E l \in LocReports : ReportStatus(d, l)
    \/ \E d \in Drivers, x \in Passengers : ExclusionExpires(d, x)

Environment == Elsewhere \/ Restart

Next == Environment \/ \E p \in Procs : Request(p) \/ Step(p)

Spec == Init /\ [][Next]_vars

(* Node's event loop runs every pending callback and every timer in the end; *)
(* nobody owes us a request.                                                  *)
FairSpec == Spec /\ \A p \in Procs : WF_vars(Step(p))

-------------------------------------------------------------------------------
(* Properties *)

TypeOK ==
    /\ ride \in [Rides -> [status : RideStatuses \cup {NoRide}, driver : MaybeHolder]]
    /\ queue \in [Rides -> Seq(Drivers) \cup {NoQueue}]
    /\ current \in [Rides -> MaybeDriver]
    /\ offers \in [Rides -> Seq(Drivers)]
    /\ loc \in [Drivers -> DriverLoc]
    /\ excluded \subseteq Drivers \X Passengers
    /\ txns \subseteq Rides \X Drivers
    /\ proc \in [Procs -> Process]
    /\ restarts \in 0..MaxRestarts

(* p is a refused accept whose catch has written a status back into ride r. *)
WroteBack(p, r) ==
    /\ proc[p].op = "accept" /\ RideOf(p) = r
    /\ proc[p].at \in {"readLoc", "free", "refused"}

(* p is a PUT that has written PENDING into ride r. *)
PutBack(p, r) ==
    /\ proc[p].op = "update" /\ RideOf(p) = r
    /\ At(p, "done") /\ proc[p].saw = "PENDING"

(* p will still move the dispatch of ride r on: it is in the chain, or its   *)
(* timer runs and will find its driver current.                              *)
Drives(p, r) ==
    /\ RideOf(p) = r
    /\ \/ proc[p].at \in (BookingSteps \cup ChainSteps) \ {"timer"}
       \/ proc[p].at = "timer" /\ current[r] = proc[p].driver

(* A pending ride is never forgotten: until a driver is found a timer or a   *)
(* handler goes on asking, whatever drivers accept, reject, cancel or        *)
(* report or PUT meanwhile -- unless the catch of a refused acceptRide or a  *)
(* PUT has written PENDING back into it, or the process restarted: these      *)
(* three leave a pending ride that nobody asks a driver for.                  *)
DispatchContinues ==
    \A r \in Rides :
       ride[r].status = "PENDING" /\ restarts = 0
       => \E p \in Procs : Drives(p, r) \/ WroteBack(p, r) \/ PutBack(p, r)

(* Nobody is asked twice for the same ride, as long as no driver cancels it: *)
(* the one chain of timers pops each driver from the Redis queue once, also  *)
(* when an acceptance deletes the queue in the middle of a pop.              *)
NoRepeatedOffer ==
    \A r \in Rides :
       (\A p \in Procs : RideOf(p) = r => proc[p].op # "driverCancel") => IsInjective(offers[r])

(* A ride under way has a driver: no stale write (the catch of acceptRide, a *)
(* PUT, an overlapping cancellation) brings such a status back without one.  *)
CurrentRideHasDriver ==
    \A r \in Rides : ride[r].status \in CurrentStatuses => ride[r].driver # NoDriver

(* The search for a driver ends: every pending ride is accepted or given up, *)
(* but for one written back to PENDING, and one the process forgot.          *)
SearchEnds ==
    \A r \in Rides :
       ride[r].status = "PENDING" ~> \/ ride[r].status # "PENDING"
                                    \/ \E p \in Procs : WroteBack(p, r) \/ PutBack(p, r)
                                    \/ restarts > 0
===============================================================================
