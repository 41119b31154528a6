---------------------------- MODULE DispatchProofs ----------------------------
(***************************************************************************)
(* Theorems about Dispatch, for every number of drivers, rides, passengers, *)
(* requests and restarts.                                                   *)
(***************************************************************************)
EXTENDS Dispatch, TLAPS, SequenceTheorems, FiniteSetTheorems

(* A search result over some of the drivers is a queue of drivers. *)
LEMMA OrdersAreQueues ==
    ASSUME NEW S \in SUBSET Drivers, NEW q \in Orders(S)
    PROVE  q \in Seq(Drivers)
<1>1. Cardinality(S) \in Nat
    BY FiniteAssumption, FS_Subset, FS_CardinalityType
<1>2. q \in [1..Cardinality(S) -> Drivers]
    BY DEF Orders
<1> QED BY <1>1, <1>2, SeqDef

(* A step of a process to another await keeps the process records typed. *)
LEMMA GotoType ==
    ASSUME TypeOK, NEW p \in Procs, NEW step \in Steps, Goto(p, step)
    PROVE  proc' \in [Procs -> Process]
BY ZenonT(60) DEF TypeOK, Process, Goto

(* What a process must have read for its next step to make sense: a request  *)
(* under way has a ride, and from the pop of the queue on it has a driver.    *)
DriverSteps == {"store", "setCurrent", "recheck", "validate", "offer", "timer", "timeout"}
               \cup AcceptSteps \cup RejectSteps \cup {"markRejected", "exclude", "release"}

ProcOK ==
    \A p \in Procs :
       /\ ~At(p, "idle") => RideOf(p) \in Rides
       /\ proc[p].at \in DriverSteps => proc[p].driver \in Drivers

TypeInv == TypeOK /\ ProcOK

-------------------------------------------------------------------------------
(* Type correctness *)

(* The record of a process that has received nothing is typed. *)
LEMMA IdleType == IdleProcess \in Process
BY DEF IdleProcess, Process, Steps, Ops, MaybeHolder, DriverStatuses

(* The empty stores and idle processes are typed. *)
LEMMA TypeInit == Init => TypeInv
<1> SUFFICES ASSUME Init PROVE TypeInv
    OBVIOUS
<1>1. IdleProcess \in Process
    BY IdleType
<1>2. TypeOK
    BY <1>1, PastAssumption, RestartAssumption
       DEF Init, TypeOK, MaybeDriver, MaybeHolder, DriverLoc, FreeLoc, DriverStatuses
<1>3. ProcOK
    BY DEF Init, ProcOK, IdleProcess, At, DriverSteps, AcceptSteps, RejectSteps
<1> QED BY <1>2, <1>3 DEF TypeInv

(* A process that only moves on to another step keeps what it has. *)
LEMMA GotoOK ==
    ASSUME TypeInv, NEW p \in Procs, NEW step \in Steps, Goto(p, step), ~At(p, "idle"),
           step \in DriverSteps => proc[p].driver \in Drivers
    PROVE  proc' \in [Procs -> Process] /\ ProcOK'
<1>1. proc' \in [Procs -> Process]
    BY GotoType DEF TypeInv
<1>2. ProcOK'
    BY DEF TypeInv, TypeOK, Process, ProcOK, Goto, At, RideOf
<1> QED BY <1>1, <1>2

(* The first read of a request leaves typed process records. *)
LEMMA BeginOK ==
    ASSUME TypeInv, NEW p \in Procs, NEW op \in Ops, NEW r \in Rides, NEW d \in MaybeHolder,
           NEW saw \in RideStatuses \cup {NoRide}, NEW step \in Steps,
           Begin(p, op, r, d, saw, step), step \in DriverSteps => d \in Drivers
    PROVE  proc' \in [Procs -> Process] /\ ProcOK'
<1> DEFINE new == [IdleProcess EXCEPT !.op = op, !.at = step, !.ride = r,
                                      !.driver = d, !.saw = saw]
<1>0. IdleProcess \in Process
    BY IdleType
<1>1. new \in Process /\ new.ride = r /\ new.driver = d /\ new.at = step
    BY <1>0 DEF Process
<1>2. proc' = [proc EXCEPT ![p] = new]
    BY DEF Begin
<1> HIDE DEF new
<1>3. proc' \in [Procs -> Process]
    BY <1>1, <1>2 DEF TypeInv, TypeOK
<1>4. ProcOK'
    BY <1>1, <1>2 DEF TypeInv, TypeOK, ProcOK, At, RideOf
<1> QED BY <1>3, <1>4

(* A process whose record becomes e. *)
LEMMA BecomesOK ==
    ASSUME TypeInv, NEW p \in Procs, NEW e \in Process, proc' = [proc EXCEPT ![p] = e],
           e.ride \in Rides, e.at \in DriverSteps => e.driver \in Drivers
    PROVE  proc' \in [Procs -> Process] /\ ProcOK'
<1>1. proc' \in [Procs -> Process]
    BY DEF TypeInv, TypeOK
<1>2. ProcOK'
    BY DEF TypeInv, TypeOK, ProcOK, At, RideOf
<1> QED BY <1>1, <1>2

(* A process that is not idle has a typed record and a ride. *)
LEMMA RecordType ==
    ASSUME TypeInv, NEW p \in Procs, ~At(p, "idle")
    PROVE  /\ proc[p] \in Process
           /\ proc[p].ride \in Rides
           /\ RideOf(p) \in Rides
           /\ proc[p].at \in DriverSteps => proc[p].driver \in Drivers
BY DEF TypeInv, TypeOK, ProcOK, RideOf

(* The part of TypeOK about the stores. *)
StoreOK ==
    /\ ride \in [Rides -> [status : RideStatuses \cup {NoRide}, driver : MaybeHolder]]
    /\ queue \in [Rides -> Seq(Drivers) \cup {NoQueue}]
    /\ current \in [Rides -> MaybeDriver]
    /\ offers \in [Rides -> Seq(Drivers)]
    /\ loc \in [Drivers -> DriverLoc]
    /\ excluded \subseteq Drivers \X Passengers
    /\ txns \subseteq Rides \X Drivers
    /\ restarts \in 0..MaxRestarts

(* The invariant is put together from the stores and the processes. *)
LEMMA TypeParts == ASSUME StoreOK', proc' \in [Procs -> Process], ProcOK' PROVE TypeInv'
BY DEF TypeInv, TypeOK, StoreOK

(* A step that writes no store leaves the stores typed. *)
LEMMA StoreKept == ASSUME TypeInv, UNCHANGED <<store, restarts>> PROVE StoreOK'
BY DEF TypeInv, TypeOK, StoreOK, store

-------------------------------------------------------------------------------
(* The booking's own steps, up to the queue. *)
LEMMA BookingType ==
    ASSUME TypeInv, NEW p \in Procs, CreateRide(p) \/ FindDrivers(p) \/ StoreQueue(p) \/ GiveUp(p)
    PROVE  TypeInv'
<1>1. CASE CreateRide(p)
  <2>1. StoreOK'
    BY <1>1 DEF CreateRide, TypeInv, TypeOK, StoreOK, SetStatus, RideStatuses
  <2>2. proc' \in [Procs -> Process] /\ ProcOK'
    BY <1>1, GotoOK DEF CreateRide, ProcOK, TypeInv, At, DriverSteps, Steps, BookingSteps,
                        ChainSteps, AcceptSteps, RejectSteps, CancelSteps, EndSteps
  <2> QED BY <2>1, <2>2, TypeParts
<1>2. CASE FindDrivers(p)
  <2>1. PICK near \in SUBSET Drivers :
           proc' = [proc EXCEPT ![p].near = near,
                                ![p].at = IF near = {} THEN "giveUp" ELSE "filter"]
    BY <1>2 DEF FindDrivers
  <2> DEFINE e == [proc[p] EXCEPT !.near = near, !.at = IF near = {} THEN "giveUp" ELSE "filter"]
  <2>a. proc[p] \in Process /\ proc[p].ride \in Rides
    BY <1>2, RecordType DEF FindDrivers, At
  <2>2. e \in Process /\ e.ride \in Rides /\ e.at \in {"giveUp", "filter"}
    BY ZenonT(60), <2>a DEF Process, Steps, BookingSteps, ChainSteps, AcceptSteps, RejectSteps, CancelSteps,
                EndSteps
  <2>3. proc' = [proc EXCEPT ![p] = e]
    BY <2>1
  <2> HIDE DEF e
  <2>4. proc' \in [Procs -> Process] /\ ProcOK'
    BY <2>2, <2>3, BecomesOK DEF DriverSteps, Steps, BookingSteps, ChainSteps, AcceptSteps,
                                 RejectSteps, CancelSteps, EndSteps
  <2> QED BY <1>2, <2>4, StoreKept, TypeParts DEF FindDrivers
<1>3. CASE StoreQueue(p)
  <2> DEFINE r == RideOf(p)
             eligible == {d \in proc[p].near : <<d, PassengerOf[r]>> \notin excluded}
  <2>1. eligible \in SUBSET Drivers
    BY DEF TypeInv, TypeOK, Process
  <2>2. StoreOK'
    <3>1. CASE UNCHANGED queue
      BY <1>3, <3>1 DEF StoreQueue, TypeInv, TypeOK, StoreOK
    <3>2. CASE \E q \in Orders(eligible) : queue' = [queue EXCEPT ![r] = q]
      BY <1>3, <2>1, <3>2, OrdersAreQueues DEF StoreQueue, TypeInv, TypeOK, StoreOK
    <3> QED BY <1>3, <3>1, <3>2 DEF StoreQueue
  <2>3. PICK step \in {"move", "giveUp"} : proc' = [proc EXCEPT ![p].near = {}, ![p].at = step]
    BY <1>3 DEF StoreQueue
  <2> DEFINE e == [proc[p] EXCEPT !.near = {}, !.at = step]
  <2>a. proc[p] \in Process /\ proc[p].ride \in Rides
    BY <1>3, RecordType DEF StoreQueue, At
  <2>4. e \in Process /\ e.ride \in Rides /\ e.at \in {"move", "giveUp"}
    BY <2>a DEF Process, Steps, BookingSteps, ChainSteps, AcceptSteps, RejectSteps, CancelSteps,
                EndSteps
  <2>5. proc' = [proc EXCEPT ![p] = e]
    BY <2>3
  <2> HIDE DEF e
  <2>6. proc' \in [Procs -> Process] /\ ProcOK'
    BY <2>4, <2>5, BecomesOK DEF DriverSteps, Steps, BookingSteps, ChainSteps, AcceptSteps,
                                 RejectSteps, CancelSteps, EndSteps
  <2> QED BY <2>2, <2>6, TypeParts
<1>4. CASE GiveUp(p)
  <2>1. StoreOK'
    BY <1>4 DEF GiveUp, TypeInv, TypeOK, StoreOK, SetStatus, RideStatuses
  <2>2. proc' \in [Procs -> Process] /\ ProcOK'
    BY <1>4, GotoOK DEF GiveUp, ProcOK, TypeInv, At, DriverSteps, Steps, BookingSteps,
                        ChainSteps, AcceptSteps, RejectSteps, CancelSteps, EndSteps
  <2> QED BY <2>1, <2>2, TypeParts
<1> QED BY <1>1, <1>2, <1>3, <1>4 DEF TypeInv

(* The chain of notifyNextDriver. *)
LEMMA NotifyType ==
    ASSUME TypeInv, NEW p \in Procs, Notify(p)
    PROVE  TypeInv'
<1>1. CASE ReadQueue(p)
  <2> DEFINE q == queue[RideOf(p)]
  <2>0. q \in Seq(Drivers) \cup {NoQueue}
    BY <1>1 DEF ReadQueue, TypeInv, TypeOK, ProcOK, At
  <2>1. CASE q \in {NoQueue, <<>>}
    BY <1>1, <2>1, GotoOK, StoreKept, TypeParts
       DEF ReadQueue, At, DriverSteps, Steps, BookingSteps, ChainSteps, AcceptSteps, RejectSteps,
           CancelSteps, EndSteps
  <2>2. CASE q \notin {NoQueue, <<>>}
    <3>1. Head(q) \in Drivers /\ Tail(q) \in Seq(Drivers)
      BY <2>0, <2>2, HeadTailProperties
    <3> DEFINE e == [proc[p] EXCEPT !.at = "store", !.driver = Head(q), !.rest = Tail(q)]
    <3>a. proc[p] \in Process /\ proc[p].ride \in Rides
      BY <1>1, RecordType DEF ReadQueue, At
    <3>2. e \in Process /\ e.ride \in Rides /\ e.driver \in Drivers
      BY <3>a, <3>1 DEF Process, MaybeHolder, Users, Steps, BookingSteps, ChainSteps, AcceptSteps,
                        RejectSteps, CancelSteps, EndSteps
    <3>3. proc' = [proc EXCEPT ![p] = e]
      BY <1>1, <2>2 DEF ReadQueue
    <3> HIDE DEF e
    <3>4. proc' \in [Procs -> Process] /\ ProcOK'
      BY <3>2, <3>3, BecomesOK
    <3> QED BY <1>1, <3>4, StoreKept, TypeParts DEF ReadQueue
  <2> QED BY <2>1, <2>2
<1>2. CASE StoreRest(p)
  <2>1. StoreOK'
    BY <1>2 DEF StoreRest, TypeInv, TypeOK, StoreOK, Process
  <2> DEFINE e == [proc[p] EXCEPT !.at = "setCurrent", !.rest = <<>>]
  <2>a. proc[p] \in Process /\ proc[p].ride \in Rides /\ proc[p].driver \in Drivers
    BY <1>2, RecordType DEF StoreRest, At, DriverSteps, AcceptSteps
  <2>b. <<>> \in Seq(Drivers)
    OBVIOUS
  <2>2. e \in Process /\ e.ride \in Rides /\ e.driver \in Drivers
    BY <2>a, <2>b DEF Process, Steps, BookingSteps, ChainSteps, AcceptSteps, RejectSteps,
                      CancelSteps, EndSteps
  <2>3. proc' = [proc EXCEPT ![p] = e]
    BY <1>2 DEF StoreRest
  <2> HIDE DEF e
  <2>4. proc' \in [Procs -> Process] /\ ProcOK'
    BY <2>2, <2>3, BecomesOK
  <2> QED BY <2>1, <2>4, TypeParts
<1>3. CASE SetCurrent(p)
  <2>1. StoreOK'
    BY <1>3, RecordType DEF SetCurrent, TypeInv, TypeOK, StoreOK, At, DriverSteps, MaybeDriver
  <2>2. proc' \in [Procs -> Process] /\ ProcOK'
    BY <1>3, GotoOK DEF SetCurrent, ProcOK, TypeInv, At, DriverSteps, Steps, BookingSteps,
                        ChainSteps, AcceptSteps, RejectSteps, CancelSteps, EndSteps
  <2> QED BY <2>1, <2>2, TypeParts
<1>4. CASE ClearCurrent(p)
  <2>1. StoreOK'
    BY <1>4 DEF ClearCurrent, TypeInv, TypeOK, StoreOK, MaybeDriver
  <2>2. proc' \in [Procs -> Process] /\ ProcOK'
    BY <1>4, GotoOK DEF ClearCurrent, ProcOK, TypeInv, At, DriverSteps, Steps, BookingSteps,
                        ChainSteps, AcceptSteps, RejectSteps, CancelSteps, EndSteps
  <2> QED BY <2>1, <2>2, TypeParts
<1>5. CASE CancelExhausted(p)
  <2>1. StoreOK'
    BY <1>5 DEF CancelExhausted, TypeInv, TypeOK, StoreOK, SetStatus, RideStatuses
  <2>2. proc' \in [Procs -> Process] /\ ProcOK'
    BY <1>5, GotoOK DEF CancelExhausted, ProcOK, TypeInv, At, DriverSteps, Steps, BookingSteps,
                        ChainSteps, AcceptSteps, RejectSteps, CancelSteps, EndSteps
  <2> QED BY <2>1, <2>2, TypeParts
<1>6. CASE Recheck(p)
    BY <1>6, GotoOK, StoreKept, TypeParts
       DEF Recheck, At, DriverSteps, Steps, BookingSteps, ChainSteps, AcceptSteps, RejectSteps,
           CancelSteps, EndSteps, ProcOK, TypeInv
<1>7. CASE Validate(p)
    BY <1>7, GotoOK, StoreKept, TypeParts
       DEF Validate, At, DriverSteps, Steps, BookingSteps, ChainSteps, AcceptSteps, RejectSteps,
           CancelSteps, EndSteps, ProcOK, TypeInv
<1>8. CASE Offer(p)
  <2>1. proc[p].driver \in Drivers /\ RideOf(p) \in Rides
    BY <1>8 DEF Offer, TypeInv, ProcOK, At, DriverSteps
  <2>2. StoreOK'
    BY <1>8, <2>1, AppendProperties DEF Offer, TypeInv, TypeOK, StoreOK, MaybeDriver
  <2>3. proc' \in [Procs -> Process] /\ ProcOK'
    BY <1>8, <2>1, GotoOK DEF Offer, At, Steps, BookingSteps, ChainSteps, AcceptSteps,
                              RejectSteps, CancelSteps, EndSteps
  <2> QED BY <2>2, <2>3, TypeParts
<1>9. CASE TimerFires(p)
    BY <1>9, GotoOK, StoreKept, TypeParts
       DEF TimerFires, At, DriverSteps, Steps, BookingSteps, ChainSteps, AcceptSteps,
           RejectSteps, CancelSteps, EndSteps, ProcOK, TypeInv
<1>10. CASE Timeout(p)
    BY <1>10, GotoOK, StoreKept, TypeParts
       DEF Timeout, At, DriverSteps, Steps, BookingSteps, ChainSteps, AcceptSteps, RejectSteps,
           CancelSteps, EndSteps
<1> QED BY <1>1, <1>2, <1>3, <1>4, <1>5, <1>6, <1>7, <1>8, <1>9, <1>10 DEF Notify

(* acceptRide after its first read. *)
LEMMA AcceptType ==
    ASSUME TypeInv, NEW p \in Procs, Accepting(p)
    PROVE  TypeInv'
<1>1. CASE CheckDriver(p)
    BY <1>1, GotoOK, StoreKept, TypeParts
       DEF CheckDriver, At, DriverSteps, Steps, BookingSteps, ChainSteps, AcceptSteps,
           RejectSteps, CancelSteps, EndSteps, ProcOK, TypeInv
<1>2. CASE AssignDriver(p)
  <2>1. StoreOK'
    BY <1>2 DEF AssignDriver, TypeInv, TypeOK, StoreOK, ProcOK, At, DriverSteps, AcceptSteps,
                MaybeHolder, Users, RideStatuses
  <2>2. proc' \in [Procs -> Process] /\ ProcOK'
    BY <1>2, GotoOK DEF AssignDriver, ProcOK, TypeInv, At, DriverSteps, Steps, BookingSteps,
                        ChainSteps, AcceptSteps, RejectSteps, CancelSteps, EndSteps
  <2> QED BY <2>1, <2>2, TypeParts
<1>3. CASE DeleteQueue(p)
  <2>1. StoreOK'
    BY <1>3 DEF DeleteQueue, TypeInv, TypeOK, StoreOK
  <2>2. proc' \in [Procs -> Process] /\ ProcOK'
    BY <1>3, GotoOK DEF DeleteQueue, ProcOK, TypeInv, At, DriverSteps, Steps, BookingSteps,
                        ChainSteps, AcceptSteps, RejectSteps, CancelSteps, EndSteps
  <2> QED BY <2>1, <2>2, TypeParts
<1>4. CASE DeleteCurrent(p)
  <2>1. StoreOK'
    BY <1>4 DEF DeleteCurrent, TypeInv, TypeOK, StoreOK, MaybeDriver
  <2>2. proc' \in [Procs -> Process] /\ ProcOK'
    BY <1>4, GotoOK DEF DeleteCurrent, ProcOK, TypeInv, At, DriverSteps, Steps, BookingSteps,
                        ChainSteps, AcceptSteps, RejectSteps, CancelSteps, EndSteps
  <2> QED BY <2>1, <2>2, TypeParts
<1>5. CASE CreateTransaction(p)
  <2>1. <<RideOf(p), proc[p].driver>> \in Rides \X Drivers
    BY <1>5, RecordType DEF CreateTransaction, At, DriverSteps, AcceptSteps
  <2>2. txns' \subseteq Rides \X Drivers
    BY <1>5, <2>1 DEF CreateTransaction, TypeInv, TypeOK
  <2>3. StoreOK'
    BY <1>5, <2>2 DEF CreateTransaction, TypeInv, TypeOK, StoreOK
  <2>4. proc' \in [Procs -> Process] /\ ProcOK'
    BY <1>5, GotoOK DEF CreateTransaction, ProcOK, TypeInv, At, DriverSteps, Steps, BookingSteps,
                        ChainSteps, AcceptSteps, RejectSteps, CancelSteps, EndSteps
  <2> QED BY <2>3, <2>4, TypeParts
<1>6. CASE MarkBusy(p)
  <2>1. StoreOK'
    BY <1>6 DEF MarkBusy, TypeInv, TypeOK, StoreOK, BusyLoc, DriverLoc, DriverStatuses
  <2>2. proc' \in [Procs -> Process] /\ ProcOK'
    BY <1>6, GotoOK DEF MarkBusy, ProcOK, TypeInv, At, DriverSteps, Steps, BookingSteps,
                        ChainSteps, AcceptSteps, RejectSteps, CancelSteps, EndSteps
  <2> QED BY <2>1, <2>2, TypeParts
<1>7. CASE RereadRide(p)
  <2>1. ride[RideOf(p)].status \in RideStatuses \cup {NoRide}
    BY <1>7, RecordType DEF RereadRide, At, TypeInv, TypeOK
  <2> DEFINE e == [proc[p] EXCEPT !.saw = ride[RideOf(p)].status, !.at = "writeBack"]
  <2>a. proc[p] \in Process /\ proc[p].ride \in Rides /\ proc[p].driver \in Drivers
    BY <1>7, RecordType DEF RereadRide, At, DriverSteps, AcceptSteps
  <2>2. e \in Process /\ e.ride \in Rides /\ e.driver \in Drivers
    BY <2>a, <2>1 DEF Process, Steps, BookingSteps, ChainSteps, AcceptSteps, RejectSteps,
                      CancelSteps, EndSteps
  <2>3. proc' = [proc EXCEPT ![p] = e]
    BY <1>7 DEF RereadRide
  <2> HIDE DEF e
  <2>4. proc' \in [Procs -> Process] /\ ProcOK'
    BY <2>2, <2>3, BecomesOK
  <2> QED BY <1>7, <2>4, StoreKept, TypeParts DEF RereadRide
<1>8. CASE WriteBackStatus(p)
  <2>1. StoreOK'
    BY <1>8 DEF WriteBackStatus, TypeInv, TypeOK, StoreOK, SetStatus, Process
  <2>2. proc' \in [Procs -> Process] /\ ProcOK'
    BY <1>8, GotoOK DEF WriteBackStatus, ProcOK, TypeInv, At, DriverSteps, Steps, BookingSteps,
                        ChainSteps, AcceptSteps, RejectSteps, CancelSteps, EndSteps
  <2> QED BY <2>1, <2>2, TypeParts
<1>9. CASE RereadDriver(p)
  <2>1. loc[proc[p].driver].status \in DriverStatuses
    BY <1>9, RecordType DEF RereadDriver, At, TypeInv, TypeOK, DriverLoc, DriverSteps, AcceptSteps
  <2> DEFINE e == [proc[p] EXCEPT !.had = loc[proc[p].driver].status, !.at = "free"]
  <2>a. proc[p] \in Process /\ proc[p].ride \in Rides /\ proc[p].driver \in Drivers
    BY <1>9, RecordType DEF RereadDriver, At, DriverSteps, AcceptSteps
  <2>2. e \in Process /\ e.ride \in Rides /\ e.driver \in Drivers
    BY <2>a, <2>1 DEF Process, Steps, BookingSteps, ChainSteps, AcceptSteps, RejectSteps,
                      CancelSteps, EndSteps
  <2>3. proc' = [proc EXCEPT ![p] = e]
    BY <1>9 DEF RereadDriver
  <2> HIDE DEF e
  <2>4. proc' \in [Procs -> Process] /\ ProcOK'
    BY <2>2, <2>3, BecomesOK
  <2> QED BY <1>9, <2>4, StoreKept, TypeParts DEF RereadDriver
<1>10. CASE FreeRefusedDriver(p)
  <2>1. StoreOK'
    BY <1>10 DEF FreeRefusedDriver, TypeInv, TypeOK, StoreOK, Process, DriverLoc
  <2> DEFINE e == [proc[p] EXCEPT !.at = "refused", !.had = "ONLINE"]
  <2>a. proc[p] \in Process /\ proc[p].ride \in Rides /\ proc[p].driver \in Drivers
    BY <1>10, RecordType DEF FreeRefusedDriver, At, DriverSteps, AcceptSteps
  <2>2. e \in Process /\ e.ride \in Rides /\ e.driver \in Drivers
    BY <2>a DEF Process, DriverStatuses, Steps, BookingSteps, ChainSteps, AcceptSteps,
                RejectSteps, CancelSteps, EndSteps
  <2>3. proc' = [proc EXCEPT ![p] = e]
    BY <1>10 DEF FreeRefusedDriver
  <2> HIDE DEF e
  <2>4. proc' \in [Procs -> Process] /\ ProcOK'
    BY <2>2, <2>3, BecomesOK
  <2> QED BY <2>1, <2>4, TypeParts
<1> QED BY <1>1, <1>2, <1>3, <1>4, <1>5, <1>6, <1>7, <1>8, <1>9, <1>10 DEF Accepting

(* rejectRide after its first read. *)
LEMMA RejectType ==
    ASSUME TypeInv, NEW p \in Procs, CheckCurrent(p) \/ RecordRejection(p) \/ ClearRejected(p)
    PROVE  TypeInv'
<1>1. CASE CheckCurrent(p)
    BY <1>1, GotoOK, StoreKept, TypeParts
       DEF CheckCurrent, At, DriverSteps, Steps, BookingSteps, ChainSteps, AcceptSteps,
           RejectSteps, CancelSteps, EndSteps, ProcOK, TypeInv
<1>2. CASE RecordRejection(p)
    BY <1>2, GotoOK, StoreKept, TypeParts
       DEF RecordRejection, At, DriverSteps, Steps, BookingSteps, ChainSteps, AcceptSteps,
           RejectSteps, CancelSteps, EndSteps, ProcOK, TypeInv
<1>3. CASE ClearRejected(p)
    BY <1>3, GotoOK, StoreKept, TypeParts
       DEF ClearRejected, At, DriverSteps, Steps, BookingSteps, ChainSteps, AcceptSteps,
           RejectSteps, CancelSteps, EndSteps, ProcOK, TypeInv
<1> QED BY <1>1, <1>2, <1>3 DEF TypeInv

(* The write of a PUT. *)
LEMMA UpdateType ==
    ASSUME TypeInv, NEW p \in Procs, WriteUpdate(p)
    PROVE  TypeInv'
<1>1. /\ proc[p] \in Process /\ RideOf(p) \in Rides /\ proc[p].at = "writeUpdate"
      /\ proc[p].driver \in MaybeHolder /\ proc[p].saw \in RideStatuses \cup {NoRide}
    BY RecordType DEF WriteUpdate, At, Process
<1>2. StoreOK'
    BY <1>1 DEF WriteUpdate, TypeInv, TypeOK, StoreOK
<1>3. proc' \in [Procs -> Process] /\ ProcOK'
    BY <1>1, GotoOK DEF WriteUpdate, At, DriverSteps, Steps, AcceptSteps, RejectSteps, EndSteps
<1> QED BY <1>2, <1>3, TypeParts

(* The two cancelRide handlers after their first read. *)
LEMMA CancelType ==
    ASSUME TypeInv, NEW p \in Procs, \/ MarkRejected(p) \/ TrackCancellation(p) \/ ReleaseDriver(p)
           \/ ResumeDispatch(p) \/ MarkCancelled(p)
    PROVE  TypeInv'
<1>1. CASE MarkRejected(p)
  <2>1. StoreOK'
    BY <1>1 DEF MarkRejected, TypeInv, TypeOK, StoreOK, SetStatus, RideStatuses
  <2>2. proc' \in [Procs -> Process] /\ ProcOK'
    BY <1>1, GotoOK DEF MarkRejected, ProcOK, TypeInv, At, DriverSteps, Steps, BookingSteps,
                        ChainSteps, AcceptSteps, RejectSteps, CancelSteps, EndSteps
  <2> QED BY <2>1, <2>2, TypeParts
<1>2. CASE TrackCancellation(p)
  <2>1. <<proc[p].driver, PassengerOf[RideOf(p)]>> \in Drivers \X Passengers
    BY <1>2, RecordType, PassengerAssumption DEF TrackCancellation, At, DriverSteps
  <2>2. excluded' \subseteq Drivers \X Passengers
    BY <1>2, <2>1 DEF TrackCancellation, TypeInv, TypeOK
  <2>3. StoreOK'
    BY <1>2, <2>2 DEF TrackCancellation, TypeInv, TypeOK, StoreOK
  <2>4. proc' \in [Procs -> Process] /\ ProcOK'
    BY <1>2, GotoOK DEF TrackCancellation, ProcOK, TypeInv, At, DriverSteps, Steps, BookingSteps,
                        ChainSteps, AcceptSteps, RejectSteps, CancelSteps, EndSteps
  <2> QED BY <2>3, <2>4, TypeParts
<1>3. CASE ReleaseDriver(p)
  <2>1. StoreOK'
    BY <1>3 DEF ReleaseDriver, TypeInv, TypeOK, StoreOK, FreeLoc, DriverLoc, DriverStatuses
  <2>2. proc' \in [Procs -> Process] /\ ProcOK'
    BY <1>3, GotoOK DEF ReleaseDriver, ProcOK, TypeInv, At, DriverSteps, Steps, BookingSteps,
                        ChainSteps, AcceptSteps, RejectSteps, CancelSteps, EndSteps
  <2> QED BY <2>1, <2>2, TypeParts
<1>4. CASE ResumeDispatch(p)
    BY <1>4, GotoOK, StoreKept, TypeParts
       DEF ResumeDispatch, At, DriverSteps, Steps, BookingSteps, ChainSteps, AcceptSteps,
           RejectSteps, CancelSteps, EndSteps
<1>5. CASE MarkCancelled(p)
  <2>1. StoreOK'
    BY <1>5 DEF MarkCancelled, TypeInv, TypeOK, StoreOK, SetStatus, RideStatuses
  <2>2. proc' \in [Procs -> Process] /\ ProcOK'
    BY <1>5, GotoOK DEF MarkCancelled, ProcOK, TypeInv, At, DriverSteps, Steps, BookingSteps,
                        ChainSteps, AcceptSteps, RejectSteps, CancelSteps, EndSteps
  <2> QED BY <2>1, <2>2, TypeParts
<1> QED BY <1>1, <1>2, <1>3, <1>4, <1>5 DEF TypeInv

(* The first read of a request. *)
LEMMA RequestType ==
    ASSUME TypeInv, NEW p \in Procs, Request(p)
    PROVE  TypeInv'
<1>1. PICK r \in Rides :
         \/ BookRide(p, r)
         \/ PassengerCancel(p, r)
         \/ \E u \in Users, status \in Puts : UpdateRide(p, r, u, status)
         \/ \E d \in Drivers : AcceptRide(p, r, d) \/ RejectRide(p, r, d) \/ DriverCancel(p, r, d)
    BY DEF Request, PassengerRoutes, DriverRoutes
<1>2. ride[r].status \in RideStatuses \cup {NoRide} /\ NoDriver \in MaybeHolder
    BY DEF TypeInv, TypeOK, MaybeHolder
<1>3. CASE BookRide(p, r)
    BY <1>2, <1>3, BeginOK, StoreKept, TypeParts
       DEF BookRide, Ops, DriverSteps, Steps, BookingSteps, ChainSteps, AcceptSteps, RejectSteps,
           CancelSteps, EndSteps
<1>4. CASE PassengerCancel(p, r)
    BY <1>2, <1>4, BeginOK, StoreKept, TypeParts
       DEF PassengerCancel, Ops, DriverSteps, Steps, BookingSteps, ChainSteps, AcceptSteps,
           RejectSteps, CancelSteps, EndSteps
<1>5. CASE \E d \in Drivers : AcceptRide(p, r, d) \/ RejectRide(p, r, d) \/ DriverCancel(p, r, d)
  <2>1. PICK d \in Drivers : AcceptRide(p, r, d) \/ RejectRide(p, r, d) \/ DriverCancel(p, r, d)
    BY <1>5
  <2>2. d \in MaybeHolder
    BY DEF MaybeHolder, Users
  <2>3. CASE AcceptRide(p, r, d)
    BY <1>2, <2>2, <2>3, BeginOK, StoreKept, TypeParts
       DEF AcceptRide, Ops, Steps, BookingSteps, ChainSteps, AcceptSteps, RejectSteps,
           CancelSteps, EndSteps
  <2>4. CASE RejectRide(p, r, d)
    BY <1>2, <2>2, <2>4, BeginOK, StoreKept, TypeParts
       DEF RejectRide, Ops, Steps, BookingSteps, ChainSteps, AcceptSteps, RejectSteps,
           CancelSteps, EndSteps
  <2>5. CASE DriverCancel(p, r, d)
    BY <1>2, <2>2, <2>5, BeginOK, StoreKept, TypeParts
       DEF DriverCancel, Ops, Steps, BookingSteps, ChainSteps, AcceptSteps, RejectSteps,
           CancelSteps, EndSteps
  <2> QED BY <2>1, <2>3, <2>4, <2>5
<1>6. CASE \E u \in Users, status \in Puts : UpdateRide(p, r, u, status)
  <2>1. PICK u \in Users, status \in Puts : UpdateRide(p, r, u, status)
    BY <1>6
  <2>2. PICK d \in MaybeHolder, saw \in RideStatuses \cup {NoRide}, step \in {"writeUpdate", "refused"} :
           /\ Begin(p, "update", r, d, saw, step)
           /\ step = "writeUpdate" => saw \in RideStatuses /\ (saw = "ACCEPTED" => d \in Users)
    BY <2>1, PutAssumption DEF UpdateRide, MaybeHolder
  <2>3. "update" \in Ops /\ step \in Steps /\ step \notin DriverSteps
    BY DEF Ops, DriverSteps, Steps, AcceptSteps, RejectSteps, UpdateSteps, EndSteps
  <2>4. proc' \in [Procs -> Process] /\ ProcOK'
    BY <2>2, <2>3, BeginOK
  <2> QED BY <2>1, <2>4, StoreKept, TypeParts DEF UpdateRide
<1> QED BY <1>1, <1>3, <1>4, <1>5, <1>6

(* Location reports, expiring exclusions and a restart keep the types. *)
LEMMA EnvironmentType ==
    ASSUME TypeInv, Environment
    PROVE  TypeInv'
<1>1. CASE \E d \in Drivers : LocationPing(d)
    BY <1>1, LocAssumption
       DEF LocationPing, TypeInv, TypeOK, ProcOK, At, RideOf, FreeLoc, DriverLoc, DriverStatuses
<1>2. CASE \E d \in Drivers : \E l \in LocReports : ReportStatus(d, l)
    BY <1>2, LocAssumption DEF ReportStatus, TypeInv, TypeOK, ProcOK, At, RideOf
<1>3. CASE \E d \in Drivers, x \in Passengers : ExclusionExpires(d, x)
    BY <1>3 DEF ExclusionExpires, TypeInv, TypeOK, ProcOK, At, RideOf
<1>4. CASE Restart
  <2> DEFINE lost(p) == [IdleProcess EXCEPT !.op = proc[p].op, !.ride = proc[p].ride,
                                            !.driver = proc[p].driver, !.at = "lost"]
  <2>1. \A p \in Procs : /\ lost(p) \in Process /\ lost(p).at = "lost"
                         /\ lost(p).ride = proc[p].ride
    BY IdleType DEF TypeInv, TypeOK, Process, Steps, BookingSteps, ChainSteps, AcceptSteps,
                    RejectSteps, CancelSteps, EndSteps
  <2>2. \A p \in Procs : /\ proc'[p] \in {proc[p], lost(p)}
                         /\ proc[p].at = "idle" => proc'[p] = proc[p]
    BY <1>4 DEF Restart
  <2> HIDE DEF lost
  <2>3. proc' = [p \in Procs |-> proc'[p]]
    BY <1>4 DEF Restart
  <2>4. proc' \in [Procs -> Process]
    BY <2>1, <2>2, <2>3 DEF TypeInv, TypeOK
  <2>5. ProcOK'
    BY <2>1, <2>2 DEF TypeInv, ProcOK, At, RideOf, DriverSteps, Steps, BookingSteps, ChainSteps,
                      AcceptSteps, RejectSteps, CancelSteps, EndSteps
  <2>6. restarts' \in 0..MaxRestarts
    <3>1. restarts \in 0..MaxRestarts /\ restarts < MaxRestarts /\ restarts' = restarts + 1
      BY <1>4 DEF Restart, TypeInv, TypeOK
    <3> QED BY <3>1, RestartAssumption
  <2>7. StoreOK'
    BY <1>4, <2>6 DEF Restart, TypeInv, TypeOK, StoreOK, store
  <2> QED BY <2>4, <2>5, <2>7, TypeParts
<1> QED BY <1>1, <1>2, <1>3, <1>4 DEF Environment, Elsewhere

(* Every step keeps the types. *)
LEMMA TypeStep == TypeInv /\ [Next]_vars => TypeInv'
<1> SUFFICES ASSUME TypeInv, [Next]_vars PROVE TypeInv'
    OBVIOUS
<1>1. CASE Environment
    BY <1>1, EnvironmentType
<1>2. CASE \E p \in Procs : Request(p) \/ Step(p)
    BY <1>2, RequestType, BookingType, NotifyType, AcceptType, RejectType, CancelType,
             UpdateType DEF Step
<1>3. CASE UNCHANGED vars
    BY <1>3 DEF vars, store, TypeInv, TypeOK, ProcOK, At, RideOf
<1> QED BY <1>1, <1>2, <1>3 DEF Next

(* Every reachable state is typed: every document and key, and what each     *)
(* request has read.                                                          *)
THEOREM TypeInvariance == Spec => []TypeInv
BY TypeInit, TypeStep, PTL DEF Spec

(* The stores and the requests keep their types, for any set of requests.    *)
THEOREM TypeCorrect == Spec => []TypeOK
<1>1. TypeInv => TypeOK
    BY DEF TypeInv
<1> QED BY <1>1, TypeInvariance, PTL

-------------------------------------------------------------------------------
(* A ride under way has a driver *)

(* A PUT is about to make its sender the driver. *)
Accepts(e) == e.at = "writeUpdate" /\ e.saw = "ACCEPTED"

(* The status acceptRide's catch or a PUT is about to write was read from or *)
(* allowed for a ride that has a driver already, if it is one of a ride under *)
(* way; a PUT that accepts brings one.                                        *)
SeenWithDriver ==
    \A p \in Procs :
       /\ Accepts(proc[p]) => proc[p].driver # NoDriver
       /\ /\ proc[p].at \in {"writeBack", "writeUpdate"} /\ ~ Accepts(proc[p])
          /\ proc[p].saw \in CurrentStatuses
          => ride[RideOf(p)].driver # NoDriver

DriverInv == TypeInv /\ CurrentRideHasDriver /\ SeenWithDriver

(* What the shared steps of the handlers leave. *)
LEMMA StatusWritten ==
    ASSUME TypeInv, NEW r, NEW s, SetStatus(r, s), NEW q \in Rides
    PROVE  /\ ride'[q].driver = ride[q].driver
           /\ q = r => ride'[q].status = s
           /\ q # r => ride'[q] = ride[q]
<1>1. ride \in [Rides -> [status : RideStatuses \cup {NoRide}, driver : MaybeHolder]]
    BY DEF TypeInv, TypeOK
<1> QED BY <1>1 DEF SetStatus

(* A step to another await changes nothing else of the processes. *)
LEMMA GotoWritten ==
    ASSUME TypeInv, NEW p \in Procs, NEW step, Goto(p, step)
    PROVE  /\ proc'[p].at = step
           /\ proc'[p].op = proc[p].op
           /\ RideOf(p)' = RideOf(p)
           /\ proc'[p].driver = proc[p].driver
           /\ proc'[p].saw = proc[p].saw
           /\ \A q \in Procs : q # p => proc'[q] = proc[q]
<1>1. proc \in [Procs -> Process]
    BY DEF TypeInv, TypeOK
<1> QED BY <1>1 DEF Goto, Process, RideOf

(* What the first read of a request leaves in the processes. *)
LEMMA BeginWritten ==
    ASSUME TypeInv, NEW p \in Procs, NEW op, NEW r, NEW d, NEW saw, NEW step,
           Begin(p, op, r, d, saw, step)
    PROVE  /\ At(p, "idle")
           /\ proc'[p].at = step
           /\ proc'[p].op = op
           /\ RideOf(p)' = r
           /\ proc'[p].driver = d
           /\ proc'[p].saw = saw
           /\ \A q \in Procs : q # p => proc'[q] = proc[q]
<1> DEFINE new == [IdleProcess EXCEPT !.op = op, !.at = step, !.ride = r,
                                      !.driver = d, !.saw = saw]
<1>1. new.at = step /\ new.op = op /\ new.ride = r /\ new.driver = d /\ new.saw = saw
    BY DEF IdleProcess
<1>2. proc' = [proc EXCEPT ![p] = new]
    BY DEF Begin
<1> HIDE DEF new
<1>3. proc'[p] = new /\ \A q \in Procs : q # p => proc'[q] = proc[q]
    BY <1>2 DEF TypeInv, TypeOK
<1> QED BY <1>1, <1>3 DEF RideOf, Begin

(* A step stays about its ride and reaches acceptRide's steps only from them, *)
(* and the write of a PUT never.                                              *)
LEMMA StepAbout ==
    ASSUME TypeInv, NEW p \in Procs, Step(p)
    PROVE  /\ ~At(p, "idle") /\ proc'[p].at \notin {"idle", "create", "writeUpdate"}
           /\ RideOf(p)' = RideOf(p)
           /\ proc'[p].op = proc[p].op
           /\ restarts' = restarts
           /\ proc'[p].at \in AcceptSteps => proc[p].at \in AcceptSteps
<1>0. proc \in [Procs -> Process]
    BY DEF TypeInv, TypeOK
<1>1. CASE CreateRide(p) \/ GiveUp(p)
    BY <1>1, GotoWritten DEF CreateRide, GiveUp, At, AcceptSteps
<1>2a. CASE FindDrivers(p)
    BY <1>0, <1>2a DEF FindDrivers, Process, RideOf, At, AcceptSteps, store
<1>2b. CASE StoreQueue(p)
    BY <1>0, <1>2b DEF StoreQueue, Process, RideOf, At, AcceptSteps, store
<1>2. CASE Notify(p)
    BY <1>0, <1>2, GotoWritten
       DEF Notify, ReadQueue, StoreRest, SetCurrent, ClearCurrent, CancelExhausted, Recheck,
           Validate, Offer, TimerFires, Timeout, Process, RideOf, At, AcceptSteps, store
<1>3. CASE Accepting(p)
    BY <1>0, <1>3, GotoWritten
       DEF Accepting, CheckDriver, AssignDriver, DeleteQueue, DeleteCurrent, CreateTransaction,
           MarkBusy, RereadRide, WriteBackStatus, RereadDriver, FreeRefusedDriver, Process, RideOf,
           At, AcceptSteps, store
<1>4. CASE \/ CheckCurrent(p) \/ RecordRejection(p) \/ ClearRejected(p) \/ MarkRejected(p)
           \/ TrackCancellation(p) \/ ReleaseDriver(p) \/ ResumeDispatch(p) \/ MarkCancelled(p)
           \/ WriteUpdate(p)
    BY <1>4, GotoWritten
       DEF CheckCurrent, RecordRejection, ClearRejected, MarkRejected, TrackCancellation,
           ReleaseDriver, ResumeDispatch, MarkCancelled, WriteUpdate, At, AcceptSteps, store
<1> QED BY <1>1, <1>2, <1>2a, <1>2b, <1>3, <1>4 DEF Step

(* What a step of p may make of the document of a ride. *)
Writes(p, r) ==
    \/ ride'[r] = ride[r]
    \/ /\ ride'[r].driver = ride[r].driver
       /\ ride'[r].status \in {"PENDING", "CANCELLED", "REJECTED"}
    \/ ride'[r].driver \in Drivers
    \/ /\ proc[p].at \in {"writeBack", "writeUpdate"}
       /\ RideOf(p) = r
       /\ ride'[r].status = proc[p].saw
       /\ ride'[r].driver = IF Accepts(proc[p]) THEN proc[p].driver ELSE ride[r].driver

(* The steps that write the document of a ride. *)
LEMMA StepRides ==
    ASSUME NEW p \in Procs, Step(p)
    PROVE  \/ CreateRide(p) \/ GiveUp(p) \/ CancelExhausted(p) \/ MarkRejected(p)
           \/ MarkCancelled(p) \/ AssignDriver(p) \/ WriteBackStatus(p) \/ WriteUpdate(p)
           \/ UNCHANGED ride
BY DEF Step, Notify, Accepting, FindDrivers, StoreQueue, ReadQueue, StoreRest, SetCurrent,
       ClearCurrent, Recheck, Validate, Offer, TimerFires, Timeout, CheckDriver, DeleteQueue,
       DeleteCurrent, CreateTransaction, MarkBusy, RereadRide, RereadDriver,
       FreeRefusedDriver, CheckCurrent, RecordRejection, ClearRejected, TrackCancellation,
       ReleaseDriver, ResumeDispatch, store

(* Every step of a request writes rides in one of the ways of Writes. *)
LEMMA RideWrites ==
    ASSUME TypeInv, NEW p \in Procs, Request(p) \/ Step(p), NEW r \in Rides
    PROVE  Writes(p, r)
<1>1. CASE Request(p)
    BY <1>1 DEF Request, PassengerRoutes, DriverRoutes, BookRide, PassengerCancel, UpdateRide, AcceptRide, RejectRide, DriverCancel, store,
                Writes
<1>2. CASE CreateRide(p) \/ GiveUp(p) \/ CancelExhausted(p) \/ MarkRejected(p) \/ MarkCancelled(p)
    BY <1>2, StatusWritten DEF CreateRide, GiveUp, CancelExhausted, MarkRejected, MarkCancelled,
                               Writes
<1>3. CASE AssignDriver(p)
  <2>1. proc[p].driver \in Drivers
    BY <1>3, RecordType DEF AssignDriver, At, DriverSteps, AcceptSteps
  <2> QED BY <1>3, <2>1 DEF AssignDriver, Writes, TypeInv, TypeOK
<1>4. CASE WriteBackStatus(p)
    BY <1>4 DEF WriteBackStatus, SetStatus, Writes, Accepts, TypeInv, TypeOK, At
<1>5. CASE WriteUpdate(p)
    BY <1>5 DEF WriteUpdate, Writes, Accepts, TypeInv, TypeOK, At
<1>6. CASE UNCHANGED ride
    BY <1>6 DEF Writes
<1> QED BY <1>1, <1>2, <1>3, <1>4, <1>5, <1>6, StepRides

(* A step changes the record of its own process only. *)
LEMMA OthersWait ==
    ASSUME TypeInv, NEW p \in Procs, Request(p) \/ Step(p), NEW q \in Procs, q # p
    PROVE  proc'[q] = proc[q]
<1> USE DEF TypeInv, TypeOK
<1>1. CASE Request(p)
    BY <1>1 DEF Request, PassengerRoutes, DriverRoutes, BookRide, PassengerCancel, UpdateRide, AcceptRide, RejectRide, DriverCancel, Begin
<1>2. CASE CreateRide(p) \/ FindDrivers(p) \/ StoreQueue(p) \/ GiveUp(p)
    BY <1>2 DEF CreateRide, FindDrivers, StoreQueue, GiveUp, Goto
<1>3. CASE Notify(p)
    BY <1>3 DEF Notify, ReadQueue, StoreRest, SetCurrent, ClearCurrent, CancelExhausted, Recheck,
                Validate, Offer, TimerFires, Timeout, Goto
<1>4. CASE Accepting(p)
    BY <1>4 DEF Accepting, CheckDriver, AssignDriver, DeleteQueue, DeleteCurrent,
                CreateTransaction, MarkBusy, RereadRide, WriteBackStatus, RereadDriver,
                FreeRefusedDriver, Goto
<1>5. CASE \/ CheckCurrent(p) \/ RecordRejection(p) \/ ClearRejected(p) \/ MarkRejected(p)
           \/ TrackCancellation(p) \/ ReleaseDriver(p) \/ ResumeDispatch(p) \/ MarkCancelled(p)
           \/ WriteUpdate(p)
    BY <1>5 DEF CheckCurrent, RecordRejection, ClearRejected, MarkRejected, TrackCancellation,
                ReleaseDriver, ResumeDispatch, MarkCancelled, WriteUpdate, Goto
<1> QED BY <1>1, <1>2, <1>3, <1>4, <1>5 DEF Step

(* RereadRide is the one step to the write of the catch. *)
LEMMA ReachWriteBack ==
    ASSUME TypeInv, NEW p \in Procs, Request(p) \/ Step(p), proc'[p].at = "writeBack"
    PROVE  RereadRide(p)
<1>0. proc \in [Procs -> Process]
    BY DEF TypeInv, TypeOK
<1>1. ASSUME NEW step, Goto(p, step), step # "writeBack" PROVE FALSE
    BY <1>1, GotoWritten
<1>2. CASE Request(p)
    BY <1>2, BeginWritten DEF Request, PassengerRoutes, DriverRoutes, BookRide, PassengerCancel, UpdateRide, AcceptRide, RejectRide,
                              DriverCancel
<1>3. ~ (CreateRide(p) \/ FindDrivers(p) \/ StoreQueue(p) \/ GiveUp(p))
    BY ZenonT(60), <1>0, <1>1 DEF CreateRide, FindDrivers, StoreQueue, GiveUp, Process
<1>4. ~ Notify(p)
    BY <1>0, <1>1 DEF Notify, ReadQueue, StoreRest, SetCurrent, ClearCurrent, CancelExhausted,
                      Recheck,
                Validate, Offer, TimerFires, Timeout, Process
<1>5. Accepting(p) => RereadRide(p)
    BY <1>0, <1>1 DEF Accepting, CheckDriver, AssignDriver, DeleteQueue, DeleteCurrent,
                CreateTransaction, MarkBusy, WriteBackStatus, RereadDriver,
                FreeRefusedDriver, Process
<1>6. ~ (\/ CheckCurrent(p) \/ RecordRejection(p) \/ ClearRejected(p) \/ MarkRejected(p)
         \/ TrackCancellation(p) \/ ReleaseDriver(p) \/ ResumeDispatch(p) \/ MarkCancelled(p)
         \/ WriteUpdate(p))
    BY <1>1 DEF CheckCurrent, RecordRejection, ClearRejected, MarkRejected, TrackCancellation,
                ReleaseDriver, ResumeDispatch, MarkCancelled, WriteUpdate
<1> QED BY <1>2, <1>3, <1>4, <1>5, <1>6 DEF Step

(* The table moves a ride to a status of one under way from another such     *)
(* status only, but for the acceptance.                                       *)
LEMMA MovesOnTheWay ==
    ASSUME NEW from \in RideStatuses, NEW to \in CurrentStatuses, to # "ACCEPTED",
           PassengerMayMove(from, to)
    PROVE  from \in CurrentStatuses
BY DEF PassengerMayMove, CommonMoves, CurrentStatuses, RideStatuses

(* A PUT about to be written was allowed for the ride it is about. *)
LEMMA ReachWriteUpdate ==
    ASSUME TypeInv, NEW p \in Procs, Request(p) \/ Step(p), proc'[p].at = "writeUpdate"
    PROVE  /\ ride' = ride /\ proc'[p].ride \in Rides
           /\ PassengerMayMove(ride[proc'[p].ride].status, proc'[p].saw)
           /\ ride[proc'[p].ride].status \in RideStatuses
           /\ proc'[p].saw = "ACCEPTED" => proc'[p].driver \in Users
<1>1. ~ Step(p)
    BY StepAbout
<1>2. PICK r \in Rides, u \in Users, status \in Puts : UpdateRide(p, r, u, status)
    BY <1>1, BeginWritten DEF Request, PassengerRoutes, DriverRoutes, BookRide, PassengerCancel,
                              AcceptRide, RejectRide, DriverCancel
<1>3. /\ PassengerMayMove(ride[r].status, status) /\ proc'[p].ride = r /\ proc'[p].saw = status
      /\ proc'[p].driver = IF status = "ACCEPTED" THEN u ELSE NoDriver
    BY <1>2, BeginWritten DEF UpdateRide, RideOf
<1> QED BY <1>2, <1>3 DEF UpdateRide, store, TypeInv, TypeOK

(* The drivers' reports, the clock and a restart write no ride. *)
LEMMA EnvironmentKeepsRides == Environment => UNCHANGED <<ride, offers, current, queue>>
BY DEF Environment, Elsewhere, LocationPing, ReportStatus, ExclusionExpires, Restart, store

(* Every step keeps a driver on the rides under way. *)
LEMMA DriverStep == DriverInv /\ [Next]_vars => DriverInv'
<1> SUFFICES ASSUME DriverInv, [Next]_vars PROVE CurrentRideHasDriver' /\ SeenWithDriver'
    BY TypeStep DEF DriverInv
<1> USE DEF DriverInv
<1>1. CASE UNCHANGED vars
    BY <1>1 DEF vars, store, CurrentRideHasDriver, SeenWithDriver, Accepts, RideOf
<1>2. CASE Environment
  <2>1. CurrentRideHasDriver'
    BY <1>2, EnvironmentKeepsRides DEF CurrentRideHasDriver
  <2>2. ASSUME NEW p \in Procs, proc'[p].at \in {"writeBack", "writeUpdate"} PROVE proc'[p] = proc[p]
    BY <1>2, <2>2, ZenonT(60) DEF Environment, Elsewhere, LocationPing, ReportStatus, ExclusionExpires, Restart,
                      IdleProcess
  <2>3. SeenWithDriver'
    BY <1>2, <2>2, EnvironmentKeepsRides DEF SeenWithDriver, Accepts, RideOf
  <2> QED BY <2>1, <2>3
<1>3. ASSUME NEW p \in Procs, Request(p) \/ Step(p)
      PROVE  CurrentRideHasDriver' /\ SeenWithDriver'
  <2>1. ASSUME NEW r \in Rides, ride[r].driver # NoDriver PROVE ride'[r].driver # NoDriver
    BY <1>3, <2>1, RideWrites, NoDriverAssumption DEF Writes, SeenWithDriver
  <2>2. CurrentRideHasDriver'
    <3> SUFFICES ASSUME NEW r \in Rides, ride'[r].status \in CurrentStatuses
                 PROVE  ride'[r].driver # NoDriver
        BY DEF CurrentRideHasDriver
    <3>1. Writes(p, r)
        BY <1>3, RideWrites
    <3> QED BY <3>1, NoDriverAssumption
            DEF Writes, CurrentRideHasDriver, SeenWithDriver, CurrentStatuses
  <2>3. SeenWithDriver'
    <3> DEFINE Holds(q) ==
          /\ Accepts(proc[q]) => proc[q].driver # NoDriver
          /\ /\ proc[q].at \in {"writeBack", "writeUpdate"} /\ ~ Accepts(proc[q])
             /\ proc[q].saw \in CurrentStatuses
             => ride[proc[q].ride].driver # NoDriver
    <3> SUFFICES ASSUME NEW q \in Procs, proc'[q].at \in {"writeBack", "writeUpdate"}
                 PROVE  Holds(q)'
        BY DEF SeenWithDriver, RideOf, Accepts
    <3>1. CASE q # p
      <4>1. proc'[q] = proc[q]
        BY <1>3, <3>1, OthersWait
      <4>2. proc[q].ride \in Rides /\ Holds(q)
        BY <4>1, RecordType DEF SeenWithDriver, At, RideOf
      <4> QED BY <2>1, <4>1, <4>2 DEF Accepts
    <3>2. CASE q = p /\ proc'[q].at = "writeUpdate"
      <4>1. /\ ride' = ride /\ proc'[p].ride \in Rides
            /\ proc'[p].saw = "ACCEPTED" => proc'[p].driver # NoDriver
        BY <1>3, <3>2, ReachWriteUpdate, NoDriverAssumption DEF Users
      <4>2. ASSUME proc'[p].saw # "ACCEPTED", proc'[p].saw \in CurrentStatuses
            PROVE  ride[proc'[p].ride].driver # NoDriver
        <5>1. ride[proc'[p].ride].status \in CurrentStatuses
          BY <1>3, <3>2, <4>2, ReachWriteUpdate, MovesOnTheWay
        <5> QED BY <4>1, <5>1 DEF CurrentRideHasDriver
      <4> QED BY <3>2, <4>1, <4>2 DEF Accepts
    <3>3. CASE q = p /\ proc'[q].at = "writeBack"
      <4>1. RereadRide(p)
        BY <1>3, <3>3, ReachWriteBack
      <4>2. /\ proc[p].ride \in Rides /\ proc'[p].ride = proc[p].ride /\ ride' = ride
            /\ proc'[p].saw = ride[proc[p].ride].status
        BY <4>1, RecordType DEF RereadRide, At, RideOf, store, TypeInv, TypeOK
      <4> QED BY <3>3, <4>2 DEF CurrentRideHasDriver, Accepts
    <3> QED BY <3>1, <3>2, <3>3
  <2> QED BY <2>2, <2>3
<1> QED BY <1>1, <1>2, <1>3 DEF Next

(* A ride under way has a driver, whoever accepts, cancels or crashes: the   *)
(* catch of acceptRide cannot bring such a status back to a ride without one. *)
THEOREM RideUnderWayHasDriver == Spec => []CurrentRideHasDriver
<1>1. Init => DriverInv
    BY TypeInit DEF Init, DriverInv, CurrentRideHasDriver, SeenWithDriver, CurrentStatuses, NoRide,
                    Accepts, IdleProcess
<1>2. DriverInv => CurrentRideHasDriver
    BY DEF DriverInv
<1> QED BY <1>1, <1>2, DriverStep, PTL DEF Spec

-------------------------------------------------------------------------------
(* A pending ride is never forgotten *)

(* A booking about to create its ride is the only request about it, and      *)
(* nobody has been offered it.                                                *)
FreshBooking ==
    \A p \in Procs :
       At(p, "create") => /\ ride[RideOf(p)].status = NoRide
                          /\ offers[RideOf(p)] = <<>>
                          /\ \A q \in Procs : RideOf(q) = RideOf(p) => q = p

(* A ride no request is about has not been offered. *)
Unoffered ==
    /\ \A r \in Rides : (\A p \in Procs : RideOf(p) # r) => offers[r] = <<>>
    /\ \A p \in Procs : At(p, "idle") => RideOf(p) = NoRide

(* Only acceptRide takes its steps, and a PUT its own. *)
AcceptsOnly ==
    \A p \in Procs : /\ proc[p].at \in AcceptSteps => proc[p].op = "accept"
                     /\ At(p, "writeUpdate") => proc[p].op = "update"

(* p has written PENDING back, or may have. *)
Stale(p, r) == WroteBack(p, r) \/ PutBack(p, r)

(* Between the assignment of a driver and the deletion of the key of the     *)
(* current one, only a refused accept or a PUT can have made the ride pending *)
(* again.                                                                     *)
AssignmentHolds ==
    \A p \in Procs :
       /\ proc[p].at \in {"delQueue", "delCurrent"} /\ restarts = 0
       /\ ride[RideOf(p)].status = "PENDING"
       => \E q \in Procs : Stale(q, RideOf(p))

ContinuesInv ==
    TypeInv /\ FreshBooking /\ Unoffered /\ AcceptsOnly /\ AssignmentHolds /\ DispatchContinues

(* A request is a step about no ride to one about r. *)
LEMMA RequestAbout ==
    ASSUME TypeInv, NEW p \in Procs, Request(p)
    PROVE  /\ At(p, "idle")
           /\ UNCHANGED <<ride, queue, current, offers, restarts>>
           /\ RideOf(p)' \in Rides
           /\ \/ At(p, "create")' /\ ride[RideOf(p)'].status = NoRide
                 /\ \A q \in Procs : RideOf(q) # RideOf(p)'
              \/ ~At(p, "create")' /\ ride[RideOf(p)'].status # NoRide
              \/ ~At(p, "create")' /\ \E d \in Drivers : Knows(d, RideOf(p)')
           /\ proc'[p].at \in AcceptSteps => proc'[p].op = "accept"
           /\ proc'[p].at = "writeUpdate" => proc'[p].op = "update"
           /\ proc'[p].at \notin {"delQueue", "delCurrent"}
<1>1. PICK r \in Rides :
         \/ BookRide(p, r)
         \/ PassengerCancel(p, r)
         \/ \E u \in Users, status \in Puts : UpdateRide(p, r, u, status)
         \/ \E d \in Drivers : AcceptRide(p, r, d) \/ RejectRide(p, r, d) \/ DriverCancel(p, r, d)
    BY DEF Request, PassengerRoutes, DriverRoutes
<1>2. CASE BookRide(p, r)
    BY <1>2, BeginWritten DEF BookRide, At, store, AcceptSteps
<1>3. CASE PassengerCancel(p, r)
    BY <1>3, BeginWritten DEF PassengerCancel, At, store, AcceptSteps
<1>4. CASE \E d \in Drivers : AcceptRide(p, r, d)
    BY <1>4, BeginWritten DEF AcceptRide, At, store, AcceptSteps
<1>5. CASE \E d \in Drivers : RejectRide(p, r, d)
    BY <1>5, BeginWritten DEF RejectRide, At, store, AcceptSteps
<1>6. CASE \E d \in Drivers : DriverCancel(p, r, d)
    BY <1>6, BeginWritten DEF DriverCancel, At, store, AcceptSteps
<1>7. CASE \E u \in Users, status \in Puts : UpdateRide(p, r, u, status)
    BY <1>7, BeginWritten DEF UpdateRide, At, store, AcceptSteps
<1> QED BY <1>1, <1>2, <1>3, <1>4, <1>5, <1>6, <1>7

(* A step writes nothing about another ride. *)
LEMMA StepElsewhere ==
    ASSUME TypeInv, NEW p \in Procs, Step(p), NEW r \in Rides, RideOf(p) # r
    PROVE  ride'[r] = ride[r] /\ offers'[r] = offers[r] /\ current'[r] = current[r]
<1>0. /\ ride \in [Rides -> [status : RideStatuses \cup {NoRide}, driver : MaybeHolder]]
      /\ offers \in [Rides -> Seq(Drivers)]
      /\ current \in [Rides -> MaybeDriver]
    BY DEF TypeInv, TypeOK
<1>1. CASE CreateRide(p) \/ FindDrivers(p) \/ StoreQueue(p) \/ GiveUp(p)
    BY <1>0, <1>1, StatusWritten DEF CreateRide, FindDrivers, StoreQueue, GiveUp, store
<1>2. CASE Notify(p)
    BY <1>0, <1>2, StatusWritten
       DEF Notify, ReadQueue, StoreRest, SetCurrent, ClearCurrent, CancelExhausted, Recheck,
           Validate, Offer, TimerFires, Timeout, store
<1>3. CASE Accepting(p)
    BY <1>0, <1>3, StatusWritten
       DEF Accepting, CheckDriver, AssignDriver, DeleteQueue, DeleteCurrent, CreateTransaction,
           MarkBusy, RereadRide, WriteBackStatus, RereadDriver, FreeRefusedDriver, store
<1>4. CASE \/ CheckCurrent(p) \/ RecordRejection(p) \/ ClearRejected(p) \/ MarkRejected(p)
           \/ TrackCancellation(p) \/ ReleaseDriver(p) \/ ResumeDispatch(p) \/ MarkCancelled(p)
    BY <1>4, StatusWritten
       DEF CheckCurrent, RecordRejection, ClearRejected, MarkRejected, TrackCancellation,
           ReleaseDriver, ResumeDispatch, MarkCancelled, store
<1>5. CASE WriteUpdate(p)
    BY <1>0, <1>5 DEF WriteUpdate
<1> QED BY <1>1, <1>2, <1>3, <1>4, <1>5 DEF Step

(* The steps that may leave a ride pending which was not. *)
LEMMA BecomesPending ==
    ASSUME TypeInv, NEW p \in Procs, Step(p), NEW r \in Rides,
           ride[r].status # "PENDING", ride'[r].status = "PENDING"
    PROVE  /\ RideOf(p) = r
           /\ CreateRide(p) \/ WriteBackStatus(p) \/ (WriteUpdate(p) /\ proc[p].saw = "PENDING")
<1>1. RideOf(p) = r
    BY StepElsewhere
<1>2. GiveUp(p) \/ CancelExhausted(p) \/ MarkRejected(p) \/ MarkCancelled(p) => FALSE
    BY <1>1, StatusWritten DEF GiveUp, CancelExhausted, MarkRejected, MarkCancelled
<1>3. ~ AssignDriver(p)
    BY <1>1 DEF AssignDriver, TypeInv, TypeOK
<1>3a. WriteUpdate(p) => proc[p].saw = "PENDING"
    BY <1>1 DEF WriteUpdate, TypeInv, TypeOK
<1>4. Step(p) => \/ CreateRide(p) \/ GiveUp(p) \/ CancelExhausted(p) \/ MarkRejected(p)
                 \/ MarkCancelled(p) \/ AssignDriver(p) \/ WriteBackStatus(p) \/ WriteUpdate(p)
                 \/ UNCHANGED ride
    BY StepRides
<1> QED BY <1>1, <1>2, <1>3, <1>3a, <1>4

(* The steps that change the current driver of a ride. *)
LEMMA CurrentWritten ==
    ASSUME TypeInv, NEW p \in Procs, Step(p), NEW r \in Rides, current'[r] # current[r]
    PROVE  RideOf(p) = r /\ (SetCurrent(p) \/ ClearCurrent(p) \/ Offer(p) \/ DeleteCurrent(p))
<1>1. RideOf(p) = r
    BY StepElsewhere
<1>2. \/ SetCurrent(p) \/ ClearCurrent(p) \/ Offer(p) \/ DeleteCurrent(p) \/ UNCHANGED current
    BY DEF Step, Notify, Accepting, CreateRide, FindDrivers, StoreQueue, GiveUp, ReadQueue,
           StoreRest, CancelExhausted, Recheck, Validate, TimerFires, Timeout, CheckDriver,
           AssignDriver, DeleteQueue, CreateTransaction, MarkBusy, RereadRide, WriteBackStatus,
           RereadDriver, FreeRefusedDriver, CheckCurrent, RecordRejection, ClearRejected,
           MarkRejected, TrackCancellation, ReleaseDriver, ResumeDispatch, MarkCancelled, WriteUpdate, store
<1> QED BY <1>1, <1>2

(* Once a refused accept has written, it stays so. *)
LEMMA WroteBackStays ==
    ASSUME TypeInv, NEW p \in Procs, Request(p) \/ Step(p),
           NEW q \in Procs, NEW r, WroteBack(q, r)
    PROVE  WroteBack(q, r)'
<1>0. proc \in [Procs -> Process]
    BY DEF TypeInv, TypeOK
<1>1. CASE q # p
    BY <1>1, OthersWait DEF WroteBack, RideOf
<1>2. CASE q = p
  <2>1. ~ Request(p)
    BY <1>2, RequestAbout DEF WroteBack, At
  <2>2. proc'[p].op = proc[p].op /\ RideOf(p)' = RideOf(p)
    BY <2>1, StepAbout
  <2>3. Step(p) => RereadDriver(p) \/ FreeRefusedDriver(p)
    BY <1>2 DEF WroteBack, Step, Notify, Accepting, CreateRide, FindDrivers, StoreQueue, GiveUp,
                ReadQueue, StoreRest, SetCurrent, ClearCurrent, CancelExhausted, Recheck, Validate,
                Offer, TimerFires, Timeout, CheckDriver, AssignDriver, DeleteQueue, DeleteCurrent,
                CreateTransaction, MarkBusy, RereadRide, WriteBackStatus, CheckCurrent,
                RecordRejection, ClearRejected, MarkRejected, TrackCancellation, ReleaseDriver,
                ResumeDispatch, MarkCancelled, WriteUpdate, At
  <2>4. proc'[p].at \in {"free", "refused"}
    BY <1>0, <2>1, <2>3 DEF RereadDriver, FreeRefusedDriver, Process
  <2> QED BY <1>2, <2>2, <2>4 DEF WroteBack
<1> QED BY <1>1, <1>2

(* A PUT that has written PENDING back has, for good. *)
LEMMA StaleStays ==
    ASSUME TypeInv, NEW p \in Procs, Request(p) \/ Step(p),
           NEW q \in Procs, NEW r, Stale(q, r)
    PROVE  Stale(q, r)'
<1>1. CASE WroteBack(q, r)
    BY <1>1, WroteBackStays DEF Stale
<1>2. CASE PutBack(q, r) /\ q # p
    BY <1>2, OthersWait DEF Stale, PutBack, RideOf, At
<1>3. ~ (PutBack(q, r) /\ q = p)
  <2>1. Request(p) => At(p, "idle")
    BY RequestAbout
  <2>2. Step(p) => ~ At(p, "done")
    BY DEF Step, Notify, Accepting, CreateRide, FindDrivers, StoreQueue, GiveUp,
           ReadQueue, StoreRest, SetCurrent, ClearCurrent, CancelExhausted, Recheck, Validate,
           Offer, TimerFires, Timeout, CheckDriver, AssignDriver, DeleteQueue, DeleteCurrent,
           CreateTransaction, MarkBusy, RereadRide, WriteBackStatus, RereadDriver,
           FreeRefusedDriver, CheckCurrent, RecordRejection, ClearRejected, MarkRejected,
           TrackCancellation, ReleaseDriver, ResumeDispatch, MarkCancelled, WriteUpdate, At
  <2> QED BY <2>1, <2>2 DEF PutBack, At
<1> QED BY <1>1, <1>2, <1>3 DEF Stale

(* A step of a process that drives the dispatch leaves it driving, as long as *)
(* the ride stays pending.                                                    *)
LEMMA DrivingStays ==
    ASSUME TypeInv, NEW p \in Procs, Step(p), NEW r \in Rides, Drives(p, r),
           ride[r].status = "PENDING", ride'[r].status = "PENDING"
    PROVE  Drives(p, r)'
<1>0. /\ proc \in [Procs -> Process]
      /\ current \in [Rides -> MaybeDriver]
      /\ RideOf(p) = r /\ RideOf(p)' = r
    BY StepAbout DEF TypeInv, TypeOK, Drives
<1>1. CASE CreateRide(p) \/ GiveUp(p) \/ CancelExhausted(p)
  <2>1. CreateRide(p)
    BY <1>0, <1>1, StatusWritten DEF GiveUp, CancelExhausted
  <2> QED BY <1>0, <2>1, GotoWritten DEF CreateRide, Drives, BookingSteps, ChainSteps
<1>2. CASE FindDrivers(p)
    BY <1>0, <1>2 DEF FindDrivers, Process, Drives, BookingSteps, ChainSteps
<1>3. CASE StoreQueue(p)
    BY <1>0, <1>3 DEF StoreQueue, Process, Drives, BookingSteps, ChainSteps
<1>4. CASE ReadQueue(p)
    BY <1>0, <1>4, GotoWritten DEF ReadQueue, Process, Drives, BookingSteps, ChainSteps
<1>5. CASE StoreRest(p)
    BY <1>0, <1>5 DEF StoreRest, Process, Drives, BookingSteps, ChainSteps
<1>6. CASE SetCurrent(p) \/ ClearCurrent(p) \/ Recheck(p) \/ Validate(p) \/ Timeout(p)
    BY <1>0, <1>6, GotoWritten
       DEF SetCurrent, ClearCurrent, Recheck, Validate, Timeout, Drives, BookingSteps, ChainSteps
<1>7. CASE Offer(p)
    BY <1>0, <1>7, GotoWritten DEF Offer, Drives, BookingSteps, ChainSteps
<1>8. CASE TimerFires(p)
    BY <1>0, <1>8, GotoWritten DEF TimerFires, Drives, BookingSteps, ChainSteps, At
<1>9. Step(p) => \/ CreateRide(p) \/ FindDrivers(p) \/ StoreQueue(p) \/ GiveUp(p) \/ Notify(p)
    BY DEF Drives, BookingSteps, ChainSteps, Step, Accepting, CheckDriver, AssignDriver,
           DeleteQueue, DeleteCurrent, CreateTransaction, MarkBusy, RereadRide, WriteBackStatus,
           RereadDriver, FreeRefusedDriver, CheckCurrent, RecordRejection, ClearRejected,
           MarkRejected, TrackCancellation, ReleaseDriver, ResumeDispatch, MarkCancelled, WriteUpdate, At
<1> QED BY <1>1, <1>2, <1>3, <1>4, <1>5, <1>6, <1>7, <1>8, <1>9 DEF Notify

(* A step keeps what is known of bookings and offers not made yet. *)
LEMMA FreshStep ==
    ASSUME ContinuesInv, NEW p \in Procs, Request(p) \/ Step(p)
    PROVE  FreshBooking' /\ Unoffered' /\ AcceptsOnly'
<1> USE DEF ContinuesInv
<1>1. FreshBooking'
  <2> SUFFICES ASSUME NEW q \in Procs, At(q, "create")'
               PROVE  /\ ride'[RideOf(q)'].status = NoRide
                      /\ offers'[RideOf(q)'] = <<>>
                      /\ \A w \in Procs : RideOf(w)' = RideOf(q)' => w = q
      BY DEF FreshBooking
  <2>1. CASE q = p
    <3>1. Request(p)
      BY <2>1, StepAbout DEF At
    <3> QED BY <2>1, <3>1, RequestAbout, OthersWait DEF Unoffered, RideOf
  <2>2. CASE q # p
    <3>1. proc'[q] = proc[q] /\ At(q, "create") /\ RideOf(q)' = RideOf(q) /\ RideOf(q) \in Rides
      BY <2>2, OthersWait, RecordType DEF At, RideOf
    <3>2. /\ ride[RideOf(q)].status = NoRide /\ offers[RideOf(q)] = <<>>
          /\ \A w \in Procs : RideOf(w) = RideOf(q) => w = q
      BY <3>1 DEF FreshBooking
    <3>3. ~ \E d \in Drivers : Knows(d, RideOf(q))
      BY <3>2 DEF Knows, Range
    <3>4. RideOf(p)' # RideOf(q)
      BY <2>2, <3>2, <3>3, RequestAbout, StepAbout
    <3>5. ride'[RideOf(q)] = ride[RideOf(q)] /\ offers'[RideOf(q)] = offers[RideOf(q)]
      BY <2>2, <3>1, <3>2, RequestAbout, StepElsewhere
    <3>6. \A w \in Procs : w # p => RideOf(w)' = RideOf(w)
      BY OthersWait DEF RideOf
    <3> QED BY <3>1, <3>2, <3>4, <3>5, <3>6
  <2> QED BY <2>1, <2>2
<1>2. Unoffered'
  <2>1. \A w \in Procs : w # p => proc'[w] = proc[w]
    BY OthersWait
  <2>2. ~At(p, "idle")'
    <3>1. CASE Request(p)
      BY <3>1, BeginWritten DEF Request, PassengerRoutes, DriverRoutes, BookRide, PassengerCancel, UpdateRide, AcceptRide, RejectRide,
                                DriverCancel, At
    <3>2. CASE Step(p)
      BY <3>2, StepAbout DEF At
    <3> QED BY <3>1, <3>2
  <2>3. ASSUME NEW r \in Rides, \A w \in Procs : RideOf(w)' # r PROVE offers'[r] = <<>>
    <3>1. RideOf(p) # r
      <4>1. CASE Request(p)
        BY <4>1, RequestAbout, NoRideAssumption DEF Unoffered
      <4>2. CASE Step(p)
        BY <2>3, <4>2, StepAbout
      <4> QED BY <4>1, <4>2
    <3>2. \A w \in Procs : RideOf(w) # r
      BY <2>1, <2>3, <3>1 DEF RideOf
    <3> QED BY <3>1, <3>2, RequestAbout, StepElsewhere DEF Unoffered
  <2> QED BY <2>1, <2>2, <2>3 DEF Unoffered, At, RideOf
<1>3. AcceptsOnly'
  <2>1. \A w \in Procs : w # p => proc'[w] = proc[w]
    BY OthersWait
  <2>2. /\ proc'[p].at \in AcceptSteps => proc'[p].op = "accept"
        /\ proc'[p].at = "writeUpdate" => proc'[p].op = "update"
    BY RequestAbout, StepAbout DEF AcceptsOnly
  <2> QED BY <2>1, <2>2 DEF AcceptsOnly, At
<1> QED BY <1>1, <1>2, <1>3

(* A step that makes a ride pending leaves a process behind that goes on. *)
LEMMA PendingDriven ==
    ASSUME ContinuesInv, NEW p \in Procs, Step(p), NEW r \in Rides,
           ride[r].status # "PENDING", ride'[r].status = "PENDING"
    PROVE  \/ CreateRide(p) /\ RideOf(p) = r /\ Drives(p, r)'
           \/ Stale(p, r)'
<1>1. /\ RideOf(p) = r /\ RideOf(p)' = r
      /\ CreateRide(p) \/ WriteBackStatus(p) \/ (WriteUpdate(p) /\ proc[p].saw = "PENDING")
    BY BecomesPending, StepAbout DEF ContinuesInv
<1>2. CASE CreateRide(p)
    BY <1>1, <1>2, GotoWritten DEF CreateRide, Drives, BookingSteps, ContinuesInv
<1>3. CASE WriteBackStatus(p)
    BY <1>1, <1>3, GotoWritten
       DEF WriteBackStatus, Stale, WroteBack, AcceptsOnly, AcceptSteps, At, ContinuesInv
<1>4. CASE WriteUpdate(p) /\ proc[p].saw = "PENDING"
    BY <1>1, <1>4, GotoWritten DEF WriteUpdate, Stale, PutBack, AcceptsOnly, At, ContinuesInv
<1> QED BY <1>1, <1>2, <1>3, <1>4

(* A step keeps the acceptances that have been written from being pending. *)
LEMMA AssignmentStep ==
    ASSUME ContinuesInv, NEW p \in Procs, Request(p) \/ Step(p)
    PROVE  AssignmentHolds'
<1> USE DEF ContinuesInv
<1> SUFFICES ASSUME NEW q \in Procs, proc'[q].at \in {"delQueue", "delCurrent"}, restarts' = 0,
                    NEW r \in Rides, RideOf(q)' = r, ride'[r].status = "PENDING"
             PROVE  \E w \in Procs : Stale(w, r)'
  <2>1. TypeInv'
    BY TypeStep DEF Next
  <2>2. \A q \in Procs : proc'[q].at \in {"delQueue", "delCurrent"} => RideOf(q)' \in Rides
    BY <2>1 DEF TypeInv, ProcOK, At
  <2> QED BY <2>2 DEF AssignmentHolds, Stale, WroteBack, PutBack
<1>1. restarts = 0
    BY RequestAbout, StepAbout
<1>2. CASE Request(p)
  <2>1. q # p
    BY <1>2, RequestAbout
  <2>2. proc'[q] = proc[q]
    BY <2>1, OthersWait
  <2>3. PICK w \in Procs : Stale(w, r)
    BY <1>1, <1>2, <2>2, RequestAbout DEF AssignmentHolds, RideOf
  <2> QED BY <2>3, StaleStays
<1>3. CASE Step(p) /\ q # p
  <2>1. proc'[q] = proc[q] /\ RideOf(q) = r
    BY <1>3, OthersWait DEF RideOf
  <2>2. CASE ride[r].status = "PENDING"
    <3>1. PICK w \in Procs : Stale(w, r)
      BY <1>1, <2>1, <2>2 DEF AssignmentHolds
    <3> QED BY <3>1, StaleStays
  <2>3. CASE ride[r].status # "PENDING"
    <3>1. ~ (CreateRide(p) /\ RideOf(p) = r)
      BY <1>3, <2>1 DEF CreateRide, FreshBooking
    <3> QED BY <1>3, <2>1, <2>3, <3>1, PendingDriven
  <2> QED BY <2>2, <2>3
<1>4. CASE Step(p) /\ q = p
  <2>1. AssignDriver(p) \/ DeleteQueue(p)
    <3>0. proc \in [Procs -> Process]
      BY DEF TypeInv, TypeOK
    <3>1. ~ (CreateRide(p) \/ GiveUp(p))
      BY <1>4, <3>0, GotoWritten DEF CreateRide, GiveUp
    <3>1a. ~ FindDrivers(p)
      BY <1>4, <3>0 DEF FindDrivers, Process
    <3>1b. ~ StoreQueue(p)
      BY <1>4, <3>0 DEF StoreQueue, Process
    <3>2. ~ Notify(p)
      BY <1>4, <3>0, GotoWritten
         DEF Notify, ReadQueue, StoreRest, SetCurrent, ClearCurrent, CancelExhausted, Recheck,
             Validate, Offer, TimerFires, Timeout, Process
    <3>3. Accepting(p) => AssignDriver(p) \/ DeleteQueue(p)
      BY <1>4, <3>0, GotoWritten
         DEF Accepting, CheckDriver, DeleteCurrent, CreateTransaction, MarkBusy, RereadRide,
             WriteBackStatus, RereadDriver, FreeRefusedDriver, Process
    <3>4. ~ (\/ CheckCurrent(p) \/ RecordRejection(p) \/ ClearRejected(p) \/ MarkRejected(p)
             \/ TrackCancellation(p) \/ ReleaseDriver(p) \/ ResumeDispatch(p) \/ MarkCancelled(p)
         \/ WriteUpdate(p))
      BY <1>4, GotoWritten DEF CheckCurrent, RecordRejection, ClearRejected, MarkRejected,
         TrackCancellation, ReleaseDriver, ResumeDispatch, MarkCancelled, WriteUpdate
    <3> QED BY <1>4, <3>1, <3>1a, <3>1b, <3>2, <3>3, <3>4 DEF Step
  <2>2. RideOf(p) = r
    BY <1>4, StepAbout
  <2>3. ~ AssignDriver(p)
    BY <1>4, <2>2 DEF AssignDriver, TypeInv, TypeOK
  <2>4. DeleteQueue(p) /\ ride' = ride /\ proc[p].at = "delQueue"
    BY <2>1, <2>3 DEF DeleteQueue, At
  <2>5. PICK w \in Procs : Stale(w, r)
    BY <1>1, <1>4, <2>2, <2>4 DEF AssignmentHolds
  <2> QED BY <2>5, StaleStays
<1> QED BY <1>2, <1>3, <1>4

(* A step of a request leaves every pending ride driven. *)
LEMMA ContinuesStep ==
    ASSUME ContinuesInv, NEW p \in Procs, Request(p) \/ Step(p)
    PROVE  DispatchContinues'
<1> USE DEF ContinuesInv
<1> SUFFICES ASSUME NEW r \in Rides, ride'[r].status = "PENDING", restarts' = 0
             PROVE  \E w \in Procs : Drives(w, r)' \/ Stale(w, r)'
    BY DEF DispatchContinues, Stale
<1>1. restarts = 0
    BY RequestAbout, StepAbout
<1>2. CASE Step(p) /\ ride[r].status # "PENDING"
    BY <1>2, PendingDriven
<1>3. CASE ride[r].status = "PENDING"
  <2>1. PICK w \in Procs : Drives(w, r) \/ Stale(w, r)
    BY <1>1, <1>3 DEF DispatchContinues, Stale
  <2>2. CASE Stale(w, r)
    BY <2>2, StaleStays
  <2>3. CASE Drives(w, r) /\ w = p
    <3>1. ~ Request(p)
      BY <2>3, RequestAbout DEF Drives, At, BookingSteps, ChainSteps
    <3> QED BY <1>3, <2>3, <3>1, DrivingStays
  <2>4. CASE Drives(w, r) /\ w # p
    <3>1. proc'[w] = proc[w]
      BY <2>4, OthersWait
    <3>2. CASE current'[r] = current[r]
      BY <2>4, <3>1, <3>2 DEF Drives, RideOf
    <3>3. CASE current'[r] # current[r]
      <4>1. Step(p)
        BY <3>3, RequestAbout
      <4>2. RideOf(p) = r /\ RideOf(p)' = r
            /\ (SetCurrent(p) \/ ClearCurrent(p) \/ Offer(p) \/ DeleteCurrent(p))
        BY <3>3, <4>1, CurrentWritten, StepAbout
      <4>3. CASE SetCurrent(p) \/ ClearCurrent(p) \/ Offer(p)
        <5>1. Drives(p, r)
          BY <4>2, <4>3 DEF SetCurrent, ClearCurrent, Offer, Drives, At, ChainSteps
        <5> QED BY <1>3, <4>1, <5>1, DrivingStays
      <4>4. CASE DeleteCurrent(p)
        <5>1. PICK q \in Procs : Stale(q, r)
          BY <1>1, <1>3, <4>2, <4>4 DEF AssignmentHolds, DeleteCurrent, At
        <5> QED BY <5>1, StaleStays
      <4> QED BY <4>2, <4>3, <4>4
    <3> QED BY <3>2, <3>3
  <2> QED BY <2>1, <2>2, <2>3, <2>4
<1>4. CASE Request(p) /\ ride[r].status # "PENDING"
    BY <1>4, RequestAbout
<1> QED BY <1>2, <1>3, <1>4

(* Every step, the environment's too, leaves every pending ride driven. *)
LEMMA ContinuesNext == ContinuesInv /\ [Next]_vars => ContinuesInv'
<1> SUFFICES ASSUME ContinuesInv, [Next]_vars
             PROVE  /\ FreshBooking' /\ Unoffered' /\ AcceptsOnly'
                    /\ AssignmentHolds' /\ DispatchContinues'
    BY TypeStep DEF ContinuesInv
<1> USE DEF ContinuesInv
<1>1. ASSUME UNCHANGED <<ride, offers, current, proc, restarts>>
      PROVE  /\ FreshBooking' /\ Unoffered' /\ AcceptsOnly'
             /\ AssignmentHolds' /\ DispatchContinues'
    BY <1>1 DEF FreshBooking, Unoffered, AcceptsOnly, AssignmentHolds, DispatchContinues, Drives,
                Stale, WroteBack, PutBack, RideOf, At
<1>2. CASE Restart
  <2>1. restarts' # 0
    <3>1. restarts \in 0..MaxRestarts /\ restarts' = restarts + 1
      BY <1>2 DEF Restart, TypeInv, TypeOK
    <3> QED BY <3>1, RestartAssumption
  <2>2. \A p \in Procs : /\ RideOf(p)' = RideOf(p)
                         /\ proc'[p] = proc[p] \/ proc'[p].at = "lost"
    BY <1>2 DEF Restart, RideOf, IdleProcess
  <2>3. UNCHANGED <<ride, offers>>
    BY <1>2 DEF Restart, store
  <2>4. FreshBooking' /\ Unoffered' /\ AcceptsOnly'
    BY <2>2, <2>3 DEF FreshBooking, Unoffered, AcceptsOnly, AcceptSteps, At
  <2> QED BY <2>1, <2>4 DEF AssignmentHolds, DispatchContinues
<1>3. CASE Environment
    BY <1>1, <1>2, <1>3 DEF Environment, Elsewhere, LocationPing, ReportStatus, ExclusionExpires
<1>4. CASE \E p \in Procs : Request(p) \/ Step(p)
    BY <1>4, FreshStep, AssignmentStep, ContinuesStep
<1>5. CASE UNCHANGED vars
    BY <1>1, <1>5 DEF vars, store
<1> QED BY <1>3, <1>4, <1>5 DEF Next

(* Nothing is asked, offered or pending at the start. *)
LEMMA ContinuesInit == Init => ContinuesInv
<1> SUFFICES ASSUME Init PROVE ContinuesInv
    OBVIOUS
<1>1. \A p \in Procs : proc[p].at = "idle" /\ RideOf(p) = NoRide
    BY DEF Init, IdleProcess, RideOf
<1>2. \A r \in Rides : ride[r].status = NoRide /\ offers[r] = <<>>
    BY DEF Init
<1> QED BY <1>1, <1>2, TypeInit DEF ContinuesInv, FreshBooking, Unoffered, AcceptsOnly,
           AcceptSteps, AssignmentHolds, DispatchContinues, NoRide, At

(* Until it is accepted or given up, a pending ride always has a handler or  *)
(* a timer that will ask the next driver, however requests interleave; only  *)
(* the catch of acceptRide and a restart of the process can leave one alone. *)
THEOREM PendingRideIsNotForgotten == Spec => []DispatchContinues
<1>1. ContinuesInv => DispatchContinues
    BY DEF ContinuesInv
<1> QED BY <1>1, ContinuesInit, ContinuesNext, PTL DEF Spec

-------------------------------------------------------------------------------
(* Nobody is asked twice *)

(* No driver has cancelled ride r. *)
Uncancelled(r) == \A p \in Procs : RideOf(p) = r => proc[p].op # "driverCancel"

(* The queue a chain goes on with: the one it is about to store, or Redis'. *)
Reserve(p) == IF At(p, "store") THEN proc[p].rest ELSE queue[RideOf(p)]

(* The awaits at which a chain holds a driver popped and not yet asked. *)
HoldSteps == {"store", "setCurrent", "recheck", "validate", "offer"}

(* The drivers of s differ, and none of them is among those asked. *)
Unasked(s, asked) ==
    IsInjective(s) /\ \A d \in Range(s) : d \notin Range(asked)

(* Whom the chain of p may still ask for its ride has not been asked. *)
ChainHolds(p) ==
    /\ proc[p].at \in BookingSteps => offers[RideOf(p)] = <<>>
    /\ proc[p].at \in ChainSteps /\ Reserve(p) # NoQueue => Unasked(Reserve(p), offers[RideOf(p)])
    /\ proc[p].at \in HoldSteps => /\ proc[p].driver \notin Range(offers[RideOf(p)])
                                   /\ Reserve(p) # NoQueue => proc[p].driver \notin Range(Reserve(p))

(* Only a booking and a cancellation by a driver take the steps of the chain. *)
OpOK(e) ==
    /\ e.at = "idle" => e.op = "none"
    /\ e.at \in BookingSteps => e.op = "book"
    /\ e.at \in ChainSteps => e.op \in {"book", "driverCancel"}
    /\ e.at \in {"markRejected", "exclude", "release", "delay"} => e.op = "driverCancel"

ChainInv ==
    /\ \A p \in Procs : OpOK(proc[p])
    /\ \A p, q \in Procs :
          proc[p].op = "book" /\ proc[q].op = "book" /\ RideOf(p) = RideOf(q) => p = q
    /\ \A p \in Procs : proc[p].op = "book" /\ Uncancelled(RideOf(p)) => ChainHolds(p)
    /\ NoRepeatedOffer

RepeatInv == ContinuesInv /\ ChainInv

(* The pop of a queue of distinct drivers leaves distinct drivers. *)
LEMMA PopUnasked ==
    ASSUME NEW s \in Seq(Drivers), s # <<>>, NEW asked, Unasked(s, asked)
    PROVE  /\ Unasked(Tail(s), asked)
           /\ Head(s) \notin Range(asked) /\ Head(s) \notin Range(Tail(s))
<1>1. /\ Len(s) \in Nat /\ Len(s) > 0 /\ DOMAIN s = 1..Len(s) /\ Head(s) = s[1]
      /\ DOMAIN Tail(s) = 1..(Len(s) - 1) /\ \A i \in 1..(Len(s) - 1) : Tail(s)[i] = s[i + 1]
    BY HeadTailProperties, EmptySeq, LenProperties
<1>2. \A i, j \in 1..Len(s) : s[i] = s[j] => i = j
    BY <1>1 DEF Unasked, IsInjective
<1>3. IsInjective(Tail(s))
  <2> SUFFICES ASSUME NEW i \in 1..(Len(s) - 1), NEW j \in 1..(Len(s) - 1), Tail(s)[i] = Tail(s)[j]
               PROVE  i = j
      BY <1>1 DEF IsInjective
  <2>1. s[i + 1] = s[j + 1] /\ i + 1 \in 1..Len(s) /\ j + 1 \in 1..Len(s)
    BY <1>1
  <2>2. i + 1 = j + 1
    BY <1>2, <2>1
  <2> QED BY <2>2
<1>4. \A d \in Range(Tail(s)) : d \in Range(s) /\ d # Head(s)
  <2> SUFFICES ASSUME NEW i \in 1..(Len(s) - 1)
               PROVE  Tail(s)[i] \in Range(s) /\ Tail(s)[i] # Head(s)
      BY <1>1 DEF Range
  <2>1. i + 1 \in 1..Len(s) /\ 1 \in 1..Len(s) /\ i + 1 # 1 /\ Tail(s)[i] = s[i + 1]
    BY <1>1
  <2> QED BY <1>1, <1>2, <2>1 DEF Range
<1>5. Head(s) \in Range(s)
    BY <1>1 DEF Range
<1> QED BY <1>3, <1>4, <1>5 DEF Unasked

(* One more offer, to a driver not asked yet. *)
LEMMA OfferAdded ==
    ASSUME NEW s \in Seq(Drivers), NEW d \in Drivers, IsInjective(s), d \notin Range(s)
    PROVE  /\ IsInjective(Append(s, d))
           /\ \A e \in Range(Append(s, d)) : e \in Range(s) \/ e = d
<1> DEFINE a == Append(s, d)
<1>1. /\ Len(s) \in Nat /\ DOMAIN s = 1..Len(s) /\ DOMAIN a = 1..(Len(s) + 1)
      /\ (\A i \in 1..Len(s) : a[i] = s[i]) /\ a[Len(s) + 1] = d
    BY AppendProperties, LenProperties
<1> HIDE DEF a
<1>2. \A i \in 1..(Len(s) + 1) : i \in 1..Len(s) \/ i = Len(s) + 1
    BY <1>1
<1>3. \A i \in 1..Len(s) : a[i] \in Range(s)
    BY <1>1 DEF Range
<1>4. \A e \in Range(a) : e \in Range(s) \/ e = d
    BY <1>1, <1>2, <1>3 DEF Range
<1>5. \A i, j \in DOMAIN a : a[i] = a[j] => i = j
    BY <1>1, <1>2, <1>3 DEF IsInjective
<1> QED BY <1>4, <1>5 DEF IsInjective, a

(* A request takes the first step of its operation; only a booking of a ride *)
(* nobody asks about takes that of a booking.                                 *)
LEMMA OpsRequest ==
    ASSUME TypeInv, NEW p \in Procs, Request(p)
    PROVE  /\ OpOK(proc'[p])
           /\ proc'[p].at \notin ChainSteps
           /\ proc'[p].op = "book" => At(p, "create")' /\ \A q \in Procs : RideOf(q) # RideOf(p)'
<1>1. PICK r \in Rides :
         \/ BookRide(p, r)
         \/ PassengerCancel(p, r)
         \/ \E u \in Users, status \in Puts : UpdateRide(p, r, u, status)
         \/ \E d \in Drivers : AcceptRide(p, r, d) \/ RejectRide(p, r, d) \/ DriverCancel(p, r, d)
    BY DEF Request, PassengerRoutes, DriverRoutes
<1> USE DEF OpOK, BookingSteps, ChainSteps
<1>2. CASE BookRide(p, r)
    BY <1>2, BeginWritten DEF BookRide, At
<1>3. CASE PassengerCancel(p, r)
    BY <1>3, BeginWritten DEF PassengerCancel
<1>4. CASE \E d \in Drivers : AcceptRide(p, r, d)
    BY <1>4, BeginWritten DEF AcceptRide
<1>5. CASE \E d \in Drivers : RejectRide(p, r, d)
    BY <1>5, BeginWritten DEF RejectRide
<1>6. CASE \E d \in Drivers : DriverCancel(p, r, d)
    BY <1>6, BeginWritten DEF DriverCancel
<1>7. CASE \E u \in Users, status \in Puts : UpdateRide(p, r, u, status)
    BY <1>7, BeginWritten DEF UpdateRide
<1> QED BY <1>1, <1>2, <1>3, <1>4, <1>5, <1>6, <1>7

(* A step stays within its operation; but for a resumed dispatch, only the   *)
(* chain itself stays in the chain.                                           *)
LEMMA OpsStep ==
    ASSUME TypeInv, NEW p \in Procs, OpOK(proc[p]), Step(p)
    PROVE  OpOK(proc'[p])
<1>0. proc \in [Procs -> Process] /\ proc'[p].op = proc[p].op
    BY StepAbout DEF TypeInv, TypeOK
<1> USE DEF OpOK, BookingSteps, ChainSteps, At
<1>1. CASE CreateRide(p) \/ GiveUp(p)
    BY <1>0, <1>1, GotoWritten DEF CreateRide, GiveUp
<1>2. CASE FindDrivers(p)
    BY <1>0, <1>2 DEF FindDrivers, Process
<1>3. CASE StoreQueue(p)
    BY <1>0, <1>3 DEF StoreQueue, Process
<1>4. CASE Notify(p)
  <2>1. CASE ReadQueue(p) \/ StoreRest(p) \/ SetCurrent(p) \/ ClearCurrent(p) \/ CancelExhausted(p)
    BY <1>0, <2>1, GotoWritten DEF ReadQueue, StoreRest, SetCurrent, ClearCurrent, CancelExhausted, Process
  <2>2. CASE Recheck(p) \/ Validate(p) \/ Offer(p) \/ TimerFires(p) \/ Timeout(p)
    BY <1>0, <2>2, GotoWritten DEF Recheck, Validate, Offer, TimerFires, Timeout
  <2> QED BY <1>4, <2>1, <2>2 DEF Notify
<1>5. CASE Accepting(p)
    BY <1>0, <1>5, GotoWritten
       DEF Accepting, CheckDriver, AssignDriver, DeleteQueue, DeleteCurrent, CreateTransaction,
           MarkBusy, RereadRide, WriteBackStatus, RereadDriver, FreeRefusedDriver, Process
<1>6. CASE \/ CheckCurrent(p) \/ RecordRejection(p) \/ ClearRejected(p) \/ MarkCancelled(p)
            \/ WriteUpdate(p)
    BY <1>0, <1>6, GotoWritten DEF CheckCurrent, RecordRejection, ClearRejected, MarkCancelled, WriteUpdate
<1>7. CASE MarkRejected(p) \/ TrackCancellation(p) \/ ReleaseDriver(p) \/ ResumeDispatch(p)
    BY <1>0, <1>7, GotoWritten DEF MarkRejected, TrackCancellation, ReleaseDriver, ResumeDispatch
<1> QED BY <1>1, <1>2, <1>3, <1>4, <1>5, <1>6, <1>7 DEF Step

(* The steps that write the queue of a ride or the offers made for it. *)
LEMMA QueueWritten ==
    ASSUME TypeInv, NEW p \in Procs, Step(p), NEW r \in Rides
    PROVE  /\ queue'[r] # queue[r] =>
                 RideOf(p) = r /\ (StoreQueue(p) \/ StoreRest(p) \/ DeleteQueue(p))
           /\ offers'[r] # offers[r] => RideOf(p) = r /\ Offer(p)
<1>0. /\ queue \in [Rides -> Seq(Drivers) \cup {NoQueue}]
      /\ offers \in [Rides -> Seq(Drivers)]
    BY DEF TypeInv, TypeOK
<1>1. StoreQueue(p) \/ StoreRest(p) \/ DeleteQueue(p) \/ UNCHANGED queue
    BY DEF Step, Notify, Accepting, CreateRide, FindDrivers, GiveUp, ReadQueue, SetCurrent,
           ClearCurrent, CancelExhausted, Recheck, Validate, Offer, TimerFires, Timeout,
           CheckDriver, AssignDriver, DeleteCurrent, CreateTransaction, MarkBusy, RereadRide,
           WriteBackStatus, RereadDriver, FreeRefusedDriver, CheckCurrent, RecordRejection,
           ClearRejected, MarkRejected, TrackCancellation, ReleaseDriver, ResumeDispatch,
           MarkCancelled, WriteUpdate, store
<1>1a. CreateRide(p) \/ FindDrivers(p) \/ StoreQueue(p) \/ GiveUp(p) => UNCHANGED offers
    BY DEF CreateRide, FindDrivers, StoreQueue, GiveUp, store
<1>1b. Offer(p) \/ UNCHANGED offers
    BY <1>1a
       DEF Step, Notify, Accepting, ReadQueue, StoreRest, SetCurrent, ClearCurrent,
           CancelExhausted, Recheck, Validate, TimerFires, Timeout, CheckDriver, AssignDriver,
           DeleteQueue, DeleteCurrent, CreateTransaction, MarkBusy, RereadRide, WriteBackStatus,
           RereadDriver, FreeRefusedDriver, CheckCurrent, RecordRejection, ClearRejected,
           MarkRejected, TrackCancellation, ReleaseDriver, ResumeDispatch, MarkCancelled, WriteUpdate, store
<1>2. ASSUME RideOf(p) # r PROVE offers'[r] = offers[r] /\ queue'[r] = queue[r]
    BY <1>0, <1>1, <1>2, StepElsewhere DEF StoreQueue, StoreRest, DeleteQueue
<1> QED BY <1>1, <1>1b, <1>2

(* A booking's own step keeps its chain apart from whom it has asked. *)
LEMMA ChainMine ==
    ASSUME RepeatInv, NEW p \in Procs, Step(p), proc[p].op = "book", Uncancelled(RideOf(p))
    PROVE  ChainHolds(p)' /\ IsInjective(offers'[RideOf(p)])
<1> DEFINE r == RideOf(p)
<1>0. /\ TypeInv /\ proc \in [Procs -> Process] /\ RideOf(p)' = r /\ r \in Rides
      /\ queue \in [Rides -> Seq(Drivers) \cup {NoQueue}] /\ offers \in [Rides -> Seq(Drivers)]
      /\ proc[p] \in Process /\ (proc[p].at \in DriverSteps => proc[p].driver \in Drivers)
    BY StepAbout, RecordType DEF RepeatInv, ContinuesInv, TypeInv, TypeOK
<1>h. ChainHolds(p) /\ IsInjective(offers[r]) /\ OpOK(proc[p])
    BY <1>0 DEF RepeatInv, ChainInv, NoRepeatedOffer, Uncancelled
<1> HIDE DEF r
<1>a. proc[p].at \notin AcceptSteps
    BY DEF RepeatInv, ContinuesInv, AcceptsOnly
<1>1. ASSUME UNCHANGED <<queue, offers>>, ~ At(p, "store"), ~ At(p, "store")',
             proc'[p].at \in BookingSteps => proc[p].at \in BookingSteps,
             proc'[p].at \in ChainSteps => proc[p].at \in ChainSteps,
             proc'[p].at \in HoldSteps => proc[p].at \in HoldSteps /\ proc'[p].driver = proc[p].driver
      PROVE  ChainHolds(p)' /\ IsInjective(offers'[r])
    BY <1>0, <1>1, <1>h DEF ChainHolds, Reserve, r
<1> USE DEF BookingSteps, ChainSteps, HoldSteps, At
<1>2. CASE CreateRide(p) \/ GiveUp(p)
    BY <1>0, <1>1, <1>2, GotoWritten DEF CreateRide, GiveUp
<1>3. CASE FindDrivers(p)
  <2>1. /\ proc[p].at = "find" /\ proc'[p].at \in {"giveUp", "filter"}
        /\ UNCHANGED <<queue, offers>>
    <3>1. proc' = [proc EXCEPT ![p].near = proc'[p].near, ![p].at = proc'[p].at]
          /\ proc'[p].at \in {"giveUp", "filter"}
      BY <1>0, <1>3 DEF FindDrivers, Process
    <3> QED BY <1>3, <3>1 DEF FindDrivers, store
  <2> QED BY <1>1, <2>1 DEF r
<1>4. CASE StoreQueue(p)
  <2> DEFINE S == {d \in proc[p].near : <<d, PassengerOf[r]>> \notin excluded}
  <2>1. /\ offers' = offers /\ offers[r] = <<>>
        /\ \/ proc'[p].at = "move" /\ \E q \in Orders(S) : queue'[r] = q
           \/ proc'[p].at = "giveUp"
    <3>1. proc[p].at = "filter" /\ offers' = offers
      BY <1>4 DEF StoreQueue
    <3>2. \/ /\ \E q \in Orders(S) : queue' = [queue EXCEPT ![r] = q]
             /\ proc' = [proc EXCEPT ![p].near = {}, ![p].at = "move"]
          \/ proc' = [proc EXCEPT ![p].near = {}, ![p].at = "giveUp"]
      BY <1>4 DEF StoreQueue, r
    <3>3. (\E q \in Orders(S) : queue' = [queue EXCEPT ![r] = q]) => \E q \in Orders(S) : queue'[r] = q
      BY <1>0
    <3> QED BY ZenonT(60), <1>0, <1>h, <3>1, <3>2, <3>3 DEF Process, ChainHolds, r
  <2>2. proc'[p].at = "move" => IsInjective(queue'[r])
    BY <2>1 DEF Orders
  <2>3. Range(offers'[r]) = {}
    BY <2>1 DEF Range
  <2> QED BY <1>0, <1>h, <2>1, <2>2, <2>3 DEF ChainHolds, Reserve, Unasked, r
<1>5. CASE ReadQueue(p)
  <2>1. CASE queue[r] \in {NoQueue, <<>>}
    BY <1>0, <1>1, <1>5, <2>1, GotoWritten DEF ReadQueue, store, r
  <2>2. CASE queue[r] \notin {NoQueue, <<>>}
    <3>1. /\ queue[r] \in Seq(Drivers) /\ queue[r] # <<>> /\ Unasked(queue[r], offers[r])
          /\ proc'[p].at = "store" /\ proc'[p].driver = Head(queue[r])
          /\ proc'[p].rest = Tail(queue[r]) /\ offers' = offers
      BY <1>0, <1>h, <1>5, <2>2 DEF ReadQueue, store, Process, ChainHolds, Reserve, r
    <3>2. /\ Unasked(Tail(queue[r]), offers[r])
          /\ Head(queue[r]) \notin Range(offers[r]) /\ Head(queue[r]) \notin Range(Tail(queue[r]))
      BY <3>1, PopUnasked
    <3> QED BY <1>0, <1>h, <3>1, <3>2 DEF ChainHolds, Reserve, r
  <2> QED BY <2>1, <2>2
<1>6. CASE StoreRest(p)
  <2>1. /\ queue'[r] = proc[p].rest /\ offers' = offers /\ proc'[p].at = "setCurrent"
        /\ proc'[p].driver = proc[p].driver /\ proc[p].at = "store"
    BY <1>0, <1>6 DEF StoreRest, Process, r
  <2> QED BY <1>0, <1>h, <2>1 DEF ChainHolds, Reserve, r
<1>7. CASE SetCurrent(p) \/ ClearCurrent(p) \/ CancelExhausted(p)
    BY <1>0, <1>1, <1>7, GotoWritten DEF SetCurrent, ClearCurrent, CancelExhausted
<1>8. CASE Recheck(p) \/ Validate(p) \/ TimerFires(p) \/ Timeout(p)
    BY <1>0, <1>1, <1>8, GotoWritten DEF Recheck, Validate, TimerFires, Timeout, store
<1>9. CASE Offer(p)
  <2>1. /\ offers'[r] = Append(offers[r], proc[p].driver) /\ queue' = queue
        /\ proc'[p].at = "timer" /\ proc[p].at = "offer" /\ proc[p].driver \in Drivers
    BY <1>0, <1>9, GotoWritten DEF Offer, DriverSteps, r
  <2>2. proc[p].driver \notin Range(offers[r]) /\ offers[r] \in Seq(Drivers)
    BY <1>0, <1>h, <2>1 DEF ChainHolds, r
  <2>3. /\ IsInjective(offers'[r])
        /\ \A e \in Range(offers'[r]) : e \in Range(offers[r]) \/ e = proc[p].driver
    BY <1>h, <2>1, <2>2, OfferAdded
  <2>4. queue[r] # NoQueue => Unasked(queue[r], offers[r]) /\ proc[p].driver \notin Range(queue[r])
    BY <1>h, <2>1 DEF ChainHolds, Reserve, r
  <2>5. queue[r] # NoQueue => Unasked(queue[r], offers'[r])
    BY <2>3, <2>4 DEF Unasked
  <2> QED BY <1>0, <2>1, <2>3, <2>5 DEF ChainHolds, Reserve, r
<1>10. ~ Accepting(p)
    BY <1>a DEF Accepting, CheckDriver, AssignDriver, DeleteQueue, DeleteCurrent, CreateTransaction,
           MarkBusy, RereadRide, WriteBackStatus, RereadDriver, FreeRefusedDriver, AcceptSteps
<1>11. CASE \/ CheckCurrent(p) \/ RecordRejection(p) \/ ClearRejected(p) \/ MarkCancelled(p)
            \/ WriteUpdate(p)
    BY <1>0, <1>1, <1>11, GotoWritten
       DEF CheckCurrent, RecordRejection, ClearRejected, MarkCancelled, WriteUpdate, store
<1>12. ~ (MarkRejected(p) \/ TrackCancellation(p) \/ ReleaseDriver(p) \/ ResumeDispatch(p))
    BY <1>h DEF MarkRejected, TrackCancellation, ReleaseDriver, ResumeDispatch, OpOK
<1> QED BY <1>2, <1>3, <1>4, <1>5, <1>6, <1>7, <1>8, <1>9, <1>10, <1>11, <1>12 DEF Step, Notify, r

(* What the others do to a ride a booking is about is at most to delete its  *)
(* queue.                                                                     *)
LEMMA OthersKeepAsked ==
    ASSUME RepeatInv, NEW p \in Procs, Request(p) \/ Step(p), NEW r \in Rides, Uncancelled(r),
           proc[p].op # "book" \/ RideOf(p) # r
    PROVE  offers'[r] = offers[r] /\ (queue'[r] = queue[r] \/ queue'[r] = NoQueue)
<1>0. /\ TypeInv /\ OpOK(proc[p])
      /\ queue \in [Rides -> Seq(Drivers) \cup {NoQueue}]
    BY DEF RepeatInv, ContinuesInv, TypeInv, TypeOK, ChainInv
<1>1. CASE Request(p)
    BY <1>0, <1>1, RequestAbout
<1>2. CASE Step(p) /\ RideOf(p) # r
    BY <1>0, <1>2, QueueWritten
<1>3. CASE Step(p) /\ RideOf(p) = r
  <2>1. proc[p].op \notin {"book", "driverCancel"}
    BY <1>3 DEF Uncancelled
  <2>2. ~ StoreQueue(p) /\ ~ StoreRest(p) /\ ~ Offer(p)
    BY <1>0, <2>1 DEF OpOK, StoreQueue, StoreRest, Offer, At, BookingSteps, ChainSteps
  <2>3. DeleteQueue(p) => queue'[r] = NoQueue
    BY <1>0, <1>3 DEF DeleteQueue
  <2> QED BY <1>0, <1>3, <2>2, <2>3, QueueWritten
<1> QED BY <1>1, <1>2, <1>3

LEMMA ChainStep ==
    ASSUME RepeatInv, NEW p \in Procs, Request(p) \/ Step(p)
    PROVE  ChainInv'
<1>0. /\ TypeInv /\ ContinuesInv /\ ChainInv /\ TypeInv'
    BY TypeStep DEF RepeatInv, ContinuesInv, Next
<1>1. /\ OpOK(proc'[p])
      /\ Step(p) => proc'[p].op = proc[p].op /\ RideOf(p)' = RideOf(p) /\ RideOf(p) \in Rides
      /\ Request(p) => proc[p].op = "none"
      /\ Request(p) /\ proc'[p].op = "book" =>
            /\ At(p, "create")' /\ RideOf(p)' \in Rides /\ \A q \in Procs : RideOf(q) # RideOf(p)'
    BY <1>0, OpsRequest, OpsStep, StepAbout, RequestAbout, RecordType DEF ChainInv, OpOK, At
<1>2. \A q \in Procs : q # p => proc'[q] = proc[q] /\ RideOf(q)' = RideOf(q)
    BY <1>0, OthersWait DEF RideOf
<1>3. ASSUME NEW r \in Rides, Uncancelled(r)' PROVE Uncancelled(r)
    BY <1>1, <1>2, <1>3 DEF Uncancelled
<1>4. \A q \in Procs : OpOK(proc'[q])
    BY <1>0, <1>1, <1>2 DEF ChainInv
<1>5. ASSUME NEW q \in Procs, NEW w \in Procs, proc'[q].op = "book", proc'[w].op = "book",
             RideOf(q)' = RideOf(w)'
      PROVE  q = w
    BY <1>0, <1>1, <1>2, <1>5 DEF ChainInv
<1>6. ASSUME NEW q \in Procs, proc'[q].op = "book", Uncancelled(RideOf(q))'
      PROVE  ChainHolds(q)'
  <2>1. CASE q = p /\ Step(p)
    BY <1>1, <1>3, <1>6, <2>1, ChainMine
  <2>2. CASE q = p /\ Request(p)
    <3>1. offers[RideOf(p)'] = <<>> /\ offers' = offers
      BY <1>0, <1>1, <1>6, <2>2, RequestAbout DEF ContinuesInv, Unoffered
    <3> QED BY <1>1, <1>6, <2>2, <3>1 DEF ChainHolds, At, BookingSteps, ChainSteps, HoldSteps
  <2>3. CASE q # p
    <3> DEFINE r == RideOf(q)
    <3>1. proc'[q] = proc[q] /\ RideOf(q)' = r /\ proc[q].op = "book" /\ r \in Rides
      BY <1>0, <1>2, <1>6, <2>3, RecordType DEF ChainInv, OpOK, At
    <3>2. Uncancelled(r)
      BY <1>3, <1>6, <3>1
    <3>3. ChainHolds(q)
      BY <1>0, <3>1, <3>2 DEF ChainInv
    <3>4. proc[p].op # "book" \/ RideOf(p) # r
      BY <1>0, <2>3, <3>1 DEF ChainInv
    <3>5. offers'[r] = offers[r] /\ (queue'[r] = queue[r] \/ queue'[r] = NoQueue)
      BY <3>1, <3>2, <3>4, OthersKeepAsked
    <3> QED BY <3>1, <3>3, <3>5 DEF ChainHolds, Reserve, At
  <2> QED BY <2>1, <2>2, <2>3
<1>7. NoRepeatedOffer'
  <2> SUFFICES ASSUME NEW r \in Rides, Uncancelled(r)' PROVE IsInjective(offers'[r])
      BY DEF NoRepeatedOffer, Uncancelled
  <2>1. Uncancelled(r) /\ IsInjective(offers[r])
    BY <1>0, <1>3 DEF ChainInv, NoRepeatedOffer, Uncancelled
  <2>2. CASE Step(p) /\ proc[p].op = "book" /\ RideOf(p) = r
    BY <2>1, <2>2, ChainMine
  <2>3. CASE Request(p) \/ proc[p].op # "book" \/ RideOf(p) # r
    BY <1>1, <2>1, <2>3, OthersKeepAsked
  <2> QED BY <2>2, <2>3
<1> QED BY <1>4, <1>5, <1>6, <1>7 DEF ChainInv

LEMMA RepeatNext == RepeatInv /\ [Next]_vars => RepeatInv'
<1> SUFFICES ASSUME RepeatInv, [Next]_vars PROVE ChainInv'
    BY ContinuesNext DEF RepeatInv
<1>1. ASSUME UNCHANGED <<queue, offers>>,
             \A p \in Procs : /\ proc'[p].op = proc[p].op /\ RideOf(p)' = RideOf(p)
                              /\ proc'[p] = proc[p] \/ proc'[p].at = "lost"
      PROVE  ChainInv'
  <2>1. ASSUME NEW r PROVE Uncancelled(r)' <=> Uncancelled(r)
    BY <1>1 DEF Uncancelled
  <2>2. \A p \in Procs : OpOK(proc'[p])
    BY <1>1 DEF RepeatInv, ChainInv, OpOK, BookingSteps, ChainSteps
  <2>3. ASSUME NEW p \in Procs, proc'[p].op = "book", Uncancelled(RideOf(p))' PROVE ChainHolds(p)'
    <3>1. ChainHolds(p)
      BY <1>1, <2>1, <2>3 DEF RepeatInv, ChainInv
    <3> QED BY <1>1, <3>1 DEF ChainHolds, Reserve, At, BookingSteps, ChainSteps, HoldSteps
  <2>4. NoRepeatedOffer'
    BY <1>1 DEF RepeatInv, ChainInv, NoRepeatedOffer
  <2> QED BY <1>1, <2>2, <2>3, <2>4 DEF RepeatInv, ChainInv
<1>2. CASE Restart
    BY <1>1, <1>2 DEF Restart, RideOf, IdleProcess, store
<1>3. CASE Environment
    BY <1>1, <1>2, <1>3 DEF Environment, Elsewhere, LocationPing, ReportStatus, ExclusionExpires, RideOf
<1>4. CASE \E p \in Procs : Request(p) \/ Step(p)
    BY <1>4, ChainStep
<1>5. CASE UNCHANGED vars
    BY <1>1, <1>5 DEF vars, store, RideOf
<1> QED BY <1>3, <1>4, <1>5 DEF Next

(* No driver is asked twice for a ride that no driver cancels, however        *)
(* acceptances, rejections, timers and restarts interleave with the pop of    *)
(* its queue.                                                                  *)
THEOREM NobodyIsAskedTwice == Spec => []NoRepeatedOffer
<1>1. Init => RepeatInv
  <2> SUFFICES ASSUME Init PROVE RepeatInv
      OBVIOUS
  <2>1. ContinuesInv
    BY ContinuesInit
  <2>2. \A p \in Procs : proc[p].at = "idle" /\ proc[p].op = "none"
    BY DEF Init, IdleProcess
  <2>3. \A r \in Rides : IsInjective(offers[r])
    BY DEF Init, IsInjective
  <2> QED BY <2>1, <2>2, <2>3 DEF RepeatInv, ChainInv, OpOK, BookingSteps, ChainSteps, NoRepeatedOffer
<1>2. RepeatInv => NoRepeatedOffer
    BY DEF RepeatInv, ChainInv
<1> QED BY <1>1, <1>2, RepeatNext, PTL DEF Spec
===============================================================================
