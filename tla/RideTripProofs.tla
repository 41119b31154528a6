---------------------------- MODULE RideTripProofs ----------------------------
(***************************************************************************)
(* Theorems about RideTrip, for every number of rides, drivers, passengers,  *)
(* requests and restarts, and every fare, tip and toll.                      *)
(***************************************************************************)
EXTENDS RideTrip, DispatchProofs

(* What a request has read when it reaches a step: its ride from the start,  *)
(* its driver in the driver's requests, a status before one is written.      *)
RecordOK(e) ==
    /\ e.at # "idle" => e.ride \in Rides
    /\ e.at \in {"move", "started", "paidCheck", "complete", "findEntry", "saveEntry", "free"}
       => e.driver \in Users
    /\ e.at = "move" => e.op \in MoveOps
    /\ e.at = "tipRide" => e.tip \in Nat

MoneyOK ==
    /\ bill \in [Rides -> Billed]
    /\ debit \in [Rides -> Entry]
    /\ credit \in [Rides -> Entry]
    /\ wallet \in [Users -> Int]

RequestsOK == trip \in [TripProcs -> TripProcess] /\ \A t \in TripProcs : RecordOK(trip[t])

TripTypeInv == TypeInv /\ MoneyOK /\ RequestsOK

-------------------------------------------------------------------------------
(* Type correctness *)

(* A request that has not begun is typed. *)
LEMMA IdleTripType == IdleTrip \in TripProcess /\ RecordOK(IdleTrip)
BY DEF IdleTrip, TripProcess, TripOps, MoveOps, TripSteps, MaybeHolder, RecordOK

(* Accepted rides with a prefix of their entries are typed. *)
LEMMA TripTypeInit == TripInit => TripTypeInv
<1> SUFFICES ASSUME TripInit PROVE TripTypeInv
    OBVIOUS
<1>1. TypeOK
  <2>1. \A r \in Rides : DriverOf[r] \in Drivers
    BY DriverOfAssumption
  <2>2. ride \in [Rides -> [status : RideStatuses \cup {NoRide}, driver : MaybeHolder]]
    BY <2>1, OpeningAssumption DEF TripInit, RideStatuses, MaybeHolder, Users
  <2>3. queue \in [Rides -> Seq(Drivers) \cup {NoQueue}] /\ current \in [Rides -> MaybeDriver]
    BY DEF TripInit, MaybeDriver
  <2>4. offers \in [Rides -> Seq(Drivers)]
    BY <2>1 DEF TripInit
  <2>5. loc \in [Drivers -> DriverLoc]
    BY DEF TripInit, DriverLoc, BusyLoc, FreeLoc, DriverStatuses
  <2>6. excluded \subseteq Drivers \X Passengers /\ restarts \in 0..MaxRestarts
    BY RestartAssumption DEF TripInit
  <2>7. txns \subseteq Rides \X Drivers
    <3>1. \A r \in Rides : <<r, DriverOf[r]>> \in Rides \X Drivers
      BY <2>1
    <3>2. txns = {<<r, DriverOf[r]>> : r \in {q \in Rides : credit[q].status # "NONE"}}
      BY DEF TripInit
    <3> QED BY <3>1, <3>2, Zenon
  <2>8. proc \in [Procs -> Process]
    BY IdleType DEF TripInit
  <2> QED BY <2>2, <2>3, <2>4, <2>5, <2>6, <2>7, <2>8 DEF TypeOK
<1>2. ProcOK
    BY DEF TripInit, ProcOK, IdleProcess, At, DriverSteps, AcceptSteps, RejectSteps
<1>3. bill \in [Rides -> Billed]
    BY DEF TripInit, Billed
<1>4. debit \in [Rides -> Entry] /\ credit \in [Rides -> Entry]
  <2>1. PICK open \in [Rides -> UNION {OpeningEntries(m) : m \in Methods}] :
           /\ debit = [r \in Rides |-> open[r][1]]
           /\ credit = [r \in Rides |-> open[r][2]]
    BY DEF TripInit
  <2>2. \A m \in Methods : OpeningEntries(m) \subseteq Entry \X Entry
    BY AmountAssumption DEF OpeningEntries, Entry, NoEntry
  <2>3. \A r \in Rides : open[r] \in Entry \X Entry
    BY <2>2
  <2> QED BY <2>1, <2>3
<1>5. wallet \in [Users -> Int]
    BY AmountAssumption DEF TripInit
<1>6. RequestsOK
    BY IdleTripType DEF TripInit, RequestsOK
<1> QED BY <1>1, <1>2, <1>3, <1>4, <1>5, <1>6 DEF TripTypeInv, TypeInv, MoneyOK

(* A request whose record becomes e. *)
LEMMA RecordBecomes ==
    ASSUME RequestsOK, NEW t \in TripProcs, NEW e \in TripProcess, RecordOK(e),
           trip' = [trip EXCEPT ![t] = e]
    PROVE  RequestsOK'
<1>1. trip' \in [TripProcs -> TripProcess]
    BY DEF RequestsOK
<1>2. \A u \in TripProcs : trip'[u] = IF u = t THEN e ELSE trip[u]
    BY DEF RequestsOK
<1> QED BY <1>1, <1>2 DEF RequestsOK

(* A request that moves on to another step, with what that step needs. *)
LEMMA RecordMoves ==
    ASSUME RequestsOK, NEW t \in TripProcs, NEW step \in TripSteps, TripGoto(t, step),
           trip[t].at # "idle", step \notin {"move", "tipRide"},
           step \in {"started", "paidCheck", "complete", "findEntry", "saveEntry", "free"}
           => trip[t].driver \in Users
    PROVE  RequestsOK'
<1> DEFINE e == [trip[t] EXCEPT !.at = step]
<1>1. trip[t] \in TripProcess /\ RecordOK(trip[t])
    BY DEF RequestsOK
<1>2. e \in TripProcess /\ RecordOK(e)
    BY <1>1 DEF TripProcess, RecordOK
<1>3. trip' = [trip EXCEPT ![t] = e]
    BY DEF TripGoto
<1> HIDE DEF e
<1> QED BY <1>2, <1>3, RecordBecomes

(* What a request under way has. *)
LEMMA RecordHas ==
    ASSUME RequestsOK, NEW t \in TripProcs
    PROVE  /\ trip[t] \in TripProcess
           /\ RecordOK(trip[t])
           /\ trip[t].at # "idle" => trip[t].ride \in Rides
BY DEF RequestsOK, RecordOK

(* A step that leaves the dispatch alone, or only writes the status of a ride. *)
LEMMA DispatchKept == ASSUME TypeInv, UNCHANGED vars PROVE TypeInv'
BY DEF vars, store, TypeInv, TypeOK, ProcOK, At, RideOf

(* A status written by a request of this module keeps the dispatch typed. *)
LEMMA StatusKept ==
    ASSUME TypeInv, NEW r \in Rides, NEW s \in RideStatuses, SetRide(r, s)
    PROVE  TypeInv'
<1>1. ride' \in [Rides -> [status : RideStatuses \cup {NoRide}, driver : MaybeHolder]]
    BY DEF TypeInv, TypeOK, SetRide, SetStatus
<1> QED BY <1>1 DEF SetRide, TypeInv, TypeOK, ProcOK, At, RideOf

(* The first entry of a ride is an entry, and saving one keeps the ledger typed. *)
LEMMA FirstEntryType ==
    ASSUME MoneyOK, NEW r \in Rides
    PROVE  FirstEntry(r) \in Entry /\ debit[r] \in Entry /\ credit[r] \in Entry
BY DEF MoneyOK, FirstEntry

(* save() leaves an entry, with the status that amending or settling means. *)
LEMMA AmendedType ==
    ASSUME NEW e \in Entry, NEW read \in Nat, NEW amount \in Nat
    PROVE  /\ Amended(e, read, amount) \in Entry
           /\ Amended(e, read, amount).status = e.status
           /\ Settled(e, read, amount) \in Entry
           /\ Settled(e, read, amount).status = "COMPLETED"
BY DEF Entry, Amended, Settled

(* Saving a first entry keeps the ledger typed. *)
LEMMA WriteFirstType ==
    ASSUME MoneyOK, NEW r \in Rides, NEW e \in Entry, WriteFirst(r, e), UNCHANGED <<bill, wallet>>
    PROVE  MoneyOK'
BY DEF MoneyOK, WriteFirst

(* The reads that begin a request. *)
LEMMA TripRequestType ==
    ASSUME TripTypeInv, NEW t \in TripProcs, TripRequest(t)
    PROVE  TripTypeInv'
<1>1. PICK r \in Rides :
         \/ ReportStage(t, "arrive", r, -1) \/ ReportStage(t, "pickUp", r, -1)
         \/ \E toll \in Tolls \cup {-1} : ReportStage(t, "reach", r, toll)
         \/ StartRide(t, r)
         \/ \E final \in FinalFares : CompleteRide(t, r, final)
         \/ \E tip \in Tips \cup {-1} : AskTransaction(t, r, tip)
         \/ ConfirmPayment(t, r)
    BY DEF TripRequest, PickUpRoutes, DrivingRoutes, PaymentRoutes
<1>2. ride[r].status \in RideStatuses \cup {NoRide} /\ ride[r].driver \in MaybeHolder
    BY DEF TripTypeInv, TypeInv, TypeOK
<1>3. bill[r].tips \in Nat /\ bill[r].toll \in Nat
    BY DEF TripTypeInv, MoneyOK, Billed
<1>4. ASSUME NEW op \in TripOps, NEW new \in TripProcess, TripBegin(t, op, r, new),
             RecordOK([new EXCEPT !.op = op, !.ride = r])
      PROVE  TripTypeInv'
  <2>1. TypeInv' /\ MoneyOK'
    BY <1>4, DispatchKept DEF TripBegin, money, TripTypeInv, MoneyOK
  <2>2. RequestsOK'
    <3> DEFINE e == [new EXCEPT !.op = op, !.ride = r]
    <3>1. e \in TripProcess
      BY DEF TripProcess
    <3>2. trip' = [trip EXCEPT ![t] = e] /\ RecordOK(e)
      BY <1>4 DEF TripBegin
    <3> HIDE DEF e
    <3> QED BY <3>1, <3>2, RecordBecomes DEF TripTypeInv
  <2> QED BY <2>1, <2>2 DEF TripTypeInv
<1>5. ASSUME NEW op \in MoveOps, NEW toll \in Nat \cup {-1}, ReportStage(t, op, r, toll)
      PROVE  TripTypeInv'
  <2> DEFINE step == IF DriverMayMove(ride[r].status, Stage[op]) THEN "move" ELSE "refused"
             new == [IdleTrip EXCEPT !.driver = ride[r].driver, !.toll = toll, !.at = step]
  <2>1. ride[r].driver \in Users
    BY <1>2, <1>5 DEF ReportStage, MaybeHolder
  <2>2. TripBegin(t, op, r, new) /\ op \in TripOps
    BY <1>5 DEF ReportStage, TripOps
  <2>3. step \in {"move", "refused"}
    OBVIOUS
  <2> HIDE DEF step
  <2>4. new \in TripProcess /\ RecordOK([new EXCEPT !.op = op, !.ride = r])
    BY ZenonT(60), <2>1, <2>3, IdleTripType DEF TripProcess, TripSteps, MaybeHolder, RecordOK, IdleTrip
  <2> HIDE DEF new
  <2> QED BY <1>4, <2>2, <2>4
<1>6. CASE StartRide(t, r)
  <2> DEFINE new == [IdleTrip EXCEPT !.driver = ride[r].driver, !.saw = ride[r].status,
                                     !.at = "started"]
  <2>1. ride[r].driver \in Users
    BY <1>2, <1>6 DEF StartRide, MaybeHolder
  <2>2. new \in TripProcess /\ RecordOK([new EXCEPT !.op = "start", !.ride = r])
    BY ZenonT(60), <1>2, <2>1, IdleTripType DEF TripProcess, TripSteps, MaybeHolder, RecordOK, IdleTrip
  <2>3. TripBegin(t, "start", r, new) /\ "start" \in TripOps
    BY <1>6 DEF StartRide, TripOps
  <2> HIDE DEF new
  <2> QED BY <1>4, <2>2, <2>3
<1>8. ASSUME NEW final \in FinalFares, CompleteRide(t, r, final)
      PROVE  TripTypeInv'
  <2> DEFINE sum == IF final = 0 THEN Fare ELSE final
             step == IF ~ DriverMayMove(ride[r].status, "COMPLETED") THEN "refused"
                     ELSE IF MethodOf[r] = "WALLET" THEN "paidCheck" ELSE "complete"
             new == [IdleTrip EXCEPT !.driver = ride[r].driver, !.sum = sum, !.at = step]
  <2>1. ride[r].driver \in Users
    BY <1>2, <1>8 DEF CompleteRide, MaybeHolder
  <2>2. TripBegin(t, "complete", r, new) /\ "complete" \in TripOps
    BY <1>8 DEF CompleteRide, TripOps
  <2>3. step \in {"refused", "paidCheck", "complete"} /\ sum \in Nat
    BY AmountAssumption
  <2> HIDE DEF step, sum
  <2>4. new \in TripProcess /\ RecordOK([new EXCEPT !.op = "complete", !.ride = r])
    BY ZenonT(60), <2>1, <2>3, IdleTripType DEF TripProcess, TripSteps, MaybeHolder, RecordOK, IdleTrip
  <2> HIDE DEF new
  <2> QED BY <1>4, <2>2, <2>4
<1>9. ASSUME NEW tip \in Tips \cup {-1}, AskTransaction(t, r, tip)
      PROVE  TripTypeInv'
  <2> DEFINE sum == Fare + bill[r].toll + (IF tip = -1 THEN 0 ELSE tip)
             step == IF bill[r].paid THEN "refused" ELSE "tipFind"
             new == [IdleTrip EXCEPT !.tip = tip, !.sum = sum, !.at = step]
  <2>1. tip \in Nat \cup {-1}
    BY AmountAssumption
  <2>2. TripBegin(t, "tip", r, new) /\ "tip" \in TripOps
    BY <1>9 DEF AskTransaction, TripOps
  <2>3. sum \in Nat /\ step \in {"refused", "tipFind"}
    BY <1>3, <2>1, AmountAssumption
  <2> HIDE DEF step, sum
  <2>4. new \in TripProcess /\ RecordOK([new EXCEPT !.op = "tip", !.ride = r])
    BY ZenonT(60), <2>1, <2>3, IdleTripType DEF TripProcess, TripSteps, RecordOK, IdleTrip
  <2> HIDE DEF new
  <2> QED BY <1>4, <2>2, <2>4
<1>10. CASE ConfirmPayment(t, r)
  <2> DEFINE sum == Fare + bill[r].tips + bill[r].toll
             step == IF bill[r].paid THEN "refused" ELSE "payFind"
             new == [IdleTrip EXCEPT !.driver = ride[r].driver, !.sum = sum, !.at = step]
  <2>1. TripBegin(t, "confirm", r, new) /\ "confirm" \in TripOps
    BY <1>10 DEF ConfirmPayment, TripOps
  <2>2. sum \in Nat /\ step \in {"refused", "payFind"}
    BY <1>3, AmountAssumption
  <2> HIDE DEF step, sum
  <2>3. new \in TripProcess /\ RecordOK([new EXCEPT !.op = "confirm", !.ride = r])
    BY ZenonT(60), <1>2, <2>2, IdleTripType DEF TripProcess, TripSteps, RecordOK, IdleTrip
  <2> HIDE DEF new
  <2> QED BY <1>4, <2>1, <2>3
<1>11. {"arrive", "pickUp", "reach"} \subseteq MoveOps /\ Tolls \cup {-1} \subseteq Nat \cup {-1}
    BY AmountAssumption DEF MoveOps
<1> QED BY <1>1, <1>5, <1>6, <1>8, <1>9, <1>10, <1>11

(* The writes of the trip's stages and of startRide. *)
LEMMA StageType ==
    ASSUME TripTypeInv, NEW t \in TripProcs, WriteStage(t) \/ WriteStarted(t)
    PROVE  TripTypeInv'
<1>1. trip[t] \in TripProcess /\ RecordOK(trip[t])
    BY DEF TripTypeInv, RequestsOK
<1>2. {"STARTED", "AT_PICKUP", "HAS_PICKUP", "REACHED"} \subseteq RideStatuses
    BY DEF RideStatuses
<1>3. CASE WriteStage(t)
  <2> DEFINE r == trip[t].ride
  <2>1. r \in Rides /\ trip[t].op \in MoveOps /\ trip[t].driver \in Users
    BY <1>1, <1>3 DEF WriteStage, TripAt, RecordOK
  <2>2. Stage[trip[t].op] \in RideStatuses
    BY <1>2, <2>1 DEF Stage, MoveOps
  <2>3. ride' \in [Rides -> [status : RideStatuses \cup {NoRide}, driver : MaybeHolder]]
    BY <1>3, <2>1, <2>2 DEF WriteStage, TripTypeInv, TypeInv, TypeOK, MaybeHolder
  <2>4. TypeInv'
    BY <1>3, <2>3 DEF WriteStage, TripTypeInv, TypeInv, TypeOK, ProcOK, At, RideOf
  <2>5. bill' \in [Rides -> Billed]
    BY <1>1, <1>3, <2>1 DEF WriteStage, TripTypeInv, MoneyOK, Billed, TripProcess
  <2>6. MoneyOK'
    BY <1>3, <2>5 DEF WriteStage, TripTypeInv, MoneyOK
  <2>7. RequestsOK'
    BY <1>3, RecordMoves DEF WriteStage, TripAt, TripTypeInv, TripSteps
  <2> QED BY <2>4, <2>6, <2>7 DEF TripTypeInv
<1>4. CASE WriteStarted(t)
  <2>1. TypeInv'
    BY <1>1, <1>2, <1>4, StatusKept DEF WriteStarted, TripAt, RecordOK, TripTypeInv
  <2>2. MoneyOK'
    BY <1>4 DEF WriteStarted, money, TripTypeInv, MoneyOK
  <2>3. PICK step \in {"done", "refused"} : TripGoto(t, step)
    BY <1>4 DEF WriteStarted
  <2>4. RequestsOK'
    BY <1>4, <2>3, RecordMoves DEF WriteStarted, TripAt, TripTypeInv, TripSteps
  <2> QED BY <2>1, <2>2, <2>4 DEF TripTypeInv
<1> QED BY <1>3, <1>4

(* completeRide after its first read. *)
LEMMA CompleteType ==
    ASSUME TripTypeInv, NEW t \in TripProcs,
           CheckPaid(t) \/ WriteCompleted(t) \/ FindEntry(t) \/ SaveEntry(t) \/ FreeDriver(t)
    PROVE  TripTypeInv'
<1>1. trip[t] \in TripProcess /\ RecordOK(trip[t])
    BY DEF TripTypeInv, RequestsOK
<1>2. RequestsOK /\ MoneyOK /\ TypeInv
    BY DEF TripTypeInv
<1>3. CASE CheckPaid(t)
  <2>1. PICK step \in {"complete", "refused"} : TripGoto(t, step)
    BY <1>3 DEF CheckPaid
  <2>2. RequestsOK'
    BY <1>1, <1>2, <1>3, <2>1, RecordMoves DEF CheckPaid, TripAt, RecordOK, TripSteps
  <2>3. TypeInv' /\ MoneyOK'
    BY <1>2, <1>3, DispatchKept DEF CheckPaid, money, MoneyOK
  <2> QED BY <2>2, <2>3 DEF TripTypeInv
<1>4. CASE WriteCompleted(t)
  <2>1. trip[t].ride \in Rides /\ trip[t].driver \in Users
    BY <1>1, <1>4 DEF WriteCompleted, TripAt, RecordOK
  <2>2. RequestsOK'
    BY <1>2, <1>4, <2>1, RecordMoves DEF WriteCompleted, TripAt, TripSteps
  <2>3. TypeInv'
    BY <1>2, <1>4, <2>1, StatusKept DEF WriteCompleted, RideStatuses
  <2>4. MoneyOK'
    BY <1>2, <1>4, <2>1 DEF WriteCompleted, MoneyOK, Billed
  <2> QED BY <2>2, <2>3, <2>4 DEF TripTypeInv
<1>5. CASE FindEntry(t)
  <2> DEFINE r == trip[t].ride
             step == IF HasEntry(r) THEN "saveEntry" ELSE "free"
             e == [trip[t] EXCEPT !.owed = FirstEntry(r).amount, !.at = step]
  <2>1. r \in Rides /\ trip[t].driver \in Users
    BY <1>1, <1>5 DEF FindEntry, TripAt, RecordOK
  <2>2. FirstEntry(r).amount \in Nat
    BY <1>2, <2>1, FirstEntryType DEF Entry
  <2>3. trip' = [trip EXCEPT ![t] = e]
    BY <1>5 DEF FindEntry
  <2>4. step \in {"saveEntry", "free"}
    OBVIOUS
  <2> HIDE DEF step
  <2>5. e \in TripProcess /\ RecordOK(e)
    BY <1>1, <2>1, <2>2, <2>4 DEF TripProcess, TripSteps, RecordOK
  <2> HIDE DEF e
  <2>6. RequestsOK'
    BY <1>2, <2>3, <2>5, RecordBecomes
  <2>7. TypeInv' /\ MoneyOK'
    BY <1>2, <1>5, DispatchKept DEF FindEntry, money, MoneyOK
  <2> QED BY <2>6, <2>7 DEF TripTypeInv
<1>6. CASE SaveEntry(t)
  <2> DEFINE r == trip[t].ride
  <2>1. r \in Rides /\ trip[t].driver \in Users /\ trip[t].owed \in Nat /\ trip[t].sum \in Nat
    BY <1>1, <1>6 DEF SaveEntry, TripAt, RecordOK, TripProcess
  <2>2. FirstEntry(r) \in Entry
    BY <1>2, <2>1, FirstEntryType
  <2>3. PICK e \in Entry : WriteFirst(r, e)
    BY <1>6, <2>1, <2>2, AmendedType DEF SaveEntry
  <2>4. MoneyOK'
    BY <1>2, <1>6, <2>1, <2>3, WriteFirstType DEF SaveEntry
  <2>5. RequestsOK'
    BY <1>2, <1>6, <2>1, RecordMoves DEF SaveEntry, TripAt, TripSteps
  <2>6. TypeInv'
    BY <1>2, <1>6, DispatchKept DEF SaveEntry
  <2> QED BY <2>4, <2>5, <2>6 DEF TripTypeInv
<1>7. CASE FreeDriver(t)
  <2>1. trip[t].driver \in Users
    BY <1>1, <1>7 DEF FreeDriver, TripAt, RecordOK
  <2>2. loc' \in [Drivers -> DriverLoc]
    BY <1>2, <1>7 DEF FreeDriver, FreeLoc, DriverLoc, DriverStatuses, TypeInv, TypeOK
  <2>3. TypeInv'
    BY <1>2, <1>7, <2>2 DEF FreeDriver, TypeInv, TypeOK, ProcOK, At, RideOf
  <2>4. MoneyOK'
    BY <1>2, <1>7 DEF FreeDriver, money, MoneyOK
  <2>5. RequestsOK'
    BY <1>2, <1>7, RecordMoves DEF FreeDriver, TripAt, TripSteps
  <2> QED BY <2>3, <2>4, <2>5 DEF TripTypeInv
<1> QED BY <1>3, <1>4, <1>5, <1>6, <1>7

(* getRideTransaction after its first read. *)
LEMMA TipType ==
    ASSUME TripTypeInv, NEW t \in TripProcs,
           FindTipped(t) \/ WriteTip(t) \/ FindTipWallet(t) \/ SaveTipped(t)
    PROVE  TripTypeInv'
<1> DEFINE r == trip[t].ride
<1>1. trip[t] \in TripProcess /\ RecordOK(trip[t])
    BY DEF TripTypeInv, RequestsOK
<1>2. RequestsOK /\ MoneyOK /\ TypeInv
    BY DEF TripTypeInv
<1>3. r \in Rides
    BY <1>1 DEF RecordOK, FindTipped, WriteTip, FindTipWallet, SaveTipped, TripAt
<1>4. CASE FindTipped(t)
  <2> DEFINE step == IF ~ HasEntry(r) THEN "refused"
                     ELSE IF trip[t].tip = -1 THEN "tipWallet" ELSE "tipRide"
             e == [trip[t] EXCEPT !.owed = FirstEntry(r).amount, !.at = step]
  <2>1. FirstEntry(r).amount \in Nat
    BY <1>2, <1>3, FirstEntryType DEF Entry
  <2>2. trip' = [trip EXCEPT ![t] = e]
    BY <1>4 DEF FindTipped
  <2>3. step \in {"refused", "tipWallet", "tipRide"} /\ (step = "tipRide" => trip[t].tip # -1)
    <3>1. CASE trip[t].tip = -1
      BY <3>1
    <3>2. CASE trip[t].tip # -1
      BY <3>2
    <3> QED BY <3>1, <3>2
  <2>4. trip[t].tip \in Nat \cup {-1}
    BY <1>1 DEF TripProcess
  <2>5. step = "tipRide" => trip[t].tip \in Nat
    BY <2>3, <2>4
  <2> HIDE DEF step
  <2>6. e \in TripProcess
    BY <1>1, <2>1, <2>3 DEF TripProcess, TripSteps
  <2>7. e.at = step /\ e.ride = r /\ e.tip = trip[t].tip
    BY <1>1 DEF TripProcess
  <2>8. RecordOK(e)
    BY <1>3, <2>3, <2>5, <2>7 DEF RecordOK
  <2> HIDE DEF e
  <2>9. RequestsOK'
    BY <1>2, <2>2, <2>6, <2>8, RecordBecomes
  <2>10. TypeInv' /\ MoneyOK'
    BY <1>2, <1>4, DispatchKept DEF FindTipped, money, MoneyOK
  <2> QED BY <2>9, <2>10 DEF TripTypeInv
<1>5. CASE WriteTip(t)
  <2>1. trip[t].tip \in Nat
    BY <1>1, <1>5 DEF WriteTip, TripAt, RecordOK, TripProcess
  <2>2. MoneyOK'
    BY <1>2, <1>3, <1>5, <2>1 DEF WriteTip, MoneyOK, Billed
  <2>3. RequestsOK'
    BY <1>2, <1>5, RecordMoves DEF WriteTip, TripAt, TripSteps
  <2>4. TypeInv'
    BY <1>2, <1>5, DispatchKept DEF WriteTip
  <2> QED BY <2>2, <2>3, <2>4 DEF TripTypeInv
<1>6. CASE FindTipWallet(t)
  <2>1. PICK step \in {"refused", "tipSave"} : TripGoto(t, step)
    BY <1>6 DEF FindTipWallet
  <2>2. RequestsOK'
    BY <1>2, <1>6, <2>1, RecordMoves DEF FindTipWallet, TripAt, TripSteps
  <2>3. TypeInv' /\ MoneyOK'
    BY <1>2, <1>6, DispatchKept DEF FindTipWallet, money, MoneyOK
  <2> QED BY <2>2, <2>3 DEF TripTypeInv
<1>7. CASE SaveTipped(t)
  <2>1. trip[t].owed \in Nat /\ trip[t].sum \in Nat
    BY <1>1 DEF TripProcess
  <2>2. FirstEntry(r) \in Entry
    BY <1>2, <1>3, FirstEntryType
  <2>3. PICK e \in Entry : WriteFirst(r, e)
    BY <1>7, <2>1, <2>2, AmendedType DEF SaveTipped
  <2>4. MoneyOK'
    BY <1>2, <1>3, <1>7, <2>3, WriteFirstType DEF SaveTipped
  <2>5. RequestsOK'
    BY <1>2, <1>7, RecordMoves DEF SaveTipped, TripAt, TripSteps
  <2>6. TypeInv'
    BY <1>2, <1>7, DispatchKept DEF SaveTipped
  <2> QED BY <2>4, <2>5, <2>6 DEF TripTypeInv
<1> QED BY <1>4, <1>5, <1>6, <1>7
(* confirmPayment up to its first save. *)
LEMMA ConfirmReadsType ==
    ASSUME TripTypeInv, NEW t \in TripProcs,
           \/ FindPayment(t) \/ FindDebit(t) \/ FindCredit(t)
           \/ ReadPassengerWallet(t) \/ ReadDriverWallet(t)
    PROVE  TripTypeInv'
<1> DEFINE r == trip[t].ride
<1>1. trip[t] \in TripProcess /\ RecordOK(trip[t])
    BY DEF TripTypeInv, RequestsOK
<1>2. RequestsOK /\ MoneyOK /\ TypeInv
    BY DEF TripTypeInv
<1>3. r \in Rides
    BY <1>1 DEF RecordOK, FindPayment, FindDebit, FindCredit, ReadPassengerWallet,
                ReadDriverWallet, TripAt
<1>4. CASE FindPayment(t)
  <2>1. PICK step \in {"refused", "done", "payDebit"} : TripGoto(t, step)
    BY <1>4 DEF FindPayment
  <2>2. RequestsOK'
    BY <1>2, <1>4, <2>1, RecordMoves DEF FindPayment, TripAt, TripSteps
  <2>3. TypeInv' /\ MoneyOK'
    BY <1>2, <1>4, DispatchKept DEF FindPayment, money, MoneyOK
  <2> QED BY <2>2, <2>3 DEF TripTypeInv
<1>5. CASE FindDebit(t)
  <2> DEFINE step == IF debit[r].status = "NONE" THEN "refused" ELSE "payCredit"
             e == [trip[t] EXCEPT !.owed = debit[r].amount, !.at = step]
  <2>1. debit[r].amount \in Nat
    BY <1>2, <1>3 DEF MoneyOK, Entry
  <2>2. trip' = [trip EXCEPT ![t] = e]
    BY <1>5 DEF FindDebit
  <2>3. step \in {"refused", "payCredit"}
    OBVIOUS
  <2> HIDE DEF step
  <2>4. e \in TripProcess /\ RecordOK(e)
    BY <1>1, <1>3, <2>1, <2>3 DEF TripProcess, TripSteps, RecordOK
  <2> HIDE DEF e
  <2>5. RequestsOK'
    BY <1>2, <2>2, <2>4, RecordBecomes
  <2>6. TypeInv' /\ MoneyOK'
    BY <1>2, <1>5, DispatchKept DEF FindDebit, money, MoneyOK
  <2> QED BY <2>5, <2>6 DEF TripTypeInv
<1>6. CASE FindCredit(t)
  <2> DEFINE step == IF credit[r].status = "NONE" THEN "refused" ELSE "readPassenger"
             e == [trip[t] EXCEPT !.due = credit[r].amount, !.at = step]
  <2>1. credit[r].amount \in Nat
    BY <1>2, <1>3 DEF MoneyOK, Entry
  <2>2. trip' = [trip EXCEPT ![t] = e]
    BY <1>6 DEF FindCredit
  <2>3. step \in {"refused", "readPassenger"}
    OBVIOUS
  <2> HIDE DEF step
  <2>4. e \in TripProcess /\ RecordOK(e)
    BY <1>1, <1>3, <2>1, <2>3 DEF TripProcess, TripSteps, RecordOK
  <2> HIDE DEF e
  <2>5. RequestsOK'
    BY <1>2, <2>2, <2>4, RecordBecomes
  <2>6. TypeInv' /\ MoneyOK'
    BY <1>2, <1>6, DispatchKept DEF FindCredit, money, MoneyOK
  <2> QED BY <2>5, <2>6 DEF TripTypeInv
<1>7. CASE ReadPassengerWallet(t)
  <2> DEFINE balance == wallet[PassengerOf[r]]
             e == [trip[t] EXCEPT !.mine = balance, !.at = "readDriver"]
  <2>1. balance \in Int
    BY <1>2, <1>3, PassengerAssumption DEF MoneyOK, Users
  <2>2. trip' = [trip EXCEPT ![t] = e]
    BY <1>7 DEF ReadPassengerWallet
  <2> HIDE DEF balance
  <2>3. e \in TripProcess /\ RecordOK(e)
    <3>1. e \in TripProcess
      BY <1>1, <2>1 DEF TripProcess, TripSteps
    <3>2. e.at = "readDriver" /\ e.ride = r
      BY <1>1 DEF TripProcess
    <3> QED BY <1>3, <3>1, <3>2 DEF RecordOK
  <2> HIDE DEF e
  <2>4. RequestsOK'
    BY <1>2, <2>2, <2>3, RecordBecomes
  <2>5. TypeInv' /\ MoneyOK'
    BY <1>2, <1>7, DispatchKept DEF ReadPassengerWallet, money, MoneyOK
  <2> QED BY <2>4, <2>5 DEF TripTypeInv
<1>8. CASE ReadDriverWallet(t)
  <2> DEFINE balance == wallet[DriverOf[r]]
             e == [trip[t] EXCEPT !.theirs = balance, !.at = "saveDebit"]
  <2>1. balance \in Int
    BY <1>2, <1>3, DriverOfAssumption DEF MoneyOK, Users
  <2>2. trip' = [trip EXCEPT ![t] = e]
    BY <1>8 DEF ReadDriverWallet
  <2> HIDE DEF balance
  <2>3. e \in TripProcess /\ RecordOK(e)
    <3>1. e \in TripProcess
      BY <1>1, <2>1 DEF TripProcess, TripSteps
    <3>2. e.at = "saveDebit" /\ e.ride = r
      BY <1>1 DEF TripProcess
    <3> QED BY <1>3, <3>1, <3>2 DEF RecordOK
  <2> HIDE DEF e
  <2>4. RequestsOK'
    BY <1>2, <2>2, <2>3, RecordBecomes
  <2>5. TypeInv' /\ MoneyOK'
    BY <1>2, <1>8, DispatchKept DEF ReadDriverWallet, money, MoneyOK
  <2> QED BY <2>4, <2>5 DEF TripTypeInv
<1> QED BY <1>4, <1>5, <1>6, <1>7, <1>8

(* The five writes of confirmPayment. *)
LEMMA ConfirmWritesType ==
    ASSUME TripTypeInv, NEW t \in TripProcs,
           \/ SaveDebit(t) \/ SaveCredit(t) \/ WritePassengerWallet(t)
           \/ WriteDriverWallet(t) \/ SettleRide(t)
    PROVE  TripTypeInv'
<1> DEFINE r == trip[t].ride
<1>1. trip[t] \in TripProcess /\ RecordOK(trip[t])
    BY DEF TripTypeInv, RequestsOK
<1>2. RequestsOK /\ MoneyOK /\ TypeInv
    BY DEF TripTypeInv
<1>3. r \in Rides
    BY <1>1 DEF RecordOK, SaveDebit, SaveCredit, WritePassengerWallet, WriteDriverWallet,
                SettleRide, TripAt
<1>4. CASE SaveDebit(t)
  <2>1. debit[r] \in Entry /\ trip[t].owed \in Nat /\ trip[t].sum \in Nat
    BY <1>1, <1>2, <1>3 DEF MoneyOK, TripProcess
  <2>2. PICK e \in Entry : debit' = [debit EXCEPT ![r] = e]
    BY <1>4, <2>1, AmendedType DEF SaveDebit
  <2>3. MoneyOK'
    BY <1>2, <1>4, <2>2 DEF SaveDebit, MoneyOK
  <2>4. RequestsOK'
    BY <1>2, <1>4, RecordMoves DEF SaveDebit, TripAt, TripSteps
  <2>5. TypeInv'
    BY <1>2, <1>4, DispatchKept DEF SaveDebit
  <2> QED BY <2>3, <2>4, <2>5 DEF TripTypeInv
<1>5. CASE SaveCredit(t)
  <2>1. credit[r] \in Entry /\ trip[t].due \in Nat /\ trip[t].sum \in Nat
    BY <1>1, <1>2, <1>3 DEF MoneyOK, TripProcess
  <2>2. PICK e \in Entry : credit' = [credit EXCEPT ![r] = e]
    BY <1>5, <2>1, AmendedType DEF SaveCredit
  <2>3. MoneyOK'
    BY <1>2, <1>5, <2>2 DEF SaveCredit, MoneyOK
  <2>4. RequestsOK'
    BY <1>2, <1>5, RecordMoves DEF SaveCredit, TripAt, TripSteps
  <2>5. TypeInv'
    BY <1>2, <1>5, DispatchKept DEF SaveCredit
  <2> QED BY <2>3, <2>4, <2>5 DEF TripTypeInv
<1>6. CASE WritePassengerWallet(t)
  <2>1. trip[t].mine - trip[t].sum \in Int
    BY <1>1 DEF TripProcess
  <2>2. MoneyOK'
    BY <1>2, <1>6, <2>1 DEF WritePassengerWallet, MoneyOK
  <2>3. RequestsOK'
    BY <1>2, <1>6, RecordMoves DEF WritePassengerWallet, TripAt, TripSteps
  <2>4. TypeInv'
    BY <1>2, <1>6, DispatchKept DEF WritePassengerWallet
  <2> QED BY <2>2, <2>3, <2>4 DEF TripTypeInv
<1>7. CASE WriteDriverWallet(t)
  <2>1. trip[t].theirs + trip[t].sum \in Int
    BY <1>1 DEF TripProcess
  <2>2. MoneyOK'
    BY <1>2, <1>7, <2>1 DEF WriteDriverWallet, MoneyOK
  <2>3. RequestsOK'
    BY <1>2, <1>7, RecordMoves DEF WriteDriverWallet, TripAt, TripSteps
  <2>4. TypeInv'
    BY <1>2, <1>7, DispatchKept DEF WriteDriverWallet
  <2> QED BY <2>2, <2>3, <2>4 DEF TripTypeInv
<1>8. CASE SettleRide(t)
  <2>1. MoneyOK'
    BY <1>2, <1>3, <1>8 DEF SettleRide, MoneyOK, Billed
  <2>2. RequestsOK'
    BY <1>2, <1>8, RecordMoves DEF SettleRide, TripAt, TripSteps
  <2>3. TypeInv'
    BY <1>2, <1>8, DispatchKept DEF SettleRide
  <2> QED BY <2>1, <2>2, <2>3 DEF TripTypeInv
<1> QED BY <1>4, <1>5, <1>6, <1>7, <1>8

(* A restart loses the requests under way, and the dispatch keeps its types. *)
LEMMA TripRestartType == ASSUME TripTypeInv, TripRestart PROVE TripTypeInv'
<1>1. TypeInv'
    BY EnvironmentType DEF TripRestart, Environment, TripTypeInv
<1>2. MoneyOK'
    BY DEF TripRestart, TripTypeInv, MoneyOK, money
<1>3. ASSUME NEW t \in TripProcs
      PROVE  trip'[t] \in TripProcess /\ RecordOK(trip'[t])
  <2>1. trip[t] \in TripProcess /\ RecordOK(trip[t])
    BY DEF TripTypeInv, RequestsOK
  <2> DEFINE lost == [IdleTrip EXCEPT !.op = trip[t].op, !.at = "lost", !.ride = trip[t].ride]
  <2>2. trip'[t] = IF trip[t].at \in {"idle", "done", "refused"} THEN trip[t] ELSE lost
    BY DEF TripRestart
  <2>3. trip[t].at # "idle" => lost \in TripProcess /\ RecordOK(lost)
    BY <2>1, IdleTripType DEF TripProcess, TripSteps, RecordOK
  <2> HIDE DEF lost
  <2> QED BY <2>1, <2>2, <2>3
<1>4. trip' \in [TripProcs -> TripProcess]
    BY <1>3 DEF TripRestart
<1> QED BY <1>1, <1>2, <1>3, <1>4 DEF TripTypeInv, RequestsOK

(* Every step keeps the dispatch, the ledger and the requests typed. *)
LEMMA TripTypeStep == TripTypeInv /\ [TripNext]_tripVars => TripTypeInv'
<1> SUFFICES ASSUME TripTypeInv, [TripNext]_tripVars PROVE TripTypeInv'
    OBVIOUS
<1>1. CASE UNCHANGED tripVars
    BY <1>1, DispatchKept DEF tripVars, money, TripTypeInv, MoneyOK, RequestsOK
<1>2. CASE DispatchStep
  <2>1. Next
    BY <1>2 DEF DispatchStep, Next, Environment
  <2>2. TypeInv'
    BY <2>1, TypeStep DEF TripTypeInv
  <2> QED BY <1>2, <2>2 DEF DispatchStep, money, TripTypeInv, MoneyOK, RequestsOK
<1>3. CASE TripRestart
    BY <1>3, TripRestartType
<1>4. CASE \E t \in TripProcs : TripRequest(t) \/ TripStep(t)
    BY <1>4, TripRequestType, StageType, CompleteType, TipType, ConfirmReadsType, ConfirmWritesType
       DEF TripStep
<1> QED BY <1>1, <1>2, <1>3, <1>4 DEF TripNext

(* Every reachable state of a ride under way is typed, and a request has the  *)
(* ride, the driver or the amount its next step uses.                         *)
THEOREM TripTypeInvariance == TripSpec => []TripTypeInv
BY TripTypeInit, TripTypeStep, PTL DEF TripSpec

(* Rides, ledger, wallets and requests keep their types, whatever completions, *)
(* tips, confirmations and cancellations overlap.                             *)
THEOREM TripTypeCorrect == TripSpec => []TripTypeOK
<1>1. TripTypeInv => TripTypeOK
    BY DEF TripTypeInv, TypeInv, MoneyOK, RequestsOK, TripTypeOK
<1> QED BY <1>1, TripTypeInvariance, PTL
-------------------------------------------------------------------------------
(* Settlement *)

ByWalletPaid(r, ledger) == MethodOf[r] = "WALLET" => ledger[r].status = "COMPLETED"

(* What a request knows of the ledger by the step it has reached: past its    *)
(* two saves a confirmation has settled both entries, and a completion that    *)
(* has passed the check of the driver's entry will find it settled.            *)
KnowsLedger(t) ==
    LET r == trip[t].ride
    IN /\ trip[t].at \in {"saveCredit", "writePassenger", "writeDriver", "settle"}
          => ByWalletPaid(r, debit)
       /\ trip[t].at \in {"writePassenger", "writeDriver", "settle", "complete"}
          => ByWalletPaid(r, credit)

SettleInv ==
    /\ TripTypeInv
    /\ NoFreeCredit
    /\ PaidIsSettled
    /\ \A t \in TripProcs : KnowsLedger(t)

(* Saving a first entry that keeps its settlement, and settles nothing of a   *)
(* ride paid by wallet, does so for the whole ledger.                          *)
LEMMA FirstWritten ==
    ASSUME MoneyOK, NEW q \in Rides, NEW e \in Entry, WriteFirst(q, e),
           FirstEntry(q).status = "COMPLETED" => e.status = "COMPLETED",
           MethodOf[q] = "WALLET" => e.status = FirstEntry(q).status,
           NEW r \in Rides
    PROVE  /\ debit[r].status = "COMPLETED" => debit'[r].status = "COMPLETED"
           /\ credit[r].status = "COMPLETED" => credit'[r].status = "COMPLETED"
           /\ MethodOf[r] = "WALLET" /\ credit'[r].status = "COMPLETED"
              => credit[r].status = "COMPLETED"
<1>1. debit \in [Rides -> Entry] /\ credit \in [Rides -> Entry]
    BY DEF MoneyOK
<1>2. CASE FirstIsDebit(q)
  <2>1. debit' = [debit EXCEPT ![q] = e] /\ credit' = credit /\ FirstEntry(q) = debit[q]
    BY <1>2 DEF WriteFirst, FirstEntry
  <2>2. debit'[r] = IF r = q THEN e ELSE debit[r]
    BY <1>1, <2>1
  <2> QED BY <2>1, <2>2
<1>3. CASE ~ FirstIsDebit(q)
  <2>1. credit' = [credit EXCEPT ![q] = e] /\ debit' = debit /\ FirstEntry(q) = credit[q]
    BY <1>3 DEF WriteFirst, FirstEntry
  <2>2. credit'[r] = IF r = q THEN e ELSE credit[r]
    BY <1>1, <2>1
  <2> QED BY <2>1, <2>2
<1> QED BY <1>2, <1>3

(* An entry that has settled stays settled, whoever amends it, and only the   *)
(* save of a confirmation settles an entry of a ride paid by wallet.           *)
LEMMA LedgerGrows ==
    ASSUME TripTypeInv, NEW t \in TripProcs, TripStep(t), NEW r \in Rides
    PROVE  /\ debit[r].status = "COMPLETED" => debit'[r].status = "COMPLETED"
           /\ credit[r].status = "COMPLETED" => credit'[r].status = "COMPLETED"
           /\ MethodOf[r] = "WALLET" /\ credit'[r].status = "COMPLETED"
              => credit[r].status = "COMPLETED" \/ (SaveCredit(t) /\ trip[t].ride = r)
<1> DEFINE q == trip[t].ride
<1>1. trip[t] \in TripProcess /\ RecordOK(trip[t]) /\ MoneyOK
    BY DEF TripTypeInv, RequestsOK
<1>2. trip[t].owed \in Nat /\ trip[t].due \in Nat /\ trip[t].sum \in Nat
    BY <1>1 DEF TripProcess
<1>3. ASSUME SaveEntry(t) \/ SaveTipped(t) \/ SaveDebit(t) \/ SaveCredit(t)
      PROVE  q \in Rides /\ debit[q] \in Entry /\ credit[q] \in Entry
    BY <1>1, <1>3 DEF RecordOK, SaveEntry, SaveTipped, SaveDebit, SaveCredit, TripAt, MoneyOK
<1>4. CASE SaveEntry(t) \/ SaveTipped(t)
  <2>1. FirstEntry(q) \in Entry /\ q \in Rides
    BY <1>1, <1>3, <1>4, FirstEntryType
  <2> DEFINE Keeps(e) ==
                /\ FirstEntry(q).status = "COMPLETED" => e.status = "COMPLETED"
                /\ MethodOf[q] = "WALLET" => e.status = FirstEntry(q).status
  <2>2. PICK e \in Entry : WriteFirst(q, e) /\ Keeps(e)
    <3> DEFINE s == Settled(FirstEntry(q), trip[t].owed, trip[t].sum)
               a == Amended(FirstEntry(q), trip[t].owed, trip[t].sum)
    <3>1. s \in Entry /\ s.status = "COMPLETED" /\ a \in Entry /\ a.status = FirstEntry(q).status
      BY <1>2, <2>1, AmendedType
    <3>2. Keeps(a) /\ (MethodOf[q] = "CASH" => Keeps(s))
      BY <3>1
    <3>3. WriteFirst(q, a) \/ (MethodOf[q] = "CASH" /\ WriteFirst(q, s))
      BY <1>4 DEF SaveEntry, SaveTipped
    <3> HIDE DEF s, a, Keeps
    <3> QED BY <3>1, <3>2, <3>3
  <2>3. /\ debit[r].status = "COMPLETED" => debit'[r].status = "COMPLETED"
        /\ credit[r].status = "COMPLETED" => credit'[r].status = "COMPLETED"
        /\ MethodOf[r] = "WALLET" /\ credit'[r].status = "COMPLETED"
           => credit[r].status = "COMPLETED"
    <3>1. WriteFirst(q, e)
      BY <2>2
    <3>2. Keeps(e)
      BY <2>2
    <3> QED BY <1>1, <2>1, <3>1, <3>2, FirstWritten
  <2> QED BY <2>3
<1>5. CASE SaveDebit(t)
  <2>1. Settled(debit[q], trip[t].owed, trip[t].sum).status = "COMPLETED"
    BY <1>2, <1>3, <1>5, AmendedType
  <2>2. debit' = [debit EXCEPT ![q] = Settled(debit[q], trip[t].owed, trip[t].sum)]
    BY <1>5 DEF SaveDebit
  <2>3. credit' = credit
    BY <1>5 DEF SaveDebit
  <2>4. debit[r].status = "COMPLETED" => debit'[r].status = "COMPLETED"
    BY <1>1, <2>1, <2>2 DEF MoneyOK
  <2> QED BY <2>3, <2>4
<1>6. CASE SaveCredit(t)
  <2>1. Settled(credit[q], trip[t].due, trip[t].sum).status = "COMPLETED"
    BY <1>2, <1>3, <1>6, AmendedType
  <2>2. credit' = [credit EXCEPT ![q] = Settled(credit[q], trip[t].due, trip[t].sum)]
    BY <1>6 DEF SaveCredit
  <2>3. debit' = debit
    BY <1>6 DEF SaveCredit
  <2>4. credit'[r].status = IF r = q THEN "COMPLETED" ELSE credit[r].status
    BY <1>1, <2>1, <2>2 DEF MoneyOK
  <2> QED BY <1>6, <2>3, <2>4
<1>7. ASSUME ~ SaveEntry(t), ~ SaveTipped(t), ~ SaveDebit(t), ~ SaveCredit(t)
      PROVE  UNCHANGED <<debit, credit>>
    BY <1>7 DEF TripStep, WriteStage, WriteStarted, CheckPaid, WriteCompleted, FindEntry,
                FreeDriver, FindTipped, WriteTip, FindTipWallet, FindPayment, FindDebit, FindCredit,
                ReadPassengerWallet, ReadDriverWallet, WritePassengerWallet, WriteDriverWallet,
                SettleRide, money
<1> QED BY <1>4, <1>5, <1>6, <1>7

(* What a request's own step lets it know. *)
LEMMA KnowledgeGained ==
    ASSUME SettleInv, NEW t \in TripProcs, TripStep(t)
    PROVE  KnowsLedger(t)'
<1> DEFINE q == trip[t].ride
<1>1. trip \in [TripProcs -> TripProcess] /\ trip[t] \in TripProcess /\ RecordOK(trip[t]) /\ MoneyOK
    BY DEF SettleInv, TripTypeInv, RequestsOK
<1>2. trip[t].owed \in Nat /\ trip[t].due \in Nat /\ trip[t].sum \in Nat
    BY <1>1 DEF TripProcess
<1>3. KnowsLedger(t)
    BY DEF SettleInv
<1>4. CASE CheckPaid(t)
    BY <1>1, <1>4 DEF CheckPaid, TripGoto, TripProcess, KnowsLedger, ByWalletPaid, money
<1>5. CASE SaveDebit(t)
  <2>1. q \in Rides
    BY <1>1, <1>5 DEF SaveDebit, TripAt, RecordOK
  <2>2. debit'[q].status = "COMPLETED"
    BY ZenonT(60), <1>1, <1>2, <1>5, <2>1, AmendedType DEF SaveDebit, MoneyOK
  <2> QED BY <1>1, <1>5, <2>2 DEF SaveDebit, TripGoto, TripProcess, KnowsLedger, ByWalletPaid
<1>6. CASE SaveCredit(t)
  <2>1. q \in Rides
    BY <1>1, <1>6 DEF SaveCredit, TripAt, RecordOK
  <2>2. credit'[q].status = "COMPLETED"
    BY ZenonT(60), <1>1, <1>2, <1>6, <2>1, AmendedType DEF SaveCredit, MoneyOK
  <2> QED BY <1>1, <1>3, <1>6, <2>2
          DEF SaveCredit, TripAt, TripGoto, TripProcess, KnowsLedger, ByWalletPaid
<1>7. CASE WritePassengerWallet(t) \/ WriteDriverWallet(t)
    BY <1>1, <1>3, <1>7 DEF WritePassengerWallet, WriteDriverWallet, TripAt, TripGoto, TripProcess,
                            KnowsLedger, ByWalletPaid
<1>8. ASSUME ~ CheckPaid(t), ~ SaveDebit(t), ~ SaveCredit(t), ~ WritePassengerWallet(t),
             ~ WriteDriverWallet(t)
      PROVE  trip'[t].at \notin {"saveCredit", "writePassenger", "writeDriver", "settle", "complete"}
  <2>1. CASE WriteStage(t) \/ WriteStarted(t)
    BY <1>1, <2>1 DEF WriteStage, WriteStarted, TripGoto, TripProcess
  <2>2. CASE WriteCompleted(t) \/ FindEntry(t) \/ SaveEntry(t) \/ FreeDriver(t)
    BY <1>1, <2>2 DEF WriteCompleted, FindEntry, SaveEntry, FreeDriver, TripGoto, TripProcess
  <2>3. CASE FindTipped(t) \/ WriteTip(t) \/ FindTipWallet(t) \/ SaveTipped(t)
    BY <1>1, <2>3 DEF FindTipped, WriteTip, FindTipWallet, SaveTipped, TripGoto, TripProcess
  <2>4. CASE FindPayment(t) \/ FindDebit(t) \/ FindCredit(t) \/ SettleRide(t)
    BY <1>1, <2>4 DEF FindPayment, FindDebit, FindCredit, SettleRide, TripGoto, TripProcess
  <2>5. CASE ReadPassengerWallet(t) \/ ReadDriverWallet(t)
    BY <1>1, <2>5 DEF ReadPassengerWallet, ReadDriverWallet, TripProcess
  <2> QED BY <1>8, <2>1, <2>2, <2>3, <2>4, <2>5 DEF TripStep
<1> QED BY <1>4, <1>5, <1>6, <1>7, <1>8 DEF KnowsLedger
(* A step of another request, or one that leaves the ledger settled, costs a  *)
(* request none of what it knows.                                             *)
LEMMA KnowledgeKept ==
    ASSUME NEW t \in TripProcs, KnowsLedger(t), trip'[t] = trip[t],
           trip[t].at # "idle" => trip[t].ride \in Rides,
           \A r \in Rides : /\ debit[r].status = "COMPLETED" => debit'[r].status = "COMPLETED"
                            /\ credit[r].status = "COMPLETED" => credit'[r].status = "COMPLETED"
    PROVE  KnowsLedger(t)'
BY DEF KnowsLedger, ByWalletPaid

(* A step of a request changes its own record only. *)
LEMMA OthersUnchanged ==
    ASSUME RequestsOK, NEW t \in TripProcs, TripRequest(t) \/ TripStep(t),
           NEW u \in TripProcs, u # t
    PROVE  trip'[u] = trip[u]
<1>1. CASE TripRequest(t)
    BY <1>1 DEF TripRequest, PickUpRoutes, DrivingRoutes, PaymentRoutes, ReportStage, StartRide, CompleteRide, AskTransaction,
                ConfirmPayment, TripBegin, RequestsOK
<1>2. CASE TripStep(t)
    BY <1>2 DEF TripStep, WriteStage, WriteStarted, CheckPaid, WriteCompleted, FindEntry,
                SaveEntry, FreeDriver, FindTipped, WriteTip, FindTipWallet, SaveTipped, FindPayment,
                FindDebit, FindCredit, ReadPassengerWallet, ReadDriverWallet, SaveDebit, SaveCredit,
                WritePassengerWallet, WriteDriverWallet, SettleRide, TripGoto, RequestsOK
<1> QED BY <1>1, <1>2

(* A ride is billed by a completion that has passed the check and by a        *)
(* confirmation that has settled both entries, and by nothing else.           *)
LEMMA Billing ==
    ASSUME TripTypeInv, NEW t \in TripProcs, TripStep(t), NEW r \in Rides,
           bill'[r].paid, ~ bill[r].paid
    PROVE  trip[t].ride = r /\ trip[t].at \in {"complete", "settle"}
<1>1. trip[t].ride \in Rides \/ trip[t].at = "idle"
    BY DEF TripTypeInv, RequestsOK, RecordOK
<1>2. bill \in [Rides -> Billed]
    BY DEF TripTypeInv, MoneyOK
<1>3. CASE WriteCompleted(t) \/ SettleRide(t)
    BY <1>1, <1>2, <1>3 DEF WriteCompleted, SettleRide, TripAt, Billed
<1>4. CASE WriteStage(t) \/ WriteTip(t)
    BY <1>1, <1>2, <1>4 DEF WriteStage, WriteTip, TripAt, Billed
<1>5. ASSUME ~ WriteCompleted(t), ~ SettleRide(t), ~ WriteStage(t), ~ WriteTip(t)
      PROVE  bill' = bill
    BY <1>5 DEF TripStep, WriteStarted, CheckPaid, FindEntry, SaveEntry, FreeDriver,
                FindTipped, FindTipWallet, SaveTipped, FindPayment, FindDebit, FindCredit,
                ReadPassengerWallet, ReadDriverWallet, SaveDebit, SaveCredit, WritePassengerWallet,
                WriteDriverWallet, money
<1> QED BY <1>3, <1>4, <1>5

(* The first read of a request leaves no step that knows the ledger: a ride   *)
(* paid by wallet is completed through the check of its driver's entry.       *)
LEMMA RequestKnows ==
    ASSUME RequestsOK, NEW t \in TripProcs, TripRequest(t)
    PROVE  KnowsLedger(t)'
<1>1. PICK r \in Rides :
         \/ ReportStage(t, "arrive", r, -1) \/ ReportStage(t, "pickUp", r, -1)
         \/ \E toll \in Tolls \cup {-1} : ReportStage(t, "reach", r, toll)
         \/ StartRide(t, r)
         \/ \E final \in FinalFares : CompleteRide(t, r, final)
         \/ \E tip \in Tips \cup {-1} : AskTransaction(t, r, tip)
         \/ ConfirmPayment(t, r)
    BY DEF TripRequest, PickUpRoutes, DrivingRoutes, PaymentRoutes
<1>2. CASE \E final \in FinalFares : CompleteRide(t, r, final)
  <2>1. trip'[t].ride = r /\ (trip'[t].at \in {"refused", "paidCheck"}
                             \/ (trip'[t].at = "complete" /\ MethodOf[r] # "WALLET"))
    BY <1>2 DEF CompleteRide, TripBegin, RequestsOK, IdleTrip
  <2> QED BY <2>1 DEF KnowsLedger, ByWalletPaid
<1>3. CASE \E op \in MoveOps : \E toll \in Nat \cup {-1} : ReportStage(t, op, r, toll)
  <2>1. trip'[t].at \in {"move", "refused"}
    BY <1>3 DEF ReportStage, TripBegin, RequestsOK, IdleTrip
  <2> QED BY <2>1 DEF KnowsLedger
<1>4. CASE StartRide(t, r)
  <2>1. trip'[t].at \in {"started"}
    BY <1>4 DEF StartRide, TripBegin, RequestsOK, IdleTrip
  <2> QED BY <2>1 DEF KnowsLedger
<1>6. CASE ConfirmPayment(t, r)
  <2>1. trip'[t].at \in {"payFind", "refused"}
    BY <1>6 DEF ConfirmPayment, TripBegin, RequestsOK, IdleTrip
  <2> QED BY <2>1 DEF KnowsLedger
<1>7. CASE \E tip \in Tips \cup {-1} : AskTransaction(t, r, tip)
  <2>1. trip'[t].at \in {"tipFind", "refused"}
    BY <1>7 DEF AskTransaction, TripBegin, RequestsOK, IdleTrip
  <2> QED BY <2>1 DEF KnowsLedger
<1>8. {"arrive", "pickUp", "reach"} \subseteq MoveOps /\ Tolls \cup {-1} \subseteq Nat \cup {-1}
    BY AmountAssumption DEF MoveOps
<1> QED BY <1>1, <1>2, <1>3, <1>4, <1>6, <1>7, <1>8

(* The first read of a request leads to none of the steps of a confirmation   *)
(* that know the ride is paid by wallet.                                       *)
LEMMA BeginsElsewhere ==
    ASSUME RequestsOK, NEW t \in TripProcs, TripRequest(t)
    PROVE  trip'[t].at \in {"move", "started", "paidCheck", "complete", "tipFind", "payFind",
                           "refused"}
<1> USE DEF TripBegin, RequestsOK, IdleTrip
<1>1. PICK r \in Rides :
         \/ ReportStage(t, "arrive", r, -1) \/ ReportStage(t, "pickUp", r, -1)
         \/ \E toll \in Tolls \cup {-1} : ReportStage(t, "reach", r, toll)
         \/ StartRide(t, r)
         \/ \E final \in FinalFares : CompleteRide(t, r, final)
         \/ \E tip \in Tips \cup {-1} : AskTransaction(t, r, tip)
         \/ ConfirmPayment(t, r)
    BY DEF TripRequest, PickUpRoutes, DrivingRoutes, PaymentRoutes
<1>2. ASSUME NEW op, NEW toll, ReportStage(t, op, r, toll) PROVE trip'[t].at \in {"move", "refused"}
    BY <1>2 DEF ReportStage
<1>3. CASE StartRide(t, r)
    BY <1>3 DEF StartRide
<1>5. CASE \E final \in FinalFares : CompleteRide(t, r, final)
    BY <1>5 DEF CompleteRide
<1>6. CASE \E tip \in Tips \cup {-1} : AskTransaction(t, r, tip)
    BY <1>6 DEF AskTransaction
<1>7. CASE ConfirmPayment(t, r)
    BY <1>7 DEF ConfirmPayment
<1> QED BY <1>1, <1>2, <1>3, <1>5, <1>6, <1>7

(* One step of one request. *)
LEMMA SettleStep ==
    ASSUME SettleInv, NEW t \in TripProcs, TripStep(t)
    PROVE  SettleInv'
<1>1. TripTypeInv /\ RequestsOK
    BY DEF SettleInv, TripTypeInv
<1>2. TripTypeInv'
    BY <1>1, TripTypeStep DEF TripNext
<1>3. \A r \in Rides : /\ debit[r].status = "COMPLETED" => debit'[r].status = "COMPLETED"
                       /\ credit[r].status = "COMPLETED" => credit'[r].status = "COMPLETED"
    BY <1>1, LedgerGrows
<1>4. NoFreeCredit'
  <2> SUFFICES ASSUME NEW r \in Rides, MethodOf[r] = "WALLET", credit'[r].status = "COMPLETED"
               PROVE  debit'[r].status = "COMPLETED"
    BY DEF NoFreeCredit
  <2>1. CASE credit[r].status = "COMPLETED"
    BY <1>3, <2>1 DEF SettleInv, NoFreeCredit
  <2>2. CASE SaveCredit(t) /\ trip[t].ride = r
    BY <1>3, <2>2 DEF SettleInv, KnowsLedger, ByWalletPaid, SaveCredit, TripAt
  <2> QED BY <1>1, <2>1, <2>2, LedgerGrows
<1>5. PaidIsSettled'
  <2> SUFFICES ASSUME NEW r \in Rides, MethodOf[r] = "WALLET", bill'[r].paid
               PROVE  debit'[r].status = "COMPLETED" /\ credit'[r].status = "COMPLETED"
    BY DEF PaidIsSettled
  <2>1. CASE bill[r].paid
    BY <1>3, <2>1 DEF SettleInv, PaidIsSettled
  <2>2. CASE ~ bill[r].paid
    <3>1. trip[t].ride = r /\ trip[t].at \in {"complete", "settle"}
      BY <1>1, <2>2, Billing
    <3>2. credit[r].status = "COMPLETED"
      BY <3>1 DEF SettleInv, KnowsLedger, ByWalletPaid
    <3>3. debit[r].status = "COMPLETED"
      BY <3>2 DEF SettleInv, NoFreeCredit
    <3> QED BY <1>3, <3>2, <3>3
  <2> QED BY <2>1, <2>2
<1>6. \A u \in TripProcs : KnowsLedger(u)'
  <2>1. ASSUME NEW u \in TripProcs, u # t PROVE KnowsLedger(u)'
    BY <1>1, <1>3, <2>1, KnowledgeKept, OthersUnchanged DEF SettleInv, RequestsOK, RecordOK
  <2> QED BY <2>1, KnowledgeGained
<1> QED BY <1>2, <1>4, <1>5, <1>6 DEF SettleInv

(* The steps that leave the ledger alone. *)
LEMMA SettleElsewhere ==
    ASSUME SettleInv, TripTypeInv', UNCHANGED money,
           \A t \in TripProcs : trip'[t] = trip[t] \/ KnowsLedger(t)'
    PROVE  SettleInv'
BY DEF SettleInv, NoFreeCredit, PaidIsSettled, KnowsLedger, ByWalletPaid, money

(* Settlement holds at the acceptance of the rides and in every step. *)
LEMMA SettleInit == TripInit => SettleInv
<1> SUFFICES ASSUME TripInit PROVE SettleInv
    OBVIOUS
<1>1. TripTypeInv
    BY TripTypeInit
<1>2. \A r \in Rides : credit[r].status # "COMPLETED"
  <2>1. PICK open \in [Rides -> UNION {OpeningEntries(m) : m \in Methods}] :
           /\ \A r \in Rides : open[r] \in OpeningEntries(MethodOf[r])
           /\ credit = [r \in Rides |-> open[r][2]]
    BY DEF TripInit
  <2>2. \A m \in Methods : \A e \in OpeningEntries(m) : e[2].status # "COMPLETED"
    BY DEF OpeningEntries, NoEntry
  <2> QED BY <2>1, <2>2, MethodAssumption
<1>3. \A r \in Rides : ~ bill[r].paid
    BY DEF TripInit
<1>4. \A t \in TripProcs : trip[t].at = "idle"
    BY DEF TripInit, IdleTrip
<1> QED BY <1>1, <1>2, <1>3, <1>4 DEF SettleInv, NoFreeCredit, PaidIsSettled, KnowsLedger

(* Every step keeps the ledger settled as SettleInv says. *)
LEMMA SettleNext == SettleInv /\ [TripNext]_tripVars => SettleInv'
<1> SUFFICES ASSUME SettleInv, [TripNext]_tripVars PROVE SettleInv'
    OBVIOUS
<1>1. TripTypeInv /\ RequestsOK
    BY DEF SettleInv, TripTypeInv
<1>2. TripTypeInv'
    BY <1>1, TripTypeStep
<1>3. CASE UNCHANGED tripVars \/ DispatchStep
    BY <1>2, <1>3, SettleElsewhere DEF tripVars, DispatchStep
<1>4. CASE TripRestart
  <2>1. \A t \in TripProcs : trip'[t] = trip[t] \/ trip'[t].at = "lost"
    BY <1>4 DEF TripRestart, IdleTrip
  <2>2. \A t \in TripProcs : trip'[t] = trip[t] \/ KnowsLedger(t)'
    BY <2>1 DEF KnowsLedger
  <2> QED BY <1>2, <1>4, <2>2, SettleElsewhere DEF TripRestart
<1>5. ASSUME NEW t \in TripProcs, TripRequest(t) PROVE SettleInv'
  <2>1. UNCHANGED money
    BY <1>5 DEF TripRequest, PickUpRoutes, DrivingRoutes, PaymentRoutes, ReportStage, StartRide, CompleteRide, AskTransaction,
                ConfirmPayment, TripBegin
  <2>2. KnowsLedger(t)'
    BY <1>1, <1>5, RequestKnows
  <2>3. \A u \in TripProcs : trip'[u] = trip[u] \/ KnowsLedger(u)'
    BY <1>1, <1>5, <2>2, OthersUnchanged
  <2> QED BY <1>2, <2>1, <2>3, SettleElsewhere
<1>6. ASSUME NEW t \in TripProcs, TripStep(t) PROVE SettleInv'
    BY <1>6, SettleStep
<1> QED BY <1>3, <1>4, <1>5, <1>6 DEF TripNext

(* A driver is credited for a ride paid by wallet only after its passenger is *)
(* charged, at whatever step the process restarts.                             *)
THEOREM CreditsAreCharged == TripSpec => []NoFreeCredit
<1>1. SettleInv => NoFreeCredit
    BY DEF SettleInv
<1> QED BY <1>1, SettleInit, SettleNext, PTL DEF TripSpec

(* What is billed as paid by wallet is settled in the ledger on both sides,   *)
(* however completions and confirmations overlap and wherever a restart falls. *)
THEOREM PaidRideIsSettled == TripSpec => []PaidIsSettled
<1>1. SettleInv => PaidIsSettled
    BY DEF SettleInv
<1> QED BY <1>1, SettleInit, SettleNext, PTL DEF TripSpec
-------------------------------------------------------------------------------
(* The wallets *)

(* Past its search for the entry, a confirmation is of a ride paid by wallet. *)
ConfirmsByWallet ==
    \A t \in TripProcs :
       trip[t].at \in {"payDebit", "payCredit", "readPassenger", "readDriver", "saveDebit",
                      "saveCredit", "writePassenger", "writeDriver", "settle"}
       => MethodOf[trip[t].ride] = "WALLET"

WalletInv == SettleInv /\ ConfirmsByWallet

(* No other step reaches those of the confirmation of a ride paid by wallet. *)
LEMMA WalletNext == WalletInv /\ [TripNext]_tripVars => WalletInv'
<1> SUFFICES ASSUME WalletInv, [TripNext]_tripVars PROVE WalletInv'
    OBVIOUS
<1> DEFINE Steps1 == {"payDebit", "payCredit", "readPassenger", "readDriver", "saveDebit",
                      "saveCredit", "writePassenger", "writeDriver", "settle"}
           OK(t) == trip[t].at \in Steps1 => MethodOf[trip[t].ride] = "WALLET"
<1>1. SettleInv' /\ SettleInv /\ TripTypeInv /\ RequestsOK
    BY SettleNext DEF WalletInv, SettleInv, TripTypeInv
<1>2. SUFFICES ASSUME NEW t \in TripProcs PROVE OK(t)'
    BY <1>1 DEF WalletInv, ConfirmsByWallet
<1>3. OK(t) /\ trip \in [TripProcs -> TripProcess] /\ trip[t] \in TripProcess /\ RecordOK(trip[t])
    BY <1>1 DEF WalletInv, ConfirmsByWallet, RequestsOK
<1>4. CASE trip'[t] = trip[t] \/ trip'[t].at \notin Steps1
    BY <1>3, <1>4
<1>5. CASE UNCHANGED tripVars \/ DispatchStep
    BY <1>4, <1>5 DEF tripVars, DispatchStep
<1>6. CASE TripRestart
    BY <1>4, <1>6 DEF TripRestart, IdleTrip
<1>7. CASE TripRequest(t)
  <2>1. trip'[t].at \notin Steps1
    BY <1>3, <1>7, BeginsElsewhere, <1>1
  <2> QED BY <1>4, <2>1
<1>8. CASE TripStep(t)
  <2>1. CASE FindPayment(t)
    <3>1. trip[t].ride \in Rides
      BY <1>3, <2>1 DEF FindPayment, TripAt, RecordOK
    <3>2. MethodOf[trip[t].ride] \in Methods
      BY <3>1, MethodAssumption
    <3> QED BY <1>3, <2>1, <3>2 DEF FindPayment, TripGoto, TripProcess, Methods
  <2>2. CASE FindDebit(t) \/ FindCredit(t) \/ ReadPassengerWallet(t) \/ ReadDriverWallet(t)
    BY <1>3, <2>2 DEF FindDebit, FindCredit, ReadPassengerWallet, ReadDriverWallet, TripAt, TripProcess
  <2>3. CASE SaveDebit(t) \/ SaveCredit(t) \/ WritePassengerWallet(t) \/ WriteDriverWallet(t)
    BY <1>3, <2>3 DEF SaveDebit, SaveCredit, WritePassengerWallet, WriteDriverWallet, TripAt, TripGoto,
                      TripProcess
  <2>4. CASE SettleRide(t) \/ WriteStage(t) \/ WriteStarted(t)
    BY <1>3, <2>4 DEF SettleRide, WriteStage, WriteStarted, TripGoto, TripProcess
  <2>5. CASE CheckPaid(t) \/ WriteCompleted(t) \/ FindEntry(t) \/ SaveEntry(t) \/ FreeDriver(t)
    BY <1>3, <2>5 DEF CheckPaid, WriteCompleted, FindEntry, SaveEntry, FreeDriver, TripGoto, TripProcess
  <2>6. CASE FindTipped(t) \/ WriteTip(t) \/ FindTipWallet(t) \/ SaveTipped(t)
    BY <1>3, <2>6 DEF FindTipped, WriteTip, FindTipWallet, SaveTipped, TripGoto, TripProcess
  <2> QED BY <1>8, <2>1, <2>2, <2>3, <2>4, <2>5, <2>6 DEF TripStep
<1>9. ASSUME NEW u \in TripProcs, TripRequest(u) \/ TripStep(u), u # t PROVE OK(t)'
    BY <1>1, <1>4, <1>9, OthersUnchanged
<1> QED BY <1>5, <1>6, <1>7, <1>8, <1>9 DEF TripNext

(* The step that raises a driver's balance. *)
LEMMA WhoCredits ==
    ASSUME WalletInv, [TripNext]_tripVars, NEW d \in Drivers, wallet'[d] > wallet[d]
    PROVE  \E t \in TripProcs : WriteDriverWallet(t) /\ DriverOf[trip[t].ride] = d
<1>1. wallet \in [Users -> Int] /\ d \in Users /\ ~ (wallet[d] > wallet[d])
    BY DEF WalletInv, SettleInv, TripTypeInv, MoneyOK, Users
<1>2. wallet' # wallet
    BY <1>1
<1>3. PICK t \in TripProcs : TripStep(t)
  <2>1. ~ UNCHANGED tripVars /\ ~ DispatchStep /\ ~ TripRestart
    BY <1>2 DEF tripVars, DispatchStep, TripRestart, money
  <2>2. \A t \in TripProcs : TripRequest(t) => UNCHANGED money
    BY ZenonT(60) DEF TripRequest, PickUpRoutes, DrivingRoutes, PaymentRoutes, ReportStage, StartRide, CompleteRide, AskTransaction,
           ConfirmPayment, TripBegin
  <2>3. \A t \in TripProcs : ~ TripRequest(t)
    BY <1>2, <2>2 DEF money
  <2> QED BY <2>1, <2>3 DEF TripNext
<1>4. WritePassengerWallet(t) \/ WriteDriverWallet(t)
    BY <1>2, <1>3 DEF TripStep, WriteStage, WriteStarted, CheckPaid, WriteCompleted,
                FindEntry, SaveEntry, FreeDriver, FindTipped, WriteTip, FindTipWallet, SaveTipped,
                FindPayment, FindDebit, FindCredit, ReadPassengerWallet, ReadDriverWallet, SaveDebit,
                SaveCredit, SettleRide, money
<1>5. trip[t].ride \in Rides
    BY <1>4 DEF WalletInv, SettleInv, TripTypeInv, RequestsOK, RecordOK, WritePassengerWallet,
                WriteDriverWallet, TripAt
<1>6. CASE WritePassengerWallet(t)
  <2>1. PassengerOf[trip[t].ride] # d
    BY <1>5, PassengerAssumption, AccountAssumption
  <2> QED BY <1>1, <1>6, <2>1 DEF WritePassengerWallet
<1>7. CASE WriteDriverWallet(t)
    BY <1>1, <1>7 DEF WriteDriverWallet
<1> QED BY <1>4, <1>6, <1>7

(* A driver's balance rises only for a ride whose entries have both settled:  *)
(* the wallets never run ahead of the ledger, however confirmations overlap.   *)
THEOREM WalletsFollow == TripSpec => WalletsFollowLedger
<1>1. TripInit => WalletInv
  <2>1. TripInit => \A t \in TripProcs : trip[t].at = "idle"
    BY DEF TripInit, IdleTrip
  <2> QED BY <2>1, SettleInit DEF WalletInv, ConfirmsByWallet
<1>2. ASSUME WalletInv, [TripNext]_tripVars, NEW r \in Rides, wallet'[DriverOf[r]] > wallet[DriverOf[r]]
      PROVE  \E q \in Rides : DriverOf[q] = DriverOf[r] /\ credit[q].status = "COMPLETED"
                              /\ debit[q].status = "COMPLETED"
  <2>1. PICK t \in TripProcs : WriteDriverWallet(t) /\ DriverOf[trip[t].ride] = DriverOf[r]
    BY <1>2, WhoCredits, DriverOfAssumption
  <2>2. trip[t].ride \in Rides /\ trip[t].at = "writeDriver"
    BY <1>2, <2>1 DEF WalletInv, SettleInv, TripTypeInv, RequestsOK, RecordOK, WriteDriverWallet, TripAt
  <2>3. credit[trip[t].ride].status = "COMPLETED" /\ debit[trip[t].ride].status = "COMPLETED"
    BY <1>2, <2>2 DEF WalletInv, SettleInv, KnowsLedger, ByWalletPaid, ConfirmsByWallet
  <2> QED BY <2>1, <2>2, <2>3
<1>3. WalletInv /\ [TripNext]_tripVars
      => [\A r \in Rides :
            wallet'[DriverOf[r]] > wallet[DriverOf[r]]
            => \E q \in Rides : DriverOf[q] = DriverOf[r] /\ credit[q].status = "COMPLETED"
                                /\ debit[q].status = "COMPLETED"]_tripVars
    BY <1>2
<1> QED BY <1>1, <1>3, WalletNext, PTL DEF TripSpec, WalletsFollowLedger
-------------------------------------------------------------------------------
(* Rides paid in cash *)

(* A completion that has billed the ride has its entry still to save. *)
Completing(t, r) == trip[t].ride = r /\ trip[t].at \in {"findEntry", "saveEntry"}

(* Such a ride has no entry of the passenger, so that the entry a completion  *)
(* settles is the driver's.                                                    *)
CashInv ==
    /\ WalletInv
    /\ \A r \in Rides : MethodOf[r] = "CASH" => debit[r].status = "NONE"
    /\ CashIsSettled

(* What a step does to the entries of a ride paid in cash: nothing but the    *)
(* save of a completion settles one.                                           *)
LEMMA CashEntries ==
    ASSUME CashInv, NEW t \in TripProcs, TripStep(t), NEW r \in Rides, MethodOf[r] = "CASH"
    PROVE  /\ debit'[r].status = "NONE"
           /\ credit'[r].status = credit[r].status \/ credit'[r].status = "COMPLETED"
           /\ SaveEntry(t) /\ trip[t].ride = r => credit'[r].status = "COMPLETED"
<1> DEFINE q == trip[t].ride
<1>1. /\ trip[t] \in TripProcess /\ RecordOK(trip[t]) /\ MoneyOK
      /\ trip[t].owed \in Nat /\ trip[t].sum \in Nat
      /\ debit \in [Rides -> Entry] /\ credit \in [Rides -> Entry] /\ debit[r].status = "NONE"
    BY DEF CashInv, WalletInv, SettleInv, TripTypeInv, RequestsOK, MoneyOK, TripProcess
<1>2. CASE SaveEntry(t) \/ SaveTipped(t)
  <2>1. q \in Rides /\ FirstEntry(q) \in Entry
    BY <1>1, <1>2, FirstEntryType DEF RecordOK, SaveEntry, SaveTipped, TripAt
  <2> DEFINE s == Settled(FirstEntry(q), trip[t].owed, trip[t].sum)
             a == Amended(FirstEntry(q), trip[t].owed, trip[t].sum)
  <2>2. s \in Entry /\ s.status = "COMPLETED" /\ a \in Entry /\ a.status = FirstEntry(q).status
    BY <1>1, <2>1, AmendedType
  <2>3. /\ SaveEntry(t) => WriteFirst(q, IF MethodOf[q] = "CASH" THEN s ELSE a)
        /\ SaveTipped(t) => WriteFirst(q, a)
    BY DEF SaveEntry, SaveTipped
  <2> HIDE DEF s, a
  <2>4. CASE q = r
    <3>1. ~ FirstIsDebit(q) /\ FirstEntry(q) = credit[r]
      BY <1>1, <2>4 DEF FirstIsDebit, FirstEntry
    <3>2. debit' = debit /\ \E e : credit' = [credit EXCEPT ![r] = e] /\ (e = s \/ (~ SaveEntry(t) /\ e = a))
      BY <1>2, <2>3, <2>4, <3>1 DEF WriteFirst
    <3> QED BY <1>1, <2>2, <3>1, <3>2
  <2>5. CASE q # r
    <3>1. PICK e : WriteFirst(q, e)
      BY <1>2, <2>3
    <3>2. debit'[r] = debit[r] /\ credit'[r] = credit[r]
      BY <1>1, <2>5, <3>1 DEF WriteFirst
    <3> QED BY <1>1, <2>5, <3>2
  <2> QED BY <2>4, <2>5
<1>3. CASE SaveDebit(t) \/ SaveCredit(t)
  <2>1. q # r /\ ~ SaveEntry(t)
    BY <1>3 DEF CashInv, WalletInv, ConfirmsByWallet, SaveDebit, SaveCredit, SaveEntry, TripAt
  <2>2. debit'[r] = debit[r] /\ credit'[r] = credit[r]
    BY <1>1, <1>3, <2>1 DEF SaveDebit, SaveCredit
  <2> QED BY <1>1, <2>1, <2>2
<1>4. CASE ~ SaveEntry(t) /\ ~ SaveTipped(t) /\ ~ SaveDebit(t) /\ ~ SaveCredit(t)
  <2>1. UNCHANGED <<debit, credit>>
    BY <1>4 DEF TripStep, WriteStage, WriteStarted, CheckPaid, WriteCompleted, FindEntry,
                FreeDriver, FindTipped, WriteTip, FindTipWallet, FindPayment, FindDebit, FindCredit,
                ReadPassengerWallet, ReadDriverWallet, WritePassengerWallet, WriteDriverWallet,
                SettleRide, money
  <2> QED BY <1>1, <1>4, <2>1
<1> QED BY <1>2, <1>3, <1>4

(* A completion that bills such a ride has its entry to find; it leaves the   *)
(* two steps when there is no entry or when it has settled the one there is.   *)
LEMMA CompletionProceeds ==
    ASSUME CashInv, NEW t \in TripProcs, TripStep(t), NEW r \in Rides, MethodOf[r] = "CASH"
    PROVE  /\ bill'[r].paid => bill[r].paid \/ Completing(t, r)'
           /\ Completing(t, r) => \/ Completing(t, r)'
                                  \/ credit[r].status = "NONE" /\ credit' = credit
                                  \/ SaveEntry(t) /\ trip[t].ride = r
<1>1. TripTypeInv /\ trip \in [TripProcs -> TripProcess] /\ debit[r].status = "NONE"
    BY DEF CashInv, WalletInv, SettleInv, TripTypeInv, RequestsOK
<1>2. ASSUME bill'[r].paid, ~ bill[r].paid PROVE Completing(t, r)'
  <2>1. trip[t].ride = r /\ trip[t].at \in {"complete", "settle"}
    BY <1>1, <1>2, Billing
  <2>2. trip[t].at = "complete"
    BY <2>1 DEF CashInv, WalletInv, ConfirmsByWallet
  <2>3. WriteCompleted(t)
    BY <2>2 DEF TripStep, WriteStage, WriteStarted, CheckPaid, FindEntry, SaveEntry,
                FreeDriver, FindTipped, WriteTip, FindTipWallet, SaveTipped, FindPayment, FindDebit,
                FindCredit, ReadPassengerWallet, ReadDriverWallet, SaveDebit, SaveCredit,
                WritePassengerWallet, WriteDriverWallet, SettleRide, TripAt
  <2> QED BY <1>1, <2>1, <2>3 DEF WriteCompleted, TripGoto, TripProcess, Completing
<1>3. ASSUME trip[t].ride = r, trip[t].at = "findEntry"
      PROVE  Completing(t, r)' \/ (credit[r].status = "NONE" /\ credit' = credit)
  <2>1. FindEntry(t)
    BY <1>3 DEF TripStep, WriteStage, WriteStarted, CheckPaid, WriteCompleted, SaveEntry,
                FreeDriver, FindTipped, WriteTip, FindTipWallet, SaveTipped, FindPayment, FindDebit,
                FindCredit, ReadPassengerWallet, ReadDriverWallet, SaveDebit, SaveCredit,
                WritePassengerWallet, WriteDriverWallet, SettleRide, TripAt
  <2>2. CASE HasEntry(r)
    BY <1>1, <1>3, <2>1, <2>2 DEF FindEntry, TripProcess, Completing
  <2>3. CASE ~ HasEntry(r)
    BY <1>1, <2>1, <2>3 DEF FindEntry, HasEntry, FirstEntry, FirstIsDebit, money
  <2> QED BY <2>2, <2>3
<1>4. ASSUME trip[t].at = "saveEntry" PROVE SaveEntry(t)
    BY <1>4 DEF TripStep, WriteStage, WriteStarted, CheckPaid, WriteCompleted, FindEntry,
                FreeDriver, FindTipped, WriteTip, FindTipWallet, SaveTipped, FindPayment, FindDebit,
                FindCredit, ReadPassengerWallet, ReadDriverWallet, SaveDebit, SaveCredit,
                WritePassengerWallet, WriteDriverWallet, SettleRide, TripAt
<1> QED BY <1>2, <1>3, <1>4 DEF Completing

(* The steps that leave the bills and the ledger alone keep CashIsSettled. *)
LEMMA CashElsewhere ==
    ASSUME CashInv, WalletInv', UNCHANGED money, restarts' = restarts \/ restarts' > 0,
           \A t \in TripProcs : trip'[t] = trip[t] \/ trip[t].at \notin {"findEntry", "saveEntry"} \/ restarts' > 0
    PROVE  CashInv'
<1>1. CashIsSettled'
    BY DEF CashInv, CashIsSettled, TripAt, money
<1> QED BY <1>1 DEF CashInv, money

LEMMA CashStep ==
    ASSUME CashInv, WalletInv', NEW t \in TripProcs, TripStep(t)
    PROVE  CashInv'
<1>1. RequestsOK
    BY DEF CashInv, WalletInv, SettleInv, TripTypeInv
<1>2. restarts' = restarts
    BY DEF TripStep, WriteStage, WriteStarted, CheckPaid, WriteCompleted, FindEntry,
           SaveEntry, FreeDriver, FindTipped, WriteTip, FindTipWallet, SaveTipped, FindPayment,
           FindDebit, FindCredit, ReadPassengerWallet, ReadDriverWallet, SaveDebit, SaveCredit,
           WritePassengerWallet, WriteDriverWallet, SettleRide, SetRide, vars, store
<1>3. ASSUME NEW r \in Rides, MethodOf[r] = "CASH", bill'[r].paid, \A u \in TripProcs : ~ Completing(u, r)'
      PROVE  credit'[r].status \in {"NONE", "COMPLETED"} \/ restarts' > 0
  <2>1. bill[r].paid
    BY <1>3, CompletionProceeds
  <2>2. ASSUME NEW u \in TripProcs, u # t PROVE ~ Completing(u, r)
    BY <1>1, <1>3, <2>2, OthersUnchanged DEF Completing
  <2>3. CASE Completing(t, r)
    BY <1>3, <2>3, CompletionProceeds, CashEntries
  <2>4. CASE ~ Completing(t, r)
    <3>1. credit[r].status \in {"NONE", "COMPLETED"} \/ restarts > 0
      BY <1>3, <2>1, <2>2, <2>4 DEF CashInv, CashIsSettled, Completing, TripAt
    <3> QED BY <1>2, <1>3, <3>1, CashEntries
  <2> QED BY <2>3, <2>4
<1>4. CashIsSettled'
    BY <1>3 DEF CashIsSettled, Completing, TripAt
<1> QED BY <1>4, CashEntries DEF CashInv

LEMMA CashNext == CashInv /\ [TripNext]_tripVars => CashInv'
<1> SUFFICES ASSUME CashInv, [TripNext]_tripVars PROVE CashInv'
    OBVIOUS
<1>1. WalletInv' /\ TypeInv /\ RequestsOK
    BY WalletNext DEF CashInv, WalletInv, SettleInv, TripTypeInv
<1>2. CASE UNCHANGED tripVars
    BY <1>1, <1>2, CashElsewhere DEF tripVars, vars
<1>3. CASE DispatchStep
  <2>1. restarts' = restarts
    BY <1>1, <1>3, RequestAbout, StepAbout
       DEF DispatchStep, Elsewhere, LocationPing, ReportStatus, ExclusionExpires
  <2> QED BY <1>1, <1>3, <2>1, CashElsewhere DEF DispatchStep
<1>4. CASE TripRestart
  <2>1. restarts' > 0
    <3>1. restarts \in Nat
      BY <1>1, RestartAssumption DEF TypeInv, TypeOK
    <3>2. restarts' = restarts + 1
      BY <1>4 DEF TripRestart, Restart
    <3> QED BY <3>1, <3>2
  <2> QED BY <1>1, <1>4, <2>1, CashElsewhere DEF TripRestart
<1>5. ASSUME NEW t \in TripProcs, TripRequest(t) PROVE CashInv'
  <2>1. UNCHANGED money /\ restarts' = restarts /\ trip[t].at = "idle"
    BY <1>5 DEF TripRequest, PickUpRoutes, DrivingRoutes, PaymentRoutes, ReportStage, StartRide,
                CompleteRide, AskTransaction, ConfirmPayment, TripBegin, TripAt, vars
  <2>2. \A u \in TripProcs : trip'[u] = trip[u] \/ trip[u].at \notin {"findEntry", "saveEntry"}
    BY <1>1, <1>5, <2>1, OthersUnchanged
  <2> QED BY <1>1, <2>1, <2>2, CashElsewhere
<1>6. ASSUME NEW t \in TripProcs, TripStep(t) PROVE CashInv'
    BY <1>1, <1>6, CashStep
<1> QED BY <1>2, <1>3, <1>4, <1>5, <1>6 DEF TripNext

(* A ride paid in cash is settled by its completion: requests for the entry,  *)
(* confirmations and other completions that overlap it leave no entry open.    *)
THEOREM CashRideIsSettled == TripSpec => []CashIsSettled
<1>1. TripInit => CashInv
  <2> SUFFICES ASSUME TripInit PROVE CashInv
    OBVIOUS
  <2>1. WalletInv
    <3>1. \A t \in TripProcs : trip[t].at = "idle"
      BY DEF TripInit, IdleTrip
    <3> QED BY <3>1, SettleInit DEF WalletInv, ConfirmsByWallet
  <2>2. ASSUME NEW r \in Rides, MethodOf[r] = "CASH" PROVE debit[r].status = "NONE"
    <3>1. PICK open \in [Rides -> UNION {OpeningEntries(m) : m \in Methods}] :
             /\ \A q \in Rides : open[q] \in OpeningEntries(MethodOf[q])
             /\ debit = [q \in Rides |-> open[q][1]]
      BY DEF TripInit
    <3>2. \A e \in OpeningEntries("CASH") : e[1].status = "NONE"
      BY DEF OpeningEntries, NoEntry
    <3> QED BY <2>2, <3>1, <3>2
  <2>3. \A r \in Rides : ~ bill[r].paid
    BY DEF TripInit
  <2> QED BY <2>1, <2>2, <2>3 DEF CashInv, CashIsSettled
<1>2. CashInv => CashIsSettled
    BY DEF CashInv
<1> QED BY <1>1, <1>2, CashNext, PTL DEF TripSpec
===============================================================================
