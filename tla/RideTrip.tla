------------------------------- MODULE RideTrip -------------------------------
(***************************************************************************)
(* A ride from the driver's acceptance to its end, and its payment: the     *)
(* driver reports the stages of the trip, the passenger adds a tip and      *)
(* confirms the payment, either cancels.  Cancellation, the dispatch it      *)
(* resumes and PUT /rides/:id are those of Dispatch; a request of this module is a process of  *)
(* TripProcs, one action per read or write of shared state.                 *)
(*                                                                         *)
(* A ride has at most two ledger entries in walletTransaction: the driver's *)
(* CREDIT and, for a ride paid by wallet, the passenger's DEBIT, saved      *)
(* first.  Entry by entry they are PENDING until the payment settles.       *)
(***************************************************************************)
EXTENDS Dispatch

CONSTANTS
    Opening,        \* statuses in which a run takes the rides up
    DriverOf,       \* the driver who accepted the ride
    MethodOf,       \* paymentMethod of the ride
    Fare,           \* estimatedFare, the same for all rides
    Tips, Tolls,    \* amounts the passenger, the driver may send; 0 is an amount
    FinalFares,     \* finalFare of a completion; 0 when it is not sent
    Funds,          \* withdrawableBalance of each passenger at the start
    TripProcs,
    TripRequests

Methods == {"CASH", "CARD", "WALLET"}

ASSUME OpeningAssumption == Opening \subseteq {"ACCEPTED", "AT_PICKUP", "HAS_PICKUP", "STARTED"}
ASSUME DriverOfAssumption == DriverOf \in [Rides -> Drivers]
(* Passengers and drivers have accounts, and wallets, of their own. *)
ASSUME AccountAssumption == Drivers \cap Passengers = {}
ASSUME MethodAssumption == MethodOf \in [Rides -> Methods]
ASSUME AmountAssumption ==
    Fare \in Nat /\ Funds \in Nat /\ Tips \subseteq Nat /\ Tolls \subseteq Nat /\ FinalFares \subseteq Nat
(* The rides are accepted already, and a resumed dispatch finds no queue; no *)
(* PUT gives a ride another driver than the ledger's.                        *)
ASSUME CancelAssumption ==
    Requests \subseteq {"driverCancel", "passengerCancel", "update"} /\ "ACCEPTED" \notin Puts

VARIABLES
    bill,       \* MongoDB, ride: paymentStatus, tips, tollAmount
    debit,      \* MongoDB, walletTransaction: the passenger's entry for a ride
    credit,     \* MongoDB, walletTransaction: the driver's
    wallet,     \* MongoDB, wallet: withdrawableBalance
    trip        \* the requests of this module

money    == <<bill, debit, credit, wallet>>
tripVars == <<vars, money, trip>>

-------------------------------------------------------------------------------
Entry   == [status : {"NONE", "PENDING", "COMPLETED"}, amount : Nat]
NoEntry == [status |-> "NONE", amount |-> 0]
Billed  == [paid : BOOLEAN, tips : Nat, toll : Nat]

MoveOps == {"arrive", "pickUp", "reach"}
TripOps == {"none", "start", "complete", "tip", "confirm"} \cup MoveOps

TripSteps ==
    { "idle", "move", "started",
      "paidCheck", "complete", "findEntry", "saveEntry", "free",
      "tipFind", "tipRide", "tipWallet", "tipSave",
      "payFind", "payDebit", "payCredit", "readPassenger", "readDriver",
      "saveDebit", "saveCredit", "writePassenger", "writeDriver", "settle",
      "done", "refused", "lost" }

(* What a request has read and not used yet: saw, the status of the ride;    *)
(* sum, the amount it will write; owed and due, the amounts of the entries;  *)
(* mine and theirs, the balances of passenger and driver.                    *)
TripProcess ==
    [op : TripOps, at : TripSteps, ride : Rides \cup {NoRide}, driver : MaybeHolder,
     saw : RideStatuses \cup {NoRide}, toll : Nat \cup {-1}, tip : Nat \cup {-1},
     sum : Nat, owed : Nat, due : Nat, mine : Int, theirs : Int]

IdleTrip ==
    [op |-> "none", at |-> "idle", ride |-> NoRide, driver |-> NoDriver, saw |-> NoRide,
     toll |-> -1, tip |-> -1, sum |-> 0, owed |-> 0, due |-> 0, mine |-> 0, theirs |-> 0]

(* createRideTransaction swallows its errors: a prefix of its saves is done. *)
OpeningEntries(method) ==
    LET open == [status |-> "PENDING", amount |-> Fare]
    IN {<<NoEntry, NoEntry>>}
       \cup IF method = "WALLET" THEN {<<open, NoEntry>>, <<open, open>>} ELSE {<<NoEntry, open>>}

(* The rides have been accepted, nothing has been asked about money yet. *)
TripInit ==
    /\ \E stage \in [Rides -> Opening] :
          ride = [r \in Rides |-> [status |-> stage[r], driver |-> DriverOf[r]]]
    /\ queue = [r \in Rides |-> NoQueue]
    /\ current = [r \in Rides |-> NoDriver]
    /\ offers = [r \in Rides |-> <<DriverOf[r]>>]
    /\ loc = [d \in Drivers |-> IF d \in Range(DriverOf) THEN BusyLoc ELSE FreeLoc]
    /\ excluded = {}
    /\ proc = [p \in Procs |-> IdleProcess]
    /\ restarts = 0
    /\ bill = [r \in Rides |-> [paid |-> FALSE, tips |-> 0, toll |-> 0]]
    /\ \E open \in [Rides -> UNION {OpeningEntries(m) : m \in Methods}] :
          /\ \A r \in Rides : open[r] \in OpeningEntries(MethodOf[r])
          /\ debit = [r \in Rides |-> open[r][1]]
          /\ credit = [r \in Rides |-> open[r][2]]
    /\ txns = {<<r, DriverOf[r]>> : r \in {q \in Rides : credit[q].status # "NONE"}}
    /\ wallet = [u \in Users |-> IF u \in Passengers THEN Funds ELSE 0]
    /\ trip = [t \in TripProcs |-> IdleTrip]

-------------------------------------------------------------------------------
TripAt(t, step) == trip[t].at = step
TripGoto(t, step) == trip' = [trip EXCEPT ![t].at = step]

(* The entry findOne returns for a ride: the passenger's was saved first. *)
FirstIsDebit(r) == debit[r].status # "NONE"
FirstEntry(r)   == IF FirstIsDebit(r) THEN debit[r] ELSE credit[r]
HasEntry(r)     == FirstEntry(r).status # "NONE"

(* save() writes the fields that were changed since the document was read.   *)
Amended(entry, read, amount) == [entry EXCEPT !.amount = IF amount = read THEN @ ELSE amount]
Settled(entry, read, amount) == [Amended(entry, read, amount) EXCEPT !.status = "COMPLETED"]

WriteFirst(r, entry) ==
    IF FirstIsDebit(r) THEN debit' = [debit EXCEPT ![r] = entry] /\ UNCHANGED credit
                       ELSE credit' = [credit EXCEPT ![r] = entry] /\ UNCHANGED debit

(* A request is received: new is what its first read leaves in its record. *)
TripBegin(t, op, r, new) ==
    /\ TripAt(t, "idle")
    /\ op \in TripRequests
    /\ trip' = [trip EXCEPT ![t] = [new EXCEPT !.op = op, !.ride = r]]
    /\ UNCHANGED <<vars, money>>

SetRide(r, status) ==
    /\ SetStatus(r, status)
    /\ UNCHANGED <<queue, current, offers, loc, excluded, txns, proc, restarts>>

-------------------------------------------------------------------------------
(* driverAtPickupLocationRide, updateDriverArrivalPickUpPassengerStatus and  *)
(* markRideReachedDestination: the move is validated, several documents are  *)
(* read, then the status is written whatever the ride has become meanwhile.  *)
(* Only the driver of the ride gets past the first read.                      *)

Stage == [arrive |-> "AT_PICKUP", pickUp |-> "HAS_PICKUP", reach |-> "REACHED"]

ReportStage(t, op, r, toll) ==
    /\ ride[r].driver # NoDriver
    /\ TripBegin(t, op, r, [IdleTrip EXCEPT
          !.driver = ride[r].driver, !.toll = toll,
          !.at = IF DriverMayMove(ride[r].status, Stage[op]) THEN "move" ELSE "refused"])

(* Picking the passenger up writes driverId again. *)
WriteStage(t) ==
    LET r == trip[t].ride
    IN /\ TripAt(t, "move")
       /\ ride' = [ride EXCEPT ![r].status = Stage[trip[t].op],
                               ![r].driver = IF trip[t].op = "pickUp" THEN trip[t].driver ELSE @]
       /\ UNCHANGED <<queue, current, offers, loc, excluded, txns, proc, restarts>>
       /\ bill' = IF trip[t].toll = -1 THEN bill ELSE [bill EXCEPT ![r].toll = trip[t].toll]
       /\ TripGoto(t, "done")
       /\ UNCHANGED <<debit, credit, wallet>>

(* startRide writes before it validates. *)
StartRide(t, r) ==
    /\ ride[r].driver # NoDriver
    /\ TripBegin(t, "start", r, [IdleTrip EXCEPT !.driver = ride[r].driver, !.saw = ride[r].status,
                                                 !.at = "started"])

WriteStarted(t) ==
    /\ TripAt(t, "started")
    /\ SetRide(trip[t].ride, "STARTED")
    /\ TripGoto(t, IF DriverMayMove(trip[t].saw, "STARTED") THEN "done" ELSE "refused")
    /\ UNCHANGED money

-------------------------------------------------------------------------------
(* completeRide *)

CompleteRide(t, r, final) ==
    /\ ride[r].driver # NoDriver
    /\ TripBegin(t, "complete", r, [IdleTrip EXCEPT
          !.driver = ride[r].driver, !.sum = IF final = 0 THEN Fare ELSE final,
          !.at = IF ~ DriverMayMove(ride[r].status, "COMPLETED") THEN "refused"
                 ELSE IF MethodOf[r] = "WALLET" THEN "paidCheck" ELSE "complete"])

(* Mutant: the status is missing from the filter of the query. *)
CheckPaidAnyEntry(t) ==
    /\ TripAt(t, "paidCheck")
    /\ TripGoto(t, IF credit[trip[t].ride].status # "NONE" THEN "complete" ELSE "refused")
    /\ UNCHANGED <<vars, money>>

(* A ride paid by wallet is completed once the driver's entry has settled. *)
CheckPaid(t) ==
    /\ TripAt(t, "paidCheck")
    /\ TripGoto(t, IF credit[trip[t].ride].status = "COMPLETED" THEN "complete" ELSE "refused")
    /\ UNCHANGED <<vars, money>>

WriteCompleted(t) ==
    /\ TripAt(t, "complete")
    /\ SetRide(trip[t].ride, "COMPLETED")
    /\ bill' = [bill EXCEPT ![trip[t].ride].paid = TRUE]
    /\ TripGoto(t, "findEntry")
    /\ UNCHANGED <<debit, credit, wallet>>

(* Mutant: a ride without an entry ends completeRide, not only the update. *)
FindEntryReturns(t) ==
    LET r == trip[t].ride
    IN /\ TripAt(t, "findEntry")
       /\ trip' = [trip EXCEPT ![t].owed = FirstEntry(r).amount,
                               ![t].at = IF HasEntry(r) THEN "saveEntry" ELSE "done"]
       /\ UNCHANGED <<vars, money>>

(* updateRideTransaction takes the first entry of the ride, whosever it is. *)
FindEntry(t) ==
    LET r == trip[t].ride
    IN /\ TripAt(t, "findEntry")
       /\ trip' = [trip EXCEPT ![t].owed = FirstEntry(r).amount,
                               ![t].at = IF HasEntry(r) THEN "saveEntry" ELSE "free"]
       /\ UNCHANGED <<vars, money>>

(* Mutant: a cash entry is amended like the others. *)
SaveEntryAmended(t) ==
    LET r == trip[t].ride
    IN /\ TripAt(t, "saveEntry")
       /\ WriteFirst(r, Amended(FirstEntry(r), trip[t].owed, trip[t].sum))
       /\ TripGoto(t, "free")
       /\ UNCHANGED <<vars, bill, wallet>>

SaveEntry(t) ==
    LET r == trip[t].ride
    IN /\ TripAt(t, "saveEntry")
       /\ WriteFirst(r, IF MethodOf[r] = "CASH" THEN Settled(FirstEntry(r), trip[t].owed, trip[t].sum)
                                                ELSE Amended(FirstEntry(r), trip[t].owed, trip[t].sum))
       /\ TripGoto(t, "free")
       /\ UNCHANGED <<vars, bill, wallet>>

(* Mutant: the update replaces the document. *)
FreeDriverReplaces(t) ==
    /\ TripAt(t, "free")
    /\ loc' = [loc EXCEPT ![trip[t].driver] = [available |-> TRUE]]
    /\ TripGoto(t, "done")
    /\ UNCHANGED <<ride, queue, current, offers, excluded, txns, proc, restarts, money>>

FreeDriver(t) ==
    /\ TripAt(t, "free")
    /\ loc' = [loc EXCEPT ![trip[t].driver] = FreeLoc]
    /\ TripGoto(t, "done")
    /\ UNCHANGED <<ride, queue, current, offers, excluded, txns, proc, restarts, money>>

-------------------------------------------------------------------------------
(* getRideTransaction: the passenger asks for the entry, with or without a tip. *)

AskTransaction(t, r, tip) ==
    TripBegin(t, "tip", r, [IdleTrip EXCEPT
       !.tip = tip, !.sum = Fare + bill[r].toll + (IF tip = -1 THEN 0 ELSE tip),
       !.at = IF bill[r].paid THEN "refused" ELSE "tipFind"])

FindTipped(t) ==
    LET r == trip[t].ride
    IN /\ TripAt(t, "tipFind")
       /\ trip' = [trip EXCEPT ![t].owed = FirstEntry(r).amount,
                               ![t].at = IF ~ HasEntry(r) THEN "refused"
                                         ELSE IF trip[t].tip = -1 THEN "tipWallet" ELSE "tipRide"]
       /\ UNCHANGED <<vars, money>>

WriteTip(t) ==
    /\ TripAt(t, "tipRide")
    /\ bill' = [bill EXCEPT ![trip[t].ride].tips = trip[t].tip]
    /\ TripGoto(t, "tipWallet")
    /\ UNCHANGED <<vars, debit, credit, wallet>>

(* A CASH entry names no wallet: looking the wallet up fails. *)
FindTipWallet(t) ==
    /\ TripAt(t, "tipWallet")
    /\ TripGoto(t, IF MethodOf[trip[t].ride] = "CASH" THEN "refused" ELSE "tipSave")
    /\ UNCHANGED <<vars, money>>

SaveTipped(t) ==
    LET r == trip[t].ride
    IN /\ TripAt(t, "tipSave")
       /\ WriteFirst(r, Amended(FirstEntry(r), trip[t].owed, trip[t].sum))
       /\ TripGoto(t, "done")
       /\ UNCHANGED <<vars, bill, wallet>>

-------------------------------------------------------------------------------
(* confirmPayment, by the passenger *)

ConfirmPayment(t, r) ==
    TripBegin(t, "confirm", r, [IdleTrip EXCEPT
       !.driver = ride[r].driver, !.sum = Fare + bill[r].tips + bill[r].toll,
       !.at = IF bill[r].paid THEN "refused" ELSE "payFind"])

(* A CASH entry names no wallet, and for a CARD ride there is no branch. *)
FindPayment(t) ==
    LET r == trip[t].ride
    IN /\ TripAt(t, "payFind")
       /\ TripGoto(t, IF ~ HasEntry(r) \/ MethodOf[r] = "CASH" THEN "refused"
                      ELSE IF MethodOf[r] = "CARD" THEN "done" ELSE "payDebit")
       /\ UNCHANGED <<vars, money>>

FindDebit(t) ==
    LET r == trip[t].ride
    IN /\ TripAt(t, "payDebit")
       /\ trip' = [trip EXCEPT ![t].owed = debit[r].amount,
                               ![t].at = IF debit[r].status = "NONE" THEN "refused" ELSE "payCredit"]
       /\ UNCHANGED <<vars, money>>

FindCredit(t) ==
    LET r == trip[t].ride
    IN /\ TripAt(t, "payCredit")
       /\ trip' = [trip EXCEPT ![t].due = credit[r].amount,
                               ![t].at = IF credit[r].status = "NONE" THEN "refused"
                                         ELSE "readPassenger"]
       /\ UNCHANGED <<vars, money>>

ReadPassengerWallet(t) ==
    /\ TripAt(t, "readPassenger")
    /\ trip' = [trip EXCEPT ![t].mine = wallet[PassengerOf[trip[t].ride]], ![t].at = "readDriver"]
    /\ UNCHANGED <<vars, money>>

(* Mutant: the passenger's entry is not saved. *)
ReadDriverWalletSkipsDebit(t) ==
    /\ TripAt(t, "readDriver")
    /\ trip' = [trip EXCEPT ![t].theirs = wallet[DriverOf[trip[t].ride]], ![t].at = "saveCredit"]
    /\ UNCHANGED <<vars, money>>

(* Mutant: the balances are written before the entries are saved. *)
ReadDriverWalletWritesFirst(t) ==
    /\ TripAt(t, "readDriver")
    /\ trip' = [trip EXCEPT ![t].theirs = wallet[DriverOf[trip[t].ride]], ![t].at = "writePassenger"]
    /\ UNCHANGED <<vars, money>>

ReadDriverWallet(t) ==
    /\ TripAt(t, "readDriver")
    /\ trip' = [trip EXCEPT ![t].theirs = wallet[DriverOf[trip[t].ride]], ![t].at = "saveDebit"]
    /\ UNCHANGED <<vars, money>>

SaveDebit(t) ==
    LET r == trip[t].ride
    IN /\ TripAt(t, "saveDebit")
       /\ debit' = [debit EXCEPT ![r] = Settled(@, trip[t].owed, trip[t].sum)]
       /\ TripGoto(t, "saveCredit")
       /\ UNCHANGED <<vars, bill, credit, wallet>>

SaveCredit(t) ==
    LET r == trip[t].ride
    IN /\ TripAt(t, "saveCredit")
       /\ credit' = [credit EXCEPT ![r] = Settled(@, trip[t].due, trip[t].sum)]
       /\ TripGoto(t, "writePassenger")
       /\ UNCHANGED <<vars, bill, debit, wallet>>

(* The balances written are those read, less and plus the amount. *)
WritePassengerWallet(t) ==
    /\ TripAt(t, "writePassenger")
    /\ wallet' = [wallet EXCEPT ![PassengerOf[trip[t].ride]] = trip[t].mine - trip[t].sum]
    /\ TripGoto(t, "writeDriver")
    /\ UNCHANGED <<vars, bill, debit, credit>>

(* Mutant: the ride is not billed. *)
WriteDriverWalletLast(t) ==
    /\ TripAt(t, "writeDriver")
    /\ wallet' = [wallet EXCEPT ![DriverOf[trip[t].ride]] = trip[t].theirs + trip[t].sum]
    /\ TripGoto(t, "done")
    /\ UNCHANGED <<vars, bill, debit, credit>>

WriteDriverWallet(t) ==
    /\ TripAt(t, "writeDriver")
    /\ wallet' = [wallet EXCEPT ![DriverOf[trip[t].ride]] = trip[t].theirs + trip[t].sum]
    /\ TripGoto(t, "settle")
    /\ UNCHANGED <<vars, bill, debit, credit>>

SettleRide(t) ==
    /\ TripAt(t, "settle")
    /\ bill' = [bill EXCEPT ![trip[t].ride].paid = TRUE]
    /\ TripGoto(t, "done")
    /\ UNCHANGED <<vars, debit, credit, wallet>>

-------------------------------------------------------------------------------
PickUpRoutes(t, r) == ReportStage(t, "arrive", r, -1) \/ ReportStage(t, "pickUp", r, -1)

DrivingRoutes(t, r) ==
    \/ StartRide(t, r)
    \/ \E toll \in Tolls \cup {-1} : ReportStage(t, "reach", r, toll)
    \/ \E final \in FinalFares : CompleteRide(t, r, final)

PaymentRoutes(t, r) ==
    \/ \E tip \in Tips \cup {-1} : AskTransaction(t, r, tip)
    \/ ConfirmPayment(t, r)

TripRequest(t) == \E r \in Rides : PickUpRoutes(t, r) \/ DrivingRoutes(t, r) \/ PaymentRoutes(t, r)

TripStep(t) ==
    \/ WriteStage(t) \/ WriteStarted(t)
    \/ CheckPaid(t) \/ WriteCompleted(t) \/ FindEntry(t) \/ SaveEntry(t) \/ FreeDriver(t)
    \/ FindTipped(t) \/ WriteTip(t) \/ FindTipWallet(t) \/ SaveTipped(t)
    \/ FindPayment(t) \/ FindDebit(t) \/ FindCredit(t) \/ ReadPassengerWallet(t)
    \/ ReadDriverWallet(t) \/ SaveDebit(t) \/ SaveCredit(t) \/ WritePassengerWallet(t)
    \/ WriteDriverWallet(t) \/ SettleRide(t)

TripRestart ==
    /\ Restart
    /\ trip' = [t \in TripProcs |->
                  IF trip[t].at \in {"idle", "done", "refused"} THEN trip[t]
                  ELSE [IdleTrip EXCEPT !.op = trip[t].op, !.at = "lost", !.ride = trip[t].ride]]
    /\ UNCHANGED money

(* The cancellations, the dispatch they resume and the drivers' reports. *)
DispatchStep ==
    /\ Elsewhere \/ \E p \in Procs : Request(p) \/ Step(p)
    /\ UNCHANGED <<money, trip>>

TripNext == DispatchStep \/ TripRestart \/ \E t \in TripProcs : TripRequest(t) \/ TripStep(t)

TripSpec == TripInit /\ [][TripNext]_tripVars

FairTripSpec ==
    /\ TripSpec
    /\ \A p \in Procs : WF_tripVars(Step(p) /\ UNCHANGED <<money, trip>>)
    /\ \A t \in TripProcs : WF_tripVars(TripStep(t))

-------------------------------------------------------------------------------
(* Properties *)

TripTypeOK ==
    /\ TypeOK
    /\ bill \in [Rides -> Billed]
    /\ debit \in [Rides -> Entry]
    /\ credit \in [Rides -> Entry]
    /\ wallet \in [Users -> Int]
    /\ trip \in [TripProcs -> TripProcess]

(* What has been billed as paid by wallet is settled in the ledger, on both  *)
(* sides: neither overlapping confirmations, nor a completion that overtakes *)
(* a confirmation, nor a restart between two saves makes the driver's or the *)
(* passenger's entry of such a ride lag behind.                               *)
PaidIsSettled ==
    \A r \in Rides :
       MethodOf[r] = "WALLET" /\ bill[r].paid
       => debit[r].status = "COMPLETED" /\ credit[r].status = "COMPLETED"

(* A driver is never credited for a ride its passenger is not charged for,   *)
(* at whatever step the process restarts.                                     *)
NoFreeCredit ==
    \A r \in Rides :
       MethodOf[r] = "WALLET" /\ credit[r].status = "COMPLETED" => debit[r].status = "COMPLETED"

(* Balances move only for entries that have settled: wallets never run ahead *)
(* of the ledger the balance shown to the user is computed from.              *)
WalletsFollowLedger ==
    [][\A r \in Rides :
          wallet'[DriverOf[r]] > wallet[DriverOf[r]]
          => \E q \in Rides : DriverOf[q] = DriverOf[r] /\ credit[q].status = "COMPLETED"
                              /\ debit[q].status = "COMPLETED"]_tripVars

(* A ride paid in cash settles when it is completed: once no completion is   *)
(* under way, a billed ride has a settled entry or never had one, although   *)
(* requests for the entry, confirmations and other completions overlap it.   *)
CashIsSettled ==
    \A r \in Rides :
       /\ MethodOf[r] = "CASH" /\ bill[r].paid
       /\ \A t \in TripProcs : trip[t].ride = r => ~ TripAt(t, "findEntry") /\ ~ TripAt(t, "saveEntry")
       => credit[r].status \in {"NONE", "COMPLETED"} \/ restarts > 0

(* A driver who completes a ride can be offered another one: once the        *)
(* completion is written the driver becomes available again, whatever the    *)
(* update of the entries in between finds.                                    *)
CompletionFreesDriver ==
    \A t \in TripProcs, d \in Drivers :
       TripAt(t, "findEntry") /\ trip[t].driver = d ~> loc[d].available \/ restarts > 0

(* A confirmation that has begun to settle the entries bills the ride.       *)
ConfirmationBills ==
    \A r \in Rides :
       MethodOf[r] = "WALLET" /\ debit[r].status = "COMPLETED" ~> bill[r].paid \/ restarts > 0
===============================================================================
