------------------------------ MODULE Purchases -------------------------------
(***************************************************************************)
(* What drivers buy and how it is granted: deposits, subscriptions, vehicle *)
(* permits (EVP) and withdrawals.  DriverService, DriverVehicleService and  *)
(* WalletService of the user API open the transactions, the payment gateway *)
(* calls notificationUrl when a card payment is done, administrators issue  *)
(* and revoke permits, create and cancel subscriptions, reject withdrawals, *)
(* and two daily jobs of the admin API mark what has run out.               *)
(*                                                                         *)
(* A request is a task; one action is one read or write of shared state.   *)
(* A document is named by the task that created it, a task by its place in *)
(* the order in which the requests are received.                            *)
(***************************************************************************)
EXTENDS Integers, FiniteSets

CONSTANTS
    Drivers,        \* driver accounts, each with a wallet
    Vehicles,       \* verified vehicles with complete documentation
    OwnerOf,        \* the driver of a vehicle
    Covered,        \* the vehicles with an active permit at the start
    MaxTasks,       \* bound: requests that are made
    TaskOps,        \* the kinds of request made in a run
    Amount,         \* what every order costs
    Opening,        \* balance of every wallet at the start
    NoDriver, NoVehicle, NoDoc,
    MaxRestarts     \* bound: crashes of the API processes

ASSUME TasksAssumption == MaxTasks \in Nat

Tasks == 1..MaxTasks

ASSUME OwnerAssumption == OwnerOf \in [Vehicles -> Drivers] /\ Covered \subseteq Vehicles
ASSUME AmountAssumption == Amount \in Nat \ {0} /\ Opening \in Nat
ASSUME AbsentAssumption ==
    NoDriver \notin Drivers /\ NoVehicle \notin Vehicles /\ NoDoc \notin Tasks \cup Vehicles
ASSUME NamesAssumption == Tasks \cap Vehicles = {}
ASSUME CrashAssumption == MaxRestarts \in Nat

VARIABLES
    order,      \* walletTransaction: the transaction a task opened
    wallet,     \* wallet.withdrawableBalance of each driver
    vault,      \* depositBalance of the administrator's wallet
    billed,     \* ride orders whose ride has paymentStatus COMPLETED
    sub,        \* subscriptions
    flag,       \* vehicle.evpAdminGeneratedPending: a permit is to be issued
    permit,     \* driverEvp: those issued by a task, and those of Covered
    request,    \* withdrawalRequest
    job,        \* what the expiration jobs have read and not marked yet
    task,       \* the requests
    crashes

docs    == <<order, wallet, vault, billed, sub, flag, permit, request>>
purVars == <<docs, job, task, crashes>>

-------------------------------------------------------------------------------
Issuers == Tasks \cup Covered

Kinds == {"none", "deposit", "ride", "plan", "evp", "withdrawal"}
(* used: metadata.vehicleEvpId is set; after: depositBalanceAfter. *)
Order == [kind : Kinds, status : {"NONE", "PENDING", "COMPLETED", "FAILED"}, byCard : BOOLEAN,
          driver : Drivers \cup {NoDriver}, vehicle : Vehicles \cup {NoVehicle},
          used : BOOLEAN, after : Int]
NoOrder == [kind |-> "none", status |-> "NONE", byCard |-> FALSE, driver |-> NoDriver,
            vehicle |-> NoVehicle, used |-> FALSE, after |-> 0]

(* lapsed: endDate is in the past; order: the transaction it was paid by. *)
Subscription == [status : {"none", "active", "expired"}, driver : Drivers \cup {NoDriver},
                 order : Tasks \cup {NoDoc}, lapsed : BOOLEAN, cancelled : BOOLEAN]
NoSub == [status |-> "none", driver |-> NoDriver, order |-> NoDoc, lapsed |-> FALSE,
          cancelled |-> FALSE]

Permit == [active : BOOLEAN, vehicle : Vehicles \cup {NoVehicle}, order : Tasks \cup {NoDoc},
           lapsed : BOOLEAN]
NoPermit == [active |-> FALSE, vehicle |-> NoVehicle, order |-> NoDoc, lapsed |-> FALSE]

Ops == {"none", "deposit", "subscribe", "payEvp", "ride", "callback", "withdraw",
        "reject", "approve", "issue", "revoke", "adminSubscribe", "cancel"}

TaskSteps ==
    { "idle", "saveDeposit", "writeDeposit", "permitCheck", "subCheck", "findPlan", "savePlan",
      "evpCheck", "balance", "saveEvp", "debit", "flag", "pendingCheck", "saveCard",
      "bill", "readWallet", "credit", "plan", "expireOld", "createSub", "vault", "settle",
      "withdrawable", "noRequest", "hold", "saveRequest", "release", "rejectRequest",
      "activeCheck", "issue", "markUsed", "unflag", "revoke", "cancel",
      "done", "refused", "lost" }
Finished == {"done", "refused", "lost"}

(* What a request works on, and sum, the balance it has read. *)
Task == [op : Ops, at : TaskSteps, driver : Drivers \cup {NoDriver},
         vehicle : Vehicles \cup {NoVehicle}, doc : Tasks \cup Vehicles \cup {NoDoc},
         byCard : BOOLEAN, sum : Int]
IdleTask == [op |-> "none", at |-> "idle", driver |-> NoDriver, vehicle |-> NoVehicle,
             doc |-> NoDoc, byCard |-> FALSE, sum |-> 0]

PurInit ==
    /\ order = [t \in Tasks |-> NoOrder]
    /\ wallet = [d \in Drivers |-> Opening]
    /\ vault = 0
    /\ billed = {}
    /\ sub = [t \in Tasks |-> NoSub]
    /\ flag = [v \in Vehicles |-> FALSE]
    /\ permit = [i \in Issuers |-> IF i \in Covered THEN [NoPermit EXCEPT !.active = TRUE, !.vehicle = i]
                                                    ELSE NoPermit]
    /\ request = [t \in Tasks |-> "none"]
    /\ job = [permits |-> {}, subs |-> {}]
    /\ task = [t \in Tasks |-> IdleTask]
    /\ crashes = 0

-------------------------------------------------------------------------------
TaskAt(t, step) == task[t].at = step
TaskGoto(t, step) == task' = [task EXCEPT ![t].at = step]

(* The requests are numbered as they come. *)
IsNext(t, op) ==
    /\ TaskAt(t, "idle") /\ \A u \in Tasks : u < t => ~ TaskAt(u, "idle")
    /\ op \in TaskOps

(* A request is received: new is what its first read leaves in its record. *)
Receive(t, op, new) ==
    /\ IsNext(t, op)
    /\ task' = [task EXCEPT ![t] = [new EXCEPT !.op = op]]
    /\ UNCHANGED <<docs, job, crashes>>

(* A read: only the record of the request changes. *)
Look(t, step) ==
    /\ TaskGoto(t, step)
    /\ UNCHANGED <<docs, job, crashes>>

SaveOrder(t, new) ==
    /\ order' = [order EXCEPT ![t] = [new EXCEPT !.driver = task[t].driver,
                                                 !.vehicle = task[t].vehicle]]
    /\ UNCHANGED <<wallet, vault, billed, sub, flag, permit, request, job, crashes>>

SetWallet(d, sum) ==
    /\ wallet' = [wallet EXCEPT ![d] = sum]
    /\ UNCHANGED <<order, vault, billed, sub, flag, permit, request, job, crashes>>

(* The ledger balance: what has been completed in the driver's own wallet.    *)
(* An EVP paid by card is a debit of that wallet too.                         *)
Credits(d) == {o \in Tasks : order[o].driver = d /\ order[o].status = "COMPLETED"
                             /\ order[o].kind \in {"deposit", "ride"}}
Debits(d)  == {o \in Tasks : order[o].driver = d /\ order[o].status = "COMPLETED"
                             /\ order[o].kind \in {"evp", "withdrawal"}}
Ledger(d)  == Opening + Amount * (Cardinality(Credits(d)) - Cardinality(Debits(d)))

InForce(i)    == permit[i].active /\ ~ permit[i].lapsed
HasPermit(v)  == \E i \in Issuers : InForce(i) /\ permit[i].vehicle = v
IsSubscribed(d) == \E s \in Tasks : sub[s].status = "active" /\ sub[s].driver = d /\ ~ sub[s].lapsed

EvpPaid(o, v) == order[o].kind = "evp" /\ order[o].vehicle = v /\ order[o].status = "COMPLETED"

-------------------------------------------------------------------------------
(* createDepositTransaction: the balance grows when the deposit is opened, and *)
(* again when the gateway reports it.                                          *)

CreateDepositTransaction(t, d) ==
    Receive(t, "deposit", [IdleTask EXCEPT !.driver = d, !.sum = wallet[d], !.at = "saveDeposit"])

SaveDeposit(t) ==
    /\ TaskAt(t, "saveDeposit")
    /\ SaveOrder(t, [NoOrder EXCEPT !.kind = "deposit", !.status = "PENDING", !.byCard = TRUE])
    /\ TaskGoto(t, "writeDeposit")

WriteDeposit(t) ==
    /\ TaskAt(t, "writeDeposit")
    /\ SetWallet(task[t].driver, task[t].sum + Amount)
    /\ TaskGoto(t, "done")

(* The order of a ride paid by card, opened when its driver accepts it. *)
CreateRideTransaction(t, d) ==
    /\ IsNext(t, "ride")
    /\ order' = [order EXCEPT ![t] = [NoOrder EXCEPT !.kind = "ride", !.status = "PENDING",
                                                     !.byCard = TRUE, !.driver = d]]
    /\ task' = [task EXCEPT ![t] = [IdleTask EXCEPT !.op = "ride", !.at = "done", !.driver = d]]
    /\ UNCHANGED <<wallet, vault, billed, sub, flag, permit, request, job, crashes>>

-------------------------------------------------------------------------------
(* createSubscriptionTransaction *)

CreateSubscriptionTransaction(t, d) ==
    Receive(t, "subscribe", [IdleTask EXCEPT !.driver = d, !.at = "permitCheck"])

CheckPermit(t) ==
    /\ TaskAt(t, "permitCheck")
    /\ Look(t, IF \E v \in Vehicles : OwnerOf[v] = task[t].driver /\ HasPermit(v)
                 THEN "subCheck" ELSE "refused")

CheckSubscription(t) ==
    /\ TaskAt(t, "subCheck")
    /\ Look(t, IF IsSubscribed(task[t].driver) THEN "refused" ELSE "findPlan")

(* The plan may have been withdrawn; then the administrator's wallet is read. *)
FindPlan(t) ==
    /\ TaskAt(t, "findPlan")
    /\ \/ Look(t, "refused")
       \/ /\ task' = [task EXCEPT ![t].sum = vault, ![t].at = "savePlan"]
          /\ UNCHANGED <<docs, job, crashes>>

SavePlanOrder(t) ==
    /\ TaskAt(t, "savePlan")
    /\ SaveOrder(t, [NoOrder EXCEPT !.kind = "plan", !.status = "PENDING", !.byCard = TRUE,
                                    !.after = task[t].sum + Amount])
    /\ TaskGoto(t, "done")

-------------------------------------------------------------------------------
(* payForEvp *)

PayForEvp(t, v, byCard) ==
    Receive(t, "payEvp", [IdleTask EXCEPT !.driver = OwnerOf[v], !.vehicle = v, !.byCard = byCard,
                                          !.at = "evpCheck"])

CheckEvp(t) ==
    /\ TaskAt(t, "evpCheck")
    /\ Look(t, IF HasPermit(task[t].vehicle) THEN "refused"
               ELSE IF task[t].byCard THEN "pendingCheck" ELSE "balance")

CheckBalance(t) ==
    /\ TaskAt(t, "balance")
    /\ \/ Ledger(task[t].driver) < Amount /\ Look(t, "refused")
       \/ /\ Ledger(task[t].driver) >= Amount
          /\ task' = [task EXCEPT ![t].sum = Ledger(task[t].driver), ![t].at = "saveEvp"]
          /\ UNCHANGED <<docs, job, crashes>>

SaveEvp(t) ==
    /\ TaskAt(t, "saveEvp")
    /\ SaveOrder(t, [NoOrder EXCEPT !.kind = "evp", !.status = "COMPLETED"])
    /\ TaskGoto(t, "debit")

(* The wallet becomes the ledger balance, less the price. *)
DebitWallet(t) ==
    /\ TaskAt(t, "debit")
    /\ SetWallet(task[t].driver, task[t].sum - Amount)
    /\ TaskGoto(t, "flag")

(* The administrator may now issue the permit; also a step of notificationUrl. *)
SetFlag(t) ==
    /\ TaskAt(t, "flag")
    /\ flag' = [flag EXCEPT ![task[t].vehicle] = TRUE]
    /\ TaskGoto(t, IF task[t].op = "callback" THEN "settle" ELSE "done")
    /\ UNCHANGED <<order, wallet, vault, billed, sub, permit, request, job, crashes>>

(* A pending card payment of the vehicle is returned instead of a new one. *)
CheckPending(t) ==
    /\ TaskAt(t, "pendingCheck")
    /\ Look(t, IF \E o \in Tasks : /\ order[o].kind = "evp" /\ order[o].status = "PENDING"
                                   /\ order[o].vehicle = task[t].vehicle
                 THEN "done" ELSE "saveCard")

(* Mutant: the vehicle is flagged when the payment is opened. *)
SaveCardEvpFlags(t) ==
    /\ TaskAt(t, "saveCard")
    /\ SaveOrder(t, [NoOrder EXCEPT !.kind = "evp", !.status = "PENDING", !.byCard = TRUE])
    /\ TaskGoto(t, "flag")

SaveCardEvp(t) ==
    /\ TaskAt(t, "saveCard")
    /\ SaveOrder(t, [NoOrder EXCEPT !.kind = "evp", !.status = "PENDING", !.byCard = TRUE])
    /\ TaskGoto(t, "done")

-------------------------------------------------------------------------------
(* notificationUrl: the gateway reports that order o has been paid, once or   *)
(* more often; the status of the order is not looked at.                       *)

(* Mutant: the ride of a ride order is not billed. *)
CallbackUnbilled(t, o) ==
    /\ order[o].byCard
    /\ Receive(t, "callback", [IdleTask EXCEPT
          !.driver = order[o].driver, !.vehicle = order[o].vehicle, !.doc = o,
          !.at = CASE order[o].kind \in {"ride", "deposit"} -> "readWallet"
                   [] order[o].kind = "plan" -> "plan"
                   [] OTHER -> "flag"])

Callback(t, o) ==
    /\ order[o].byCard
    /\ Receive(t, "callback", [IdleTask EXCEPT
          !.driver = order[o].driver, !.vehicle = order[o].vehicle, !.doc = o,
          !.at = CASE order[o].kind = "ride" -> "bill"
                   [] order[o].kind = "deposit" -> "readWallet"
                   [] order[o].kind = "plan" -> "plan"
                   [] OTHER -> "flag"])

BillRide(t) ==
    /\ TaskAt(t, "bill")
    /\ billed' = billed \cup {task[t].doc}
    /\ TaskGoto(t, "readWallet")
    /\ UNCHANGED <<order, wallet, vault, sub, flag, permit, request, job, crashes>>

ReadWallet(t) ==
    /\ TaskAt(t, "readWallet")
    /\ task' = [task EXCEPT ![t].sum = wallet[task[t].driver], ![t].at = "credit"]
    /\ UNCHANGED <<docs, job, crashes>>

CreditWallet(t) ==
    /\ TaskAt(t, "credit")
    /\ SetWallet(task[t].driver, task[t].sum + Amount)
    /\ TaskGoto(t, "settle")

(* The plan may have been withdrawn since the order was opened. *)
CheckPlan(t) ==
    /\ TaskAt(t, "plan")
    /\ \E step \in {"refused", "expireOld"} : Look(t, step)

(* createSubscription of SubscriptionRepository: expire the active ones, add one. *)
ExpireOld(t) ==
    /\ TaskAt(t, "expireOld")
    /\ sub' = [s \in Tasks |-> IF sub[s].status = "active" /\ sub[s].driver = task[t].driver
                                 THEN [sub[s] EXCEPT !.status = "expired"] ELSE sub[s]]
    /\ TaskGoto(t, "createSub")
    /\ UNCHANGED <<order, wallet, vault, billed, flag, permit, request, job, crashes>>

CreateSub(t) ==
    /\ TaskAt(t, "createSub")
    /\ sub' = [sub EXCEPT ![t] = [NoSub EXCEPT !.status = "active", !.driver = task[t].driver,
                                               !.order = task[t].doc]]
    /\ TaskGoto(t, IF task[t].op = "callback" THEN "vault" ELSE "done")
    /\ UNCHANGED <<order, wallet, vault, billed, flag, permit, request, job, crashes>>

(* Mutant: the branch returns before the order is saved. *)
WriteVaultReturns(t) ==
    /\ TaskAt(t, "vault")
    /\ vault' = order[task[t].doc].after
    /\ TaskGoto(t, "done")
    /\ UNCHANGED <<order, wallet, billed, sub, flag, permit, request, job, crashes>>

(* The balance computed when the order was opened. *)
WriteVault(t) ==
    /\ TaskAt(t, "vault")
    /\ vault' = order[task[t].doc].after
    /\ TaskGoto(t, "settle")
    /\ UNCHANGED <<order, wallet, billed, sub, flag, permit, request, job, crashes>>

SettleOrder(t) ==
    /\ TaskAt(t, "settle")
    /\ order' = [order EXCEPT ![task[t].doc].status = "COMPLETED"]
    /\ TaskGoto(t, "done")
    /\ UNCHANGED <<wallet, vault, billed, sub, flag, permit, request, job, crashes>>

-------------------------------------------------------------------------------
(* createWithdrawalRequest; rejectWithdrawalRequest, approveWithdrawalRequest *)

CreateWithdrawalRequest(t, d) ==
    Receive(t, "withdraw", [IdleTask EXCEPT !.driver = d, !.at = "withdrawable"])

CheckWithdrawable(t) ==
    /\ TaskAt(t, "withdrawable")
    /\ Look(t, IF Ledger(task[t].driver) < Amount THEN "refused" ELSE "noRequest")

CheckNoRequest(t) ==
    /\ TaskAt(t, "noRequest")
    /\ Look(t, IF \E w \in Tasks : request[w] = "PENDING" /\ order[w].driver = task[t].driver
                 THEN "refused" ELSE "hold")

HoldAmount(t) ==
    /\ TaskAt(t, "hold")
    /\ SaveOrder(t, [NoOrder EXCEPT !.kind = "withdrawal", !.status = "PENDING"])
    /\ TaskGoto(t, "saveRequest")

SetRequest(w, status) ==
    /\ request' = [request EXCEPT ![w] = status]
    /\ UNCHANGED <<order, wallet, vault, billed, sub, flag, permit, job, crashes>>

SaveRequest(t) ==
    /\ TaskAt(t, "saveRequest")
    /\ SetRequest(t, "PENDING")
    /\ TaskGoto(t, "done")

(* Mutant: the transaction is left as it is. *)
RejectWithdrawalKeeps(t, w) ==
    /\ request[w] = "PENDING"
    /\ Receive(t, "reject", [IdleTask EXCEPT !.doc = w, !.at = "rejectRequest"])

RejectWithdrawal(t, w) ==
    /\ request[w] = "PENDING"
    /\ Receive(t, "reject", [IdleTask EXCEPT !.doc = w, !.at = "release"])

(* The read of the transaction is merged with its save: nothing but another  *)
(* rejection changes a pending withdrawal, and to the same status.            *)
ReleaseAmount(t) ==
    /\ TaskAt(t, "release")
    /\ order' = [order EXCEPT ![task[t].doc].status = IF @ = "PENDING" THEN "FAILED" ELSE @]
    /\ TaskGoto(t, "rejectRequest")
    /\ UNCHANGED <<wallet, vault, billed, sub, flag, permit, request, job, crashes>>

RejectRequest(t) ==
    /\ TaskAt(t, "rejectRequest")
    /\ SetRequest(task[t].doc, "REJECTED")
    /\ TaskGoto(t, "done")

(* The request is read with its wallet populated, and the lookup by the text of *)
(* that document fails: no withdrawal is ever approved.                         *)
ApproveWithdrawal(t, w) ==
    /\ request[w] = "PENDING"
    /\ Receive(t, "approve", [IdleTask EXCEPT !.doc = w, !.at = "refused"])

-------------------------------------------------------------------------------
(* createVehicleEvp and revokeEvp *)

CreateVehicleEvp(t, o) ==
    /\ order[o].kind = "evp" /\ order[o].status = "COMPLETED" /\ ~ order[o].used
    /\ Receive(t, "issue", [IdleTask EXCEPT !.vehicle = order[o].vehicle, !.doc = o,
                                            !.at = "activeCheck"])

CheckActive(t) ==
    /\ TaskAt(t, "activeCheck")
    /\ Look(t, IF HasPermit(task[t].vehicle) THEN "refused" ELSE "issue")

IssuePermit(t) ==
    /\ TaskAt(t, "issue")
    /\ permit' = [permit EXCEPT ![t] = [NoPermit EXCEPT !.active = TRUE, !.order = task[t].doc,
                                                        !.vehicle = task[t].vehicle]]
    /\ TaskGoto(t, "markUsed")
    /\ UNCHANGED <<order, wallet, vault, billed, sub, flag, request, job, crashes>>

(* Some completed payment of the vehicle is marked, used already or not. *)
MarkPaymentUsed(t) ==
    /\ TaskAt(t, "markUsed")
    /\ \E o \in Tasks : EvpPaid(o, task[t].vehicle) /\ order' = [order EXCEPT ![o].used = TRUE]
    /\ TaskGoto(t, "unflag")
    /\ UNCHANGED <<wallet, vault, billed, sub, flag, permit, request, job, crashes>>

ClearFlag(t) ==
    /\ TaskAt(t, "unflag")
    /\ flag' = [flag EXCEPT ![task[t].vehicle] = FALSE]
    /\ TaskGoto(t, "done")
    /\ UNCHANGED <<order, wallet, vault, billed, sub, permit, request, job, crashes>>

RevokeEvp(t, i) ==
    /\ permit[i].active
    /\ Receive(t, "revoke", [IdleTask EXCEPT !.doc = i, !.at = "revoke"])

(* Mutant: the update replaces the document. *)
WriteRevokedReplaces(t) ==
    /\ TaskAt(t, "revoke")
    /\ permit' = [permit EXCEPT ![task[t].doc] = [active |-> FALSE]]
    /\ TaskGoto(t, "done")
    /\ UNCHANGED <<order, wallet, vault, billed, sub, flag, request, job, crashes>>

WriteRevoked(t) ==
    /\ TaskAt(t, "revoke")
    /\ permit' = [permit EXCEPT ![task[t].doc].active = FALSE]
    /\ TaskGoto(t, "done")
    /\ UNCHANGED <<order, wallet, vault, billed, sub, flag, request, job, crashes>>

-------------------------------------------------------------------------------
(* createSubscription and cancelSubscription of DriverSubscriptionsService *)

AdminSubscribe(t, d) ==
    Receive(t, "adminSubscribe", [IdleTask EXCEPT !.driver = d, !.at = "expireOld"])

CancelSubscription(t, s) ==
    /\ sub[s].status # "none"
    /\ Receive(t, "cancel", [IdleTask EXCEPT !.doc = s, !.at = "cancel"])

WriteCancelled(t) ==
    /\ TaskAt(t, "cancel")
    /\ sub' = [sub EXCEPT ![task[t].doc].status = "expired", ![task[t].doc].cancelled = TRUE]
    /\ TaskGoto(t, "done")
    /\ UNCHANGED <<order, wallet, vault, billed, flag, permit, request, job, crashes>>

-------------------------------------------------------------------------------
(* Time passes, and every morning the two expiration jobs read what has       *)
(* expired and mark it, one document at a time.                               *)

Lapse ==
    /\ \/ \E i \in Issuers : /\ permit[i].vehicle # NoVehicle /\ ~ permit[i].lapsed
                             /\ permit' = [permit EXCEPT ![i].lapsed = TRUE]
                             /\ UNCHANGED sub
       \/ \E s \in Tasks : /\ sub[s].status # "none" /\ ~ sub[s].lapsed
                           /\ sub' = [sub EXCEPT ![s].lapsed = TRUE]
                           /\ UNCHANGED permit
    /\ UNCHANGED <<order, wallet, vault, billed, flag, request, job, task, crashes>>

ExpiredPermits == {i \in Issuers : permit[i].active /\ permit[i].lapsed}
ExpiredSubs    == {s \in Tasks : sub[s].status = "active" /\ sub[s].lapsed}

CheckEvpExpiration ==
    /\ job.permits = {} /\ ExpiredPermits # {}
    /\ job' = [job EXCEPT !.permits = ExpiredPermits]
    /\ UNCHANGED <<docs, task, crashes>>

(* Mutant: a permit whose vehicle has a new payment is left to the administrator. *)
MarkPermitSkips(i) ==
    /\ i \in job.permits
    /\ job' = [job EXCEPT !.permits = @ \ {i}]
    /\ permit' = [permit EXCEPT ![i].active = @ /\ flag[permit[i].vehicle]]
    /\ UNCHANGED <<order, wallet, vault, billed, sub, flag, request, task, crashes>>

MarkPermit(i) ==
    /\ i \in job.permits
    /\ job' = [job EXCEPT !.permits = @ \ {i}]
    /\ permit' = [permit EXCEPT ![i].active = FALSE]
    /\ UNCHANGED <<order, wallet, vault, billed, sub, flag, request, task, crashes>>

(* Mutant: the query forgets the end date. *)
CheckSubscriptionAny ==
    /\ job.subs = {} /\ \E s \in Tasks : sub[s].status = "active"
    /\ job' = [job EXCEPT !.subs = {s \in Tasks : sub[s].status = "active"}]
    /\ UNCHANGED <<docs, task, crashes>>

CheckSubscriptionExpiration ==
    /\ job.subs = {} /\ ExpiredSubs # {}
    /\ job' = [job EXCEPT !.subs = ExpiredSubs]
    /\ UNCHANGED <<docs, task, crashes>>

MarkSubscription(s) ==
    /\ s \in job.subs
    /\ job' = [job EXCEPT !.subs = @ \ {s}]
    /\ sub' = [sub EXCEPT ![s].status = "expired"]
    /\ UNCHANGED <<order, wallet, vault, billed, flag, permit, request, task, crashes>>

(* The processes restart: requests and jobs are gone, the documents are not. *)
Crash ==
    /\ crashes < MaxRestarts
    /\ crashes' = crashes + 1
    /\ job' = [permits |-> {}, subs |-> {}]
    /\ task' = [t \in Tasks |-> IF task[t].at \in Finished \cup {"idle"} THEN task[t]
                                ELSE [task[t] EXCEPT !.at = "lost"]]
    /\ UNCHANGED docs

-------------------------------------------------------------------------------
Buying(t) ==
    \/ SaveDeposit(t) \/ WriteDeposit(t)
    \/ CheckPermit(t) \/ CheckSubscription(t) \/ FindPlan(t) \/ SavePlanOrder(t)
    \/ CheckEvp(t) \/ CheckBalance(t) \/ SaveEvp(t) \/ DebitWallet(t) \/ SetFlag(t)
    \/ CheckPending(t) \/ SaveCardEvp(t)

TaskStep(t) ==
    \/ Buying(t)
    \/ BillRide(t) \/ ReadWallet(t) \/ CreditWallet(t) \/ CheckPlan(t) \/ ExpireOld(t)
    \/ CreateSub(t) \/ WriteVault(t) \/ SettleOrder(t)
    \/ CheckWithdrawable(t) \/ CheckNoRequest(t) \/ HoldAmount(t) \/ SaveRequest(t)
    \/ ReleaseAmount(t) \/ RejectRequest(t)
    \/ CheckActive(t) \/ IssuePermit(t) \/ MarkPaymentUsed(t) \/ ClearFlag(t)
    \/ WriteRevoked(t) \/ WriteCancelled(t)

PayingRoutes(t) ==
    \/ \E d \in Drivers : \/ CreateDepositTransaction(t, d) \/ CreateRideTransaction(t, d)
                          \/ CreateSubscriptionTransaction(t, d) \/ CreateWithdrawalRequest(t, d)
    \/ \E v \in Vehicles, byCard \in BOOLEAN : PayForEvp(t, v, byCard)
    \/ \E o \in Tasks : Callback(t, o)

EvpRoutes(t) ==
    \/ \E o \in Tasks : CreateVehicleEvp(t, o)
    \/ \E i \in Issuers : RevokeEvp(t, i)

AdminRoutes(t) ==
    \/ \E d \in Drivers : AdminSubscribe(t, d)
    \/ \E o \in Tasks : CancelSubscription(t, o) \/ RejectWithdrawal(t, o) \/ ApproveWithdrawal(t, o)

TaskRequest(t) == PayingRoutes(t) \/ EvpRoutes(t) \/ AdminRoutes(t)

JobStep ==
    \/ CheckEvpExpiration \/ CheckSubscriptionExpiration
    \/ (\E i \in Issuers : MarkPermit(i)) \/ (\E s \in Tasks : MarkSubscription(s))

PurNext == Lapse \/ JobStep \/ Crash \/ \E t \in Tasks : TaskRequest(t) \/ TaskStep(t)

PurSpec == PurInit /\ [][PurNext]_purVars

(* The processes do not stop while a request is unfinished or a job has       *)
(* something to mark: the event loop runs what has been received, the          *)
(* scheduler starts the jobs every day.                                         *)
FairPurSpec == PurSpec /\ WF_purVars(JobStep \/ \E t \in Tasks : TaskStep(t))

-------------------------------------------------------------------------------
(* Properties *)

PurTypeOK ==
    /\ order \in [Tasks -> Order]
    /\ wallet \in [Drivers -> Int]
    /\ vault \in Int
    /\ billed \subseteq Tasks
    /\ sub \in [Tasks -> Subscription]
    /\ flag \in [Vehicles -> BOOLEAN]
    /\ permit \in [Issuers -> Permit]
    /\ request \in [Tasks -> {"none", "PENDING", "REJECTED"}]
    /\ job \in [permits : SUBSET Issuers, subs : SUBSET Tasks]
    /\ task \in [Tasks -> Task]
    /\ crashes \in 0..MaxRestarts

(* An order reported paid and settled has been honoured, however often the   *)
(* gateway calls, whatever overlaps the call and wherever the process         *)
(* restarts: the ride is billed, the subscription exists, the vehicle waits   *)
(* for its permit or has been given one.  Effects come before the status.     *)
CompletedIsFulfilled ==
    \A o \in Tasks :
       order[o].status = "COMPLETED" /\ order[o].byCard =>
          /\ order[o].kind = "ride" => o \in billed
          /\ order[o].kind = "plan" => \E s \in Tasks : sub[s].order = o
          /\ order[o].kind = "evp"  => \/ flag[order[o].vehicle]
                                      \/ \E t \in Tasks : permit[t].vehicle = order[o].vehicle

(* A vehicle waits for its permit only when one has been paid for: no order   *)
(* of payForEvp, notificationUrl and createVehicleEvp leaves the flag without *)
(* a completed payment, except a restart before the payment is settled.       *)
FlagMeansPaid ==
    \A v \in Vehicles :
       flag[v] => \/ \E o \in Tasks : EvpPaid(o, v)
                  \/ \E t \in Tasks : TaskAt(t, "settle") /\ task[t].vehicle = v
                  \/ crashes > 0

(* The amount of a withdrawal stays held exactly as long as its request is    *)
(* open: a request without its pending transaction is being rejected just     *)
(* now, and a rejected one has released it, also when rejections overlap or   *)
(* the process restarts between the two documents.                             *)
WithdrawalHeld ==
    \A w \in Tasks :
       /\ request[w] = "REJECTED" => order[w].status = "FAILED"
       /\ request[w] = "PENDING" =>
             \/ order[w].status = "PENDING"
             \/ \E t \in Tasks : TaskAt(t, "rejectRequest") /\ task[t].doc = w
             \/ crashes > 0

(* A driver who has been granted a subscription keeps one until it runs out   *)
(* or is cancelled: renewals that overlap, and the expiration job that marks   *)
(* what it read before them, never leave the driver with none, except for the  *)
(* moment between expiring the old one and adding the new one.                 *)
DriverKeepsSubscription ==
    \A s \in Tasks :
       sub[s].status # "none" =>
          \/ \E a \in Tasks : sub[a].driver = sub[s].driver
                              /\ (sub[a].status = "active" \/ sub[a].lapsed \/ sub[a].cancelled)
          \/ \E t \in Tasks : TaskAt(t, "createSub") /\ task[t].driver = sub[s].driver
          \/ crashes > 0

(* A permit that has run out is marked so in the end, and the vehicle can get *)
(* another one, whatever is issued and revoked meanwhile.                      *)
LapsedIsMarked ==
    \A i \in Issuers : permit[i].active /\ permit[i].lapsed ~> ~ permit[i].active

(* A reported subscription payment that has begun to expire the old           *)
(* subscription is settled.                                                    *)
CallbackSettles ==
    \A t \in Tasks :
       TaskAt(t, "expireOld") /\ task[t].op = "callback"
       ~> \/ TaskAt(t, "done") /\ task[t].op = "callback" /\ order[task[t].doc].status = "COMPLETED"
          \/ crashes > 0
===============================================================================
