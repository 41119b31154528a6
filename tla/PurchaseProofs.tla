---------------------------- MODULE PurchaseProofs ----------------------------
(***************************************************************************)
(* Theorems about Purchases, for every number of drivers, vehicles, requests *)
(* and restarts, every price and every opening balance.                     *)
(***************************************************************************)
EXTENDS Purchases, FiniteSetTheorems, TLAPS

(* What a request has in its record when it reaches a step. *)
RecordOK(e) ==
    /\ e.at \in {"saveDeposit", "bill", "readWallet"} => e.driver \in Drivers
    /\ e.at \in {"bill", "readWallet", "credit", "plan", "vault", "settle"} => e.op = "callback"
    /\ e.at \in {"expireOld", "createSub"} => e.op \in {"callback", "adminSubscribe"}
    /\ e.at \in {"activeCheck", "issue", "markUsed", "unflag"} => e.op = "issue"
    /\ e.op \in {"callback", "issue"} => e.doc \in Tasks
    /\ e.op = "adminSubscribe" => e.doc = NoDoc

DocsTyped ==
    /\ order \in [Tasks -> Order]
    /\ \A o \in Tasks : order[o].kind \in {"deposit", "ride"} => order[o].driver \in Drivers
    /\ wallet \in [Drivers -> Int]
    /\ vault \in Int
    /\ billed \subseteq Tasks
    /\ sub \in [Tasks -> Subscription]
    /\ flag \in [Vehicles -> BOOLEAN]
    /\ permit \in [Issuers -> Permit]
    /\ request \in [Tasks -> {"none", "PENDING", "REJECTED"}]
    /\ job \in [permits : SUBSET Issuers, subs : SUBSET Tasks]
    /\ crashes \in 0..MaxRestarts

RequestsTyped == task \in [Tasks -> Task] /\ \A t \in Tasks : RecordOK(task[t])

PurTypeInv == DocsTyped /\ RequestsTyped

-------------------------------------------------------------------------------
(* Type correctness *)

LEMMA IdleTaskType == IdleTask \in Task /\ RecordOK(IdleTask)
BY DEF IdleTask, Task, Ops, TaskSteps, RecordOK

(* The absent order is an order with nothing in it. *)
LEMMA NoOrderType == NoOrder \in Order
BY DEF NoOrder, Order, Kinds

LEMMA PurTypeInit == PurInit => PurTypeInv
<1> SUFFICES ASSUME PurInit PROVE PurTypeInv
    OBVIOUS
<1>1. order \in [Tasks -> Order] /\ \A o \in Tasks : order[o].kind = "none"
  <2>1. NoOrder \in Order /\ NoOrder.kind = "none"
    BY NoOrderType DEF NoOrder
  <2>2. order = [t \in Tasks |-> NoOrder]
    BY DEF PurInit
  <2> QED BY <2>1, <2>2
<1>2. wallet \in [Drivers -> Int] /\ vault \in Int /\ crashes \in 0..MaxRestarts
  <2>1. wallet = [d \in Drivers |-> Opening] /\ vault = 0 /\ crashes = 0
    BY DEF PurInit
  <2> QED BY <2>1, AmountAssumption, CrashAssumption
<1>3. sub \in [Tasks -> Subscription]
    BY DEF PurInit, NoSub, Subscription
<1>4. permit \in [Issuers -> Permit]
    BY OwnerAssumption DEF PurInit, NoPermit, Permit, Issuers
<1>5. billed \subseteq Tasks /\ flag \in [Vehicles -> BOOLEAN]
      /\ request \in [Tasks -> {"none", "PENDING", "REJECTED"}]
      /\ job \in [permits : SUBSET Issuers, subs : SUBSET Tasks]
    BY DEF PurInit
<1>6. RequestsTyped
    BY IdleTaskType DEF PurInit, RequestsTyped
<1> QED BY <1>1, <1>2, <1>3, <1>4, <1>5, <1>6 DEF PurTypeInv, DocsTyped

(* The ledger balance is a number: a driver has finitely many transactions. *)
LEMMA LedgerType == ASSUME NEW d \in Drivers \cup {NoDriver} PROVE Ledger(d) \in Int
<1>1. IsFiniteSet(Tasks)
    BY FS_Interval, TasksAssumption DEF Tasks
<1>2. Credits(d) \subseteq Tasks /\ Debits(d) \subseteq Tasks
    BY DEF Credits, Debits
<1>3. Cardinality(Credits(d)) \in Nat /\ Cardinality(Debits(d)) \in Nat
    BY <1>1, <1>2, FS_Subset, FS_CardinalityType
<1> QED BY <1>3, AmountAssumption DEF Ledger

(* A request whose record becomes e. *)
LEMMA RecordBecomes ==
    ASSUME RequestsTyped, NEW t \in Tasks, NEW e \in Task, RecordOK(e),
           task' = [task EXCEPT ![t] = e]
    PROVE  RequestsTyped'
<1>1. task' \in [Tasks -> Task]
    BY DEF RequestsTyped
<1>2. \A u \in Tasks : task'[u] = IF u = t THEN e ELSE task[u]
    BY DEF RequestsTyped
<1> QED BY <1>1, <1>2 DEF RequestsTyped

(* A request that moves on, with what the next step needs. *)
LEMMA RecordMoves ==
    ASSUME RequestsTyped, NEW t \in Tasks, NEW step \in TaskSteps, TaskGoto(t, step),
           RecordOK([task[t] EXCEPT !.at = step])
    PROVE  RequestsTyped'
<1>1. [task[t] EXCEPT !.at = step] \in Task
    BY DEF RequestsTyped, Task
<1> QED BY <1>1, RecordBecomes DEF TaskGoto

(* A request is received: the documents are left alone. *)
LEMMA ReceiveType ==
    ASSUME PurTypeInv, NEW t \in Tasks, NEW op \in Ops, NEW new \in Task, Receive(t, op, new),
           RecordOK([new EXCEPT !.op = op])
    PROVE  PurTypeInv'
<1>1. [new EXCEPT !.op = op] \in Task
    BY DEF Task
<1>2. RequestsTyped'
    BY <1>1, RecordBecomes DEF Receive, PurTypeInv
<1>3. DocsTyped'
    BY DEF Receive, docs, PurTypeInv, DocsTyped
<1> QED BY <1>2, <1>3 DEF PurTypeInv

(* A read of shared state. *)
LEMMA LookType ==
    ASSUME PurTypeInv, NEW t \in Tasks, NEW step \in TaskSteps, Look(t, step),
           RecordOK([task[t] EXCEPT !.at = step])
    PROVE  PurTypeInv'
<1>1. RequestsTyped'
    BY RecordMoves DEF Look, PurTypeInv
<1>2. DocsTyped'
    BY DEF Look, docs, PurTypeInv, DocsTyped
<1> QED BY <1>1, <1>2 DEF PurTypeInv

(* Opening a transaction in the name of the request's driver and vehicle. *)
LEMMA SaveOrderType ==
    ASSUME PurTypeInv, NEW t \in Tasks, NEW new \in Order, SaveOrder(t, new),
           new.kind \in {"deposit", "ride"} => task[t].driver \in Drivers
    PROVE  DocsTyped'
<1>1. task[t] \in Task
    BY DEF PurTypeInv, RequestsTyped
<1> DEFINE o == [new EXCEPT !.driver = task[t].driver, !.vehicle = task[t].vehicle]
<1>2. o \in Order /\ (o.kind \in {"deposit", "ride"} => o.driver \in Drivers)
    BY <1>1 DEF Order, Task
<1>3. order' = [order EXCEPT ![t] = o]
    BY DEF SaveOrder
<1> HIDE DEF o
<1>4. order' \in [Tasks -> Order]
    BY <1>2, <1>3 DEF PurTypeInv, DocsTyped
<1>5. \A u \in Tasks : order'[u] = IF u = t THEN o ELSE order[u]
    BY <1>3 DEF PurTypeInv, DocsTyped
<1> QED BY <1>2, <1>4, <1>5 DEF SaveOrder, PurTypeInv, DocsTyped

(* Amending a transaction without touching its kind and driver. *)
LEMMA AmendType ==
    ASSUME DocsTyped, NEW o \in Tasks, NEW new \in Order, order' = [order EXCEPT ![o] = new],
           new.kind = order[o].kind, new.driver = order[o].driver,
           UNCHANGED <<wallet, vault, billed, sub, flag, permit, request, job, crashes>>
    PROVE  DocsTyped'
<1>1. order' \in [Tasks -> Order] /\ \A u \in Tasks : order'[u] = IF u = o THEN new ELSE order[u]
    BY DEF DocsTyped
<1> QED BY <1>1 DEF DocsTyped

(* Writing a balance. *)
LEMMA SetWalletType ==
    ASSUME PurTypeInv, NEW d, NEW sum \in Int, SetWallet(d, sum)
    PROVE  DocsTyped'
BY DEF SetWallet, PurTypeInv, DocsTyped

(* What the record of a request holds. *)
LEMMA RecordHas == ASSUME RequestsTyped, NEW t \in Tasks PROVE task[t] \in Task /\ RecordOK(task[t])
BY DEF RequestsTyped

(* The requests that begin. *)
LEMMA RequestType == ASSUME PurTypeInv, NEW t \in Tasks, TaskRequest(t) PROVE PurTypeInv'
<1> USE IdleTaskType
<1>1. ASSUME NEW d \in Drivers, CreateDepositTransaction(t, d) PROVE PurTypeInv'
  <2> DEFINE new == [IdleTask EXCEPT !.driver = d, !.sum = wallet[d], !.at = "saveDeposit"]
  <2>1. wallet[d] \in Int
    BY DEF PurTypeInv, DocsTyped
  <2>2. new \in Task /\ RecordOK([new EXCEPT !.op = "deposit"]) /\ "deposit" \in Ops
    BY ZenonT(60), <2>1 DEF Task, TaskSteps, IdleTask, RecordOK, Ops
  <2>3. Receive(t, "deposit", new)
    BY <1>1 DEF CreateDepositTransaction
  <2> HIDE DEF new
  <2> QED BY <2>2, <2>3, ReceiveType
<1>2. ASSUME NEW d \in Drivers, CreateRideTransaction(t, d) PROVE PurTypeInv'
  <2> DEFINE o == [NoOrder EXCEPT !.kind = "ride", !.status = "PENDING", !.byCard = TRUE,
                                  !.driver = d]
             e == [IdleTask EXCEPT !.op = "ride", !.at = "done", !.driver = d]
  <2>1. o \in Order
    BY NoOrderType DEF Order, Kinds
  <2>6. o.driver = d
    BY DEF NoOrder
  <2>2. e \in Task /\ RecordOK(e)
    BY ZenonT(60) DEF Task, TaskSteps, IdleTask, RecordOK, Ops
  <2>3. order' = [order EXCEPT ![t] = o] /\ task' = [task EXCEPT ![t] = e]
    BY <1>2 DEF CreateRideTransaction
  <2> HIDE DEF o, e
  <2>4. RequestsTyped'
    BY <2>2, <2>3, RecordBecomes DEF PurTypeInv
  <2>5. order' \in [Tasks -> Order] /\ \A u \in Tasks : order'[u] = IF u = t THEN o ELSE order[u]
    BY <2>1, <2>3 DEF PurTypeInv, DocsTyped
  <2>7. DocsTyped'
    BY <1>2, <2>6, <2>5 DEF CreateRideTransaction, PurTypeInv, DocsTyped
  <2> QED BY <2>4, <2>7 DEF PurTypeInv
<1>3. ASSUME NEW d \in Drivers,
             \/ CreateSubscriptionTransaction(t, d) \/ CreateWithdrawalRequest(t, d)
             \/ AdminSubscribe(t, d)
      PROVE  PurTypeInv'
  <2>1. ASSUME NEW step \in {"permitCheck", "withdrawable", "expireOld"},
               NEW op \in {"subscribe", "withdraw", "adminSubscribe"},
               step = "expireOld" => op = "adminSubscribe",
               Receive(t, op, [IdleTask EXCEPT !.driver = d, !.at = step])
        PROVE  PurTypeInv'
    <3> DEFINE new == [IdleTask EXCEPT !.driver = d, !.at = step]
    <3>1. new \in Task /\ RecordOK([new EXCEPT !.op = op]) /\ op \in Ops
      BY ZenonT(60), <2>1 DEF Task, TaskSteps, IdleTask, RecordOK, Ops
    <3> HIDE DEF new
    <3> QED BY <2>1, <3>1, ReceiveType DEF new
  <2>2. CASE CreateSubscriptionTransaction(t, d)
    BY <2>1, <2>2 DEF CreateSubscriptionTransaction
  <2>3. CASE CreateWithdrawalRequest(t, d)
    BY <2>1, <2>3 DEF CreateWithdrawalRequest
  <2>4. CASE AdminSubscribe(t, d)
    BY <2>1, <2>4 DEF AdminSubscribe
  <2> QED BY <1>3, <2>2, <2>3, <2>4
<1>4. ASSUME NEW v \in Vehicles, NEW byCard \in BOOLEAN, PayForEvp(t, v, byCard)
      PROVE  PurTypeInv'
  <2> DEFINE new == [IdleTask EXCEPT !.driver = OwnerOf[v], !.vehicle = v, !.byCard = byCard,
                                     !.at = "evpCheck"]
  <2>1. new \in Task /\ RecordOK([new EXCEPT !.op = "payEvp"]) /\ "payEvp" \in Ops
    BY ZenonT(60), OwnerAssumption DEF Task, TaskSteps, IdleTask, RecordOK, Ops
  <2>2. Receive(t, "payEvp", new)
    BY <1>4 DEF PayForEvp
  <2> HIDE DEF new
  <2> QED BY <2>1, <2>2, ReceiveType
<1>5. ASSUME NEW o \in Tasks, Callback(t, o) PROVE PurTypeInv'
  <2> DEFINE step == CASE order[o].kind = "ride" -> "bill"
                       [] order[o].kind = "deposit" -> "readWallet"
                       [] order[o].kind = "plan" -> "plan"
                       [] OTHER -> "flag"
             new == [IdleTask EXCEPT !.driver = order[o].driver, !.vehicle = order[o].vehicle,
                                     !.doc = o, !.at = step]
  <2>1. /\ order[o].driver \in Drivers \cup {NoDriver}
        /\ order[o].vehicle \in Vehicles \cup {NoVehicle}
        /\ order[o].kind \in {"ride", "deposit"} => order[o].driver \in Drivers
    BY DEF PurTypeInv, DocsTyped, Order
  <2>2. /\ step \in {"bill", "readWallet", "plan", "flag"}
        /\ step \in {"bill", "readWallet"} => order[o].kind \in {"ride", "deposit"}
    BY Zenon
  <2>3. Receive(t, "callback", new)
    BY <1>5 DEF Callback
  <2> HIDE DEF step
  <2>4. new \in Task /\ RecordOK([new EXCEPT !.op = "callback"]) /\ "callback" \in Ops
    BY ZenonT(60), <2>1, <2>2 DEF Task, TaskSteps, IdleTask, RecordOK, Ops
  <2> HIDE DEF new
  <2> QED BY <2>3, <2>4, ReceiveType
<1>6. ASSUME NEW o \in Tasks,
             \/ CreateVehicleEvp(t, o) \/ CancelSubscription(t, o)
             \/ RejectWithdrawal(t, o) \/ ApproveWithdrawal(t, o)
      PROVE  PurTypeInv'
  <2>1. ASSUME NEW step \in {"cancel", "release", "refused"},
               NEW op \in {"cancel", "reject", "approve"},
               Receive(t, op, [IdleTask EXCEPT !.doc = o, !.at = step])
        PROVE  PurTypeInv'
    <3> DEFINE new == [IdleTask EXCEPT !.doc = o, !.at = step]
    <3>1. new \in Task /\ RecordOK([new EXCEPT !.op = op]) /\ op \in Ops
      BY ZenonT(60), <2>1 DEF Task, TaskSteps, IdleTask, RecordOK, Ops
    <3> HIDE DEF new
    <3> QED BY <2>1, <3>1, ReceiveType DEF new
  <2>2. CASE CreateVehicleEvp(t, o)
    <3> DEFINE new == [IdleTask EXCEPT !.vehicle = order[o].vehicle, !.doc = o, !.at = "activeCheck"]
    <3>1. order[o].vehicle \in Vehicles \cup {NoVehicle}
      BY DEF PurTypeInv, DocsTyped, Order
    <3>2. new \in Task /\ RecordOK([new EXCEPT !.op = "issue"]) /\ "issue" \in Ops
      BY ZenonT(60), <3>1 DEF Task, TaskSteps, IdleTask, RecordOK, Ops
    <3>3. Receive(t, "issue", new)
      BY <2>2 DEF CreateVehicleEvp
    <3> HIDE DEF new
    <3> QED BY <3>2, <3>3, ReceiveType
  <2>3. CASE CancelSubscription(t, o)
    BY <2>1, <2>3 DEF CancelSubscription
  <2>4. CASE RejectWithdrawal(t, o)
    BY <2>1, <2>4 DEF RejectWithdrawal
  <2>5. CASE ApproveWithdrawal(t, o)
    BY <2>1, <2>5 DEF ApproveWithdrawal
  <2> QED BY <1>6, <2>2, <2>3, <2>4, <2>5
<1>7. ASSUME NEW i \in Issuers, RevokeEvp(t, i) PROVE PurTypeInv'
  <2> DEFINE new == [IdleTask EXCEPT !.doc = i, !.at = "revoke"]
  <2>1. i \in Tasks \cup Vehicles
    BY OwnerAssumption DEF Issuers
  <2>2. new \in Task /\ RecordOK([new EXCEPT !.op = "revoke"]) /\ "revoke" \in Ops
    BY ZenonT(60), <2>1 DEF Task, TaskSteps, IdleTask, RecordOK, Ops
  <2>3. Receive(t, "revoke", new)
    BY <1>7 DEF RevokeEvp
  <2> HIDE DEF new
  <2> QED BY <2>2, <2>3, ReceiveType
<1> QED BY <1>1, <1>2, <1>3, <1>4, <1>5, <1>6, <1>7 DEF TaskRequest, PayingRoutes, EvpRoutes, AdminRoutes

(* A read that also keeps a balance. *)
LEMMA SumType ==
    ASSUME PurTypeInv, NEW t \in Tasks, NEW step \in {"saveEvp", "savePlan", "credit"},
           NEW sum \in Int, task' = [task EXCEPT ![t].sum = sum, ![t].at = step],
           step = "credit" => task[t].op = "callback", UNCHANGED <<docs, job, crashes>>
    PROVE  PurTypeInv'
<1> DEFINE e == [task[t] EXCEPT !.sum = sum, !.at = step]
<1>1. task[t] \in Task /\ RecordOK(task[t])
    BY RecordHas DEF PurTypeInv
<1>2. e \in Task /\ RecordOK(e)
  <2>1. e \in Task
    BY ZenonT(60), <1>1 DEF Task, TaskSteps
  <2>2. e.at = step /\ e.op = task[t].op /\ e.doc = task[t].doc /\ e.driver = task[t].driver
    BY <1>1 DEF Task
  <2> HIDE DEF e
  <2> QED BY <1>1, <2>1, <2>2 DEF RecordOK
<1>3. task' = [task EXCEPT ![t] = e]
    BY <1>1 DEF PurTypeInv, RequestsTyped
<1> HIDE DEF e
<1>4. RequestsTyped'
    BY <1>2, <1>3, RecordBecomes DEF PurTypeInv
<1>5. DocsTyped'
    BY DEF docs, PurTypeInv, DocsTyped
<1> QED BY <1>4, <1>5 DEF PurTypeInv

(* A step no field of the record is needed for. *)
LEMMA PlainStep ==
    ASSUME NEW e \in Task, RecordOK(e),
           NEW step \in { "permitCheck", "subCheck", "findPlan", "savePlan", "evpCheck", "balance",
                          "saveEvp", "debit", "flag", "pendingCheck", "saveCard", "writeDeposit",
                          "withdrawable", "noRequest", "hold", "saveRequest", "release",
                          "rejectRequest", "revoke",
                          "cancel", "done", "refused", "lost" }
    PROVE  step \in TaskSteps /\ RecordOK([e EXCEPT !.at = step])
BY DEF Task, TaskSteps, RecordOK

(* The issue of a permit goes on. *)
LEMMA IssueStep ==
    ASSUME NEW e \in Task, RecordOK(e), e.at \in {"activeCheck", "issue", "markUsed"},
           NEW step \in {"issue", "markUsed", "unflag"}
    PROVE  step \in TaskSteps /\ RecordOK([e EXCEPT !.at = step])
BY DEF Task, TaskSteps, RecordOK

(* The steps of a driver who deposits, subscribes or pays for a permit. *)
LEMMA BuyingType == ASSUME PurTypeInv, NEW t \in Tasks, Buying(t) PROVE PurTypeInv'
<1>0. task[t] \in Task /\ RecordOK(task[t]) /\ RequestsTyped
    BY RecordHas DEF PurTypeInv
<1>1. CASE SaveDeposit(t)
  <2> DEFINE new == [NoOrder EXCEPT !.kind = "deposit", !.status = "PENDING", !.byCard = TRUE]
  <2>1. new \in Order /\ task[t].driver \in Drivers
    BY <1>0, <1>1, NoOrderType DEF Order, Kinds, SaveDeposit, TaskAt, RecordOK
  <2>2. SaveOrder(t, new) /\ TaskGoto(t, "writeDeposit")
    BY <1>1 DEF SaveDeposit
  <2> HIDE DEF new
  <2> QED BY <1>0, <2>1, <2>2, SaveOrderType, PlainStep, RecordMoves DEF PurTypeInv
<1>2. CASE WriteDeposit(t)
  <2>1. SetWallet(task[t].driver, task[t].sum + Amount) /\ task[t].sum + Amount \in Int
    BY <1>0, <1>2, AmountAssumption DEF WriteDeposit, Task
  <2>2. DocsTyped'
    BY <2>1, SetWalletType
  <2> QED BY <1>0, <1>2, <2>2, PlainStep, RecordMoves DEF WriteDeposit, PurTypeInv
<1>3. CASE CheckPermit(t)
    BY <1>0, <1>3, PlainStep, LookType DEF CheckPermit
<1>4. CASE CheckSubscription(t)
    BY <1>0, <1>4, PlainStep, LookType DEF CheckSubscription
<1>5. CASE FindPlan(t)
  <2>1. vault \in Int
    BY DEF PurTypeInv, DocsTyped
  <2> QED BY <1>0, <1>5, <2>1, PlainStep, LookType, SumType DEF FindPlan
<1>6. CASE SavePlanOrder(t)
  <2> DEFINE new == [NoOrder EXCEPT !.kind = "plan", !.status = "PENDING", !.byCard = TRUE,
                                    !.after = task[t].sum + Amount]
  <2>1. task[t].sum + Amount \in Int
    BY <1>0, AmountAssumption DEF Task
  <2>2. new \in Order /\ new.kind = "plan"
    BY <2>1, NoOrderType DEF Order, Kinds
  <2>3. SaveOrder(t, new) /\ TaskGoto(t, "done")
    BY <1>6 DEF SavePlanOrder
  <2> HIDE DEF new
  <2> QED BY <1>0, <2>2, <2>3, SaveOrderType, PlainStep, RecordMoves DEF PurTypeInv
<1>7. CASE CheckEvp(t)
    BY <1>0, <1>7, PlainStep, LookType DEF CheckEvp
<1>8. CASE CheckBalance(t)
  <2>1. Ledger(task[t].driver) \in Int
    BY <1>0, LedgerType DEF Task
  <2> QED BY <1>0, <1>8, <2>1, PlainStep, LookType, SumType DEF CheckBalance
<1>9. CASE SaveEvp(t)
  <2> DEFINE new == [NoOrder EXCEPT !.kind = "evp", !.status = "COMPLETED"]
  <2>1. new \in Order /\ new.kind = "evp"
    BY NoOrderType DEF Order, Kinds
  <2>2. SaveOrder(t, new) /\ TaskGoto(t, "debit")
    BY <1>9 DEF SaveEvp
  <2> HIDE DEF new
  <2> QED BY <1>0, <2>1, <2>2, SaveOrderType, PlainStep, RecordMoves DEF PurTypeInv
<1>10. CASE DebitWallet(t)
  <2>1. SetWallet(task[t].driver, task[t].sum - Amount) /\ task[t].sum - Amount \in Int
    BY <1>0, <1>10, AmountAssumption DEF DebitWallet, Task
  <2>2. DocsTyped'
    BY <2>1, SetWalletType
  <2> QED BY <1>0, <1>10, <2>2, PlainStep, RecordMoves DEF DebitWallet, PurTypeInv
<1>11. CASE SetFlag(t)
  <2>1. DocsTyped'
    BY <1>11 DEF SetFlag, PurTypeInv, DocsTyped
  <2>2. CASE task[t].op = "callback"
    <3>1. TaskGoto(t, "settle")
      BY <1>11, <2>2 DEF SetFlag
    <3>2. RecordOK([task[t] EXCEPT !.at = "settle"]) /\ "settle" \in TaskSteps
      BY <1>0, <2>2 DEF Task, RecordOK, TaskSteps
    <3> QED BY <1>0, <2>1, <3>1, <3>2, RecordMoves DEF PurTypeInv
  <2>3. CASE task[t].op # "callback"
    <3>1. TaskGoto(t, "done")
      BY <1>11, <2>3 DEF SetFlag
    <3> QED BY <1>0, <2>1, <3>1, PlainStep, RecordMoves DEF PurTypeInv
  <2> QED BY <2>2, <2>3
<1>12. CASE CheckPending(t)
    BY <1>0, <1>12, PlainStep, LookType DEF CheckPending
<1>13. CASE SaveCardEvp(t)
  <2> DEFINE new == [NoOrder EXCEPT !.kind = "evp", !.status = "PENDING", !.byCard = TRUE]
  <2>1. new \in Order /\ new.kind = "evp"
    BY NoOrderType DEF Order, Kinds
  <2>2. SaveOrder(t, new) /\ TaskGoto(t, "done")
    BY <1>13 DEF SaveCardEvp
  <2> HIDE DEF new
  <2> QED BY <1>0, <2>1, <2>2, SaveOrderType, PlainStep, RecordMoves DEF PurTypeInv
<1> QED BY <1>1, <1>2, <1>3, <1>4, <1>5, <1>6, <1>7, <1>8, <1>9, <1>10, <1>11, <1>12, <1>13 DEF Buying

(* The steps that honour a payment, and the administrator's subscriptions. *)
LEMMA SettlingType ==
    ASSUME PurTypeInv, NEW t \in Tasks,
           \/ BillRide(t) \/ ReadWallet(t) \/ CreditWallet(t) \/ CheckPlan(t) \/ ExpireOld(t)
           \/ CreateSub(t) \/ WriteVault(t) \/ SettleOrder(t) \/ WriteCancelled(t)
    PROVE  PurTypeInv'
<1>0. task[t] \in Task /\ RecordOK(task[t]) /\ RequestsTyped
    BY RecordHas DEF PurTypeInv
<1>1. CASE BillRide(t)
  <2>1. DocsTyped'
    BY <1>0, <1>1 DEF BillRide, TaskAt, RecordOK, PurTypeInv, DocsTyped
  <2>2. RecordOK([task[t] EXCEPT !.at = "readWallet"]) /\ "readWallet" \in TaskSteps
    BY <1>0, <1>1 DEF BillRide, TaskAt, Task, RecordOK, TaskSteps
  <2> QED BY <1>0, <1>1, <2>1, <2>2, RecordMoves DEF BillRide, PurTypeInv
<1>2. CASE ReadWallet(t)
  <2>1. task[t].driver \in Drivers /\ task[t].op = "callback"
    BY <1>0, <1>2 DEF ReadWallet, TaskAt, RecordOK
  <2>2. wallet[task[t].driver] \in Int
    BY <2>1 DEF PurTypeInv, DocsTyped
  <2> QED BY <1>2, <2>1, <2>2, SumType DEF ReadWallet
<1>3. CASE CreditWallet(t)
  <2>1. SetWallet(task[t].driver, task[t].sum + Amount) /\ task[t].sum + Amount \in Int
    BY <1>0, <1>3, AmountAssumption DEF CreditWallet, Task
  <2>2. DocsTyped'
    BY <2>1, SetWalletType
  <2>3. RecordOK([task[t] EXCEPT !.at = "settle"]) /\ "settle" \in TaskSteps
    BY <1>0, <1>3 DEF CreditWallet, TaskAt, Task, RecordOK, TaskSteps
  <2> QED BY <1>0, <1>3, <2>2, <2>3, RecordMoves DEF CreditWallet, PurTypeInv
<1>4. CASE CheckPlan(t)
  <2>1. RecordOK([task[t] EXCEPT !.at = "expireOld"]) /\ "expireOld" \in TaskSteps
    BY <1>0, <1>4 DEF CheckPlan, TaskAt, Task, RecordOK, TaskSteps
  <2> QED BY <1>0, <1>4, <2>1, PlainStep, LookType DEF CheckPlan
<1>5. CASE ExpireOld(t)
  <2>1. sub' \in [Tasks -> Subscription]
    BY <1>5 DEF ExpireOld, PurTypeInv, DocsTyped, Subscription
  <2>2. DocsTyped'
    BY <1>5, <2>1 DEF ExpireOld, PurTypeInv, DocsTyped
  <2>3. RecordOK([task[t] EXCEPT !.at = "createSub"]) /\ "createSub" \in TaskSteps
    BY <1>0, <1>5 DEF ExpireOld, TaskAt, Task, RecordOK, TaskSteps
  <2> QED BY <1>0, <1>5, <2>2, <2>3, RecordMoves DEF ExpireOld, PurTypeInv
<1>6. CASE CreateSub(t)
  <2> DEFINE new == [NoSub EXCEPT !.status = "active", !.driver = task[t].driver,
                                  !.order = task[t].doc]
  <2>1. task[t].doc \in Tasks \cup {NoDoc} /\ task[t].driver \in Drivers \cup {NoDriver}
    BY <1>0, <1>6 DEF CreateSub, TaskAt, RecordOK, Task
  <2>2. new \in Subscription
    BY <2>1 DEF NoSub, Subscription
  <2>3. sub' = [sub EXCEPT ![t] = new]
    BY <1>6 DEF CreateSub
  <2> HIDE DEF new
  <2>4. DocsTyped'
    BY <1>6, <2>2, <2>3 DEF CreateSub, PurTypeInv, DocsTyped
  <2>5. RecordOK([task[t] EXCEPT !.at = IF task[t].op = "callback" THEN "vault" ELSE "done"])
        /\ {"vault", "done"} \subseteq TaskSteps
    BY <1>0 DEF Task, RecordOK, TaskSteps
  <2> QED BY <1>0, <1>6, <2>4, <2>5, RecordMoves DEF CreateSub, PurTypeInv
<1>7. CASE WriteVault(t)
  <2>1. task[t].doc \in Tasks
    BY <1>0, <1>7 DEF WriteVault, TaskAt, RecordOK
  <2>2. order[task[t].doc].after \in Int
    BY <2>1 DEF PurTypeInv, DocsTyped, Order
  <2>3. DocsTyped'
    BY <1>7, <2>2 DEF WriteVault, PurTypeInv, DocsTyped
  <2>4. RecordOK([task[t] EXCEPT !.at = "settle"]) /\ "settle" \in TaskSteps
    BY <1>0, <1>7 DEF WriteVault, TaskAt, Task, RecordOK, TaskSteps
  <2> QED BY <1>0, <1>7, <2>3, <2>4, RecordMoves DEF WriteVault, PurTypeInv
<1>8. CASE SettleOrder(t)
  <2>1. task[t].doc \in Tasks
    BY <1>0, <1>8 DEF SettleOrder, TaskAt, RecordOK
  <2> DEFINE new == [order[task[t].doc] EXCEPT !.status = "COMPLETED"]
  <2>2. order' = [order EXCEPT ![task[t].doc] = new]
    BY <1>8 DEF SettleOrder
  <2>3. order[task[t].doc] \in Order
    BY <2>1 DEF PurTypeInv, DocsTyped
  <2>4. new \in Order /\ new.kind = order[task[t].doc].kind /\ new.driver = order[task[t].doc].driver
    BY <2>3 DEF Order
  <2> HIDE DEF new
  <2>5. DocsTyped'
    BY <1>8, <2>1, <2>2, <2>4, AmendType DEF SettleOrder, PurTypeInv
  <2> QED BY <1>0, <1>8, <2>5, PlainStep, RecordMoves DEF SettleOrder, PurTypeInv
<1>9. CASE WriteCancelled(t)
  <2>1. sub' \in [Tasks -> Subscription]
    <3> DEFINE new == [sub[task[t].doc] EXCEPT !.status = "expired", !.cancelled = TRUE]
    <3>1. sub' = [sub EXCEPT ![task[t].doc] = new] /\ sub \in [Tasks -> Subscription]
      BY ZenonT(60), <1>9 DEF WriteCancelled, PurTypeInv, DocsTyped
    <3>2. task[t].doc \in Tasks => new \in Subscription
      BY ZenonT(60), <3>1 DEF Subscription
    <3> HIDE DEF new
    <3> QED BY <3>1, <3>2
  <2>2. DocsTyped'
    BY <1>9, <2>1 DEF WriteCancelled, PurTypeInv, DocsTyped
  <2> QED BY <1>0, <1>9, <2>2, PlainStep, RecordMoves DEF WriteCancelled, PurTypeInv
<1> QED BY <1>1, <1>2, <1>3, <1>4, <1>5, <1>6, <1>7, <1>8, <1>9

(* The withdrawals, and the permits issued and revoked. *)
LEMMA OfficeType ==
    ASSUME PurTypeInv, NEW t \in Tasks,
           \/ CheckWithdrawable(t) \/ CheckNoRequest(t) \/ HoldAmount(t) \/ SaveRequest(t)
           \/ ReleaseAmount(t) \/ RejectRequest(t)
           \/ CheckActive(t) \/ IssuePermit(t) \/ MarkPaymentUsed(t) \/ ClearFlag(t)
           \/ WriteRevoked(t)
    PROVE  PurTypeInv'
<1>0. task[t] \in Task /\ RecordOK(task[t]) /\ RequestsTyped
    BY RecordHas DEF PurTypeInv
<1>1. CASE CheckWithdrawable(t)
    BY <1>0, <1>1, PlainStep, LookType DEF CheckWithdrawable
<1>2. CASE CheckNoRequest(t)
    BY <1>0, <1>2, PlainStep, LookType DEF CheckNoRequest
<1>3. CASE HoldAmount(t)
  <2> DEFINE new == [NoOrder EXCEPT !.kind = "withdrawal", !.status = "PENDING"]
  <2>1. new \in Order /\ new.kind = "withdrawal"
    BY NoOrderType DEF Order, Kinds
  <2>2. SaveOrder(t, new) /\ TaskGoto(t, "saveRequest")
    BY <1>3 DEF HoldAmount
  <2> HIDE DEF new
  <2> QED BY <1>0, <2>1, <2>2, SaveOrderType, PlainStep, RecordMoves DEF PurTypeInv
<1>4. CASE SaveRequest(t)
  <2>1. DocsTyped'
    BY <1>4 DEF SaveRequest, SetRequest, PurTypeInv, DocsTyped
  <2> QED BY <1>0, <1>4, <2>1, PlainStep, RecordMoves DEF SaveRequest, PurTypeInv
<1>5. CASE ReleaseAmount(t)
  <2>1. \A o \in Tasks : /\ order'[o].kind = order[o].kind /\ order'[o].driver = order[o].driver
                         /\ order'[o] \in Order
    BY <1>5 DEF ReleaseAmount, PurTypeInv, DocsTyped, Order
  <2>2. order' \in [Tasks -> Order]
    BY <1>5, <2>1 DEF ReleaseAmount, PurTypeInv, DocsTyped
  <2>3. DocsTyped'
    BY <1>5, <2>1, <2>2 DEF ReleaseAmount, PurTypeInv, DocsTyped
  <2> QED BY <1>0, <1>5, <2>3, PlainStep, RecordMoves DEF ReleaseAmount, PurTypeInv
<1>6. CASE RejectRequest(t)
  <2>1. DocsTyped'
    BY <1>6 DEF RejectRequest, SetRequest, PurTypeInv, DocsTyped
  <2> QED BY <1>0, <1>6, <2>1, PlainStep, RecordMoves DEF RejectRequest, PurTypeInv
<1>7. CASE CheckActive(t)
  <2>1. task[t].at = "activeCheck" /\ \E step \in {"issue", "refused"} : Look(t, step)
    BY <1>7 DEF CheckActive, TaskAt
  <2> QED BY <1>0, <2>1, PlainStep, IssueStep, LookType
<1>8. CASE IssuePermit(t)
  <2> DEFINE new == [NoPermit EXCEPT !.active = TRUE, !.order = task[t].doc,
                                     !.vehicle = task[t].vehicle]
  <2>1. task[t].doc \in Tasks /\ task[t].vehicle \in Vehicles \cup {NoVehicle}
    BY <1>0, <1>8 DEF IssuePermit, TaskAt, RecordOK, Task
  <2>2. new \in Permit
    BY <2>1 DEF NoPermit, Permit
  <2>3. permit' = [permit EXCEPT ![t] = new]
    BY <1>8 DEF IssuePermit
  <2> HIDE DEF new
  <2>4. DocsTyped'
    BY <1>8, <2>2, <2>3 DEF IssuePermit, PurTypeInv, DocsTyped
  <2> QED BY <1>0, <1>8, <2>4, IssueStep, RecordMoves DEF IssuePermit, TaskAt, PurTypeInv
<1>9. CASE MarkPaymentUsed(t)
  <2>1. PICK o \in Tasks : order' = [order EXCEPT ![o].used = TRUE]
    BY <1>9 DEF MarkPaymentUsed
  <2> DEFINE new == [order[o] EXCEPT !.used = TRUE]
  <2>2. order' = [order EXCEPT ![o] = new] /\ order[o] \in Order
    BY <2>1 DEF PurTypeInv, DocsTyped
  <2>4. new \in Order /\ new.kind = order[o].kind /\ new.driver = order[o].driver
    BY <2>2 DEF Order
  <2> HIDE DEF new
  <2>3. DocsTyped'
    BY <1>9, <2>2, <2>4, AmendType DEF MarkPaymentUsed, PurTypeInv
  <2> QED BY <1>0, <1>9, <2>3, IssueStep, RecordMoves DEF MarkPaymentUsed, TaskAt, PurTypeInv
<1>10. CASE ClearFlag(t)
  <2>1. DocsTyped'
    BY <1>10 DEF ClearFlag, PurTypeInv, DocsTyped
  <2> QED BY <1>0, <1>10, <2>1, PlainStep, RecordMoves DEF ClearFlag, PurTypeInv
<1>11. CASE WriteRevoked(t)
  <2>1. permit' \in [Issuers -> Permit]
    <3> DEFINE new == [permit[task[t].doc] EXCEPT !.active = FALSE]
    <3>1. permit' = [permit EXCEPT ![task[t].doc] = new] /\ permit \in [Issuers -> Permit]
      BY <1>11 DEF WriteRevoked, PurTypeInv, DocsTyped
    <3>2. task[t].doc \in Issuers => new \in Permit
      BY <3>1 DEF Permit
    <3> HIDE DEF new
    <3> QED BY <3>1, <3>2
  <2>2. DocsTyped'
    BY <1>11, <2>1 DEF WriteRevoked, PurTypeInv, DocsTyped
  <2> QED BY <1>0, <1>11, <2>2, PlainStep, RecordMoves DEF WriteRevoked, PurTypeInv
<1> QED BY <1>1, <1>2, <1>3, <1>4, <1>5, <1>6, <1>7, <1>8, <1>9, <1>10, <1>11

(* What runs out, and what the jobs mark. *)
LEMMA TimeType == ASSUME PurTypeInv, Lapse \/ JobStep PROVE PurTypeInv'
<1>1. CASE Lapse
  <2>1. RequestsTyped'
    BY <1>1 DEF Lapse, PurTypeInv, RequestsTyped
  <2>2. CASE \E i \in Issuers : permit' = [permit EXCEPT ![i].lapsed = TRUE] /\ UNCHANGED sub
    <3>1. PICK i \in Issuers : permit' = [permit EXCEPT ![i].lapsed = TRUE] /\ UNCHANGED sub
      BY <2>2
    <3>2. [permit[i] EXCEPT !.lapsed = TRUE] \in Permit /\ permit \in [Issuers -> Permit]
      BY DEF PurTypeInv, DocsTyped, Permit
    <3>3. permit' \in [Issuers -> Permit]
      BY <3>1, <3>2
    <3> QED BY <1>1, <2>1, <3>1, <3>3 DEF Lapse, PurTypeInv, DocsTyped
  <2>3. CASE \E s \in Tasks : sub' = [sub EXCEPT ![s].lapsed = TRUE] /\ UNCHANGED permit
    <3>1. PICK s \in Tasks : sub' = [sub EXCEPT ![s].lapsed = TRUE] /\ UNCHANGED permit
      BY <2>3
    <3>2. sub \in [Tasks -> Subscription] /\ sub[s] \in Subscription
      BY DEF PurTypeInv, DocsTyped
    <3> DEFINE new == [sub[s] EXCEPT !.lapsed = TRUE]
    <3>4. new \in Subscription /\ sub' = [sub EXCEPT ![s] = new]
      BY <3>1, <3>2 DEF Subscription
    <3> HIDE DEF new
    <3>3. sub' \in [Tasks -> Subscription]
      BY <3>2, <3>4
    <3> QED BY <1>1, <2>1, <3>1, <3>3 DEF Lapse, PurTypeInv, DocsTyped
  <2> QED BY <1>1, <2>2, <2>3 DEF Lapse
<1>2. CASE CheckEvpExpiration
    BY <1>2 DEF CheckEvpExpiration, ExpiredPermits, docs, PurTypeInv, DocsTyped, RequestsTyped
<1>3. CASE CheckSubscriptionExpiration
    BY <1>3 DEF CheckSubscriptionExpiration, ExpiredSubs, docs, PurTypeInv, DocsTyped, RequestsTyped
<1>4. ASSUME NEW i \in Issuers, MarkPermit(i) PROVE PurTypeInv'
  <2>1. [permit[i] EXCEPT !.active = FALSE] \in Permit /\ permit \in [Issuers -> Permit]
    BY ZenonT(60) DEF PurTypeInv, DocsTyped, Permit
  <2>2. permit' \in [Issuers -> Permit] /\ RequestsTyped'
    BY <1>4, <2>1 DEF MarkPermit, PurTypeInv, RequestsTyped
  <2>3. job' \in [permits : SUBSET Issuers, subs : SUBSET Tasks]
    BY <1>4 DEF MarkPermit, PurTypeInv, DocsTyped
  <2> QED BY <1>4, <2>2, <2>3 DEF MarkPermit, PurTypeInv, DocsTyped
<1>5. ASSUME NEW s \in Tasks, MarkSubscription(s) PROVE PurTypeInv'
  <2>1. [sub[s] EXCEPT !.status = "expired"] \in Subscription /\ sub \in [Tasks -> Subscription]
    BY DEF PurTypeInv, DocsTyped, Subscription
  <2>2. sub' \in [Tasks -> Subscription] /\ RequestsTyped'
    BY <1>5, <2>1 DEF MarkSubscription, PurTypeInv, RequestsTyped
  <2>3. job' \in [permits : SUBSET Issuers, subs : SUBSET Tasks]
    BY <1>5 DEF MarkSubscription, PurTypeInv, DocsTyped
  <2> QED BY <1>5, <2>2, <2>3 DEF MarkSubscription, PurTypeInv, DocsTyped
<1> QED BY <1>1, <1>2, <1>3, <1>4, <1>5 DEF JobStep

(* A restart loses what was under way and keeps the documents. *)
LEMMA CrashType == ASSUME PurTypeInv, Crash PROVE PurTypeInv'
<1>1. ASSUME NEW t \in Tasks PROVE task'[t] \in Task /\ RecordOK(task'[t])
  <2>1. task[t] \in Task /\ RecordOK(task[t])
    BY RecordHas DEF PurTypeInv
  <2>2. [task[t] EXCEPT !.at = "lost"] \in Task /\ RecordOK([task[t] EXCEPT !.at = "lost"])
    BY ZenonT(60), <2>1, PlainStep DEF Task, TaskSteps
  <2>3. task'[t] \in {task[t], [task[t] EXCEPT !.at = "lost"]}
    BY DEF Crash
  <2> QED BY <2>1, <2>2, <2>3
<1>2. RequestsTyped'
  <2>1. task' = [t \in Tasks |-> task'[t]]
    BY DEF Crash
  <2> QED BY <1>1, <2>1 DEF RequestsTyped
<1>3. crashes' \in 0..MaxRestarts /\ UNCHANGED docs
    BY CrashAssumption DEF Crash, PurTypeInv, DocsTyped
<1>4. job' \in [permits : SUBSET Issuers, subs : SUBSET Tasks]
    BY DEF Crash
<1> QED BY <1>2, <1>3, <1>4 DEF docs, PurTypeInv, DocsTyped

LEMMA PurTypeStep == PurTypeInv /\ [PurNext]_purVars => PurTypeInv'
<1> SUFFICES ASSUME PurTypeInv, [PurNext]_purVars PROVE PurTypeInv'
    OBVIOUS
<1>1. ASSUME NEW t \in Tasks, TaskRequest(t) \/ TaskStep(t) PROVE PurTypeInv'
    BY <1>1, RequestType, BuyingType, SettlingType, OfficeType DEF TaskStep
<1>2. CASE UNCHANGED purVars
    BY <1>2 DEF purVars, docs, PurTypeInv, DocsTyped, RequestsTyped
<1> QED BY <1>1, <1>2, TimeType, CrashType DEF PurNext

(* The inductive invariant: PurTypeOK, and what a request has in its record   *)
(* when it reaches a step of driver.service.ts or wallet.service.ts.           *)
THEOREM PurTypeInvariance == PurSpec => []PurTypeInv
BY PurTypeInit, PurTypeStep, PTL DEF PurSpec

(* Every order, balance, subscription, permit, withdrawal and request is well *)
(* typed, for any drivers, vehicles, requests, prices and restarts.            *)
THEOREM PurTypeCorrect == PurSpec => []PurTypeOK
<1>1. PurTypeInv => PurTypeOK
    BY DEF PurTypeInv, DocsTyped, RequestsTyped, PurTypeOK
<1> QED BY <1>1, PurTypeInvariance, PTL

-------------------------------------------------------------------------------
(***************************************************************************)
(* Proofs that what drivers pay for is granted, and nothing else: the safety *)
(* properties of Purchases, for every number of drivers, vehicles, requests *)
(* and restarts.                                                            *)
(*                                                                         *)
(* Sound says what a request relies on between two awaits: a report of the  *)
(* gateway has done what its order is for before it settles the order, the  *)
(* payment of a permit is completed before the vehicle is flagged, a        *)
(* rejection has released the amount before it closes the request, and no   *)
(* document bears the name of a request that has not come to write it.      *)
(***************************************************************************)

(* The steps before a request writes the document that bears its name. *)
BeforeOrder   == {"idle", "saveDeposit", "permitCheck", "subCheck", "findPlan", "savePlan", "evpCheck",
                  "balance", "saveEvp", "pendingCheck", "saveCard", "withdrawable", "noRequest", "hold"}
BeforeSub     == {"idle", "plan", "expireOld", "createSub"}
BeforePermit  == {"idle", "activeCheck", "issue"}
BeforeRequest == {"idle", "withdrawable", "noRequest", "hold", "saveRequest"}

NotYet(t) ==
    /\ task[t].at \in BeforeOrder => order[t].kind = "none"
    /\ task[t].at \in BeforeSub => sub[t] = NoSub
    /\ task[t].at \in BeforePermit => permit[t].vehicle = NoVehicle
    /\ task[t].at \in BeforeRequest => request[t] = "none"

Served(v) == flag[v] \/ \E t \in Tasks : permit[t].vehicle = v

(* What an order was paid for has been done. *)
Honoured(o) ==
    /\ order[o].kind = "ride" => o \in billed
    /\ order[o].kind = "plan" => \E s \in Tasks : sub[s].order = o
    /\ order[o].kind = "evp"  => Served(order[o].vehicle)

OrderFacts(o) ==
    /\ order[o].byCard => order[o].kind \in {"deposit", "ride", "plan", "evp"}
    /\ IF order[o].kind = "evp" THEN order[o].vehicle \in Vehicles ELSE order[o].vehicle = NoVehicle
    /\ order[o].kind = "withdrawal" => order[o].status \in {"PENDING", "FAILED"} /\ ~ order[o].byCard
    /\ order[o].kind = "none" => order[o].status = "NONE" /\ ~ order[o].byCard
    /\ order[o].byCard /\ order[o].status = "COMPLETED" => Honoured(o)
    /\ request[o] # "none" => order[o].kind = "withdrawal"

(* A report of the gateway: the order, and how far it has been honoured. *)
Reporting(t) ==
    LET o == task[t].doc IN
    /\ task[t].op = "callback" =>
         /\ order[o].byCard /\ order[o].vehicle = task[t].vehicle
         /\ task[t].at = "bill" => order[o].kind = "ride"
         /\ task[t].at \in {"readWallet", "credit"} =>
              order[o].kind = "deposit" \/ (order[o].kind = "ride" /\ o \in billed)
         /\ task[t].at \in {"plan", "expireOld", "createSub", "vault"} => order[o].kind = "plan"
         /\ task[t].at = "flag" => order[o].kind = "evp"
    /\ task[t].at = "vault" => \E s \in Tasks : sub[s].order = o
    /\ task[t].at = "settle" => Honoured(o)

(* A payment of a permit, the issue of one, a withdrawal and its rejection. *)
Working(t) ==
    LET w == task[t].doc IN
    /\ task[t].at \in {"saveDeposit", "permitCheck", "subCheck", "findPlan", "savePlan", "withdrawable",
                       "noRequest", "hold"} => task[t].vehicle = NoVehicle
    /\ task[t].at \in {"evpCheck", "balance", "saveEvp", "debit", "pendingCheck", "saveCard"} =>
         task[t].op = "payEvp"
    /\ task[t].op \in {"payEvp", "issue"} => task[t].vehicle \in Vehicles
    /\ task[t].at = "flag" => task[t].op \in {"payEvp", "callback"}
    /\ task[t].at \in {"debit", "flag"} /\ task[t].op = "payEvp" => EvpPaid(t, task[t].vehicle)
    /\ task[t].at \in {"markUsed", "unflag"} => permit[t].vehicle = task[t].vehicle
    /\ task[t].at = "saveRequest" => order[t].kind = "withdrawal" /\ order[t].status = "PENDING"
    /\ task[t].at \in {"release", "rejectRequest"} =>
         w \in Tasks /\ order[w].kind = "withdrawal" /\ request[w] # "none"
    /\ task[t].at = "rejectRequest" => order[w].status = "FAILED"
    /\ task[t].at = "cancel" => w \in Tasks /\ sub[w].status # "none"

Sound ==
    /\ \A o \in Tasks : OrderFacts(o)
    /\ \A t \in Tasks : NotYet(t) /\ Reporting(t) /\ Working(t)
    /\ \A s \in job.subs : sub[s].lapsed /\ sub[s].status # "none"
    /\ FlagMeansPaid /\ WithdrawalHeld /\ DriverKeepsSubscription

Facts(t) == NotYet(t) /\ Reporting(t) /\ Working(t)

-------------------------------------------------------------------------------
(* What no step takes back. *)
Kept ==
    /\ \A o \in Tasks : order[o].kind # "none" =>
         /\ order'[o].kind = order[o].kind /\ order'[o].byCard = order[o].byCard
         /\ order'[o].vehicle = order[o].vehicle
         /\ order[o].status = "COMPLETED" => order'[o].status = "COMPLETED"
         /\ order[o].kind = "withdrawal" /\ order[o].status = "FAILED" => order'[o].status = "FAILED"
    /\ billed \subseteq billed'
    /\ \A s \in Tasks : sub[s].order # NoDoc => sub'[s].order = sub[s].order
    /\ \A s \in Tasks : /\ sub[s].lapsed => sub'[s].lapsed
                        /\ sub[s].status # "none" => sub'[s].status # "none"
    /\ \A i \in Tasks : permit[i].vehicle # NoVehicle => permit'[i].vehicle = permit[i].vehicle
    /\ \A v \in Vehicles : Served(v) => Served(v)'
    /\ \A w \in Tasks : request[w] # "none" => request'[w] # "none"

(* The step is not that of the request u, and its documents wait for it. *)
Untouched(u) ==
    /\ order[u].kind = "none" => order'[u].kind = "none"
    /\ sub[u] = NoSub => sub'[u] = NoSub
    /\ permit[u].vehicle = NoVehicle => permit'[u].vehicle = NoVehicle
    /\ request[u] = "none" => request'[u] = "none"
    /\ order[u].kind = "withdrawal" /\ request[u] = "none" => order'[u].status = order[u].status

LEMMA Absent ==
    /\ NoVehicle \notin Vehicles /\ NoDoc \notin Tasks
    /\ NoOrder.kind = "none" /\ NoOrder.status = "NONE" /\ ~ NoOrder.byCard /\ NoOrder.vehicle = NoVehicle
    /\ NoSub.order = NoDoc /\ NoSub.status = "none" /\ ~ NoSub.lapsed
    /\ Tasks \subseteq Issuers
BY AbsentAssumption DEF NoOrder, NoSub, Issuers

LEMMA HonouredKept ==
    ASSUME Kept, Sound, NEW o \in Tasks, order[o].kind # "none", Honoured(o)
    PROVE  Honoured(o)'
<1>1. order'[o].kind = order[o].kind /\ order'[o].vehicle = order[o].vehicle
    BY DEF Kept
<1>2. order[o].kind = "evp" => order[o].vehicle \in Vehicles
    BY DEF Sound, OrderFacts
<1>3. ASSUME NEW s \in Tasks, sub[s].order = o PROVE sub'[s].order = o
    BY <1>3, Absent DEF Kept
<1>4. order[o].kind = "evp" => Served(order[o].vehicle)'
    BY <1>1, <1>2 DEF Honoured, Kept
<1> QED BY <1>1, <1>3, <1>4 DEF Honoured, Kept

LEMMA OrderKept ==
    ASSUME Kept, Sound, NEW o \in Tasks, request'[o] # "none" => order[o].kind = "withdrawal",
           order'[o].kind = order[o].kind, order'[o].byCard = order[o].byCard,
           order'[o].vehicle = order[o].vehicle,
           \/ order'[o].status = order[o].status
           \/ order'[o].status = "COMPLETED" /\ order[o].byCard /\ Honoured(o)
           \/ order'[o].status = "FAILED" /\ order[o].kind = "withdrawal"
    PROVE  OrderFacts(o)'
<1>1. OrderFacts(o)
    BY DEF Sound
<1>2. Honoured(o) /\ order[o].kind # "none" => Honoured(o)'
    BY HonouredKept
<1> QED BY <1>1, <1>2 DEF OrderFacts

LEMMA OthersKept ==
    ASSUME PurTypeInv, Sound, Kept, NEW u \in Tasks, Untouched(u),
           task'[u] \in {task[u], [task[u] EXCEPT !.at = "lost"]}
    PROVE  Facts(u)'
<1>1. /\ task[u] \in Task /\ RecordOK(task[u]) /\ Facts(u)
      /\ order[u] \in Order /\ OrderFacts(u) /\ \A o \in Tasks : OrderFacts(o)
    BY DEF PurTypeInv, RequestsTyped, DocsTyped, Sound, Facts
<1>2. CASE task'[u] = task[u]
  <2>1. NotYet(u)'
    BY <1>1, <1>2 DEF Facts, NotYet, Untouched
  <2>2. Reporting(u)'
    <3>1. task[u].op = "callback" =>
            /\ task[u].doc \in Tasks /\ order[task[u].doc].byCard /\ order[task[u].doc].kind # "none"
            /\ order'[task[u].doc].kind = order[task[u].doc].kind
            /\ order'[task[u].doc].byCard = order[task[u].doc].byCard
            /\ order'[task[u].doc].vehicle = order[task[u].doc].vehicle
      BY <1>1 DEF Facts, Reporting, RecordOK, OrderFacts, Kept
    <3>2. task[u].at \in {"settle", "vault"} => task[u].op = "callback"
      BY <1>1 DEF RecordOK
    <3>3. ASSUME NEW o \in Tasks, task[u].at = "settle", o = task[u].doc PROVE Honoured(o)'
      BY <1>1, <3>1, <3>2, <3>3, HonouredKept DEF Facts, Reporting
    <3>4. task[u].at = "vault" => \E s \in Tasks : sub'[s].order = task[u].doc
      BY <1>1, <3>1, <3>2, Absent DEF Facts, Reporting, Kept
    <3>5. task[u].at = "settle" => Honoured(task[u].doc)'
      BY <1>2, <3>1, <3>2, <3>3
    <3> QED BY <1>1, <1>2, <3>1, <3>4, <3>5 DEF Facts, Reporting, Kept
  <2>3. Working(u)'
    <3>1. task[u].at \in {"debit", "flag"} /\ task[u].op = "payEvp" => EvpPaid(u, task[u].vehicle)'
      BY <1>1, <1>2 DEF Facts, Working, EvpPaid, Kept
    <3>2. task[u].at \in {"markUsed", "unflag"} => permit'[u].vehicle = task[u].vehicle
      BY <1>1, Absent DEF Facts, Working, RecordOK, Kept
    <3>3. task[u].at = "saveRequest" => order'[u].kind = "withdrawal" /\ order'[u].status = "PENDING"
      BY <1>1 DEF Facts, Working, NotYet, BeforeRequest, Kept, Untouched
    <3>4. task[u].at \in {"release", "rejectRequest"} =>
            /\ order'[task[u].doc].kind = "withdrawal" /\ request'[task[u].doc] # "none"
            /\ task[u].at = "rejectRequest" => order'[task[u].doc].status = "FAILED"
      BY <1>1 DEF Facts, Working, Kept
    <3>5. task[u].at = "cancel" => sub'[task[u].doc].status # "none"
      BY <1>1 DEF Facts, Working, Kept
    <3> QED BY <1>1, <1>2, <3>1, <3>2, <3>3, <3>4, <3>5 DEF Facts, Working
  <2> QED BY <2>1, <2>2, <2>3 DEF Facts
<1>3. CASE task'[u] = [task[u] EXCEPT !.at = "lost"]
  <2>1. /\ task'[u].at = "lost" /\ task'[u].op = task[u].op /\ task'[u].vehicle = task[u].vehicle
        /\ task'[u].doc = task[u].doc
    BY <1>1, <1>3 DEF Task
  <2>2. NotYet(u)'
    BY <2>1 DEF NotYet, BeforeOrder, BeforeSub, BeforePermit, BeforeRequest
  <2>3. Reporting(u)'
    <3>1. task[u].op = "callback" =>
            /\ task[u].doc \in Tasks /\ order[task[u].doc].byCard /\ order[task[u].doc].kind # "none"
            /\ order'[task[u].doc].byCard = order[task[u].doc].byCard
            /\ order'[task[u].doc].vehicle = order[task[u].doc].vehicle
      BY <1>1 DEF Facts, Reporting, RecordOK, OrderFacts, Kept
    <3> QED BY <1>1, <2>1, <3>1 DEF Facts, Reporting
  <2>4. Working(u)'
    BY <1>1, <2>1 DEF Facts, Working
  <2> QED BY <2>2, <2>3, <2>4 DEF Facts
<1> QED BY <1>2, <1>3

(* The three properties, where the step leaves alone what they are about. *)
LEMMA FlagsKept ==
    ASSUME Sound, Kept, NEW t \in Tasks, flag' = flag, crashes' = crashes, task[t].at # "settle",
           \A u \in Tasks \ {t} : task'[u] = task[u]
    PROVE  FlagMeansPaid'
<1> SUFFICES ASSUME NEW v \in Vehicles, flag[v], ~ crashes > 0
             PROVE  \/ \E o \in Tasks : EvpPaid(o, v)'
                    \/ \E u \in Tasks : task'[u].at = "settle" /\ task'[u].vehicle = v
    BY DEF FlagMeansPaid, TaskAt
<1>1. \A o \in Tasks : EvpPaid(o, v) => EvpPaid(o, v)'
    BY DEF EvpPaid, Kept
<1>2. \A u \in Tasks : task[u].at = "settle" => u # t
    OBVIOUS
<1> QED BY <1>1, <1>2 DEF Sound, FlagMeansPaid, TaskAt

LEMMA RequestsKept ==
    ASSUME Sound, Kept, NEW t \in Tasks, request' = request, crashes' = crashes,
           \A o \in Tasks : order[o].kind = "withdrawal" => order'[o].status = order[o].status,
           task[t].at # "rejectRequest", \A u \in Tasks \ {t} : task'[u] = task[u]
    PROVE  WithdrawalHeld'
<1> SUFFICES ASSUME NEW w \in Tasks
             PROVE  /\ request[w] = "REJECTED" => order'[w].status = "FAILED"
                    /\ request[w] = "PENDING" =>
                         \/ order'[w].status = "PENDING"
                         \/ \E u \in Tasks : task'[u].at = "rejectRequest" /\ task'[u].doc = w
                         \/ crashes > 0
    BY DEF WithdrawalHeld, TaskAt
<1>1. request[w] # "none" => order[w].kind = "withdrawal"
    BY DEF Sound, OrderFacts
<1>2. \A u \in Tasks : task[u].at = "rejectRequest" => u # t
    OBVIOUS
<1> QED BY <1>1, <1>2 DEF Sound, WithdrawalHeld, TaskAt

LEMMA SubsKept ==
    ASSUME Sound, Kept, NEW t \in Tasks, sub' = sub, crashes' = crashes, task[t].at # "createSub",
           \A u \in Tasks \ {t} : task'[u] = task[u]
    PROVE  DriverKeepsSubscription'
<1>1. \A u \in Tasks : task[u].at = "createSub" => u # t
    OBVIOUS
<1> QED BY <1>1 DEF Sound, DriverKeepsSubscription, TaskAt

(* A request goes to its next step, and the documents stay as they are. *)
LEMMA ReadSound ==
    ASSUME PurTypeInv, Sound, NEW t \in Tasks, UNCHANGED <<docs, job, crashes>>,
           \A u \in Tasks \ {t} : task'[u] = task[u],
           task[t].at \notin {"settle", "rejectRequest", "createSub"}, Facts(t)'
    PROVE  Sound'
<1>1. UNCHANGED <<order, wallet, vault, billed, sub, flag, permit, request, job, crashes>>
    BY DEF docs
<1>2. Kept /\ \A u \in Tasks : Untouched(u)
    BY <1>1 DEF Kept, Untouched, Served
<1>3. ASSUME NEW u \in Tasks PROVE Facts(u)'
    BY <1>2, OthersKept
<1>4. ASSUME NEW o \in Tasks PROVE OrderFacts(o)'
    BY <1>1, <1>2, OrderKept DEF Sound, OrderFacts
<1>5. FlagMeansPaid' /\ WithdrawalHeld' /\ DriverKeepsSubscription'
    BY <1>1, <1>2, FlagsKept, RequestsKept, SubsKept
<1>6. \A s \in job'.subs : sub'[s].lapsed /\ sub'[s].status # "none"
    BY <1>1 DEF Sound
<1> QED BY <1>3, <1>4, <1>5, <1>6 DEF Sound, Facts

(* A step of the request t that writes. *)
LEMMA WriteSound ==
    ASSUME PurTypeInv, Sound, Kept, NEW t \in Tasks, job' = job,
           \A u \in Tasks \ {t} : task'[u] = task[u] /\ Untouched(u),
           Facts(t)', \A o \in Tasks : OrderFacts(o)',
           FlagMeansPaid', WithdrawalHeld', DriverKeepsSubscription'
    PROVE  Sound'
<1>1. ASSUME NEW u \in Tasks PROVE Facts(u)'
    BY OthersKept
<1>2. \A s \in job'.subs : sub'[s].lapsed /\ sub'[s].status # "none"
    BY DEF Sound, Kept, PurTypeInv, DocsTyped
<1> QED BY <1>1, <1>2 DEF Sound, Facts

(* The record of a request that goes on. *)
LEMMA Goes ==
    ASSUME PurTypeInv, NEW t \in Tasks, NEW step, TaskGoto(t, step)
    PROVE  /\ task'[t].at = step /\ task'[t].op = task[t].op /\ task'[t].driver = task[t].driver
           /\ task'[t].vehicle = task[t].vehicle /\ task'[t].doc = task[t].doc
           /\ \A u \in Tasks \ {t} : task'[u] = task[u]
<1>1. task \in [Tasks -> Task]
    BY DEF PurTypeInv, RequestsTyped
<1> QED BY <1>1 DEF TaskGoto, Task

LEMMA InitSound == PurInit => Sound
<1> SUFFICES ASSUME PurInit PROVE Sound
    OBVIOUS
<1>1. \A o \in Tasks : order[o] = NoOrder /\ request[o] = "none" /\ sub[o] = NoSub
    BY DEF PurInit
<1>2. \A o \in Tasks : permit[o].vehicle = NoVehicle
    BY Absent, NamesAssumption, OwnerAssumption DEF PurInit, NoPermit
<1>3. \A o \in Tasks : OrderFacts(o)
    BY <1>1, Absent DEF OrderFacts
<1>4. \A t \in Tasks : task[t].at = "idle" /\ task[t].op = "none"
    BY DEF PurInit, IdleTask
<1>5. \A t \in Tasks : NotYet(t) /\ Reporting(t) /\ Working(t)
    BY <1>1, <1>2, <1>4, Absent DEF NotYet, Reporting, Working
<1>6. /\ FlagMeansPaid /\ WithdrawalHeld /\ DriverKeepsSubscription
      /\ \A s \in job.subs : sub[s].lapsed /\ sub[s].status # "none"
    BY <1>1, Absent DEF PurInit, FlagMeansPaid, WithdrawalHeld, DriverKeepsSubscription
<1> QED BY <1>3, <1>5, <1>6 DEF Sound

-------------------------------------------------------------------------------
(* The requests. *)

LEMMA ReceiveSound ==
    ASSUME PurTypeInv, Sound, NEW t \in Tasks, NEW op \in Ops, NEW new \in Task, Receive(t, op, new),
           op = "callback" =>
             /\ order[new.doc].byCard /\ order[new.doc].vehicle = new.vehicle
             /\ \/ new.at = "bill" /\ order[new.doc].kind = "ride"
                \/ new.at = "readWallet" /\ order[new.doc].kind = "deposit"
                \/ new.at = "plan" /\ order[new.doc].kind = "plan"
                \/ new.at = "flag" /\ order[new.doc].kind = "evp",
           op # "callback" => new.at \in {"saveDeposit", "permitCheck", "withdrawable", "expireOld", "evpCheck",
                                          "activeCheck", "cancel", "release", "refused", "revoke"},
           new.at \in {"saveDeposit", "permitCheck", "withdrawable"} => new.vehicle = NoVehicle,
           new.at = "evpCheck" <=> op = "payEvp",
           op \in {"payEvp", "issue"} => new.vehicle \in Vehicles,
           new.at = "release" => new.doc \in Tasks /\ request[new.doc] # "none",
           new.at = "cancel" => new.doc \in Tasks /\ sub[new.doc].status # "none"
    PROVE  Sound'
<1>1. task[t].at = "idle" /\ UNCHANGED <<docs, job, crashes>>
    BY DEF Receive, IsNext, TaskAt
<1>2. /\ task'[t].op = op /\ task'[t].at = new.at /\ task'[t].vehicle = new.vehicle
      /\ task'[t].doc = new.doc /\ \A u \in Tasks \ {t} : task'[u] = task[u]
    BY DEF Receive, PurTypeInv, RequestsTyped, Task
<1>3. UNCHANGED <<order, wallet, vault, billed, sub, flag, permit, request>>
    BY <1>1 DEF docs
<1>4. NotYet(t)'
    BY <1>1, <1>3 DEF Sound, NotYet, BeforeOrder, BeforeSub, BeforePermit, BeforeRequest
<1>5. Reporting(t)'
  <2>1. CASE op = "callback"
    BY <1>2, <1>3, <2>1 DEF Reporting
  <2>2. CASE op # "callback"
    BY <1>2, <1>3, <2>2 DEF Reporting
  <2> QED BY <2>1, <2>2
<1>6. Working(t)'
    BY <1>2, <1>3 DEF Working, Sound, OrderFacts
<1> QED BY <1>1, <1>2, <1>4, <1>5, <1>6, ReadSound DEF Facts

(* A request is received, or opens the order of a ride. *)
LEMMA RequestSound == ASSUME PurTypeInv, Sound, NEW t \in Tasks, TaskRequest(t) PROVE Sound'
<1> USE IdleTaskType
<1>1. ASSUME NEW d \in Drivers, NEW new \in Task,
             NEW op \in {"deposit", "subscribe", "withdraw", "adminSubscribe"},
             new.at \in {"saveDeposit", "permitCheck", "withdrawable", "expireOld"},
             new.vehicle = NoVehicle, Receive(t, op, new)
      PROVE  Sound'
  <2>1. op \in Ops
    BY DEF Ops
  <2> QED BY <1>1, <2>1, ReceiveSound
<1>2. ASSUME NEW d \in Drivers, CreateDepositTransaction(t, d) PROVE Sound'
  <2> DEFINE new == [IdleTask EXCEPT !.driver = d, !.sum = wallet[d], !.at = "saveDeposit"]
  <2>1. wallet[d] \in Int
    BY DEF PurTypeInv, DocsTyped
  <2>2. new \in Task /\ new.at = "saveDeposit" /\ new.vehicle = NoVehicle
    BY <2>1 DEF Task, TaskSteps, IdleTask
  <2>3. Receive(t, "deposit", new)
    BY <1>2 DEF CreateDepositTransaction
  <2> HIDE DEF new
  <2> QED BY <1>1, <2>2, <2>3
<1>3. ASSUME NEW d \in Drivers,
             \/ CreateSubscriptionTransaction(t, d) \/ CreateWithdrawalRequest(t, d)
             \/ AdminSubscribe(t, d)
      PROVE  Sound'
  <2> DEFINE new(step) == [IdleTask EXCEPT !.driver = d, !.at = step]
  <2>1. \A step \in {"permitCheck", "withdrawable", "expireOld"} :
          new(step) \in Task /\ new(step).at = step /\ new(step).vehicle = NoVehicle
    BY ZenonT(60) DEF Task, TaskSteps, IdleTask
  <2>2. \/ Receive(t, "subscribe", new("permitCheck"))
        \/ Receive(t, "withdraw", new("withdrawable"))
        \/ Receive(t, "adminSubscribe", new("expireOld"))
    BY <1>3 DEF CreateSubscriptionTransaction, CreateWithdrawalRequest, AdminSubscribe
  <2> HIDE DEF new
  <2> QED BY <1>1, <2>1, <2>2
<1>4. ASSUME NEW v \in Vehicles, NEW byCard \in BOOLEAN, PayForEvp(t, v, byCard) PROVE Sound'
  <2> DEFINE new == [IdleTask EXCEPT !.driver = OwnerOf[v], !.vehicle = v, !.byCard = byCard,
                                     !.at = "evpCheck"]
  <2>1. new \in Task /\ "payEvp" \in Ops
    BY ZenonT(60), OwnerAssumption DEF Task, TaskSteps, IdleTask, Ops
  <2>2. Receive(t, "payEvp", new)
    BY <1>4 DEF PayForEvp
  <2>3. new.at = "evpCheck" /\ new.vehicle \in Vehicles
    BY DEF IdleTask
  <2> HIDE DEF new
  <2> QED BY <2>1, <2>2, <2>3, ReceiveSound
<1>5. ASSUME NEW o \in Tasks, Callback(t, o) PROVE Sound'
  <2> DEFINE step == CASE order[o].kind = "ride" -> "bill"
                       [] order[o].kind = "deposit" -> "readWallet"
                       [] order[o].kind = "plan" -> "plan"
                       [] OTHER -> "flag"
             new == [IdleTask EXCEPT !.driver = order[o].driver, !.vehicle = order[o].vehicle,
                                     !.doc = o, !.at = step]
  <2>1. /\ order[o].driver \in Drivers \cup {NoDriver}
        /\ order[o].vehicle \in Vehicles \cup {NoVehicle}
    BY DEF PurTypeInv, DocsTyped, Order
  <2>2. order[o].byCard /\ order[o].kind \in {"deposit", "ride", "plan", "evp"}
        /\ Receive(t, "callback", new)
    BY <1>5 DEF Callback, Sound, OrderFacts
  <2>3. \/ step = "bill" /\ order[o].kind = "ride"
        \/ step = "readWallet" /\ order[o].kind = "deposit"
        \/ step = "plan" /\ order[o].kind = "plan"
        \/ step = "flag" /\ order[o].kind = "evp"
    BY <2>2
  <2> HIDE DEF step
  <2>4. new \in Task /\ "callback" \in Ops
    BY ZenonT(60), <2>1, <2>3 DEF Task, TaskSteps, IdleTask, Ops
  <2>5. new.at = step /\ new.doc = o /\ new.vehicle = order[o].vehicle
    BY DEF IdleTask
  <2> HIDE DEF new
  <2> QED BY <2>2, <2>3, <2>4, <2>5, ReceiveSound
<1>6. ASSUME NEW i \in Tasks \cup Vehicles, NEW step \in {"cancel", "release", "refused", "revoke"},
             NEW op \in {"cancel", "reject", "approve", "revoke"},
             step = "cancel" => i \in Tasks /\ sub[i].status # "none",
             step = "release" => i \in Tasks /\ request[i] # "none",
             Receive(t, op, [IdleTask EXCEPT !.doc = i, !.at = step])
      PROVE  Sound'
  <2> DEFINE new == [IdleTask EXCEPT !.doc = i, !.at = step]
  <2>1. new.at = step /\ new.doc = i
    BY DEF IdleTask
  <2>3. new \in Task
    BY DEF Task, TaskSteps, IdleTask
  <2>4. op \in Ops
    BY DEF Ops
  <2>2. Receive(t, op, new)
    BY <1>6
  <2> HIDE DEF new
  <2> QED BY <1>6, <2>1, <2>2, <2>3, <2>4, ReceiveSound
<1>7. ASSUME NEW o \in Tasks,
             CancelSubscription(t, o) \/ RejectWithdrawal(t, o) \/ ApproveWithdrawal(t, o)
      PROVE  Sound'
    BY <1>6, <1>7 DEF CancelSubscription, RejectWithdrawal, ApproveWithdrawal
<1>8. ASSUME NEW i \in Issuers, RevokeEvp(t, i) PROVE Sound'
    BY <1>6, <1>8, OwnerAssumption DEF RevokeEvp, Issuers
<1>9. ASSUME NEW o \in Tasks, CreateVehicleEvp(t, o) PROVE Sound'
  <2> DEFINE new == [IdleTask EXCEPT !.vehicle = order[o].vehicle, !.doc = o, !.at = "activeCheck"]
  <2>1. order[o].vehicle \in Vehicles
    BY <1>9 DEF CreateVehicleEvp, Sound, OrderFacts
  <2>2. new \in Task /\ "issue" \in Ops
    BY ZenonT(60), <2>1 DEF Task, TaskSteps, IdleTask, Ops
  <2>3. Receive(t, "issue", new)
    BY <1>9 DEF CreateVehicleEvp
  <2>4. new.at = "activeCheck" /\ new.vehicle \in Vehicles
    BY <2>1 DEF IdleTask
  <2> HIDE DEF new
  <2> QED BY <2>2, <2>3, <2>4, ReceiveSound
<1>10. ASSUME NEW d \in Drivers, CreateRideTransaction(t, d) PROVE Sound'
  <2> DEFINE o == [NoOrder EXCEPT !.kind = "ride", !.status = "PENDING", !.byCard = TRUE,
                                  !.driver = d]
             e == [IdleTask EXCEPT !.op = "ride", !.at = "done", !.driver = d]
  <2>1. /\ order' = [order EXCEPT ![t] = o] /\ task' = [task EXCEPT ![t] = e] /\ task[t].at = "idle"
        /\ UNCHANGED <<wallet, vault, billed, sub, flag, permit, request, job, crashes>>
    BY <1>10 DEF CreateRideTransaction, IsNext, TaskAt
  <2>2. o.kind = "ride" /\ o.status = "PENDING" /\ o.byCard /\ o.vehicle = NoVehicle
    BY DEF NoOrder
  <2>3. e.op = "ride" /\ e.at = "done"
    BY DEF IdleTask
  <2> HIDE DEF o, e
  <2>4. \A u \in Tasks : order'[u] = IF u = t THEN o ELSE order[u]
    BY <2>1 DEF PurTypeInv, DocsTyped
  <2>5. task'[t] = e /\ \A u \in Tasks \ {t} : task'[u] = task[u]
    BY <2>1 DEF PurTypeInv, RequestsTyped
  <2>6. order[t].kind = "none" /\ request[t] = "none"
    BY <2>1 DEF Sound, NotYet, BeforeOrder, BeforeRequest
  <2>7. Kept /\ \A u \in Tasks \ {t} : Untouched(u)
    BY <2>1, <2>4, <2>6 DEF Kept, Untouched, Served
  <2>8. Facts(t)'
    BY <2>3, <2>5 DEF Facts, NotYet, Reporting, Working, BeforeOrder, BeforeSub, BeforePermit,
                      BeforeRequest
  <2>9. ASSUME NEW u \in Tasks PROVE OrderFacts(u)'
    <3>1. CASE u = t
      BY <2>1, <2>2, <2>4, <2>6, <3>1 DEF OrderFacts
    <3>2. CASE u # t
      BY <2>1, <2>4, <2>7, <3>2, OrderKept DEF Sound, OrderFacts
    <3> QED BY <3>1, <3>2
  <2>10. FlagMeansPaid' /\ DriverKeepsSubscription'
    BY <2>1, <2>5, <2>7, FlagsKept, SubsKept
  <2>11. WithdrawalHeld'
    BY <2>1, <2>4, <2>5, <2>6, <2>7, RequestsKept
  <2> QED BY <2>1, <2>5, <2>7, <2>8, <2>9, <2>10, <2>11, WriteSound
<1> QED BY <1>2, <1>3, <1>4, <1>5, <1>7, <1>8, <1>9, <1>10
        DEF TaskRequest, PayingRoutes, EvpRoutes, AdminRoutes

(* From which step a read may lead to which. *)
ReadSteps ==
    ({"permitCheck", "subCheck", "findPlan", "evpCheck", "balance", "pendingCheck", "plan",
      "withdrawable", "noRequest", "activeCheck"} \X {"refused", "done"})
    \cup { <<"permitCheck", "subCheck">>, <<"subCheck", "findPlan">>, <<"findPlan", "savePlan">>,
           <<"evpCheck", "balance">>, <<"evpCheck", "pendingCheck">>, <<"balance", "saveEvp">>,
           <<"pendingCheck", "saveCard">>, <<"plan", "expireOld">>, <<"readWallet", "credit">>,
           <<"withdrawable", "noRequest">>, <<"noRequest", "hold">>, <<"activeCheck", "issue">> }

LEMMA MoveSound ==
    ASSUME PurTypeInv, Sound, NEW t \in Tasks, NEW step, <<task[t].at, step>> \in ReadSteps,
           task'[t].at = step, task'[t].op = task[t].op, task'[t].vehicle = task[t].vehicle,
           task'[t].doc = task[t].doc, \A u \in Tasks \ {t} : task'[u] = task[u],
           UNCHANGED <<docs, job, crashes>>
    PROVE  Sound'
<1>1. Facts(t) /\ RecordOK(task[t])
    BY RecordHas DEF Sound, Facts, PurTypeInv
<1>2. UNCHANGED <<order, wallet, vault, billed, sub, flag, permit, request>>
    BY DEF docs
<1>3. NotYet(t)'
    BY <1>1, <1>2 DEF Facts, NotYet, ReadSteps, BeforeOrder, BeforeSub, BeforePermit, BeforeRequest
<1>4. Reporting(t)'
    BY <1>1, <1>2 DEF Facts, Reporting, ReadSteps
<1>5. Working(t)'
    BY <1>1, <1>2 DEF Facts, Working, ReadSteps
<1>6. task[t].at \notin {"settle", "rejectRequest", "createSub"}
    BY DEF ReadSteps
<1> QED BY <1>3, <1>4, <1>5, <1>6, ReadSound DEF Facts

LEMMA LookSound ==
    ASSUME PurTypeInv, Sound, NEW t \in Tasks,
           \/ CheckPermit(t) \/ CheckSubscription(t) \/ FindPlan(t) \/ CheckEvp(t) \/ CheckBalance(t)
           \/ CheckPending(t) \/ ReadWallet(t) \/ CheckPlan(t) \/ CheckWithdrawable(t)
           \/ CheckNoRequest(t) \/ CheckActive(t)
    PROVE  Sound'
<1>1. ASSUME NEW step, <<task[t].at, step>> \in ReadSteps, Look(t, step) PROVE Sound'
    BY <1>1, Goes, MoveSound DEF Look
<1>2. ASSUME NEW step, NEW sum, <<task[t].at, step>> \in ReadSteps,
             task' = [task EXCEPT ![t].sum = sum, ![t].at = step], UNCHANGED <<docs, job, crashes>>
      PROVE  Sound'
  <2>1. task \in [Tasks -> Task]
    BY DEF PurTypeInv, RequestsTyped
  <2>2. /\ task'[t].at = step /\ task'[t].op = task[t].op /\ task'[t].vehicle = task[t].vehicle
        /\ task'[t].doc = task[t].doc /\ \A u \in Tasks \ {t} : task'[u] = task[u]
    BY <1>2, <2>1 DEF Task
  <2> QED BY <1>2, <2>2, MoveSound
<1>3. CASE CheckPermit(t)
    BY <1>1, <1>3 DEF CheckPermit, TaskAt, ReadSteps
<1>4. CASE CheckSubscription(t)
    BY <1>1, <1>4 DEF CheckSubscription, TaskAt, ReadSteps
<1>5. CASE FindPlan(t)
    BY <1>1, <1>2, <1>5 DEF FindPlan, TaskAt, ReadSteps
<1>6. CASE CheckEvp(t)
    BY <1>1, <1>6 DEF CheckEvp, TaskAt, ReadSteps
<1>7. CASE CheckBalance(t)
    BY <1>1, <1>2, <1>7 DEF CheckBalance, TaskAt, ReadSteps
<1>8. CASE CheckPending(t)
    BY <1>1, <1>8 DEF CheckPending, TaskAt, ReadSteps
<1>9. CASE ReadWallet(t)
    BY <1>2, <1>9 DEF ReadWallet, TaskAt, ReadSteps
<1>10. CASE CheckPlan(t)
    BY <1>1, <1>10 DEF CheckPlan, TaskAt, ReadSteps
<1>11. CASE CheckWithdrawable(t)
    BY <1>1, <1>11 DEF CheckWithdrawable, TaskAt, ReadSteps
<1>12. CASE CheckNoRequest(t)
    BY <1>1, <1>12 DEF CheckNoRequest, TaskAt, ReadSteps
<1>13. CASE CheckActive(t)
    BY <1>1, <1>13 DEF CheckActive, TaskAt, ReadSteps
<1> QED BY <1>3, <1>4, <1>5, <1>6, <1>7, <1>8, <1>9, <1>10, <1>11, <1>12, <1>13

-------------------------------------------------------------------------------
(* The writes. *)

(* Which transaction is opened at a step, and the step after it. *)
SaveSteps ==
    { <<"saveDeposit", "deposit", "PENDING", TRUE, "writeDeposit">>,
      <<"savePlan", "plan", "PENDING", TRUE, "done">>, <<"saveEvp", "evp", "COMPLETED", FALSE, "debit">>,
      <<"saveCard", "evp", "PENDING", TRUE, "done">>,
      <<"hold", "withdrawal", "PENDING", FALSE, "saveRequest">> }

LEMMA SaveSound ==
    ASSUME PurTypeInv, Sound, NEW t \in Tasks, NEW new \in Order, NEW step,
           SaveOrder(t, new), TaskGoto(t, step),
           <<task[t].at, new.kind, new.status, new.byCard, step>> \in SaveSteps
    PROVE  Sound'
<1> DEFINE o == [new EXCEPT !.driver = task[t].driver, !.vehicle = task[t].vehicle]
<1>1. task[t] \in Task /\ Facts(t) /\ OrderFacts(t)
    BY RecordHas DEF Sound, Facts, PurTypeInv
<1>2. o.kind = new.kind /\ o.status = new.status /\ o.byCard = new.byCard /\ o.vehicle = task[t].vehicle
    BY DEF Order
<1>3. /\ order' = [order EXCEPT ![t] = o]
      /\ UNCHANGED <<wallet, vault, billed, sub, flag, permit, request, job, crashes>>
    BY DEF SaveOrder
<1> HIDE DEF o
<1>4. \A u \in Tasks : order'[u] = IF u = t THEN o ELSE order[u]
    BY <1>3 DEF PurTypeInv, DocsTyped
<1>5. order[t].kind = "none" /\ request[t] = "none"
    BY <1>1 DEF SaveSteps, Facts, NotYet, BeforeOrder, OrderFacts
<1>6. /\ task'[t].at = step /\ task'[t].op = task[t].op /\ task'[t].vehicle = task[t].vehicle
      /\ task'[t].doc = task[t].doc /\ \A u \in Tasks \ {t} : task'[u] = task[u]
    BY Goes
<1>7. Kept /\ \A u \in Tasks \ {t} : Untouched(u)
    BY <1>3, <1>4, <1>5 DEF Kept, Untouched, Served
<1>8. NotYet(t)'
    BY <1>3, <1>5, <1>6 DEF SaveSteps, NotYet, BeforeOrder, BeforeSub, BeforePermit, BeforeRequest
<1>9. Reporting(t)'
  <2>1. task[t].at \in {"savePlan", "saveDeposit", "hold", "saveEvp", "saveCard"}
    BY DEF SaveSteps
  <2>2. task[t].op = "callback" => task[t].doc \in Tasks /\ order[task[t].doc].byCard /\ task[t].doc # t
                                   /\ order[task[t].doc].vehicle = task[t].vehicle
    BY <1>1, <1>5, RecordHas DEF Facts, Reporting, RecordOK, OrderFacts, PurTypeInv
  <2> QED BY <1>4, <1>6, <2>2 DEF SaveSteps, Reporting
<1>10. Working(t)'
    BY <1>1, <1>2, <1>4, <1>6 DEF SaveSteps, Facts, Working, EvpPaid
<1>11. ASSUME NEW u \in Tasks PROVE OrderFacts(u)'
  <2>1. CASE u = t
    BY ZenonT(60), <1>1, <1>2, <1>3, <1>4, <1>5, <2>1 DEF SaveSteps, Facts, Working, OrderFacts
  <2>2. CASE u # t
    BY <1>3, <1>4, <1>7, <2>2, OrderKept DEF Sound, OrderFacts
  <2> QED BY <2>1, <2>2
<1>12. FlagMeansPaid' /\ DriverKeepsSubscription'
    BY <1>3, <1>6, <1>7, FlagsKept, SubsKept DEF SaveSteps
<1>13. WithdrawalHeld'
    BY <1>3, <1>4, <1>5, <1>6, <1>7, RequestsKept DEF SaveSteps
<1> QED BY <1>3, <1>6, <1>7, <1>8, <1>9, <1>10, <1>11, <1>12, <1>13, WriteSound DEF Facts

LEMMA OpenSound ==
    ASSUME PurTypeInv, Sound, NEW t \in Tasks,
           SaveDeposit(t) \/ SavePlanOrder(t) \/ SaveEvp(t) \/ SaveCardEvp(t) \/ HoldAmount(t)
    PROVE  Sound'
<1>1. CASE SaveDeposit(t)
  <2> DEFINE new == [NoOrder EXCEPT !.kind = "deposit", !.status = "PENDING", !.byCard = TRUE]
  <2>1. new \in Order
    BY NoOrderType DEF Order, Kinds
  <2>2. new.kind = "deposit" /\ new.status = "PENDING" /\ new.byCard = TRUE
    BY DEF NoOrder
  <2>3. SaveOrder(t, new) /\ TaskGoto(t, "writeDeposit") /\ task[t].at = "saveDeposit"
    BY <1>1 DEF SaveDeposit, TaskAt
  <2> HIDE DEF new
  <2> QED BY <2>1, <2>2, <2>3, SaveSound DEF SaveSteps
<1>2. CASE SavePlanOrder(t)
  <2> DEFINE new == [NoOrder EXCEPT !.kind = "plan", !.status = "PENDING", !.byCard = TRUE,
                                    !.after = task[t].sum + Amount]
  <2>0. task[t].sum + Amount \in Int
    BY RecordHas, AmountAssumption DEF PurTypeInv, Task
  <2>1. new \in Order
    BY <2>0, NoOrderType DEF Order, Kinds
  <2>2. new.kind = "plan" /\ new.status = "PENDING" /\ new.byCard = TRUE
    BY DEF NoOrder
  <2>3. SaveOrder(t, new) /\ TaskGoto(t, "done") /\ task[t].at = "savePlan"
    BY <1>2 DEF SavePlanOrder, TaskAt
  <2> HIDE DEF new
  <2> QED BY <2>1, <2>2, <2>3, SaveSound DEF SaveSteps
<1>3. CASE SaveEvp(t)
  <2> DEFINE new == [NoOrder EXCEPT !.kind = "evp", !.status = "COMPLETED"]
  <2>1. new \in Order
    BY NoOrderType DEF Order, Kinds
  <2>2. new.kind = "evp" /\ new.status = "COMPLETED" /\ new.byCard = FALSE
    BY DEF NoOrder
  <2>3. SaveOrder(t, new) /\ TaskGoto(t, "debit") /\ task[t].at = "saveEvp"
    BY <1>3 DEF SaveEvp, TaskAt
  <2> HIDE DEF new
  <2> QED BY <2>1, <2>2, <2>3, SaveSound DEF SaveSteps
<1>4. CASE SaveCardEvp(t)
  <2> DEFINE new == [NoOrder EXCEPT !.kind = "evp", !.status = "PENDING", !.byCard = TRUE]
  <2>1. new \in Order
    BY NoOrderType DEF Order, Kinds
  <2>2. new.kind = "evp" /\ new.status = "PENDING" /\ new.byCard = TRUE
    BY DEF NoOrder
  <2>3. SaveOrder(t, new) /\ TaskGoto(t, "done") /\ task[t].at = "saveCard"
    BY <1>4 DEF SaveCardEvp, TaskAt
  <2> HIDE DEF new
  <2> QED BY <2>1, <2>2, <2>3, SaveSound DEF SaveSteps
<1>5. CASE HoldAmount(t)
  <2> DEFINE new == [NoOrder EXCEPT !.kind = "withdrawal", !.status = "PENDING"]
  <2>1. new \in Order
    BY NoOrderType DEF Order, Kinds
  <2>2. new.kind = "withdrawal" /\ new.status = "PENDING" /\ new.byCard = FALSE
    BY DEF NoOrder
  <2>3. SaveOrder(t, new) /\ TaskGoto(t, "saveRequest") /\ task[t].at = "hold"
    BY <1>5 DEF HoldAmount, TaskAt
  <2> HIDE DEF new
  <2> QED BY <2>1, <2>2, <2>3, SaveSound DEF SaveSteps
<1> QED BY <1>1, <1>2, <1>3, <1>4, <1>5

(* The balances. *)
LEMMA BalanceSound ==
    ASSUME PurTypeInv, Sound, NEW t \in Tasks,
           WriteDeposit(t) \/ DebitWallet(t) \/ CreditWallet(t) \/ WriteVault(t)
    PROVE  Sound'
<1>1. UNCHANGED <<order, billed, sub, flag, permit, request, job, crashes>>
    BY DEF WriteDeposit, DebitWallet, CreditWallet, WriteVault, SetWallet
<1>2. PICK step \in {"done", "flag", "settle"} :
        /\ TaskGoto(t, step)
        /\ <<task[t].at, step>> \in { <<"writeDeposit", "done">>, <<"debit", "flag">>,
                                      <<"credit", "settle">>, <<"vault", "settle">> }
    BY DEF WriteDeposit, DebitWallet, CreditWallet, WriteVault, TaskAt
<1>3. task[t] \in Task /\ RecordOK(task[t]) /\ Facts(t)
    BY RecordHas DEF Sound, Facts, PurTypeInv
<1>4. /\ task'[t].at = step /\ task'[t].op = task[t].op /\ task'[t].vehicle = task[t].vehicle
      /\ task'[t].doc = task[t].doc /\ \A u \in Tasks \ {t} : task'[u] = task[u]
    BY <1>2, Goes
<1>5. Kept /\ \A u \in Tasks \ {t} : Untouched(u)
    BY <1>1 DEF Kept, Untouched, Served
<1>6. NotYet(t)'
    BY <1>2, <1>4 DEF NotYet, BeforeOrder, BeforeSub, BeforePermit, BeforeRequest
<1>7. Reporting(t)'
  <2>1. step = "settle" => Honoured(task[t].doc)
    BY <1>2, <1>3 DEF Facts, Reporting, RecordOK, Honoured
  <2>2. ASSUME NEW o, o = task[t].doc, Honoured(o) PROVE Honoured(o)'
    BY <1>1, <2>2 DEF Honoured, Served
  <2>3. step = "settle" => Honoured(task[t].doc)'
    BY <1>4, <2>1, <2>2
  <2>4. task'[t].doc = task[t].doc /\ order' = order
    BY <1>1, <1>4
  <2>5. task'[t].at \in {"done", "flag", "settle"}
    BY <1>4
  <2>6. task'[t].at = "flag" => task[t].op = "payEvp"
    BY <1>2, <1>3, <1>4 DEF Facts, Working
  <2>7. task[t].op = "callback" => order[task[t].doc].byCard /\ order[task[t].doc].vehicle = task[t].vehicle
    BY <1>3 DEF Facts, Reporting
  <2> QED BY <1>4, <2>3, <2>4, <2>5, <2>6, <2>7 DEF Reporting
<1>8. Working(t)'
    BY <1>1, <1>2, <1>3, <1>4 DEF Facts, Working, EvpPaid, RecordOK
<1>9. ASSUME NEW o \in Tasks PROVE OrderFacts(o)'
    BY <1>1, <1>5, OrderKept DEF Sound, OrderFacts
<1>10. FlagMeansPaid' /\ WithdrawalHeld' /\ DriverKeepsSubscription'
    BY <1>1, <1>2, <1>4, <1>5, FlagsKept, RequestsKept, SubsKept
<1> QED BY <1>1, <1>4, <1>5, <1>6, <1>7, <1>8, <1>9, <1>10, WriteSound DEF Facts

(* The vehicle waits for its permit. *)
LEMMA SetFlagSound == ASSUME PurTypeInv, Sound, NEW t \in Tasks, SetFlag(t) PROVE Sound'
<1> DEFINE v == task[t].vehicle
           step == IF task[t].op = "callback" THEN "settle" ELSE "done"
<1>1. /\ flag' = [flag EXCEPT ![v] = TRUE] /\ task[t].at = "flag" /\ TaskGoto(t, step)
      /\ UNCHANGED <<order, wallet, vault, billed, sub, permit, request, job, crashes>>
    BY DEF SetFlag, TaskAt
<1>2. task[t] \in Task /\ RecordOK(task[t]) /\ Facts(t)
    BY RecordHas DEF Sound, Facts, PurTypeInv
<1>3. /\ task'[t].at = step /\ task'[t].op = task[t].op /\ task'[t].vehicle = v
      /\ task'[t].doc = task[t].doc /\ \A u \in Tasks \ {t} : task'[u] = task[u]
    BY <1>1, Goes
<1>4. /\ task[t].op = "callback" =>
           /\ task[t].doc \in Tasks /\ order[task[t].doc].kind = "evp" /\ order[task[t].doc].vehicle = v
           /\ order[task[t].doc].byCard
      /\ task[t].op # "callback" => task[t].op = "payEvp" /\ EvpPaid(t, v)
      /\ v \in Vehicles
    BY <1>1, <1>2 DEF Facts, Reporting, Working, RecordOK, Sound, OrderFacts
<1>5. \A x \in Vehicles : flag'[x] = IF x = v THEN TRUE ELSE flag[x]
    BY <1>1 DEF PurTypeInv, DocsTyped
<1> HIDE DEF v
<1>6. Kept /\ \A u \in Tasks \ {t} : Untouched(u)
    BY <1>1, <1>5 DEF Kept, Untouched, Served
<1>7. NotYet(t)'
    BY <1>3 DEF NotYet, BeforeOrder, BeforeSub, BeforePermit, BeforeRequest
<1>8. Reporting(t)'
  <2>1. ASSUME NEW o \in Tasks, task[t].op = "callback", o = task[t].doc PROVE Honoured(o)'
    BY <1>1, <1>4, <1>5, <2>1 DEF Honoured, Served
  <2> QED BY <1>1, <1>3, <1>4, <2>1 DEF Reporting
<1>9. Working(t)'
    BY <1>1, <1>2, <1>3, <1>4 DEF Facts, Working
<1>10. ASSUME NEW o \in Tasks PROVE OrderFacts(o)'
    BY <1>1, <1>6, OrderKept DEF Sound, OrderFacts
<1>11. WithdrawalHeld' /\ DriverKeepsSubscription'
    BY <1>1, <1>3, <1>6, RequestsKept, SubsKept
<1>12. FlagMeansPaid'
  <2> SUFFICES ASSUME NEW x \in Vehicles, flag'[x], ~ crashes > 0
               PROVE  \/ \E o \in Tasks : EvpPaid(o, x)'
                      \/ \E u \in Tasks : task'[u].at = "settle" /\ task'[u].vehicle = x
    BY <1>1 DEF FlagMeansPaid, TaskAt
  <2>1. \A o \in Tasks : EvpPaid(o, x) => EvpPaid(o, x)'
    BY <1>1 DEF EvpPaid
  <2>2. CASE x = v
    BY <1>3, <1>4, <2>1, <2>2
  <2>3. CASE x # v
    BY <1>1, <1>3, <1>5, <2>1, <2>3 DEF Sound, FlagMeansPaid, TaskAt
  <2> QED BY <2>2, <2>3
<1> QED BY <1>1, <1>3, <1>6, <1>7, <1>8, <1>9, <1>10, <1>11, <1>12, WriteSound DEF Facts

(* The ride of an order is billed. *)
LEMMA BillSound == ASSUME PurTypeInv, Sound, NEW t \in Tasks, BillRide(t) PROVE Sound'
<1>1. /\ billed' = billed \cup {task[t].doc} /\ task[t].at = "bill" /\ TaskGoto(t, "readWallet")
      /\ UNCHANGED <<order, wallet, vault, sub, flag, permit, request, job, crashes>>
    BY DEF BillRide, TaskAt
<1>2. Facts(t) /\ RecordOK(task[t])
    BY RecordHas DEF Sound, Facts, PurTypeInv
<1>3. /\ task'[t].at = "readWallet" /\ task'[t].op = task[t].op /\ task'[t].vehicle = task[t].vehicle
      /\ task'[t].doc = task[t].doc /\ \A u \in Tasks \ {t} : task'[u] = task[u]
    BY <1>1, Goes
<1>4. Kept /\ \A u \in Tasks \ {t} : Untouched(u)
    BY <1>1 DEF Kept, Untouched, Served
<1>5. NotYet(t)'
    BY <1>3 DEF NotYet, BeforeOrder, BeforeSub, BeforePermit, BeforeRequest
<1>6. Reporting(t)' /\ Working(t)'
    BY <1>1, <1>2, <1>3 DEF Facts, Reporting, Working, RecordOK
<1>7. ASSUME NEW o \in Tasks PROVE OrderFacts(o)'
    BY <1>1, <1>4, OrderKept DEF Sound, OrderFacts
<1>8. FlagMeansPaid' /\ WithdrawalHeld' /\ DriverKeepsSubscription'
    BY <1>1, <1>3, <1>4, FlagsKept, RequestsKept, SubsKept
<1> QED BY <1>1, <1>3, <1>4, <1>5, <1>6, <1>7, <1>8, WriteSound DEF Facts

(* The subscriptions. *)
LEMMA ExpireOldSound == ASSUME PurTypeInv, Sound, NEW t \in Tasks, ExpireOld(t) PROVE Sound'
<1>1. /\ task[t].at = "expireOld" /\ TaskGoto(t, "createSub")
      /\ UNCHANGED <<order, wallet, vault, billed, flag, permit, request, job, crashes>>
    BY DEF ExpireOld, TaskAt
<1>2. Facts(t) /\ RecordOK(task[t])
    BY RecordHas DEF Sound, Facts, PurTypeInv
<1>3. /\ task'[t].at = "createSub" /\ task'[t].op = task[t].op /\ task'[t].vehicle = task[t].vehicle
      /\ task'[t].driver = task[t].driver /\ task'[t].doc = task[t].doc
      /\ \A u \in Tasks \ {t} : task'[u] = task[u]
    BY <1>1, Goes
<1>4. ASSUME NEW s \in Tasks
      PROVE  /\ sub'[s].order = sub[s].order /\ sub'[s].lapsed = sub[s].lapsed
             /\ sub'[s].driver = sub[s].driver /\ sub'[s].cancelled = sub[s].cancelled
             /\ \/ sub'[s] = sub[s]
                \/ sub'[s].status = "expired" /\ sub[s].status = "active" /\ sub[s].driver = task[t].driver
  <2>1. sub[s] \in Subscription
    BY DEF PurTypeInv, DocsTyped
  <2>2. sub'[s] = IF sub[s].status = "active" /\ sub[s].driver = task[t].driver
                    THEN [sub[s] EXCEPT !.status = "expired"] ELSE sub[s]
    BY DEF ExpireOld
  <2> QED BY <2>1, <2>2 DEF Subscription
<1>5. ASSUME NEW s \in Tasks, sub[s] = NoSub PROVE sub'[s] = NoSub
    BY <1>4, <1>5, Absent
<1>6. Kept /\ \A u \in Tasks \ {t} : Untouched(u)
    BY <1>1, <1>4, <1>5 DEF Kept, Untouched, Served
<1>7. NotYet(t)'
    BY <1>1, <1>2, <1>3, <1>5 DEF Facts, NotYet, BeforeOrder, BeforeSub, BeforePermit, BeforeRequest
<1>8. Reporting(t)' /\ Working(t)'
    BY <1>1, <1>2, <1>3 DEF Facts, Reporting, Working
<1>9. ASSUME NEW o \in Tasks PROVE OrderFacts(o)'
    BY <1>1, <1>6, OrderKept DEF Sound, OrderFacts
<1>10. FlagMeansPaid' /\ WithdrawalHeld'
    BY <1>1, <1>3, <1>6, FlagsKept, RequestsKept
<1>11. DriverKeepsSubscription'
  <2> SUFFICES ASSUME NEW s \in Tasks, sub'[s].status # "none", ~ crashes > 0
               PROVE  \/ \E a \in Tasks : sub'[a].driver = sub'[s].driver
                           /\ (sub'[a].status = "active" \/ sub'[a].lapsed \/ sub'[a].cancelled)
                      \/ \E u \in Tasks : task'[u].at = "createSub" /\ task'[u].driver = sub'[s].driver
    BY <1>1 DEF DriverKeepsSubscription, TaskAt
  <2>1. \/ \E a \in Tasks : sub[a].driver = sub[s].driver
                            /\ (sub[a].status = "active" \/ sub[a].lapsed \/ sub[a].cancelled)
        \/ \E u \in Tasks : task[u].at = "createSub" /\ task[u].driver = sub[s].driver
    BY <1>4 DEF Sound, DriverKeepsSubscription, TaskAt
  <2>2. CASE sub[s].driver = task[t].driver
    BY <1>3, <1>4, <2>2
  <2>3. CASE sub[s].driver # task[t].driver
    BY <1>1, <1>3, <1>4, <2>1, <2>3
  <2> QED BY <2>2, <2>3
<1> QED BY <1>1, <1>3, <1>6, <1>7, <1>8, <1>9, <1>10, <1>11, WriteSound DEF Facts

LEMMA CreateSubSound == ASSUME PurTypeInv, Sound, NEW t \in Tasks, CreateSub(t) PROVE Sound'
<1> DEFINE new == [NoSub EXCEPT !.status = "active", !.driver = task[t].driver, !.order = task[t].doc]
           step == IF task[t].op = "callback" THEN "vault" ELSE "done"
<1>1. /\ sub' = [sub EXCEPT ![t] = new] /\ task[t].at = "createSub" /\ TaskGoto(t, step)
      /\ UNCHANGED <<order, wallet, vault, billed, flag, permit, request, job, crashes>>
    BY DEF CreateSub, TaskAt
<1>2. Facts(t) /\ RecordOK(task[t])
    BY RecordHas DEF Sound, Facts, PurTypeInv
<1>3. /\ task'[t].at = step /\ task'[t].op = task[t].op /\ task'[t].vehicle = task[t].vehicle
      /\ task'[t].doc = task[t].doc /\ \A u \in Tasks \ {t} : task'[u] = task[u]
    BY <1>1, Goes
<1>4. new.status = "active" /\ new.driver = task[t].driver /\ new.order = task[t].doc
    BY DEF NoSub
<1> HIDE DEF new
<1>5. \A s \in Tasks : sub'[s] = IF s = t THEN new ELSE sub[s]
    BY <1>1 DEF PurTypeInv, DocsTyped
<1>6. sub[t] = NoSub /\ NoSub.order = NoDoc /\ ~ NoSub.lapsed /\ ~ NoSub.cancelled /\ NoSub.status = "none"
    BY <1>1, <1>2 DEF Facts, NotYet, BeforeSub, NoSub
<1>7. Kept /\ \A u \in Tasks \ {t} : Untouched(u)
    BY <1>1, <1>4, <1>5, <1>6 DEF Kept, Untouched, Served
<1>8. NotYet(t)'
    BY <1>3 DEF NotYet, BeforeOrder, BeforeSub, BeforePermit, BeforeRequest
<1>9. Reporting(t)'
  <2>1. task'[t].at = "vault" => \E s \in Tasks : sub'[s].order = task[t].doc
    BY <1>4, <1>5
  <2>2. task[t].op = "callback" => order[task[t].doc].byCard /\ order[task[t].doc].kind = "plan"
                                   /\ order[task[t].doc].vehicle = task[t].vehicle
    BY <1>1, <1>2 DEF Facts, Reporting
  <2> QED BY <1>1, <1>3, <2>1, <2>2 DEF Reporting
<1>10. Working(t)'
    BY <1>1, <1>2, <1>3 DEF Facts, Working
<1>11. ASSUME NEW o \in Tasks PROVE OrderFacts(o)'
    BY <1>1, <1>7, OrderKept DEF Sound, OrderFacts
<1>12. FlagMeansPaid' /\ WithdrawalHeld'
    BY <1>1, <1>3, <1>7, FlagsKept, RequestsKept
<1>13. DriverKeepsSubscription'
  <2> SUFFICES ASSUME NEW s \in Tasks, sub'[s].status # "none", ~ crashes > 0
               PROVE  \/ \E a \in Tasks : sub'[a].driver = sub'[s].driver
                           /\ (sub'[a].status = "active" \/ sub'[a].lapsed \/ sub'[a].cancelled)
                      \/ \E u \in Tasks : task'[u].at = "createSub" /\ task'[u].driver = sub'[s].driver
    BY <1>1 DEF DriverKeepsSubscription, TaskAt
  <2>1. CASE sub'[s].driver = task[t].driver
    BY <1>4, <1>5, <2>1
  <2>2. CASE sub'[s].driver # task[t].driver
    <3>1. s # t
      BY <1>4, <1>5, <2>2
    <3>2. \/ \E a \in Tasks : sub[a].driver = sub[s].driver
                              /\ (sub[a].status = "active" \/ sub[a].lapsed \/ sub[a].cancelled)
          \/ \E u \in Tasks : task[u].at = "createSub" /\ task[u].driver = sub[s].driver
      BY <1>5, <3>1 DEF Sound, DriverKeepsSubscription, TaskAt
    <3> QED BY <1>3, <1>5, <1>6, <2>2, <3>1, <3>2
  <2> QED BY <2>1, <2>2
<1> QED BY <1>1, <1>3, <1>7, <1>8, <1>9, <1>10, <1>11, <1>12, <1>13, WriteSound DEF Facts

LEMMA CancelSound == ASSUME PurTypeInv, Sound, NEW t \in Tasks, WriteCancelled(t) PROVE Sound'
<1> DEFINE w == task[t].doc
           new == [sub[w] EXCEPT !.status = "expired", !.cancelled = TRUE]
<1>1. /\ sub' = [sub EXCEPT ![w] = new] /\ task[t].at = "cancel" /\ TaskGoto(t, "done")
      /\ UNCHANGED <<order, wallet, vault, billed, flag, permit, request, job, crashes>>
    BY DEF WriteCancelled, TaskAt
<1>2. Facts(t) /\ RecordOK(task[t])
    BY RecordHas DEF Sound, Facts, PurTypeInv
<1>3. /\ task'[t].at = "done" /\ task'[t].op = task[t].op /\ task'[t].vehicle = task[t].vehicle
      /\ task'[t].doc = w /\ \A u \in Tasks \ {t} : task'[u] = task[u]
    BY <1>1, Goes
<1>4. w \in Tasks /\ sub[w].status # "none"
    BY <1>1, <1>2 DEF Facts, Working
<1>5. /\ new.status = "expired" /\ new.cancelled /\ new.driver = sub[w].driver
      /\ new.order = sub[w].order /\ new.lapsed = sub[w].lapsed
    BY <1>4 DEF PurTypeInv, DocsTyped, Subscription
<1> HIDE DEF new
<1>6. \A s \in Tasks : sub'[s] = IF s = w THEN new ELSE sub[s]
    BY <1>1 DEF PurTypeInv, DocsTyped
<1> HIDE DEF w
<1>7. Kept /\ \A u \in Tasks \ {t} : Untouched(u)
    BY <1>1, <1>4, <1>5, <1>6, Absent DEF Kept, Untouched, Served
<1>8. NotYet(t)' /\ Reporting(t)' /\ Working(t)'
    BY <1>1, <1>2, <1>3 DEF Facts, Reporting, Working, NotYet, w, BeforeOrder, BeforeSub, BeforePermit,
                            BeforeRequest
<1>9. ASSUME NEW o \in Tasks PROVE OrderFacts(o)'
    BY <1>1, <1>7, OrderKept DEF Sound, OrderFacts
<1>10. FlagMeansPaid' /\ WithdrawalHeld'
    BY <1>1, <1>3, <1>7, FlagsKept, RequestsKept
<1>11. DriverKeepsSubscription'
  <2> SUFFICES ASSUME NEW s \in Tasks, sub'[s].status # "none", ~ crashes > 0
               PROVE  \/ \E a \in Tasks : sub'[a].driver = sub'[s].driver
                           /\ (sub'[a].status = "active" \/ sub'[a].lapsed \/ sub'[a].cancelled)
                      \/ \E u \in Tasks : task'[u].at = "createSub" /\ task'[u].driver = sub'[s].driver
    BY <1>1 DEF DriverKeepsSubscription, TaskAt
  <2>1. \/ \E a \in Tasks : sub[a].driver = sub[s].driver
                            /\ (sub[a].status = "active" \/ sub[a].lapsed \/ sub[a].cancelled)
        \/ \E u \in Tasks : task[u].at = "createSub" /\ task[u].driver = sub[s].driver
    BY <1>4, <1>6 DEF Sound, DriverKeepsSubscription, TaskAt
  <2>2. \A a \in Tasks : sub'[a].driver = sub[a].driver
          /\ (sub[a].status = "active" \/ sub[a].lapsed \/ sub[a].cancelled
              => sub'[a].status = "active" \/ sub'[a].lapsed \/ sub'[a].cancelled)
    BY <1>5, <1>6
  <2> QED BY <1>1, <1>3, <2>1, <2>2
<1> QED BY <1>1, <1>3, <1>7, <1>8, <1>9, <1>10, <1>11, WriteSound DEF Facts

(* The order is settled. *)
LEMMA SettleSound == ASSUME PurTypeInv, Sound, NEW t \in Tasks, SettleOrder(t) PROVE Sound'
<1> DEFINE w == task[t].doc
           new == [order[w] EXCEPT !.status = "COMPLETED"]
<1>1. /\ order' = [order EXCEPT ![w] = new] /\ task[t].at = "settle" /\ TaskGoto(t, "done")
      /\ UNCHANGED <<wallet, vault, billed, sub, flag, permit, request, job, crashes>>
    BY DEF SettleOrder, TaskAt
<1>2. Facts(t) /\ RecordOK(task[t])
    BY RecordHas DEF Sound, Facts, PurTypeInv
<1>3. /\ task'[t].at = "done" /\ task'[t].op = task[t].op /\ task'[t].vehicle = task[t].vehicle
      /\ task'[t].doc = w /\ \A u \in Tasks \ {t} : task'[u] = task[u]
    BY <1>1, Goes
<1>4. /\ w \in Tasks /\ order[w].byCard /\ order[w].vehicle = task[t].vehicle
      /\ Honoured(w) /\ order[w].kind \in {"deposit", "ride", "plan", "evp"}
      /\ order[w].kind = "evp" \/ order[w].vehicle = NoVehicle
    BY <1>1, <1>2 DEF Facts, Reporting, RecordOK, Sound, OrderFacts
<1>5. /\ new.status = "COMPLETED" /\ new.kind = order[w].kind /\ new.byCard = order[w].byCard
      /\ new.vehicle = order[w].vehicle
    BY ZenonT(60), <1>4 DEF PurTypeInv, DocsTyped, Order
<1> HIDE DEF new
<1>6. \A o \in Tasks : order'[o] = IF o = w THEN new ELSE order[o]
    BY <1>1 DEF PurTypeInv, DocsTyped
<1> HIDE DEF w
<1>7. Kept /\ \A u \in Tasks \ {t} : Untouched(u)
    BY <1>1, <1>4, <1>5, <1>6 DEF Kept, Untouched, Served
<1>8. NotYet(t)' /\ Reporting(t)' /\ Working(t)'
  <2>1. NotYet(t)'
    BY <1>3 DEF NotYet, BeforeOrder, BeforeSub, BeforePermit, BeforeRequest
  <2>2. Reporting(t)'
    BY <1>2, <1>3, <1>4, <1>5, <1>6 DEF Facts, Reporting, w
  <2>3. Working(t)'
    BY <1>2, <1>3 DEF Facts, Working
  <2> QED BY <2>1, <2>2, <2>3
<1>9. ASSUME NEW o \in Tasks PROVE OrderFacts(o)'
  <2>1. request'[o] # "none" => order[o].kind = "withdrawal"
    BY <1>1 DEF Sound, OrderFacts
  <2>2. CASE o = w
    <3>1. order'[o].status = "COMPLETED" /\ order[o].byCard /\ Honoured(o)
      BY <1>4, <1>5, <1>6, <2>2
    <3> QED BY <1>5, <1>6, <1>7, <2>1, <2>2, <3>1, OrderKept
  <2>3. CASE o # w
    BY <1>6, <1>7, <2>1, <2>3, OrderKept
  <2> QED BY <2>2, <2>3
<1>10. DriverKeepsSubscription'
    BY <1>1, <1>3, <1>7, SubsKept
<1>11. WithdrawalHeld'
    BY <1>1, <1>3, <1>4, <1>6, <1>7, RequestsKept
<1>12. FlagMeansPaid'
  <2> SUFFICES ASSUME NEW v \in Vehicles, flag[v], ~ crashes > 0
               PROVE  \/ \E o \in Tasks : EvpPaid(o, v)'
                      \/ \E u \in Tasks : task'[u].at = "settle" /\ task'[u].vehicle = v
    BY <1>1 DEF FlagMeansPaid, TaskAt
  <2>1. \A o \in Tasks : EvpPaid(o, v) => EvpPaid(o, v)'
    BY <1>7 DEF EvpPaid, Kept
  <2>2. ASSUME NEW o \in Tasks, o = w, task[t].vehicle = v PROVE EvpPaid(o, v)'
    BY <1>4, <1>5, <1>6, <2>2, Absent DEF EvpPaid
  <2> QED BY <1>3, <1>4, <2>1, <2>2 DEF Sound, FlagMeansPaid, TaskAt
<1> QED BY <1>1, <1>3, <1>7, <1>8, <1>9, <1>10, <1>11, <1>12, WriteSound DEF Facts

(* The request of a withdrawal is saved, its amount released, and it is closed. *)
LEMMA SaveRequestSound == ASSUME PurTypeInv, Sound, NEW t \in Tasks, SaveRequest(t) PROVE Sound'
<1>1. /\ request' = [request EXCEPT ![t] = "PENDING"] /\ task[t].at = "saveRequest"
      /\ TaskGoto(t, "done")
      /\ UNCHANGED <<order, wallet, vault, billed, sub, flag, permit, job, crashes>>
    BY DEF SaveRequest, SetRequest, TaskAt
<1>2. Facts(t) /\ RecordOK(task[t])
    BY RecordHas DEF Sound, Facts, PurTypeInv
<1>3. /\ task'[t].at = "done" /\ task'[t].op = task[t].op /\ task'[t].vehicle = task[t].vehicle
      /\ task'[t].doc = task[t].doc /\ \A u \in Tasks \ {t} : task'[u] = task[u]
    BY <1>1, Goes
<1>4. order[t].kind = "withdrawal" /\ order[t].status = "PENDING"
    BY <1>1, <1>2 DEF Facts, Working
<1>5. \A w \in Tasks : request'[w] = IF w = t THEN "PENDING" ELSE request[w]
    BY <1>1 DEF PurTypeInv, DocsTyped
<1>6. Kept /\ \A u \in Tasks \ {t} : Untouched(u)
    BY <1>1, <1>5 DEF Kept, Untouched, Served
<1>7. NotYet(t)' /\ Reporting(t)' /\ Working(t)'
    BY <1>1, <1>2, <1>3 DEF Facts, Reporting, Working, NotYet, BeforeOrder, BeforeSub, BeforePermit,
                            BeforeRequest
<1>8. ASSUME NEW o \in Tasks PROVE OrderFacts(o)'
    BY <1>1, <1>4, <1>5, <1>6, OrderKept DEF Sound, OrderFacts
<1>9. FlagMeansPaid' /\ DriverKeepsSubscription'
    BY <1>1, <1>3, <1>6, FlagsKept, SubsKept
<1>10. WithdrawalHeld'
  <2>1. \A u \in Tasks : task[u].at = "rejectRequest" => u # t
    BY <1>1
  <2> QED BY <1>1, <1>3, <1>4, <1>5, <2>1 DEF Sound, WithdrawalHeld, TaskAt
<1> QED BY <1>1, <1>3, <1>6, <1>7, <1>8, <1>9, <1>10, WriteSound DEF Facts

LEMMA ReleaseSound == ASSUME PurTypeInv, Sound, NEW t \in Tasks, ReleaseAmount(t) PROVE Sound'
<1> DEFINE w == task[t].doc
           new == [order[w] EXCEPT !.status = IF @ = "PENDING" THEN "FAILED" ELSE @]
<1>1. /\ order' = [order EXCEPT ![w] = new] /\ task[t].at = "release" /\ TaskGoto(t, "rejectRequest")
      /\ UNCHANGED <<wallet, vault, billed, sub, flag, permit, request, job, crashes>>
    BY DEF ReleaseAmount, TaskAt
<1>2. Facts(t) /\ RecordOK(task[t])
    BY RecordHas DEF Sound, Facts, PurTypeInv
<1>3. /\ task'[t].at = "rejectRequest" /\ task'[t].op = task[t].op
      /\ task'[t].vehicle = task[t].vehicle /\ task'[t].doc = w
      /\ \A u \in Tasks \ {t} : task'[u] = task[u]
    BY <1>1, Goes
<1>4. /\ w \in Tasks /\ order[w].kind = "withdrawal" /\ request[w] # "none"
      /\ order[w].status \in {"PENDING", "FAILED"}
    BY <1>1, <1>2 DEF Facts, Working, Sound, OrderFacts
<1>5. /\ new.status = "FAILED" /\ new.kind = order[w].kind /\ new.byCard = order[w].byCard
      /\ new.vehicle = order[w].vehicle
    BY <1>4 DEF PurTypeInv, DocsTyped, Order
<1> HIDE DEF new
<1>6. \A o \in Tasks : order'[o] = IF o = w THEN new ELSE order[o]
    BY <1>1 DEF PurTypeInv, DocsTyped
<1> HIDE DEF w
<1>7. Kept /\ \A u \in Tasks \ {t} : Untouched(u)
    BY <1>1, <1>4, <1>5, <1>6 DEF Kept, Untouched, Served
<1>8. NotYet(t)' /\ Reporting(t)' /\ Working(t)'
  <2>1. NotYet(t)'
    BY <1>3 DEF NotYet, BeforeOrder, BeforeSub, BeforePermit, BeforeRequest
  <2>2. Reporting(t)'
    <3>1. task[t].op = "callback" =>
            task[t].doc \in Tasks /\ order[task[t].doc].byCard
            /\ order[task[t].doc].vehicle = task[t].vehicle
      BY <1>2 DEF Facts, Reporting, RecordOK
    <3> QED BY <1>3, <1>4, <1>5, <1>6, <3>1 DEF Reporting, w
  <2>3. Working(t)'
    BY <1>1, <1>2, <1>3, <1>4, <1>5, <1>6 DEF Facts, Working
  <2> QED BY <2>1, <2>2, <2>3
<1>9. ASSUME NEW o \in Tasks PROVE OrderFacts(o)'
    BY <1>1, <1>4, <1>5, <1>6, <1>7, OrderKept DEF Sound, OrderFacts
<1>10. FlagMeansPaid' /\ DriverKeepsSubscription'
    BY <1>1, <1>3, <1>7, FlagsKept, SubsKept
<1>11. WithdrawalHeld'
  <2>1. \A u \in Tasks : task[u].at = "rejectRequest" => u # t
    BY <1>1
  <2> QED BY <1>1, <1>3, <1>4, <1>5, <1>6, <2>1 DEF Sound, WithdrawalHeld, TaskAt
<1> QED BY <1>1, <1>3, <1>7, <1>8, <1>9, <1>10, <1>11, WriteSound DEF Facts

LEMMA RejectSound == ASSUME PurTypeInv, Sound, NEW t \in Tasks, RejectRequest(t) PROVE Sound'
<1> DEFINE w == task[t].doc
<1>1. /\ request' = [request EXCEPT ![w] = "REJECTED"] /\ task[t].at = "rejectRequest"
      /\ TaskGoto(t, "done")
      /\ UNCHANGED <<order, wallet, vault, billed, sub, flag, permit, job, crashes>>
    BY DEF RejectRequest, SetRequest, TaskAt
<1>2. Facts(t) /\ RecordOK(task[t])
    BY RecordHas DEF Sound, Facts, PurTypeInv
<1>3. /\ task'[t].at = "done" /\ task'[t].op = task[t].op /\ task'[t].vehicle = task[t].vehicle
      /\ task'[t].doc = w /\ \A u \in Tasks \ {t} : task'[u] = task[u]
    BY <1>1, Goes
<1>4. /\ w \in Tasks /\ order[w].kind = "withdrawal" /\ order[w].status = "FAILED"
      /\ request[w] # "none"
    BY <1>1, <1>2 DEF Facts, Working
<1>5. \A x \in Tasks : request'[x] = IF x = w THEN "REJECTED" ELSE request[x]
    BY <1>1 DEF PurTypeInv, DocsTyped
<1>6. Kept /\ \A u \in Tasks \ {t} : Untouched(u)
    BY <1>1, <1>4, <1>5 DEF Kept, Untouched, Served
<1>7. NotYet(t)' /\ Reporting(t)' /\ Working(t)'
    BY <1>1, <1>2, <1>3 DEF Facts, Reporting, Working, NotYet, BeforeOrder, BeforeSub, BeforePermit,
                            BeforeRequest
<1>8. ASSUME NEW o \in Tasks PROVE OrderFacts(o)'
    BY <1>1, <1>4, <1>5, <1>6, OrderKept DEF Sound, OrderFacts
<1>9. FlagMeansPaid' /\ DriverKeepsSubscription'
    BY <1>1, <1>3, <1>6, FlagsKept, SubsKept
<1>10. WithdrawalHeld'
  <2>1. \A u \in Tasks : u # t => task'[u] = task[u]
    BY <1>3
  <2> QED BY <1>1, <1>4, <1>5, <2>1 DEF Sound, WithdrawalHeld, TaskAt
<1> QED BY <1>1, <1>3, <1>6, <1>7, <1>8, <1>9, <1>10, WriteSound DEF Facts

(* The permits. *)
LEMMA IssueSound == ASSUME PurTypeInv, Sound, NEW t \in Tasks, IssuePermit(t) PROVE Sound'
<1> DEFINE new == [NoPermit EXCEPT !.active = TRUE, !.order = task[t].doc, !.vehicle = task[t].vehicle]
<1>1. /\ permit' = [permit EXCEPT ![t] = new] /\ task[t].at = "issue" /\ TaskGoto(t, "markUsed")
      /\ UNCHANGED <<order, wallet, vault, billed, sub, flag, request, job, crashes>>
    BY DEF IssuePermit, TaskAt
<1>2. Facts(t) /\ RecordOK(task[t])
    BY RecordHas DEF Sound, Facts, PurTypeInv
<1>3. /\ task'[t].at = "markUsed" /\ task'[t].op = task[t].op /\ task'[t].vehicle = task[t].vehicle
      /\ task'[t].doc = task[t].doc /\ \A u \in Tasks \ {t} : task'[u] = task[u]
    BY <1>1, Goes
<1>4. new.vehicle = task[t].vehicle
    BY DEF NoPermit
<1> HIDE DEF new
<1>5. \A i \in Tasks : permit'[i] = IF i = t THEN new ELSE permit[i]
    BY <1>1, Absent DEF PurTypeInv, DocsTyped
<1>6. permit[t].vehicle = NoVehicle
    BY <1>1, <1>2 DEF Facts, NotYet, BeforePermit
<1>7. Kept /\ \A u \in Tasks \ {t} : Untouched(u)
    BY <1>1, <1>5, <1>6, Absent DEF Kept, Untouched, Served
<1>8. NotYet(t)' /\ Reporting(t)'
    BY <1>1, <1>2, <1>3 DEF Facts, Reporting, RecordOK, NotYet, BeforeOrder, BeforeSub, BeforePermit,
                            BeforeRequest
<1>9. Working(t)'
    BY <1>1, <1>2, <1>3, <1>4, <1>5 DEF Facts, Working, RecordOK
<1>10. ASSUME NEW o \in Tasks PROVE OrderFacts(o)'
    BY <1>1, <1>7, OrderKept DEF Sound, OrderFacts
<1>11. FlagMeansPaid' /\ WithdrawalHeld' /\ DriverKeepsSubscription'
    BY <1>1, <1>3, <1>7, FlagsKept, RequestsKept, SubsKept
<1> QED BY <1>1, <1>3, <1>7, <1>8, <1>9, <1>10, <1>11, WriteSound DEF Facts

LEMMA MarkUsedSound == ASSUME PurTypeInv, Sound, NEW t \in Tasks, MarkPaymentUsed(t) PROVE Sound'
<1>1. /\ task[t].at = "markUsed" /\ TaskGoto(t, "unflag")
      /\ UNCHANGED <<wallet, vault, billed, sub, flag, permit, request, job, crashes>>
    BY DEF MarkPaymentUsed, TaskAt
<1>2. Facts(t) /\ RecordOK(task[t])
    BY RecordHas DEF Sound, Facts, PurTypeInv
<1>3. /\ task'[t].at = "unflag" /\ task'[t].op = task[t].op /\ task'[t].vehicle = task[t].vehicle
      /\ task'[t].doc = task[t].doc /\ \A u \in Tasks \ {t} : task'[u] = task[u]
    BY <1>1, Goes
<1>4. ASSUME NEW o \in Tasks
      PROVE  order'[o].kind = order[o].kind /\ order'[o].status = order[o].status
             /\ order'[o].byCard = order[o].byCard /\ order'[o].vehicle = order[o].vehicle
  <2>1. PICK x \in Tasks : order' = [order EXCEPT ![x].used = TRUE]
    BY DEF MarkPaymentUsed
  <2>2. order[o] \in Order /\ order'[o] = IF o = x THEN [order[o] EXCEPT !.used = TRUE] ELSE order[o]
    BY <2>1 DEF PurTypeInv, DocsTyped
  <2> QED BY <2>2 DEF Order
<1>5. Kept /\ \A u \in Tasks \ {t} : Untouched(u)
    BY <1>1, <1>4 DEF Kept, Untouched, Served
<1>6. NotYet(t)' /\ Reporting(t)'
    BY <1>1, <1>2, <1>3 DEF Reporting, RecordOK, NotYet, BeforeOrder, BeforeSub, BeforePermit,
                            BeforeRequest
<1>7. Working(t)'
    BY <1>1, <1>2, <1>3 DEF Facts, Working
<1>8. ASSUME NEW o \in Tasks PROVE OrderFacts(o)'
    BY <1>1, <1>4, <1>5, OrderKept DEF Sound, OrderFacts
<1>9. FlagMeansPaid' /\ WithdrawalHeld' /\ DriverKeepsSubscription'
    BY <1>1, <1>3, <1>4, <1>5, FlagsKept, RequestsKept, SubsKept
<1> QED BY <1>1, <1>3, <1>5, <1>6, <1>7, <1>8, <1>9, WriteSound DEF Facts

(* The vehicle no longer waits: it has a permit. *)
LEMMA ClearFlagSound == ASSUME PurTypeInv, Sound, NEW t \in Tasks, ClearFlag(t) PROVE Sound'
<1> DEFINE v == task[t].vehicle
<1>1. /\ flag' = [flag EXCEPT ![v] = FALSE] /\ task[t].at = "unflag" /\ TaskGoto(t, "done")
      /\ UNCHANGED <<order, wallet, vault, billed, sub, permit, request, job, crashes>>
    BY DEF ClearFlag, TaskAt
<1>2. Facts(t) /\ RecordOK(task[t])
    BY RecordHas DEF Sound, Facts, PurTypeInv
<1>3. /\ task'[t].at = "done" /\ task'[t].op = task[t].op /\ task'[t].vehicle = task[t].vehicle
      /\ task'[t].doc = task[t].doc /\ \A u \in Tasks \ {t} : task'[u] = task[u]
    BY <1>1, Goes
<1>4. permit[t].vehicle = v
    BY <1>1, <1>2 DEF Facts, Working
<1>5. \A x \in Vehicles : flag'[x] = IF x = v THEN FALSE ELSE flag[x]
    BY <1>1 DEF PurTypeInv, DocsTyped
<1>6. Kept /\ \A u \in Tasks \ {t} : Untouched(u)
    BY <1>1, <1>4, <1>5 DEF Kept, Untouched, Served
<1>7. NotYet(t)' /\ Reporting(t)' /\ Working(t)'
    BY <1>1, <1>2, <1>3 DEF Facts, Reporting, Working, NotYet, BeforeOrder, BeforeSub, BeforePermit,
                            BeforeRequest
<1>8. ASSUME NEW o \in Tasks PROVE OrderFacts(o)'
    BY <1>1, <1>6, OrderKept DEF Sound, OrderFacts
<1>9. WithdrawalHeld' /\ DriverKeepsSubscription'
    BY <1>1, <1>3, <1>6, RequestsKept, SubsKept
<1>10. FlagMeansPaid'
  <2> SUFFICES ASSUME NEW x \in Vehicles, flag'[x], ~ crashes > 0
               PROVE  \/ \E o \in Tasks : EvpPaid(o, x)'
                      \/ \E u \in Tasks : task'[u].at = "settle" /\ task'[u].vehicle = x
    BY <1>1 DEF FlagMeansPaid, TaskAt
  <2>1. \A o \in Tasks : EvpPaid(o, x) => EvpPaid(o, x)'
    BY <1>1 DEF EvpPaid
  <2>2. \A u \in Tasks : task[u].at = "settle" => task'[u] = task[u]
    BY <1>1, <1>3
  <2> QED BY <1>1, <1>5, <2>1, <2>2 DEF Sound, FlagMeansPaid, TaskAt
<1> QED BY <1>1, <1>3, <1>6, <1>7, <1>8, <1>9, <1>10, WriteSound DEF Facts

LEMMA RevokeSound == ASSUME PurTypeInv, Sound, NEW t \in Tasks, WriteRevoked(t) PROVE Sound'
<1>1. /\ task[t].at = "revoke" /\ TaskGoto(t, "done")
      /\ UNCHANGED <<order, wallet, vault, billed, sub, flag, request, job, crashes>>
    BY DEF WriteRevoked, TaskAt
<1>2. Facts(t) /\ RecordOK(task[t])
    BY RecordHas DEF Sound, Facts, PurTypeInv
<1>3. /\ task'[t].at = "done" /\ task'[t].op = task[t].op /\ task'[t].vehicle = task[t].vehicle
      /\ task'[t].doc = task[t].doc /\ \A u \in Tasks \ {t} : task'[u] = task[u]
    BY <1>1, Goes
<1>4. ASSUME NEW i \in Tasks PROVE permit'[i].vehicle = permit[i].vehicle
  <2>1. /\ permit[i] \in Permit
        /\ permit'[i] = IF i = task[t].doc THEN [permit[i] EXCEPT !.active = FALSE] ELSE permit[i]
    BY Absent DEF WriteRevoked, PurTypeInv, DocsTyped
  <2> QED BY <2>1 DEF Permit
<1>5. Kept /\ \A u \in Tasks \ {t} : Untouched(u)
    BY <1>1, <1>4 DEF Kept, Untouched, Served
<1>6. NotYet(t)' /\ Reporting(t)' /\ Working(t)'
    BY <1>1, <1>2, <1>3 DEF Facts, Reporting, Working, NotYet, BeforeOrder, BeforeSub, BeforePermit,
                            BeforeRequest
<1>7. ASSUME NEW o \in Tasks PROVE OrderFacts(o)'
    BY <1>1, <1>5, OrderKept DEF Sound, OrderFacts
<1>8. FlagMeansPaid' /\ WithdrawalHeld' /\ DriverKeepsSubscription'
    BY <1>1, <1>3, <1>5, FlagsKept, RequestsKept, SubsKept
<1> QED BY <1>1, <1>3, <1>5, <1>6, <1>7, <1>8, WriteSound DEF Facts

-------------------------------------------------------------------------------
(* Time, the expiration jobs and restarts. *)

(* Nothing but the permits, the subscriptions and the jobs has changed. *)
LEMMA DatesSound ==
    ASSUME PurTypeInv, Sound,
           UNCHANGED <<order, wallet, vault, billed, flag, request, task, crashes>>,
           \A i \in Tasks : permit'[i].vehicle = permit[i].vehicle,
           \A s \in Tasks : /\ sub'[s].order = sub[s].order /\ sub'[s].driver = sub[s].driver
                            /\ sub'[s].cancelled = sub[s].cancelled
                            /\ sub[s].lapsed => sub'[s].lapsed
                            /\ sub'[s].status = "none" <=> sub[s].status = "none"
                            /\ sub[s].status = "active" => sub'[s].status = "active" \/ sub'[s].lapsed
                            /\ sub[s] = NoSub => sub'[s] = NoSub,
           \A s \in job'.subs : sub'[s].lapsed /\ sub'[s].status # "none"
    PROVE  Sound'
<1>1. Kept /\ \A u \in Tasks : Untouched(u)
    BY DEF Kept, Untouched, Served
<1>2. ASSUME NEW u \in Tasks PROVE Facts(u)'
    BY <1>1, OthersKept
<1>3. ASSUME NEW o \in Tasks PROVE OrderFacts(o)'
    BY <1>1, OrderKept DEF Sound, OrderFacts
<1>4. FlagMeansPaid' /\ WithdrawalHeld'
    BY DEF Sound, FlagMeansPaid, WithdrawalHeld, EvpPaid, TaskAt
<1>5. DriverKeepsSubscription'
    BY DEF Sound, DriverKeepsSubscription, TaskAt
<1> QED BY <1>2, <1>3, <1>4, <1>5 DEF Sound, Facts

LEMMA TimeSound == ASSUME PurTypeInv, Sound, Lapse \/ JobStep PROVE Sound'
<1> USE Absent
<1>1. ASSUME NEW i \in Issuers, permit[i].vehicle # NoVehicle,
             permit' = [permit EXCEPT ![i].lapsed = TRUE],
             UNCHANGED <<order, wallet, vault, billed, sub, flag, request, job, task, crashes>>
      PROVE  Sound'
  <2>1. \A x \in Tasks : permit'[x].vehicle = permit[x].vehicle
    BY <1>1 DEF PurTypeInv, DocsTyped, Permit
  <2>2. \A s \in job'.subs : sub'[s].lapsed /\ sub'[s].status # "none"
    BY <1>1 DEF Sound
  <2> QED BY <1>1, <2>1, <2>2, DatesSound
<1>2. ASSUME NEW s \in Tasks, sub[s].status # "none", sub' = [sub EXCEPT ![s].lapsed = TRUE],
             UNCHANGED <<order, wallet, vault, billed, permit, flag, request, job, task, crashes>>
      PROVE  Sound'
  <2>1. ASSUME NEW x \in Tasks
        PROVE  /\ sub'[x].order = sub[x].order /\ sub'[x].driver = sub[x].driver
               /\ sub'[x].cancelled = sub[x].cancelled /\ sub'[x].status = sub[x].status
               /\ sub[x].lapsed => sub'[x].lapsed
               /\ sub[x] = NoSub => sub'[x] = NoSub
    <3>1. sub[x] \in Subscription
          /\ sub'[x] = IF x = s THEN [sub[x] EXCEPT !.lapsed = TRUE] ELSE sub[x]
      BY <1>2 DEF PurTypeInv, DocsTyped
    <3>2. x = s => sub[x] # NoSub
      BY <1>2
    <3> QED BY <3>1, <3>2 DEF Subscription
  <2>2. \A x \in job'.subs : sub'[x].lapsed /\ sub'[x].status # "none"
    BY <1>2, <2>1 DEF Sound, PurTypeInv, DocsTyped
  <2> QED BY <1>2, <2>1, <2>2, DatesSound
<1>3. CASE Lapse
    BY <1>1, <1>2, <1>3 DEF Lapse
<1>4. CASE CheckEvpExpiration
  <2>1. job'.subs = job.subs /\ UNCHANGED <<docs, task, crashes>>
    BY <1>4 DEF CheckEvpExpiration, PurTypeInv, DocsTyped
  <2> QED BY <2>1, DatesSound DEF docs, Sound
<1>5. CASE CheckSubscriptionExpiration
  <2>1. job'.subs = ExpiredSubs /\ UNCHANGED <<docs, task, crashes>>
    BY <1>5 DEF CheckSubscriptionExpiration, PurTypeInv, DocsTyped
  <2> QED BY <2>1, DatesSound DEF docs, ExpiredSubs
<1>6. ASSUME NEW i \in Issuers, MarkPermit(i) PROVE Sound'
  <2>1. job'.subs = job.subs
        /\ UNCHANGED <<order, wallet, vault, billed, sub, flag, request, task, crashes>>
    BY <1>6 DEF MarkPermit, PurTypeInv, DocsTyped
  <2>2. \A x \in Tasks : permit'[x].vehicle = permit[x].vehicle
    BY <1>6 DEF MarkPermit, PurTypeInv, DocsTyped, Permit
  <2> QED BY <2>1, <2>2, DatesSound DEF Sound
<1>7. ASSUME NEW s \in Tasks, MarkSubscription(s) PROVE Sound'
  <2>1. /\ s \in job.subs /\ job'.subs \subseteq job.subs
        /\ UNCHANGED <<order, wallet, vault, billed, flag, permit, request, task, crashes>>
    BY <1>7 DEF MarkSubscription, PurTypeInv, DocsTyped
  <2>2. sub[s].lapsed /\ sub[s].status # "none"
    BY <2>1 DEF Sound
  <2>3. ASSUME NEW x \in Tasks
        PROVE  /\ sub'[x].order = sub[x].order /\ sub'[x].driver = sub[x].driver
               /\ sub'[x].cancelled = sub[x].cancelled /\ sub'[x].lapsed = sub[x].lapsed
               /\ x # s => sub'[x] = sub[x]
               /\ x = s => sub'[x].status = "expired"
    <3>1. sub[x] \in Subscription
          /\ sub'[x] = IF x = s THEN [sub[x] EXCEPT !.status = "expired"] ELSE sub[x]
      BY <1>7 DEF MarkSubscription, PurTypeInv, DocsTyped
    <3> QED BY <3>1 DEF Subscription
  <2> QED BY <2>1, <2>2, <2>3, DatesSound DEF Sound, PurTypeInv, DocsTyped
<1> QED BY <1>3, <1>4, <1>5, <1>6, <1>7 DEF JobStep

LEMMA CrashSound == ASSUME PurTypeInv, Sound, Crash PROVE Sound'
<1>1. /\ UNCHANGED <<order, wallet, vault, billed, sub, flag, permit, request>>
      /\ job'.subs = {} /\ crashes' > 0
    BY CrashAssumption DEF Crash, docs, PurTypeInv, DocsTyped
<1>2. Kept /\ \A u \in Tasks : Untouched(u)
    BY <1>1 DEF Kept, Untouched, Served
<1>3. ASSUME NEW u \in Tasks PROVE Facts(u)'
  <2>1. task'[u] \in {task[u], [task[u] EXCEPT !.at = "lost"]}
    BY DEF Crash
  <2> QED BY <1>2, <2>1, OthersKept
<1>4. ASSUME NEW o \in Tasks PROVE OrderFacts(o)'
    BY <1>1, <1>2, OrderKept DEF Sound, OrderFacts
<1>5. FlagMeansPaid' /\ WithdrawalHeld' /\ DriverKeepsSubscription'
    BY <1>1 DEF Sound, FlagMeansPaid, WithdrawalHeld, DriverKeepsSubscription
<1> QED BY <1>1, <1>3, <1>4, <1>5 DEF Sound, Facts

LEMMA StepSound == PurTypeInv /\ Sound /\ [PurNext]_purVars => Sound'
<1> SUFFICES ASSUME PurTypeInv, Sound, [PurNext]_purVars PROVE Sound'
    OBVIOUS
<1>1. ASSUME NEW t \in Tasks, TaskStep(t) PROVE Sound'
  <2>1. CASE Buying(t)
    BY <2>1, OpenSound, LookSound, BalanceSound, SetFlagSound DEF Buying
  <2>2. CASE \/ BillRide(t) \/ ReadWallet(t) \/ CreditWallet(t) \/ CheckPlan(t) \/ ExpireOld(t)
             \/ CreateSub(t) \/ WriteVault(t) \/ SettleOrder(t) \/ WriteCancelled(t)
    BY <2>2, LookSound, BalanceSound, BillSound, ExpireOldSound, CreateSubSound, SettleSound, CancelSound
  <2>3. CASE \/ CheckWithdrawable(t) \/ CheckNoRequest(t) \/ HoldAmount(t) \/ SaveRequest(t)
             \/ ReleaseAmount(t) \/ RejectRequest(t)
             \/ CheckActive(t) \/ IssuePermit(t) \/ MarkPaymentUsed(t) \/ ClearFlag(t) \/ WriteRevoked(t)
    BY <2>3, LookSound, OpenSound, SaveRequestSound, ReleaseSound, RejectSound, IssueSound,
       MarkUsedSound, ClearFlagSound, RevokeSound
  <2> QED BY <1>1, <2>1, <2>2, <2>3 DEF TaskStep
<1>2. ASSUME NEW t \in Tasks, TaskRequest(t) PROVE Sound'
    BY <1>2, RequestSound
<1>3. CASE UNCHANGED purVars
  <2>1. UNCHANGED <<order, wallet, vault, billed, sub, flag, permit, request, job, task, crashes>>
    BY <1>3 DEF purVars, docs
  <2> QED BY <2>1, DatesSound DEF Sound
<1> QED BY <1>1, <1>2, <1>3, TimeSound, CrashSound DEF PurNext

LEMMA SoundInvariance == PurSpec => []Sound
BY InitSound, StepSound, PurTypeInvariance, PTL DEF PurSpec

-------------------------------------------------------------------------------
(* What notificationUrl has marked as paid has been given: the ride is billed, *)
(* the subscription exists, the vehicle waits for its permit or has had one.   *)
THEOREM CompletedOrdersFulfilled == PurSpec => []CompletedIsFulfilled
<1>1. Sound => CompletedIsFulfilled
    BY DEF Sound, OrderFacts, Honoured, Served, CompletedIsFulfilled
<1> QED BY <1>1, SoundInvariance, PTL

(* A vehicle is flagged for a permit only when one has been paid for, by wallet *)
(* or by card, or is being settled: payForEvp and notificationUrl keep the order *)
(* of their writes whatever overlaps them.                                       *)
THEOREM FlaggedVehiclesPaid == PurSpec => []FlagMeansPaid
<1>1. Sound => FlagMeansPaid
    BY DEF Sound
<1> QED BY <1>1, SoundInvariance, PTL

(* The amount of an open withdrawal stays held, and that of a rejected one is  *)
(* released, however many administrators reject it at once.                     *)
THEOREM OpenWithdrawalsHeld == PurSpec => []WithdrawalHeld
<1>1. Sound => WithdrawalHeld
    BY DEF Sound
<1> QED BY <1>1, SoundInvariance, PTL

(* Renewals that overlap each other and the expiration job never leave a driver *)
(* without a subscription that has not run out.                                  *)
THEOREM SubscribersKeepOne == PurSpec => []DriverKeepsSubscription
<1>1. Sound => DriverKeepsSubscription
    BY DEF Sound
<1> QED BY <1>1, SoundInvariance, PTL
===============================================================================
