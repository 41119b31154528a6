# Verification of the ride service

TLA+ models of the ride-hailing back end in this repository: two NestJS
applications (`apps/user_api` for passengers and drivers, `apps/admin_api` for
administrators) over one MongoDB database and one Redis, with Firebase for push
messages and a card payment gateway that calls back over HTTP.  Nothing in the
code uses a MongoDB transaction, a lock, or a conditional update, so the
interesting questions are all of one kind: what happens when the requests of
several users, the timers, the gateway's callbacks and the daily jobs
interleave between two `await`s, or the process restarts there.

Contents: [the system](#the-system) ·
[how code becomes TLA+](#how-code-becomes-tla) · [modules](#modules) ·
[runs](#runs-and-bounds) · [fairness](#fairness) · [proofs](#proofs) ·
[disagreements with the comments](#where-the-code-does-not-do-what-it-says) ·
[not modelled](#not-modelled) · [plan](#plan)

## The system

| component | code | state it keeps | operations |
|---|---|---|---|
| Ride dispatch | `rides.service.ts`, `redis.service.ts`, `driverRide.service.ts` | ride document (`status`, `driverId`), Redis `ride_driver_queue`, `ride_current_driver`, `driver_cancellation`; `driverLocation` | book, offer to the next driver, 27 s timer, accept, reject, cancel (driver, passenger), resume, generic update (`PUT /rides/:id`) |
| Ride under way, payment | `driverRide.service.ts`, `rides.service.ts` | ride (`status`, `paymentStatus`, `tips`, `tollAmount`), `walletTransaction` entries, `wallet` balances | arrive, pick up, start, reach, complete, tip, confirm payment |
| Purchases | `driver.service.ts`, `wallet.service.ts`, `driverVehicle.service.ts`, `withdrawals.service.ts`, `driver-subscriptions.service.ts`, `adminDrivers.service.ts`, both expiration jobs | orders (`walletTransaction`), wallets, `subscriptions`, `vehicleEvp`, `withdrawalRequest`, `evpAdminGeneratedPending` | deposit, subscribe, pay for a permit, gateway callback, withdraw, reject, issue, revoke, cancel, expire |
| Driver location, sockets | `driverLocation.service.ts`, `driver.service.ts`, `ride.gateway.ts`, `redis.service.ts` | `driverLocation.status`, `isAvailableForRides`; Redis `socket:<type>:<user>` | report a position, go online or offline, log out; connect, disconnect |
| Vehicles, driver documents and their review | `driverVehicle*.service.ts`, `documentVerification.service.ts`, `*Document.service.ts`, `adminDrivers.service.ts` | vehicle and document status and expiry, the derived `hasCompleteDocumentation`, the primary vehicle | upload, replace, edit, delete, approve, reject, choose the primary vehicle; summaries, progress and compliance reports |
| Accounts | both `auth.service.ts`, `user.service.ts` | users, one-time codes, refresh tokens | register, verify, resend, log in, reset or change a password |
| Administrators and roles | `adminAuth.service.ts`, `users.service.ts`, `user-profile.service.ts`, `roles.service.ts` | the same collection of users; roles | log in, create, change, deactivate and delete administrators, create, rename and remove roles |
| What users keep | `wallet.service.ts`, `user-verification/*`, `adminPassengers.service.ts`, `emergency-contacts.service.ts`, `ratings.service.ts`, `issue-reports.service.ts` | bank accounts, a passenger's papers, contacts, ratings, issues | add, change, delete; upload, edit, review; rate; report, assign, resolve |
| Fares | `rides.service.ts`, `pricing-zones.service.ts`, `vehicleTypes.service.ts`, `settings.service.ts` | vehicle types with prices, zones, settings | quote; change prices and zones |
| Earnings | `driver.service.ts` | none: read from the ledger | histogram, total |
| Everything else | plans, FAQs, permissions, reports, dashboard, notifications, files | single documents, or none | create, read, update, delete |

**How they interact.**  A booking needs a driver whose location is `ONLINE` and
available; accepting needs an active subscription, which needs an active permit
of a verified vehicle, which needs a payment and then an administrator.
Acceptance opens the ledger entries that the payment of the ride settles and
that a card payment's callback settles later.  Completion and cancellation write
the driver's location, which the next booking searches.  Balances shown to a
user are sums over the ledger; balances stored in `wallet` are written beside it.

**What is hard.**  `PROJECT.json` lists the hazards, each at its line.  In
short: a status validated before an `await` and written after it, with no
condition on the update (acceptance, cancellation, completion, exhaustion of the
queue); effects in several documents one after the other (payments, permits,
withdrawals), with restarts in between; timers that act on what Redis says when
they fire; a gateway that may report a payment any number of times; jobs that
work through a list they read earlier.

**What makes each correct.**  Dispatch: a pending ride is never forgotten, ends,
asks nobody twice, and a ride under way has a driver.  Payment: the ledger is
settled before the ride is billed, nobody is credited for what nobody is charged
for, wallets do not run ahead of the ledger, the driver is freed.  Purchases:
what is marked paid has been honoured, nothing waits for a permit nobody paid
for, a held withdrawal stays held exactly as long as its request is open, no
overlap of renewals and jobs loses a subscription, what lapsed is marked.
Documents: nobody is verified on papers nobody reviewed, a review is of what the
document still says, uploads that overlap lose no paper, a driver with vehicles
keeps a primary one.

## How code becomes TLA+

- A handler is a *process* (`proc`, `trip`, `task`): a record with the step it
  is at (`at`) and what it has read and not used yet.  The later modules share
  `Handlers`, where `op` and `at` of all requests are kept and the rest is a
  variable of the module (`arg`, `task`, `intent`, `quoting`).  A request begins with an
  action that contains the handler's first read, its guards and early returns.
- One action is one access to shared state (a MongoDB operation, a Redis call)
  with the synchronous code around it: Node runs a handler without interruption
  from one `await` to the next.  Consecutive reads that nothing distinguishes
  are merged; no write is merged with anything.
- `findOneAndUpdate`, `updateMany` on one collection and `save()` are atomic per
  document; `save()` writes the fields that changed since the read (`Amended`).
  `updateMany` of the subscriptions is one action (`ExpireOld`): one driver's
  subscriptions are few, and no property tells the documents' order apart.
- A restart (`Restart`, `TripRestart`, `Crash`, `Stop`) loses handlers and timers and
  keeps the stores.
- An operator of routes (`...Routes`) stands for a controller: which handlers are
  reachable, and by whom.
- Mutated definitions (`...Replaces`, `...Forgotten`, ...), each before the
  definition it is a plausible bug of, belong to `PROJECT.json` "mutants": with
  the definition replaced, TLC must find the named property violated.

## Modules

| module | what it is |
|---|---|
| `RideStatus` | the status enum and both transition tables |
| `Dispatch` | booking, queue, offers, timers, accept, reject, cancel, `PUT /rides/:id`; its properties |
| `DispatchClaims` | what comments promise about dispatch and the code does not keep |
| `RideTrip` | EXTENDS `Dispatch`: the trip and its payment, composed with cancellation and the dispatch it resumes |
| `TripClaims` | the same for the trip |
| `Purchases` | deposits, subscriptions, permits, withdrawals, callback, jobs |
| `Documents` | papers of a driver and of the driver's vehicles, their reviews, the flags computed from them, the primary vehicle |
| `Compliance` | every kind of paper with its days of expiry, and the answers of both applications about them |
| `Handlers` | requests, the steps of their handlers, the stop of the processes; EXTENDED by the five below |
| `Accounts` | users, codes, tokens, administrators and roles |
| `Directory` | the abstract specification of a unique index, which `Accounts` implements twice |
| `Presence` | sockets, the location of a driver and the rides that keep him busy |
| `Personal` | bank accounts, a passenger's papers, contacts, ratings, issues |
| `Fares` | vehicle types, zones, settings, and the quotes made from them |
| `Earnings` | the histogram and the total of a driver's earnings |
| `MCDispatch`, `MCRideTrip`, `MCPurchases`, `MCDocuments`, `MCCompliance`, `MCAccounts` | values of the constants for TLC |
| `MCPlatform` | the same for `Presence`, `Personal`, `Fares` and `Earnings`, one behaviour being about one of them |
| `DispatchProofs`, `RideTripProofs`, `PurchaseProofs`, `DocumentProofs`, `AccountProofs`, `ComplianceProofs`, `PersonalProofs` | theorems about the module of that name |
| `PlatformProofs` | theorems about `Presence`, `Fares` and `Earnings` |

### Dispatch

`ride` is the MongoDB document, `queue` and `current` the Redis keys, `offers`
the sequence of push requests a ride has led to, `loc` the driver locations,
`excluded` the cancellation keys, `txns` which rides have a driver's entry.
`bookRide` is `BookRide, CreateRide, FindDrivers, StoreQueue, GiveUp`;
`notifyNextDriver` and `moveToNextDriver` are `ReadQueue ... Offer`; the timer is
`TimerFires, Timeout`.  `acceptRide` is `AcceptRide ... MarkBusy`, and its catch,
which re-reads the ride and writes that status back, `RereadRide ...
FreeRefusedDriver`.  `rejectRide` stops at a `SETEX` with a TTL of 0, which Redis
refuses, so `RecordRejection` changes nothing that is read.  `UpdateRide,
WriteUpdate` are `PUT /rides/:id`: any user may send a status of `Puts`; it is
checked against the table of `RidesService` and written an await later, nothing
starts or stops the dispatch, and whoever sends an acceptance is written as the
driver, a passenger too (`MaybeHolder`).  Whether a ride that such a request has
made pending again is looked after is not left to the properties to hide:
`PutBack` names it in `DispatchContinues` and `SearchEnds`.  The search returns
any set of free drivers in any order.  Only `CurrentRides` looks at more than one
ride, and the payment test at REACHED is not modelled (booking is allowed there).

### RideTrip

`debit` and `credit` are the two ledger entries of a ride (a card or cash ride
has only the second), `bill` the payment fields of the ride, `wallet` the
balances.  `OpeningEntries` leaves any prefix of the saves of
`createRideTransaction`, which swallows its errors.  Rides start accepted or
started, without having been booked in the run: the dispatch before that is the
subject of `Dispatch`, and a cancellation here resumes it on an absent queue.
Cancellations and `PUT /rides/:id` are the actions of `Dispatch`; the run lets the
passenger send them (`Dispatch` has the driver's cancellations), and by assumption
no PUT accepts a ride, which would name another driver than the ledger does.
`WalletsFollowLedger` says that a balance grows for nothing but a settled ride; it
says nothing of an amount that is lost when two payments write a balance both read
before, which the code lets happen.

### Purchases

A document (order, subscription, permit, withdrawal request) is named by the
request that created it, and requests are numbered in the order received, which
keeps the state small and loses nothing.  `Callback` is `notificationUrl` for any
order opened for the card gateway, at any time and any number of times: the code
checks neither the status of the order nor the result code of the report, and
its signature check is commented out.  `Ledger` is the aggregation both
`payForEvp` and `createWithdrawalRequest` decide by.  All orders cost `Amount`.
A plan may be withdrawn at any moment (`FindPlan`, `CheckPlan` may refuse).
Time is `Lapse`: a document's end date passes.  Simplifications: the price and
period copied onto a vehicle, reminders, and a subscription with a future start
date are left out; the read and the save of the transaction of a rejected
withdrawal are one action, because nothing else writes it.
`approveWithdrawalRequest` always fails: the request is read with its wallet
populated, and `withdrawalRequest.wallet.toString()` is then not an id
(`ApproveWithdrawal`).

### Documents

`doc` holds driver and vehicle documents alike, numbered as they are saved;
`driver` the verification flags of the user, `vehicle` the vehicles.  A document
carries the number of the request whose details it shows (`content`), and
whether it was ever approved (`reviewed`, the field `verifiedAt`, which mongoose
leaves set when an edit assigns `undefined`).  `vouched` records that
`verifyDriver` set the flags by hand.  An upload is `UploadDriverDocument` or
`UploadVehicleDocument, Deactivate, SaveDocument`, followed for a vehicle by
`CheckCompleteness, WriteFlag`; an administrator's review is `ApproveDocument,
WriteApproved` or `RejectDocument, WriteRejected`, followed by `Recount,
WriteFlag` except for a vehicle's rejected document.  Two ways of counting are
kept apart: `checkDocumentCompleteness` wants some verified active document of
each required type, `update...DocumentCompletionStatus` looks at one active
document of each, the last the database returns (`MaySeeComplete`,
`MaySeeIncomplete`), and `getVehicleDocuments` at the oldest (`OldestVerified`).
A vehicle is made primary by `SetPrimaryVehicle` or `UpdateVehicle, DemoteOthers,
Promote`, and the first one by `CreateVehicle, CheckFleet, DemoteAll, AddVehicle`.
Expiry is a choice: a driver's count and the approval of a vehicle may find a
document expired.  Left out: the details and their validation, licence plates
and VINs, prices copied onto a vehicle.

### Compliance

The same papers seen the other way: a request is one step, but all fifteen kinds
of document, their days of expiry (past, within 30 days, later, none) and the
passing of time are there.  `paper` is the active document of each kind, `driver`
and `car` the flags saved on the user and the vehicle, with the vehicle's type.
A grant has no day of expiry for the administrators (`HasExpiry`), but the general
endpoint for documents lets a driver write one: past it, the grant stays complete
and approvable, and `AnswersAgree` says so.  Because a request is one step,
`CountsAgree` says nothing of two counts that overlap; `Documents` has those.  The
price a permit is offered at is not modelled: it is set and cleared awaits apart
from the look at the permit, or from its creation, so that it has no invariant.
Each of the services has its own operators of upload and edit, which differ in what
they require of the day of expiry and in what they keep of it.  The counts (`DriverComplete`, `CheckDocumentCompleteness`,
`AdminVehicleComplete`) write the flags; the answers (`AdminDriverAnswer`,
`DriverSummary`, `UploadProgress`, `Blockers`, `ComplianceStatus`,
`VehicleSummary`, `VehicleProgress`) are computed for whoever asks.  `counted` is
history: nothing was rejected since the last count.

### Accounts and Directory

One collection holds passengers, drivers and administrators.  `user` and `role`
are the documents, named by the request that created them; `token` the refresh
tokens, `wallet` who has a wallet, `held` (history) who ever had an address.
Each application looks users up its own way, by e-mail, by e-mail and type, by id,
and writes the account it found, or the one that has the address by then: so every
handler keeps in `arg` what it was given and what it read.  Codes are named by the
request that wrote them and may have expired whenever they are looked at; only
codes that were mailed are presented.  A code sent at login, like one sent at
registration, comes with a token for the address and the type of the account
(`StoreCode`), so that it can be verified with them: login, `verifyUserOtp` and the
refresh token are one path.  `SaveUser` and `CreateUser` fail on the
unique index.  `Directory` says what such an index promises: a name belongs to one
holder, is taken when free, changed for a free one, and given up for good.
`NamesAreDirectories` is the refinement, twice: addresses of accounts, names of
roles (`AddressBook`, `RoleBook`).

### Presence

`sock` are the WebSocket connections, `mapped` the key in Redis, `pipe` the
commands sent to Redis and not yet run: `handleConnection` and `handleDisconnect`
do not wait for each other, but one connection to Redis keeps their order.  `loc`
is the location document, written by the location endpoints, the profile, the
socket's pings, logout, acceptance, completion and cancellation; `ride` the rides
offered to a driver, abstracted to what those handlers read of them; only the driver
it was offered to accepts a ride.  `loose` is
history: drivers who were reported available, or freed by a refusal, while a ride
of theirs was not over, or whose handlers met or were lost.  `OneRideAtATime`
makes no claim of them: it is about the guards of handlers taken one after the
other, and not about overlapping acceptances or a ping during a ride, which do give
a driver a second ride.

### Personal

No index of the database enforces any rule about these documents; the handlers
look, then write.  A bank account saved as default runs the pre-save hook
(`PreSave`) before it is written; deleting the default hands it on
(`CountActive, Deactivate, PickDefault`).  An edit assigns whatever it is given,
`isDefault` and `isActive` too (`UpdateBankAccount, Save`, writing what differs from
what was read): it may revive a deleted account, make a deleted one the default, or
switch the default off without handing it on, and `DefaultHandedOn` excepts accounts
so edited (`DefaultByEdit`).  A passenger's paper is replaced by
creating the new one and then retiring the old ones, a contact is counted and its
phone compared before it is saved, a ride is rated and then marked.  `overlapped`
is history: the owners some of whose requests on one matter met, or were lost; of
them `OwnersRules` claims only that a paper once uploaded is always there, and that
a ride marked as rated has a rating.  Issues are modelled for their life; no property
is about them, since each is written by single updates that nothing depends on.

### Fares and Earnings

`vtype` and `zone` are kept by name, times are units of the day, prices integers.
A list of quotes is made type by type from a list of types read once, with the
zones of both ends read again for each (`PickupZone`, `DropoffZone`); prices and
zones change meanwhile.  `FindApplicablePricingPeriod` and `PeriodFare` translate
the code; `IsPeriodFor` and `FareOf` are the reference they are checked against.
The schema and the DTO accept an `incrementalDistance` of 0, by which the code
divides: the price is then Infinity, or NaN, which JSON sends as null (`NoPrice`),
as soon as the way is longer than the base distance (`Endless`).
`settings` are the requests that created a settings document.  In `Earnings` a
fare is entered when a ride is accepted and completed later.  A request for the
earnings fixes its day and its end as it comes (`GetDriverEarnings`), reads the
fares of the bars (`ReadBars`) and, an await later, those of the total
(`ReadTotal`); fares are completed in between.  The bars walk a calendar of short
months with the arithmetic of `setMonth` and `setDate`.  `shown.pending` is
history: the fares that were pending when the bars were read.

## Runs and bounds

| run | instance | shows |
|---|---|---|
| `Dispatch` | 1 ride, 3 drivers, 3 requests of every kind, every status in a PUT, no restart; requests and drivers symmetric | `TypeOK`, `DispatchContinues`, `NoRepeatedOffer`, `CurrentRideHasDriver` |
| `DispatchLive` | 1 ride, 2 drivers, one without a token and one excluded earlier, a driver going offline, 1 restart, bookings, acceptances, and PUTs that reject the ride or make it pending again | `SearchEnds` |
| `Trip` | a wallet ride and a cash ride of one driver and passenger, 2 trip requests of every kind, a cancellation by the passenger or a PUT that completes, 1 restart | `TripTypeOK`, `PaidIsSettled`, `NoFreeCredit`, `CashIsSettled`, `WalletsFollowLedger` |
| `TripLive` | the same rides, 3 overlapping completions and confirmations | `CompletionFreesDriver`, `ConfirmationBills` |
| `Purchases` | 1 driver, 1 vehicle with a permit that may lapse, 3 requests of any kind, 1 restart | `PurTypeOK`, `CompletedIsFulfilled`, `FlagMeansPaid`, `WithdrawalHeld`, `DriverKeepsSubscription` |
| `PurchasesLive` | subscriptions and permits only, 3 requests, 1 restart | `LapsedIsMarked`, `CallbackSettles` |
| `Documents` | 1 driver, 2 vehicles, one document type each, none to two documents there before, 3 requests of the kinds of one of the sets `DocOpSets`, 1 restart | `DocTypeOK`, `VerifiedWasReviewed`, `FleetOfVerifiedDriver`, `PapersKept`, `VersionsInOrder`, `PrimaryKept`, `VerifiedStaysAsReviewed` |
| `Accounts` | the super administrator, another, three addresses, three role names, 2 to 4 requests of the kinds of one of `TheMixes`, 1 stop | `AccTypeOK`, `NamesAreDirectories`, `ConfirmedByCode`, `ResetOfOwnAccount`, `TokenOfProvenAddress` |
| `Compliance` | two or three kinds of paper at a time (`TheFiles`, every kind in some of them), the others verified; no bound on requests or time | `CompTypeOK`, `AnswersAgree`, `CountsAgree` |
| `Platform` | one driver and one passenger; one owner, one ride to rate, two phones and two contacts at most; two types, two zones, two places, two distances, one period with steps of no way; months of 2 to 4 days, 10 days, earnings asked for once; 2 to 4 requests of the kinds of one of `TheMixes`, 1 stop | `MappedSocketIsOpen`, `OneRideAtATime`, `OwnersRules`, `QuotesAreFair`, `EarningsAddUp` |
| `ClaimSoleWinner`, `ClaimChargedOnce` | 2 to 4 requests | refute a comment, see below |

*Why the bounds are enough.*  The races are between two handlers and at most one
more that sets them up: booking plus two drivers, or one order plus two reports
of it.  Three requests cover every pair with any third.  A queue of three has a
driver before, at and after the one being asked.  Two rides of the same people
are what a wallet update can mix up.  One restart can fall between any two steps;
a second only repeats that.  `Puts` holds every status in `Dispatch`; in
`DispatchLive` the two that reach a pending ride again, in `Trip` the one that
ends a ride without a bill, a PUT that cancels being a cancellation with other
guards.  Requests are bounded by the number
of processes, and no counter is otherwise bounded except `restarts` and `crashes`
(`MaxRestarts`), `stops` (`MaxStops`), lists of quotes and requests for earnings
(`MaxQuotes`, `MaxAsked`), the day (`LastDay`) and the documents saved (`MaxDocs`:
three uploads meet it only when two documents were there before, and the third then
waits).  In
`Documents` a restart takes place while requests are in progress: otherwise it
changes nothing.  `DocOpSets` groups the kinds of request that touch common state:
uploads, edits and removals against each other and against reviews; the
verification of the driver against the addition of a vehicle; what is done to
vehicles; the reviews of a vehicle against those of its documents.
`TheMixes` does the same for the later modules: a mix names the kinds that meet and
how many of them.  A user's account, papers and contacts concern nobody else, so one
owner is enough there; that three addresses pass between four accounts lets an
address return to a third.  `Compliance` follows every kind of paper, but two or
three at a time, because each of its rules is about one kind or about all; and it
explores all orders, without a bound.  The calendar of `Earnings` has months shorter
than the day on which the histogram is asked for, which is what the arithmetic can
trip over; three days and four months back stand for seven and twelve, and
`LastDay` lets the day pass a month's end in between.  One request for the earnings
(`MaxAsked`) meets three others, which enter fares and complete them before, between
or after its two reads; a second would read the same ledger.  The types of
the four small modules (`PlatTypeOK`) hold on the same instance.
`CHECK_DEADLOCK FALSE` is set where the bounded requests are simply used up.
Symmetry is used only where no temporal property is checked under fairness.

## Fairness

`FairSpec` and `FairTripSpec` are weakly fair to each received request: Node's
event loop runs every settled promise and every timer in the end, and the
database answers or throws.  Nobody owes a request, so none is fair.
`FairPurSpec` is fair to unfinished requests and the daily jobs together, one
condition for all: requests are finitely many and each step ends, so each of
them is still served.  Liveness properties excuse a restart, because nothing
resumes a handler that was lost; that is itself a finding about the design: no
timer, confirmation or callback is recovered at start-up.  `SearchEnds` also
excuses a refused acceptance that has written back an old status, and a PUT that
has written PENDING (below).

## Proofs

TLAPS checks these for every value of the constants, under the assumptions named
beside the constants: finite sets of drivers, distinct absent values, natural
amounts and bounds, an owner for each vehicle, at least one user, phone and
distance, types and zones that obey their schemas, and a calendar whose months
follow each other, none longer than two others together, and which covers the days
the server runs; and in `RideTrip`, no PUT that accepts a ride.  `Presence`, `Personal`, `Fares` and `Earnings` share no
variable but those of `Handlers`, and each is proved about under its own
specification (`PresenceSpec`, `PersonalSpec`, `FaresSpec`, `EarningsSpec`);
`MCPlatform` chooses one of them for a behaviour.

| theorem | says | argument |
|---|---|---|
| `TypeInvariance`, `TypeCorrect` | `Spec => []TypeOK` | `TypeOK` is not inductive: `ProcOK` adds that a process that uses its driver or its queue has one |
| `RideUnderWayHasDriver` | `Spec => []CurrentRideHasDriver` | a stale status may be written back, so `SeenWithDriver` says that whoever holds such a status read it from a ride with a driver, and no write takes a driver away |
| `PendingRideIsNotForgotten` | `Spec => []DispatchContinues` | `ContinuesInv`: a fresh booking is the only process about its ride; an assignment in progress holds the ride; each step either keeps a process that drives the ride or makes another drive it, and the two that write PENDING without, the catch of an acceptance and a PUT, are named (`WroteBack`, `PutBack`) |
| `NobodyIsAskedTwice` | `Spec => []NoRepeatedOffer` | `RepeatInv`: a ride has one booking, and only bookings and cancellations by drivers run the chain (`OpOK`); whom a chain holds or may still pop is distinct and not asked yet (`ChainHolds`); the others at most delete the queue |
| `TripTypeInvariance`, `TripTypeCorrect` | `TripSpec => []TripTypeOK` | `RecordOK`: what a request has read at each step |
| `CreditsAreCharged`, `PaidRideIsSettled` | `TripSpec => []NoFreeCredit`, `[]PaidIsSettled` | `SettleInv`: entries only move forward, and a request at a step past a save knows that entry settled |
| `WalletsFollow` | `TripSpec => WalletsFollowLedger` | the only step that raises a driver's balance comes after both saves |
| `CashRideIsSettled` | `TripSpec => []CashIsSettled` | `CashInv`: a cash ride has no entry of the passenger, so the entry a completion finds and settles is the driver's; a step that bills the ride leaves its completion before that save, and nothing opens a settled entry again |
| `PurTypeInvariance`, `PurTypeCorrect` | `PurSpec => []PurTypeOK` | `RecordOK`: the driver, order and kind of request at the steps that use them; orders of deposits and rides have a driver; ledger sums are integers because the requests are finitely many |
| `CompletedOrdersFulfilled`, `FlaggedVehiclesPaid`, `OpenWithdrawalsHeld`, `SubscribersKeepOne` | `PurSpec => []CompletedIsFulfilled`, `[]FlagMeansPaid`, `[]WithdrawalHeld`, `[]DriverKeepsSubscription` | `Sound`: no document bears the name of a request that has not come to write it (`NotYet`); a report of the gateway has granted what its order is for when it is about to settle (`Reporting`); a payment is completed before the flag, an amount released before its request is closed (`Working`); the job has read subscriptions that had run out.  `Kept` says what no step takes back, and from it follow the facts about every request but the one that moves |
| `DocInvariance`, `DocTypeCorrect` | `DocSpec => []DocTypeOK` | `RequestOK`: a request at a step that writes a document or a vehicle has one, and saved documents stay |
| `VerifiedOnReviews` | `DocSpec => []VerifiedWasReviewed` | `ReviewInv`: a request about to write a flag or a status as true counted documents that had been reviewed; a review is never undone (`KeptDoc`: what no step does to a saved document) |
| `ApprovalIsOfContent` | `DocSpec => []VerifiedStaysAsReviewed` | `KeptDoc` of every step: the edit is the only write of the details, and it writes `pending` |
| `VersionsFollow` | `DocSpec => []VersionsInOrder` | `VersionInv`: an upload past its first write knows that the version it replaces is out of force, of its owner and type, and one version before its own |
| `FleetIsVerified`, `FleetKeepsPrimary`, `PapersStayInForce` | `DocSpec => []FleetOfVerifiedDriver`, `[]PrimaryKept`, `[]PapersKept` | `FleetInv`: what a request is for at each step (`Purpose`: one that unsets primary vehicles is about to set one, one that clears the flag without that is an update) and what it relies on (`Relies`: a vehicle about to be added is not there yet and its driver may have it; one that is not made primary joins others); `ReviewInv` vouches for the driver, `VersionInv` says which version an upload is about to follow |
| `AccountTypes` | `AccSpec => []AccTypeOK` | `ReadOK`: a request at a step that uses an account or a role has read one that was there |
| `IndexesAreDirectories` | `AccSpec => NamesAreDirectories` | the two indexes (`Unique`) and a history that a deleted account or role never returns; every step then maps to a step of `Directory` or to a stutter, one lemma for each way the collections are written |
| `TokensOfProvenAddresses`, `ResetsOfOwnAccount`, `ConfirmationsByCode` | `AccSpec => []TokenOfProvenAddress`, `[]ResetOfOwnAccount`, `ConfirmedByCode` | `Evid`: a stored code was written for the account it is stored in, by a request that is over; a passenger or driver keeps the address and its confirmation; so the request that verifies a code acts for the account it was written for.  One lemma says what every step keeps (`Kept`) and the rest follow from it |
| `CompTypeCorrect`, `BothCountsAgree`, `ApplicationsAgree` | `CompSpec => []CompTypeOK`, `[]CountsAgree`, `[]AnswersAgree` | `CompInv` is the first two together: each needs the types, and every step either counts the papers again, says that they are not counted, or writes none that counts (`Counted`, `Uncounted`).  The answers are functions of such a state, so `AnswersAgree` follows without a step: one lemma for the driver's answers, one for the report, one for the vehicle's, and the last from the flags that were counted |
| `MappingsFollowConnections` | `PresenceSpec => []MappedSocketIsOpen` | `Mappings`, `Commands`: every connection that is mapped, or that a command on its way to Redis will map, is one of that user, and is open, was cut off by a stop, or has its removal behind it in the pipe (`Awaits`); Redis running the first command turns the second case into the first |
| `DriversKeepToOneRide` | `PresenceSpec => []OneRideAtATime` | `Bound`, of a driver who is not loose: one handler at a time is about him; when he is available and none is about to write that, he is on no ride; a handler about to assign a ride found him on none, and one about to restore a status found him on none but its own |
| `OwnersRulesKept` | `PersonalSpec => []OwnersRules` | `PersonalInv`, one part for each matter (`AccountsInv`, `PapersInv`, `ContactsInv`, `RatingsInv`): of an owner who is calm on a matter, one handler at a time is at work, and what it has read of his documents still holds; the default of a deleted account waits for the handler that hands it on (`TakenOver`), a paper out of force has a later one (`Succeeded`) |
| `ListsAreFair` | `FaresSpec => []QuotesAreFair` | `FaresInv`: a list during which no zone changed has been priced in the zones of now.  That the search for a period and the fare of the code are those of the reference (`RangeIsCover`, `ApartIsGap`, `PeriodFound`, `BegunIs`, `LongIs`) that no number of steps makes up the way exactly where they are of no way, and that a shorter way costs no more (`ShorterCostsNoMore`) are lemmas about the operators, by arithmetic |
| `HistogramAddsUp` | `EarningsSpec => []EarningsAddUp` | of the calendar, for any day and any entries: the step from a day that the next month has too passes over no month (`OneMonthOn`), so a month is missed only if it is too short, and the next step starts from a day that every month has (`OneMonthMissing`).  The walk is a recursive function: `BarsExist` names it, and its properties follow by looking at the last day from which they would fail, which needs no induction theorem.  Of a request at work, the invariant says that the fares of its bars are completed and in its range, and that any other that is completed there since was pending when they were read |

Every invariant and action property that a passing run checks has a theorem here.
Only model-checked: the liveness properties (`SearchEnds`, `CompletionFreesDriver`,
`ConfirmationBills`, `LapsedIsMarked`, `CallbackSettles`), because fairness is out
of the prover's reach.

## Where the code does not do what it says

Refuted by a run (`PROJECT.json` "findings" quotes the line):

- `ClaimSoleWinner`: two drivers accept the same ride; each passes "Check if ride
  is still available" before either writes.
- `ClaimChargedOnce`: two overlapping confirmations settle, and move balances, twice.

Seen while modelling, modelled as the code does it, and without a run of its own:

**Dispatch and payment**

- Two bookings give a passenger two rides: the check for an active ride
  (rides.service.ts:146) does not look for SEARCHING or PENDING.
- A cancellation that read the ride before its completion cancels the completed
  ride (rides.service.ts:1053-1059).
- Two uploads of one type that overlap leave two active documents of the same
  version, two choices of a primary vehicle may leave two primary vehicles, and
  deleting the primary vehicle leaves an inactive one primary.
- A driver's new or edited document does not take the driver's verification
  back; only a review counts again.
- `PUT /rides/:id` lets anyone signed in write a status: REJECTED ends the chain of
  offers at the next timer, PENDING after it brings a ride back that nobody asks a
  driver for, and whoever writes ACCEPTED, a passenger as well, becomes the driver
  (rides.service.ts:892, "Assuming the user updating is the driver").
- `rejectRide` sets a key with TTL 0 and fails there; the driver stays current
  until the timer.
- A dispatch resumed after a driver's cancellation leaves the ride
  `REJECTED_BY_DRIVER`, which `acceptRide` refuses.
- The catch of `acceptRide` writes back the status it has just re-read, over
  whatever happens meanwhile; a refused driver is made available even when busy
  with another ride.
- Exclusion after a cancellation lasts 3 minutes where comments say 30.
- The final fare amends only the first entry found, the passenger's.
- Confirming a cash payment fails (the entry names no wallet); `startRide` writes
  the status before validating it.
- A deposit is added to the balance when it is opened and again when it is
  reported; a repeated report adds again; balances are written from values read
  awaits earlier.  The ledger the decisions are made by is not affected.
- Two overlapping subscriptions may both stay active, two overlapping withdrawals
  may both be pending, two overlapping issues may both be active.
- The socket messages `driver_response` and `cancel_ride` always fail.
- The queue runs empty while a driver accepts: the ride is cancelled under him.
- Two issues of a permit use one payment, and the mark even goes to any completed
  payment of the vehicle.
- The balance of a wallet ride is compared at booking with the price the client
  sends; `confirmPayment` debits fare, tips and toll without looking again.
- A permit paid by card leaves a completed debit that counts against the wallet;
  `Math.max(0, ...)` hides the negative balance.  Pending withdrawals hold nothing
  back in the balance that is shown.

**Drivers and presence**

- Going online in the location module does not look for an active ride, which the
  profile (driver.service.ts:797-812) does; and that check does not count
  RIDE_REACHED_DESTINATION.  So a driver can take a second ride, and completing
  the first frees him during it.
- A refused acceptance, also of a ride that is no longer on offer, makes the driver
  available; a passenger's cancellation leaves him busy.
- A driver who cancels an offer he was given earlier is made available
  (driverRide.service.ts:632-645 writes it without a look at other rides), also
  while he is on another ride.
- `currentRideId` is never set, but going offline sets it to null, after which the
  search for a driver without one (`$exists: false`) no longer finds him.
- A ping over the socket does not refresh `lastLocationUpdate`: a driver who only
  pings so is not found after ten minutes.
- A late disconnection unmaps the socket that replaced it.
- `findNearbyDriversWithVehicles` uses `$near` inside an aggregation and always fails.

**Documents**

- Rejecting a vehicle's document leaves the vehicle complete; an upload that counted
  before an approval writes its count after it.
- The additional papers of a taxi are asked for by comments
  (adminDrivers.service.ts:1428, 1434) and by the driver's summary, but by no count
  that sets a flag; a vehicle may become a taxi after its approval.
- The general `createVehicleDocument` refuses four types that it validates.
- `getUploadProgress` can exceed 100 %; a rejected rental agreement or letter leaves
  an empty next step; an expired verified document blocks and yet may not be
  uploaded again (`canReupload`).
- A driver's profile always lists "No verified vehicle available"
  (driver.service.ts:653): it compares a status with `VERIFIED`, the enum holds
  `verified`.
- Uploads by a driver do not count the flags again; `updateExpiryFlags` and
  `setVehicleEvpForPayment` have no caller.

**Accounts**

- An administrator who changes the address of the own profile becomes unconfirmed,
  and no endpoint confirms administrators.
- A reset looks a user up by e-mail once to compare the code and once to write: it
  may write another account that has taken the address; two resets can use one code.
- Drivers get a wallet at login only while the super administrator has none; then a
  second such login fails on the unique index.
- `removeRole` counts the users of a role and then deletes it: an assignment between
  the two leaves a user with a role that is gone.

**What users keep**

- Overlapping requests leave two defaults, two ratings of a ride, or more contacts
  than allowed; a deleted bank account may be made default, which leaves no active
  one; changing a contact does not compare phones; deleting the primary contact
  leaves none; an edit switches the default bank account off, or a deleted one on,
  and hands nothing on.
- `resolveReport` writes `RESOLVED`, which is not in `IssueStatus`.
- The average rating is always 0: the aggregation matches an id with a string.

**Fares, settings and earnings**

- A pricing period with an `incrementalDistance` of 0, which schema and DTO accept,
  makes the price Infinity or NaN, sent as null where the DTO says a number.
- Bars and total of the earnings are read one after the other: a fare completed in
  between is in the total and in no bar.
- Two first requests create two settings documents; updates of the second are lost.
- `calculateRideDetails` looks for a type `TAXI` where the enum has `taxi`, so it
  always falls back, and its result is discarded.
- `checkLocationZone` asks for a field `boundaries` that zones do not have.
- The weekly histogram and `calculateDriverStatistics` compare the type of an entry,
  stored as a string, with a number: always 0.  By months, `setMonth(+1)` from the
  29th to the 31st skips a month.

## Not modelled

Lists, exports, reports, the dashboard and the histogram by weeks change no state.
Notifications, e-mail and files are output whose failure nothing depends on.  The
Firebase ride service is unreachable; scripts are run by hand.  FAQs, plans and the
permissions listed in a role are single documents edited by administrators.  Of
accounts: push tokens, accepted terms, access tokens (stateless) and hashing.  Of
fares: floating point, the traffic service and the geometry of zones, which are given
by the places they cover.  `get-or-create` of a wallet outside the login.  Details of
documents and their validation, plates and VINs, the price of a permit.  Errors of Redis or MongoDB in the
middle of a handler, except where a catch writes, and the expiry of the queue keys.
The reasons per component are in `PROJECT.json` "components".

## Plan

1. `RideContract`: the life of a ride as the applications see it, abstractly, with
   `Dispatch` and `RideTrip` shown to implement what of it they do, checked in
   their runs and then proved step by step.
2. `Presence` composed with `RideTrip`: the driver freed by a completion, against the
   pings of his socket.
