--------------------------------- MODULE Fares ---------------------------------
(***************************************************************************)
(* What a ride costs: the vehicle types with their prices by the time of    *)
(* the day, the pricing zones, the settings, which administrators change    *)
(* while passengers ask for quotes, and the quote itself, made type by type *)
(* with the zones read again for each.                                      *)
(*                                                                         *)
(* Vehicle types and zones are kept by name: both collections have a unique *)
(* index on it.  Times are units of the day, distances units of way; prices *)
(* are integers.                                                            *)
(***************************************************************************)
EXTENDS Handlers, Sequences

CONSTANTS
    TypeNames,      \* members of VehicleTypeEnum
    ZoneNames,
    Places,
    NoPlace,
    DayLength,      \* 24 h in the units of time; an even number
    TypeForms,      \* what administrators write: [capacity, active, periods]
    ZoneForms,      \* [active, radius, multiplier, covers]
    InitialTypes, InitialZones,
    Distances,
    MaxQuotes,      \* bound: lists of quotes asked for
    NoForm,
    NoPrice         \* null, which Infinity and NaN are sent as

ASSUME FaresAssumption ==
    /\ DayLength \in Nat \ {0} /\ Distances \subseteq Nat /\ Distances /= {}
    /\ NoForm \notin TypeForms \cup ZoneForms /\ NoPlace \notin Places /\ NoPrice \notin Nat

Times == 0..(DayLength - 1)

(* The documents: a type with its prices by the time of the day, and a zone,  *)
(* with the places it covers for its centre and radius.                        *)
PricingPeriod == [start : Times, end : Times, baseFare : Nat, baseDistance : Nat,
                  incrementalDistance : Nat, incrementalRate : Nat, longDistance : Nat,
                  longDistanceSurcharge : Nat]
VehicleType == [capacity : Nat, active : BOOLEAN, periods : Seq(PricingPeriod)]
PricingZone == [active : BOOLEAN, radius : Nat, multiplier : Nat \ {0}, covers : SUBSET Places]

ASSUME FormsAssumption ==
    /\ \A form \in TypeForms : form \in VehicleType
    /\ \A form \in ZoneForms : form \in PricingZone
    /\ InitialTypes \subseteq [TypeNames -> TypeForms \cup {NoForm}]
    /\ InitialZones \subseteq [ZoneNames -> ZoneForms \cup {NoForm}]

VARIABLES
    vtype,          \* vehicleType, by name
    zone,           \* pricing zones, by name
    settings,       \* the requests that created a settings document, in order
    quoting,        \* the quote, or the write, each request is at
    quotes,         \* the prices shown
    stirred         \* history: requests while which a zone, or the first settings, changed

faresVars == <<vtype, zone, settings, quoting, quotes, stirred>>

--------------------------------------------------------------------------------
Least(S) == CHOOSE k \in S : \A j \in S : k <= j
Greatest(S) == CHOOSE k \in S : \A j \in S : j <= k

(* calculateTimeDifference *)
TimeDifference(a, b) ==
    LET diff == IF a < b THEN b - a ELSE a - b IN
    IF diff > DayLength \div 2 THEN DayLength - diff ELSE diff

(* Mutant: no period lasts over midnight. *)
IsTimeInRangeOfDay(t, p) == p.start <= t /\ t < p.end

IsTimeInRange(t, p) ==
    IF p.start < p.end THEN p.start <= t /\ t < p.end
                       ELSE t >= p.start \/ t < p.end

(* The first period the time is in; or else the first of the closest. *)
FindApplicablePricingPeriod(periods, t) ==
    LET inRange == {k \in DOMAIN periods : IsTimeInRange(t, periods[k])}
        diff(k) == Least({TimeDifference(t, periods[k].start), TimeDifference(t, periods[k].end)})
        closest == {k \in DOMAIN periods : \A j \in DOMAIN periods : diff(k) <= diff(j)}
    IN periods[Least(IF inRange /= {} THEN inRange ELSE closest)]

CeilDiv(a, b) == (a + b - 1) \div b

(* calculateTimeBasedFare, before the zones are applied.  A step of no way is   *)
(* divided by all the same: the fare is Infinity, or NaN when the step is free. *)
PeriodFare(p, distance) ==
    IF distance > p.baseDistance /\ p.incrementalDistance = 0 THEN NoPrice ELSE
    p.baseFare
    + (IF distance > p.baseDistance
         THEN CeilDiv(distance - p.baseDistance, p.incrementalDistance) * p.incrementalRate ELSE 0)
    + (IF distance >= p.longDistance /\ p.longDistance > 0
         THEN (distance \div p.longDistance) * p.longDistanceSurcharge ELSE 0)

ZonedFare(fare, factor) == IF fare = NoPrice THEN NoPrice ELSE fare * factor

(* Minutes, at 30 km/h. *)
EstimateDuration(distance) == 2 * distance

(* calculateFare, in hundredths. *)
CalculateFare(distance) == 300 + 125 * distance + 25 * EstimateDuration(distance)

(* Of the active zones around the place, the one with the smallest radius. *)
FindZoneForLocation(place) ==
    LET around == {z \in ZoneNames : /\ zone[z] /= NoForm /\ zone[z].active
                                     /\ place \in zone[z].covers}
    IN IF around = {} THEN NoForm
       ELSE zone[CHOOSE z \in around : \A y \in around : zone[z].radius <= zone[y].radius]

MultiplierAt(place) ==
    LET z == FindZoneForLocation(place) IN IF z = NoForm THEN {} ELSE {z.multiplier}

--------------------------------------------------------------------------------
Quoting == [left : SUBSET TypeNames, of : [TypeNames -> TypeForms \cup {NoForm}],
            distance : Distances, from : Places \cup {NoPlace}, to : Places \cup {NoPlace},
            time : Times, pickup : SUBSET Nat, doc : Requests \cup {0}]

(* What is shown of a type, and what the price was made from. *)
VehiclePrice == [of : Requests, type : TypeNames, periods : Seq(PricingPeriod), time : Times,
                 distance : Distances, factors : SUBSET Nat, price : Nat \cup {NoPrice}]

Idle == [left |-> {}, of |-> [v \in TypeNames |-> NoForm], distance |-> CHOOSE d \in Distances : TRUE,
         from |-> NoPlace, to |-> NoPlace, time |-> 0, pickup |-> {}, doc |-> 0]

FaresInit ==
    /\ vtype \in InitialTypes
    /\ zone \in InitialZones
    /\ settings = <<>>
    /\ quoting = [r \in Requests |-> Idle]
    /\ quotes = {}
    /\ stirred = {}

RunningNow == {r \in Requests : Running(r)}

(* getVehiclesByCapacityAndPrice reads the active types once. *)
GetVehiclesByCapacityAndPrice(r, capacity, distance, from, to) ==
    LET eligible == {v \in TypeNames : /\ vtype[v] /= NoForm /\ vtype[v].active
                                       /\ vtype[v].capacity >= capacity} IN
    /\ Cardinality({q \in Requests : op[q] = "quote"}) < MaxQuotes
    /\ Receive(r, "quote", IF eligible = {} THEN "failed" ELSE "pickupZone")
    /\ quoting' = [quoting EXCEPT ![r] = [Idle EXCEPT !.left = eligible, !.of = vtype,
                                           !.distance = distance, !.from = from, !.to = to]]
    /\ UNCHANGED <<vtype, zone, settings, quotes, stirred>>

NextType(r) == CHOOSE v \in quoting[r].left : TRUE
PeriodsFor(r) == quoting[r].of[NextType(r)].periods

Show(r, time, factors, price) ==
    /\ quotes' = quotes \cup {[of |-> r, type |-> NextType(r), periods |-> PeriodsFor(r), time |-> time,
                               distance |-> quoting[r].distance, factors |-> factors, price |-> price]}
    /\ quoting' = [quoting EXCEPT ![r].left = @ \ {NextType(r)}, ![r].time = 0, ![r].pickup = {}]
    /\ Goto(r, IF quoting[r].left = {NextType(r)} THEN "done" ELSE "pickupZone")
    /\ UNCHANGED <<vtype, zone, settings, stirred>>

(* The time is read anew for each type. *)
PickupZone(r) ==
    /\ At(r, "pickupZone")
    /\ \E time \in Times :
       IF PeriodsFor(r) = <<>> THEN Show(r, time, {}, CalculateFare(quoting[r].distance))
       ELSE IF NoPlace \in {quoting[r].from, quoting[r].to}
         THEN Show(r, time, {}, PeriodFare(FindApplicablePricingPeriod(PeriodsFor(r), time),
                                           quoting[r].distance))
         ELSE /\ quoting' = [quoting EXCEPT ![r].time = time,
                                            ![r].pickup = MultiplierAt(quoting[r].from)]
              /\ Goto(r, "dropoffZone")
              /\ UNCHANGED <<vtype, zone, settings, quotes, stirred>>

DropoffZone(r) ==
    /\ At(r, "dropoffZone")
    /\ LET factors == quoting[r].pickup \cup MultiplierAt(quoting[r].to)
           factor == IF factors = {} THEN 1 ELSE Greatest(factors)
           period == FindApplicablePricingPeriod(PeriodsFor(r), quoting[r].time)
       IN Show(r, quoting[r].time, factors, ZonedFare(PeriodFare(period, quoting[r].distance), factor))

--------------------------------------------------------------------------------
(* Administrators write types and zones: a look at what is there, then a write, *)
(* which the unique index refuses when another request took the name meanwhile  *)
(* and which finds nothing to change when one removed the document: one action. *)

TypeWritten(r, kind, v, form) ==
    /\ Receive(r, kind, "done")
    /\ vtype' = [vtype EXCEPT ![v] = form]
    /\ UNCHANGED <<zone, settings, quoting, quotes, stirred>>

CreateVehicleType(r, v, form) == vtype[v] = NoForm /\ TypeWritten(r, "createType", v, form)
UpdateVehicleType(r, v, form) == vtype[v] /= NoForm /\ TypeWritten(r, "updateType", v, form)
RemoveVehicleType(r, v) == vtype[v] /= NoForm /\ TypeWritten(r, "removeType", v, NoForm)

ZoneWritten(r, kind, z, form) ==
    /\ Receive(r, kind, "done")
    /\ zone' = [zone EXCEPT ![z] = form]
    /\ stirred' = stirred \cup RunningNow
    /\ UNCHANGED <<vtype, settings, quoting, quotes>>

CreateZone(r, z, form) == zone[z] = NoForm /\ ZoneWritten(r, "createZone", z, form)
UpdateZone(r, z, form) == zone[z] /= NoForm /\ ZoneWritten(r, "updateZone", z, form)
RemoveZone(r, z) == zone[z] /= NoForm /\ ZoneWritten(r, "removeZone", z, NoForm)

(* A rename, to a name that is free. *)
RenameZone(r, z, y) ==
    /\ zone[z] /= NoForm /\ zone[y] = NoForm
    /\ Receive(r, "updateZone", "done")
    /\ zone' = [zone EXCEPT ![z] = NoForm, ![y] = zone[z]]
    /\ stirred' = stirred \cup RunningNow
    /\ UNCHANGED <<vtype, settings, quoting, quotes>>

--------------------------------------------------------------------------------
(* The settings document, made when first asked for.  findOne takes the first. *)

UseSettings(r) ==
    /\ Receive(r, "settings", IF settings = <<>> THEN "createSettings" ELSE "writeSettings")
    /\ quoting' = [quoting EXCEPT ![r].doc = IF settings = <<>> THEN r ELSE Head(settings)]
    /\ UNCHANGED <<vtype, zone, settings, quotes, stirred>>

CreateSettings(r) ==
    /\ At(r, "createSettings")
    /\ settings' = Append(settings, r)
    /\ stirred' = stirred \cup {q \in RunningNow \ {r} : op[q] = "settings"}
    /\ Goto(r, "writeSettings")
    /\ UNCHANGED <<vtype, zone, quoting, quotes>>

(* updatePrivacyPolicy, updateTermsAndConditions, updateEvpPrice: by the id read. *)
WriteSettings(r) ==
    /\ At(r, "writeSettings")
    /\ Goto(r, "done")
    /\ UNCHANGED faresVars

--------------------------------------------------------------------------------
QuoteRoutes(r) ==
    \E distance \in Distances, capacity \in {vtype[v].capacity : v \in {w \in TypeNames : vtype[w] /= NoForm}} :
        \/ GetVehiclesByCapacityAndPrice(r, capacity, distance, NoPlace, NoPlace)
        \/ \E from, to \in Places : GetVehiclesByCapacityAndPrice(r, capacity, distance, from, to)

TypeRoutes(r) ==
    \E v \in TypeNames : \/ RemoveVehicleType(r, v)
                         \/ \E f \in TypeForms : CreateVehicleType(r, v, f) \/ UpdateVehicleType(r, v, f)

ZoneRoutes(r) ==
    \E z \in ZoneNames : \/ RemoveZone(r, z)
                         \/ \E y \in ZoneNames : RenameZone(r, z, y)
                         \/ \E f \in ZoneForms : CreateZone(r, z, f) \/ UpdateZone(r, z, f)

FaresReceive(r) ==
    /\ IsTurnOf(r)
    /\ QuoteRoutes(r) \/ TypeRoutes(r) \/ ZoneRoutes(r) \/ UseSettings(r)

FaresStep(r) ==
    PickupZone(r) \/ DropoffZone(r) \/ CreateSettings(r) \/ WriteSettings(r)

FaresNext == \E r \in Requests : FaresReceive(r) \/ FaresStep(r)

(* A stop loses the handlers alone. *)
FaresStop == UNCHANGED faresVars

FaresSpec ==
    HandlersInit /\ FaresInit
    /\ [][FaresNext \/ (Stop /\ FaresStop)]_<<handlerVars, faresVars>>

--------------------------------------------------------------------------------
FaresTypeOK ==
    /\ vtype \in [TypeNames -> TypeForms \cup {NoForm}]
    /\ zone \in [ZoneNames -> ZoneForms \cup {NoForm}]
    /\ settings \in Seq(Requests)
    /\ quoting \in [Requests -> Quoting]
    /\ \A q \in quotes : q \in VehiclePrice
    /\ stirred \subseteq Requests

(* The reference: time runs round the day, and a fare counts what was begun. *)
Until(a, b) == (b + DayLength - a) % DayLength
Covers(p, t) == p.start = p.end \/ Until(p.start, t) < Until(p.start, p.end)
Gap(p, t) == Least({Until(t, p.start), Until(p.start, t), Until(t, p.end), Until(p.end, t)})

IsPeriodFor(periods, t, k) ==
    IF \E j \in DOMAIN periods : Covers(periods[j], t)
      THEN Covers(periods[k], t) /\ \A j \in 1..(k - 1) : ~ Covers(periods[j], t)
      ELSE \A j \in DOMAIN periods : IF j < k THEN Gap(periods[k], t) < Gap(periods[j], t)
                                              ELSE Gap(periods[k], t) <= Gap(periods[j], t)

Begun(p, d) == Cardinality({n \in 0..d : p.baseDistance + n * p.incrementalDistance < d})
Endless(p, d) == \A n \in 0..d : p.baseDistance + n * p.incrementalDistance < d
Long(p, d)  == Cardinality({n \in 1..d : n * p.longDistance <= d /\ p.longDistance > 0})

FareOf(q, distance) ==
    IF q.periods = <<>> THEN 300 + 175 * distance
    ELSE LET p == q.periods[CHOOSE k \in DOMAIN q.periods : IsPeriodFor(q.periods, q.time, k)]
             factor == IF q.factors = {} THEN 1 ELSE Greatest(q.factors)
         IN IF Endless(p, distance) THEN NoPrice
            ELSE (p.baseFare + Begun(p, distance) * p.incrementalRate
                    + Long(p, distance) * p.longDistanceSurcharge) * factor

(* Every price shown is the one of the period that the time of day falls in,   *)
(* over midnight too, or that is nearest round the clock, and no shorter way    *)
(* would cost more; it is no price at all once the way is longer than the base  *)
(* distance and no number of steps makes up the rest, as the schema lets        *)
(* periods be.  The types of one list are priced in the same zones, unless one  *)
(* was changed meanwhile; and there is one settings document unless the first   *)
(* requests for it met.                                                         *)
QuotesAreFair ==
    /\ \A q \in quotes :
          /\ q.price = FareOf(q, q.distance)
          /\ q.price /= NoPrice =>
                \A d \in Distances : d <= q.distance => FareOf(q, d) \in 0..q.price
    /\ \A q, s \in quotes :
          (q.of = s.of /\ q.of \notin stirred /\ <<>> \notin {q.periods, s.periods})
             => q.factors = s.factors
    /\ Len(settings) <= 1 \/ \E r \in stirred : op[r] = "settings"
================================================================================
