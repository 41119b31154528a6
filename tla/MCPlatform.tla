------------------------------- MODULE MCPlatform ------------------------------
(* Presence, Personal, Fares and Earnings on small instances.  They share the  *)
(* requests, and the stop that ends their handlers, but no document: the        *)
(* requests of a behaviour are to one of them.                                  *)
EXTENDS Presence, Personal, Fares, Earnings, TLC

CONSTANTS t1, t2, z1, z2, pa, pb

Mix(n, kinds) == [upto |-> n, kinds |-> kinds]
TheMixes == {
    Mix(4, {"offer", "accept", "complete"}),
    Mix(3, {"offer", "accept", "complete", "cancelRide", "driverStatus", "report"}),
    Mix(3, {"offer", "accept", "connect", "locate"}),
    Mix(4, {"addAccount", "editAccount", "dropAccount"}),
    Mix(4, {"uploadPaper", "editPaper", "reviewPaper"}),
    Mix(3, {"addContact", "removeContact", "editContact"}),
    Mix(3, {"rate"}),
    Mix(3, {"reportIssue", "assignReport", "resolveReport"}),
    Mix(2, {"quote", "createType", "updateType", "removeType"}),
    Mix(2, {"quote", "createZone", "updateZone", "removeZone"}),
    Mix(3, {"settings"}),
    Mix(4, {"credit", "settle", "earnings"}) }

(* Months of 3, 2, 4, 3, 4, 2, 4 and 3 days. *)
TheCalendar == <<0, 3, 5, 9, 12, 16, 18, 22, 25>>

Period(start, end, fare, base, step, rate, long, surcharge) ==
    [start |-> start, end |-> end, baseFare |-> fare, baseDistance |-> base,
     incrementalDistance |-> step, incrementalRate |-> rate, longDistance |-> long,
     longDistanceSurcharge |-> surcharge]

(* The default periods, a day of 8 units of 3 hours; periods that leave gaps   *)
(* and last over midnight, one with a step of no way; one that never ends.     *)
ByDefault == << Period(3, 6, 6, 2, 1, 1, 0, 0), Period(6, 7, 7, 2, 1, 1, 0, 0),
                Period(7, 0, 8, 2, 1, 2, 0, 0), Period(0, 2, 9, 2, 1, 2, 0, 0),
                Period(2, 3, 7, 2, 1, 1, 0, 0) >>
WithGaps == << Period(7, 1, 9, 1, 2, 3, 4, 5), Period(4, 5, 4, 2, 0, 1, 3, 2) >>
AllDay == << Period(6, 6, 5, 1, 3, 2, 5, 1) >>

TypeForm(capacity, active, periods) == [capacity |-> capacity, active |-> active, periods |-> periods]
TheTypes == { TypeForm(4, TRUE, ByDefault), TypeForm(8, TRUE, WithGaps), TypeForm(4, TRUE, AllDay),
              TypeForm(4, FALSE, AllDay), TypeForm(4, TRUE, <<>>) }

ZoneForm(active, radius, multiplier, covers) ==
    [active |-> active, radius |-> radius, multiplier |-> multiplier, covers |-> covers]
TheZones == { ZoneForm(TRUE, 1, 3, {pa}), ZoneForm(FALSE, 2, 2, {pa, pb}),
              ZoneForm(TRUE, 2, 2, {pa, pb}) }

TypesAtFirst == { t1 :> TypeForm(4, TRUE, ByDefault) @@ t2 :> TypeForm(8, TRUE, WithGaps) }
ZonesAtFirst == { z1 :> ZoneForm(TRUE, 2, 2, {pa, pb}) @@ z2 :> NoForm }

VARIABLE side       \* the one of the four that the requests are to

Init ==
    /\ HandlersInit /\ PresenceInit /\ PersonalInit /\ FaresInit /\ EarningsInit
    /\ side \in {"presence", "personal", "fares", "earnings"}
    /\ side /= "presence" => \A d \in Drivers : loc[d] = NoLocation

Next ==
    /\ UNCHANGED side
    /\ \/ side = "presence" /\ PresenceNext /\ UNCHANGED <<personalVars, faresVars, earningsVars>>
       \/ side = "personal" /\ PersonalNext /\ UNCHANGED <<presenceVars, faresVars, earningsVars>>
       \/ side = "fares" /\ FaresNext /\ UNCHANGED <<presenceVars, personalVars, earningsVars>>
       \/ side = "earnings" /\ EarningsNext /\ UNCHANGED <<presenceVars, personalVars, faresVars>>
       \/ Stop /\ PresenceStop /\ PersonalStop /\ FaresStop /\ EarningsStop

Spec == Init /\ [][Next]_<<side, handlerVars, presenceVars, personalVars, faresVars, earningsVars>>

PlatTypeOK == PresenceTypeOK /\ PersonalTypeOK /\ FaresTypeOK /\ EarningsTypeOK
================================================================================
