-------------------------------- MODULE Earnings -------------------------------
(***************************************************************************)
(* What a driver is shown of his earnings: the histogram and the total that *)
(* DriverService.getDriverEarnings reads from the ledger one after the      *)
(* other, by days or by months, in a process whose clock is in UTC.          *)
(***************************************************************************)
EXTENDS Handlers, Sequences

CONSTANTS
    DaysBack,       \* days before today that are shown, 7 in the code
    MonthsBack,     \* months before this one that are shown, 12 in the code
    FirstOf,        \* the first day of each month, day 0 being that of the first
    FirstDay,       \* the day on which the first ride is accepted
    LastDay,        \* bound: the last day on which something happens, in the month before the last
    MaxAsked        \* bound: requests for the earnings

Months == 1..(Len(FirstOf) - 1)

LengthOf(m) == FirstOf[m + 1] - FirstOf[m]

(* No month is longer than two. *)
ASSUME EarningsAssumption ==
    /\ DaysBack \in 0..FirstDay /\ MonthsBack \in Nat /\ FirstOf \in Seq(Nat)
    /\ FirstOf[1] = 0 /\ \A m \in Months : FirstOf[m] < FirstOf[m + 1]
    /\ \A m, n \in Months : LengthOf(m) <= 2 * LengthOf(n)
    /\ MonthsBack + 1 \in Months /\ FirstOf[MonthsBack + 1] <= FirstDay
    /\ FirstDay \in Nat /\ LastDay \in Nat /\ FirstDay <= LastDay
    /\ LastDay < FirstOf[Len(FirstOf) - 1]

VARIABLES
    today,
    earning,        \* the entry of a fare in the ledger, by the request that made it
    shown           \* what each request for the earnings has read

earningsVars == <<today, earning, shown>>

--------------------------------------------------------------------------------
Earning == [day : 0..LastDay, status : {"none", "PENDING", "COMPLETED"}]

(* What is shown: the period and the day it is asked for, the fares that make  *)
(* up the bars and those that make up the total.  History: what was pending     *)
(* when the bars were read.                                                     *)
Shown == [period : {"day", "month"}, day : 0..LastDay, bars : SUBSET Requests,
          total : SUBSET Requests, pending : SUBSET Requests]

EarningsInit ==
    /\ today = FirstDay
    /\ earning = [r \in Requests |-> [day |-> 0, status |-> "none"]]
    /\ shown = [r \in Requests |-> [period |-> "day", day |-> 0, bars |-> {}, total |-> {},
                                    pending |-> {}]]

(* acceptRide: the fare is entered as pending, *)
CreateRideTransaction(r) ==
    /\ Receive(r, "credit", "done")
    /\ earning' = [earning EXCEPT ![r] = [day |-> today, status |-> "PENDING"]]
    /\ UNCHANGED <<today, shown>>

(* and completed with the ride, if it is paid in cash, or when it is paid for. *)
UpdateRideTransaction(r, x) ==
    /\ earning[x].status = "PENDING"
    /\ Receive(r, "settle", "done")
    /\ earning' = [earning EXCEPT ![x].status = "COMPLETED"]
    /\ UNCHANGED <<today, shown>>

DaysPass ==
    /\ today' \in (today + 1)..LastDay
    /\ UNCHANGED <<handlerVars, earning, shown>>

--------------------------------------------------------------------------------
(* The calendar.  A day of a month that has fewer is one of the next month, as *)
(* it is for setMonth.                                                         *)

Month == [day \in 0..LastDay |-> CHOOSE m \in Months : FirstOf[m] <= day /\ day < FirstOf[m + 1]]
DayOfMonth(day) == day - FirstOf[Month[day]]
InMonth(m, day) == FirstOf[m] + DayOfMonth(day)

(* getDriverEarnings: the first day of a period, the step to the next bar, and *)
(* the key of the bar an entry belongs to.                                     *)
Start(period, end) ==
    CASE period = "day"   -> end - DaysBack
      [] period = "month" -> InMonth(Month[end] - MonthsBack, end)

NextBar(period, day) == IF period = "day" THEN day + 1 ELSE InMonth(Month[day] + 1, day)

Key(period, day) == IF period = "day" THEN day ELSE Month[day]

(* Mutant: the loop ends before the last day. *)
BarDaysBeforeToday(period, end) ==
    LET From[day \in Nat] == IF day >= end THEN {} ELSE {day} \cup From[NextBar(period, day)]
    IN  From[Start(period, end)]

BarDays(period, end) ==
    LET From[day \in Nat] == IF day > end THEN {} ELSE {day} \cup From[NextBar(period, day)]
    IN  From[Start(period, end)]

Keys(period, end) == {Key(period, day) : day \in BarDays(period, end)}

--------------------------------------------------------------------------------
(* Both aggregations ask for the time at which the request came, as their end:  *)
(* an entry that is made later, be it on that day, is in neither.               *)
InRange(r) == Start(shown[r].period, shown[r].day)..shown[r].day
Earned(r) ==
    {x \in Requests : x < r /\ earning[x].status = "COMPLETED" /\ earning[x].day \in InRange(r)}

GetDriverEarnings(r, period) ==
    /\ Cardinality({q \in Requests : op[q] = "earnings"}) < MaxAsked
    /\ Receive(r, "earnings", "readBars")
    /\ shown' = [shown EXCEPT ![r].period = period, ![r].day = today]
    /\ UNCHANGED <<today, earning>>

ReadBars(r) ==
    /\ At(r, "readBars")
    /\ shown' = [shown EXCEPT ![r].bars = Earned(r),
                              ![r].pending = {x \in Requests : earning[x].status = "PENDING"}]
    /\ Goto(r, "readTotal")
    /\ UNCHANGED <<today, earning>>

ReadTotal(r) ==
    /\ At(r, "readTotal")
    /\ shown' = [shown EXCEPT ![r].total = Earned(r)]
    /\ Goto(r, "done")
    /\ UNCHANGED <<today, earning>>

Bar(r, key) == {x \in shown[r].bars : Key(shown[r].period, earning[x].day) = key}

--------------------------------------------------------------------------------
EarningsReceive(r) ==
    /\ IsTurnOf(r)
    /\ \/ CreateRideTransaction(r)
       \/ \E x \in Requests : UpdateRideTransaction(r, x)
       \/ \E period \in {"day", "month"} : GetDriverEarnings(r, period)

EarningsNext ==
    \/ DaysPass
    \/ \E r \in Requests : EarningsReceive(r) \/ ReadBars(r) \/ ReadTotal(r)

(* A stop loses the handlers alone. *)
EarningsStop == UNCHANGED earningsVars

EarningsSpec ==
    HandlersInit /\ EarningsInit
    /\ [][EarningsNext \/ (Stop /\ EarningsStop)]_<<handlerVars, earningsVars>>

--------------------------------------------------------------------------------
EarningsTypeOK ==
    /\ today \in FirstDay..LastDay
    /\ earning \in [Requests -> Earning]
    /\ shown \in [Requests -> Shown]

(* The days, or months, of the range that have no bar. *)
Barless(r) ==
    LET h == shown[r] IN {Key(h.period, day) : day \in InRange(r)} \ Keys(h.period, h.day)

(* What the histogram shows adds up to the total next to it: a completed fare   *)
(* of the period is in a bar of its own day or month, once, and whatever is in  *)
(* the bars is in the total; but for the fares that were completed between the  *)
(* reading of the bars and that of the total, which no bar shows, and those of  *)
(* one month, which has no bar since it has not the day of the month that the   *)
(* earnings are asked for on.                                                   *)
EarningsAddUp ==
    \A r \in Requests : op[r] = "earnings" /\ at[r] = "done" =>
        LET h == shown[r]
            inBars == UNION {Bar(r, key) : key \in Keys(h.period, h.day)}
        IN  /\ inBars \subseteq h.total
            /\ \A x \in h.total \ inBars :
                  x \in h.pending \/ Key(h.period, earning[x].day) \in Barless(r)
            /\ h.period = "day" => Barless(r) = {}
            /\ \A m, n \in Barless(r) : m = n /\ LengthOf(m) <= DayOfMonth(h.day)
            /\ Cardinality(BarDays(h.period, h.day)) = Cardinality(Keys(h.period, h.day))
================================================================================
