SPECIFICATION Spec
CONSTANTS
    Drivers = {d1}
    Passengers = {p1}
    NoSocket = NoSocket
    NoDriver = NoDriver
    NoRide = NoRide
    Owners = {o1}
    Completed = {i1}
    Phones = {f1, f2}
    MaxContacts = 2
    Unowned = Unowned
    t1 = t1
    t2 = t2
    z1 = z1
    z2 = z2
    pa = pa
    pb = pb
    TypeNames = {t1, t2}
    ZoneNames = {z1, z2}
    Places = {pa, pb}
    NoPlace = NoPlace
    DayLength = 8
    TypeForms <- TheTypes
    ZoneForms <- TheZones
    InitialTypes <- TypesAtFirst
    InitialZones <- ZonesAtFirst
    Distances = {1, 6}
    MaxQuotes = 1
    NoForm = NoForm
    NoPrice = NoPrice
    DaysBack = 3
    MonthsBack = 4
    FirstOf <- TheCalendar
    FirstDay = 12
    LastDay = 21
    MaxAsked = 1
    MaxRequests = 4
    Mixes <- TheMixes
    MaxStops = 1
INVARIANTS
    MappedSocketIsOpen
    OneRideAtATime
    OwnersRules
    QuotesAreFair
    EarningsAddUp
CHECK_DEADLOCK FALSE
