\* A booking made, moved or cancelled, and made again.
CONSTANTS
    Calls = {c1, c2, c3}
    Bookings = {b1, b2, b3}
    b1 = b1
    b2 = b2
    b3 = b3
    ana = ana
    bob = bob
    kim = kim
    lee = lee
    k1 = k1
    None = None
    Staff <- TwoStaff
    Spans <- SomeSpans
    Zone <- ApartZones
    DayLength <- Day
    Grid <- AllPlaces
    Existing <- Two
    Requests <- LifeRequests
    LongReasons <- Long
    Attempts = 2
SPECIFICATION Spec
SYMMETRY Permute
INVARIANTS SuccessMeansBooked
CHECK_DEADLOCK FALSE
