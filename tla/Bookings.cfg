\* Concurrent creates, concurrent changes, and a booking's life.
CONSTANTS
    Calls = {c1, c2, c3}
    Bookings = {b1, b2, b3, b4}
    b1 = b1
    b2 = b2
    b3 = b3
    ana = ana
    bob = bob
    kim = kim
    lee = lee
    k1 = k1
    None = None
    Staff <- TwoStaff
    Spans <- SomeSpans
    Zone <- ApartZones
    DayLength <- Day
    Grid <- AllPlaces
    Existing <- Two
    Requests <- StoryRequests
    LongReasons <- Long
    Attempts = 2
SPECIFICATION Spec
SYMMETRY Permute
CONSTRAINT OneStory
INVARIANTS NoDoubleBooking OneEffectPerKey AnswerMatchesEffect LocksNeverDeadlock OperatorChangesWhatTheySaw
PROPERTIES ImplementsCalendar
CHECK_DEADLOCK FALSE
