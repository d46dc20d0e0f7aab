SPECIFICATION Spec
CONSTANTS
    Bookings = {b1}
    Workers = {w1, w2}
    MaxAttempts = 2
    Batch = 2
    Concurrency = 1
    MaxMoves = 1
    MaxStops = 1
    MaxReplays = 1
SYMMETRY Symmetry
CONSTRAINT StalledPlainly
INVARIANTS TimelyJobs NoReminderAfterCancel
PROPERTIES SettledStays
