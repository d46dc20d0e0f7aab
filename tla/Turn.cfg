\* Two messages with two tools and two mutating calls in a turn, or three
\* messages with one.
CONSTANTS
    Requests = {r1, r2, r3}
    Proposals = {p1, p2}
    book = book
    cancel = cancel
    Acts = {book, cancel}
    Creates = {book}
    MaxCalls = 2
    MaxCrashes = 2
    None = None
SPECIFICATION Spec
SYMMETRY Symmetry
CONSTRAINT ShortOrNarrow
CHECK_DEADLOCK FALSE
INVARIANTS
    MutationIsAuthorized
    OneMutationPerProposal
    OnlyTheCardCanBeConfirmed
    ThirdClarificationHandsOff
PROPERTIES
    HandoffIsFinal
    WithdrawnNeverRuns
