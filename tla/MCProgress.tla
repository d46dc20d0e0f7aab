----------------------------- MODULE MCProgress -----------------------------
(***************************************************************************)
(* What must happen in the end.  A behaviour is one of a small instance of *)
(* Turn, JobQueue or Bookings, chosen by subject; the                      *)
(* variables of the others keep their initial values.  The fairness of     *)
(* each module binds when it is the subject.                               *)
(***************************************************************************)
EXTENDS Integers

CONSTANT None

VARIABLES
    subject,
    clock, conv, lock, pc, turn, run, prop, replies, effects,                      \* Turn
    booking, job, graves, replays, delivered, worker, hand, stops, stalled,        \* JobQueue
    row, recs, days, events, req, stmt, tries, snap, dates, tx, out                \* Bookings

turnVars == <<clock, conv, lock, pc, turn, run, prop, replies, effects>>
jobVars == <<booking, job, graves, replays, delivered, worker, hand, stops, stalled>>
bookingVars == <<row, recs, days, events, req, stmt, tries, snap, dates, tx, out>>
all == <<subject, turnVars, jobVars, bookingVars>>

-----------------------------------------------------------------------------
(* The instances *)

\* Two messages that may propose and execute one action.
Messages == {"r1", "r2"}

turns == INSTANCE Turn WITH
    Requests <- Messages, Proposals <- {"p1"}, Acts <- {"book"}, Creates <- {"book"},
    MaxCalls <- 1, MaxCrashes <- 0

\* One worker that may stop once, and the two jobs of one booking.
jobs == INSTANCE JobQueue WITH
    Bookings <- {"b1"}, Workers <- {"w1"}, MaxAttempts <- 2, Batch <- 2, Concurrency <- 1,
    MaxMoves <- 0, MaxStops <- 1, MaxReplays <- 0

\* Two moves that swap places, and a create in their way.
Place(a, b) == [staff |-> "kim", span |-> [from |-> a, until |-> b]]
Swap == {[op |-> "move", by |-> "agent", owner |-> "ana", booking |-> "b1",
          place |-> Place(4, 6), key |-> None, expect |-> 0, note |-> "short"],
         [op |-> "move", by |-> "operator", owner |-> None, booking |-> "b2",
          place |-> Place(0, 2), key |-> None, expect |-> 1, note |-> "short"],
         [op |-> "create", by |-> "operator", owner |-> "bob", booking |-> None,
          place |-> Place(3, 5), key |-> None, expect |-> 0, note |-> "short"]}
Two == [b1 |-> [owner |-> "ana", place |-> Place(0, 2)],
        b2 |-> [owner |-> "bob", place |-> Place(4, 6)], b3 |-> None]
Commands == {"c1", "c2"}

bookings == INSTANCE Bookings WITH
    Calls <- Commands, Bookings <- DOMAIN Two, Staff <- {"kim"},
    Spans <- {Place(0, 2).span, Place(3, 5).span, Place(4, 6).span},
    Zone <- [kim |-> 0], DayLength <- 4,
    Grid <- {Place(0, 2), Place(3, 5), Place(4, 6)},
    Existing <- Two, Requests <- Swap, LongReasons <- {}, Attempts <- 3, pc <- stmt

-----------------------------------------------------------------------------
Subjects == {"turns", "jobs", "bookings"}

Init ==
    /\ subject \in Subjects
    /\ turns!Init /\ jobs!Init /\ bookings!Init

Turns(A) == subject = "turns" /\ A /\ UNCHANGED <<subject, jobVars, bookingVars>>
Jobs(A) == subject = "jobs" /\ A /\ UNCHANGED <<subject, turnVars, bookingVars>>
Booking(A) == subject = "bookings" /\ A /\ UNCHANGED <<subject, turnVars, jobVars>>

Next ==
    \/ Turns(turns!Next) \/ Jobs(jobs!Next) \/ Booking(bookings!Next)

Fairness ==
    /\ \A r \in Messages : WF_all(Turns(turns!RequestStep(r)))
    /\ \A j \in jobs!Jobs : /\ WF_all(Jobs(jobs!RetryDelayPasses(j)))
                            /\ WF_all(Jobs(jobs!LeasePasses(j)))
                            /\ WF_all(Jobs(jobs!ProcessOne("w1", j)))
    /\ WF_all(Jobs(jobs!WorkerLoop("w1")))
    /\ SF_all(Jobs(jobs!RequeueStaleClaims("w1"))) /\ SF_all(Jobs(jobs!ClaimSome("w1")))
    /\ \A c \in Commands : WF_all(Booking(bookings!Act(c))) /\ WF_all(Booking(bookings!Victim(c)))

FairSpec == Init /\ [][Next]_all /\ Fairness

-----------------------------------------------------------------------------
\* A saved message is answered (Turn).
SavedIsAnswered == turns!SavedIsAnswered

\* A job is never stranded (JobQueue).
EveryJobSettles == jobs!EveryJobSettles

\* Every booking command returns (Bookings).
CallsReturn == bookings!CallsReturn
=============================================================================
