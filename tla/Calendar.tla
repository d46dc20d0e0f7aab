------------------------------ MODULE Calendar ------------------------------
(***************************************************************************)
(* What the booking repository promises, with no transactions in sight: a  *)
(* calendar whose appointments never clash, changed one command at a time, *)
(* and no command carried out twice.                                       *)
(***************************************************************************)
EXTENDS Integers

CONSTANTS
    Bookings,    \* booking identifiers
    Places,      \* a staff member and the time an appointment occupies
    Keys,        \* idempotency keys, each within its scope
    Clash(_, _), \* two places the exclusion constraint keeps apart
    Existing,    \* the appointments there are at the start
    None

VARIABLES
    appt,   \* the place of each appointment, None if there is none
    gone,   \* bookings that were cancelled
    spent   \* keys whose command was carried out

vars == <<appt, gone, spent>>

Init ==
    /\ appt = [b \in Bookings |-> Existing[b]]
    /\ gone = {}
    /\ spent = {}

\* Nobody but b is in the way of place p.
Free(b, p) ==
    \A a \in Bookings \ {b} : appt[a] # None => ~Clash(appt[a], p)

\* A command with a key spends it; the operator's cancel has none.
Spend(k) ==
    /\ k # None => k \notin spent
    /\ spent' = spent \cup ({k} \ {None})

\* b is at p from now on.
Put(b, p) ==
    /\ appt' = [appt EXCEPT ![b] = p]
    /\ Free(b, p)
    /\ UNCHANGED gone

Book(b, p) == appt[b] = None /\ b \notin gone /\ Put(b, p)

Move(b, p) == appt[b] # None /\ Put(b, p)

Cancel(b) ==
    /\ appt[b] # None
    /\ appt' = [appt EXCEPT ![b] = None]
    /\ gone' = gone \cup {b}

\* A command that finds its work already done only spends its key.
Acknowledge(k) == k # None /\ UNCHANGED <<appt, gone>>

Next ==
    \E k \in Keys \cup {None} :
        /\ Spend(k)
        /\ \/ \E b \in Bookings : Cancel(b) \/ \E p \in Places : Book(b, p) \/ Move(b, p)
           \/ Acknowledge(k)

Spec == Init /\ [][Next]_vars

=============================================================================
