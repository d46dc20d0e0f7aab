------------------------------ MODULE Bookings ------------------------------
(***************************************************************************)
(* The booking commands of scheduling.PGXRepository, for customers (agent) *)
(* and operators: create, reschedule ("move") and cancel, each a           *)
(* serializable transaction that is attempted up to three times.           *)
(*                                                                         *)
(* What PostgreSQL guarantees is modelled, not assumed away: a transaction *)
(* reads the snapshot of its first statement; a key or a row another open  *)
(* transaction holds makes it wait, and one changed since its snapshot     *)
(* aborts it (40001); the exclusion constraint looks at the committed rows *)
(* and waits for open writers in its way, and waits that form a cycle have *)
(* a victim (40P01).  A schedule_locks row is locked and never changed, so *)
(* after a wait for it the transaction goes on with its old snapshot.      *)
(***************************************************************************)
EXTENDS Integers, FiniteSets

CONSTANTS
    Calls,       \* calls of the repository's commands
    Bookings,    \* identifiers of bookings rows
    Staff,
    Spans,       \* occupied ranges, buffers included: [from, until]
    Zone,        \* UTC offset of each staff member
    DayLength,
    Grid,        \* places the rules and blocks of a staff member leave open
    Existing,    \* the appointments there are at the start: [owner, place]
    Requests,    \* the commands callers may issue
    LongReasons, \* reasons of more than 84 characters
    Attempts,    \* attempts of one call (3 in the code)
    None

Places == [staff : Staff, span : Spans]

\* The operator of the exclusion constraint: same staff, half-open ranges meet.
Clash(p, q) ==
    /\ p.staff = q.staff
    /\ p.span.from < q.span.until
    /\ q.span.from < p.span.until

\* The rows there are at the start are the database's: placed, and apart.  A
\* command passed the validation at the head of its repository method.
ASSUME ConstantsAssumption ==
    /\ None \notin Places
    /\ None \notin Requests
    /\ None \notin Bookings
    /\ Attempts \in Nat \ {0}
    /\ \A b \in Bookings : Existing[b] # None => Existing[b].place \in Places
    /\ \A a, b \in Bookings :
          a # b /\ Existing[a] # None /\ Existing[b] # None =>
              ~Clash(Existing[a].place, Existing[b].place)
    /\ \A r \in Requests :
          /\ r.by \in {"agent", "operator"}
          /\ r.op \in {"create", "move", "cancel"}
          /\ r.op # "cancel" => r.place \in Places
          /\ r.booking \in Bookings \cup {None}
          /\ r.op # "create" => r.booking # None

\* An appointment ends after it starts (CHECK (starts_at < ends_at)); times,
\* offsets and days are whole numbers of a unit.
ASSUME TimesAssumption ==
    /\ DayLength \in Nat \ {0}
    /\ \A s \in Staff : Zone[s] \in Int
    /\ \A t \in Spans : t.from \in Int /\ t.until \in Int /\ t.from < t.until

VARIABLES
    row,     \* bookings, committed
    recs,    \* idempotency_records, committed
    days,    \* schedule_locks, committed: staff member and local date
    events,  \* booking_events, committed, with the call that wrote them
    req,     \* the command of each call
    pc,      \* its next statement
    tries,   \* its attempt
    snap,    \* what its snapshot shows of the rows it reads
    dates,   \* its schedule_locks rows: made sure of, and locked
    tx,      \* its uncommitted bookings row
    out      \* what it returned, with the booking it reports

vars == <<row, recs, days, events, req, pc, tries, snap, dates, tx, out>>

NoRow == [status |-> "none", owner |-> None, place |-> None, ver |-> 0]
NoSnap == [rec |-> {}, row |-> NoRow, free |-> "no", days |-> {}]
NoDates == [made |-> {}, held |-> {}]
NoTx == [booking |-> None, new |-> NoRow]
NoOut == [kind |-> "none", row |-> NoRow]

InitialRow(b) ==
    IF Existing[b] = None THEN NoRow
    ELSE [status |-> "confirmed", owner |-> Existing[b].owner,
          place |-> Existing[b].place, ver |-> 1]

Init ==
    /\ row = [b \in Bookings |-> InitialRow(b)]
    /\ recs = {}
    /\ days = {}
    /\ events = {}
    /\ req = [c \in Calls |-> None]
    /\ pc = [c \in Calls |-> "idle"]
    /\ tries = [c \in Calls |-> 0]
    /\ snap = [c \in Calls |-> NoSnap]
    /\ dates = [c \in Calls |-> NoDates]
    /\ tx = [c \in Calls |-> NoTx]
    /\ out = [c \in Calls |-> NoOut]

-----------------------------------------------------------------------------
(* Keys and hashes.  A request is a record: op, by, owner (the customer in *)
(* their conversation), booking, place, key (None if the caller gave       *)
(* none), expect (an operator's expected version) and note (the notes or   *)
(* the reason).                                                            *)

\* An agent's key, unless the model supplied one, is derived from the verified
\* facts of the action.
AgentKey(r) ==
    IF r.key # None THEN <<r.op, r.owner, r.key>>
    ELSE <<r.op, r.owner, r.booking, IF r.op = "cancel" THEN None ELSE r.place>>

\* An operator's key, unless supplied, is generated per request.  The scope is
\* the customer for a create and the booking for a move; a cancel has no
\* record.
OperatorKey(r, c) ==
    IF r.op = "cancel" THEN None
    ELSE <<"admin", r.op, IF r.op = "create" THEN r.owner ELSE r.booking,
           IF r.key # None THEN r.key ELSE c>>

KeyFor(r, c) == IF r.by = "agent" THEN AgentKey(r) ELSE OperatorKey(r, c)
KeyOf(c) == KeyFor(req[c], c)
Keys == {KeyFor(r, c) : r \in Requests, c \in Calls} \ {None}

\* request_hash: the arguments a reused key must repeat.
HashOf(r) ==
    CASE r.op = "create" -> <<r.owner, r.place, r.note>>
      [] r.op = "move"   -> <<r.booking, r.place.span>>
      [] r.op = "cancel" -> <<r.booking, r.note>>

Recorded(k) == {r \in recs : r.key = k}

-----------------------------------------------------------------------------
(* Locks and waits.                                                        *)

\* The statements after the row was locked, or a create's key reserved.
Working == {"materialize", "lock", "write", "check", "commit"}
Open == {"reserve", "load"} \cup Working

Reserved(c) == pc[c] \in {"load"} \cup Working /\ KeyOf(c) # None
HoldsRow(c, b) == pc[c] \in Working /\ req[c].op # "create" /\ req[c].booking = b
Writing(c) == pc[c] \in {"check", "commit"}
Active(r) == r.status = "confirmed"

\* A customer's row lock is scoped to their own bookings.
Sees(c) ==
    /\ snap[c].row # NoRow
    /\ req[c].by = "agent" => snap[c].row.owner = req[c].owner

\* A moved booking keeps its staff member.
NewPlace(c) ==
    IF req[c].op = "create" THEN req[c].place
    ELSE [staff |-> snap[c].row.place.staff, span |-> req[c].place.span]

TouchedLocalDates(zone, span) ==
    ((span.from + zone) \div DayLength) .. ((span.until - 1 + zone) \div DayLength)

\* A customer's move counts the dates in the time zone of the slot it chose.
LockDates(c) ==
    LET zone == Zone[IF req[c].by = "agent" THEN req[c].place.staff ELSE NewPlace(c).staff]
    IN  {<<NewPlace(c).staff, d>> : d \in TouchedLocalDates(zone, req[c].place.span)}

\* Mutated form of First: the dates are taken last to first by one kind of caller.
First_Descending(c, S) ==
    CHOOSE d \in S : \A e \in S : IF req[c].by = "agent" THEN d[2] <= e[2] ELSE d[2] >= e[2]

\* Writers take the dates in ascending order.
First(c, S) == CHOOSE d \in S : \A e \in S : d[2] <= e[2]

NextDate(c) ==
    First(c, LockDates(c) \ (IF pc[c] = "materialize" THEN dates[c].made ELSE dates[c].held))

\* The exclusion constraint finds a row of d that is not settled yet: the new
\* version or the one it replaces.
InTheWay(c, d) ==
    /\ Writing(d)
    /\ \/ Active(tx[d].new) /\ Clash(tx[d].new.place, tx[c].new.place)
       \/ Active(row[tx[d].booking]) /\ Clash(row[tx[d].booking].place, tx[c].new.place)

\* The next statement of c waits for the end of d.
WaitsFor(c, d) ==
    /\ c # d
    /\ \/ pc[c] = "reserve" /\ Reserved(d) /\ KeyOf(d) = KeyOf(c)
       \/ pc[c] = "load" /\ Sees(c) /\ HoldsRow(d, req[c].booking)
       \/ pc[c] = "materialize" /\ NextDate(c) \in dates[d].made \ days
       \/ pc[c] = "lock" /\ NextDate(c) \in dates[d].held
       \/ pc[c] = "check" /\ InTheWay(c, d)

Waits(c) == \E d \in Calls : WaitsFor(c, d)

-----------------------------------------------------------------------------
(* Ends of an attempt.                                                     *)

Goto(c, p) == pc' = [pc EXCEPT ![c] = p]

\* The transaction is over: its locks and its snapshot are gone.
Close(c) ==
    /\ snap' = [snap EXCEPT ![c] = NoSnap]
    /\ dates' = [dates EXCEPT ![c] = NoDates]
    /\ tx' = [tx EXCEPT ![c] = NoTx]

Return(c, kind, r) ==
    /\ Goto(c, "returned")
    /\ out' = [out EXCEPT ![c] = [kind |-> kind, row |-> r]]
    /\ Close(c)
    /\ UNCHANGED <<req, tries>>

\* An error that is not retried: the deferred rollback undoes the attempt.
Refuse(c, kind) == Return(c, kind, NoRow) /\ UNCHANGED <<row, recs, days, events>>

\* COMMIT succeeds; the answer may still be lost.
Answer(c, kind, r) == Return(c, kind, r) \/ Return(c, "lost", NoRow)

\* Mutated form of Retry: the attempts are not counted.
Retry_Forever(c) ==
    /\ Goto(c, "begin")
    /\ Close(c)
    /\ UNCHANGED <<row, recs, days, events, req, tries, out>>

\* 40001 or 40P01: roll back and begin again, three attempts at most.
Retry(c) ==
    \/ tries[c] >= Attempts /\ Refuse(c, "error")
    \/ /\ tries[c] < Attempts
       /\ Goto(c, "begin")
       /\ tries' = [tries EXCEPT ![c] = @ + 1]
       /\ Close(c)
       /\ UNCHANGED <<row, recs, days, events, req, out>>

\* The next statement.
Step(c, p) == Goto(c, p) /\ UNCHANGED <<row, recs, days, events, req, tries, snap, out>>

-----------------------------------------------------------------------------
(* One attempt, statement by statement.                                    *)

Start(c, r) ==
    /\ pc[c] = "idle"
    /\ req' = [req EXCEPT ![c] = r]
    /\ tries' = [tries EXCEPT ![c] = 1]
    /\ Goto(c, "begin")
    /\ UNCHANGED <<row, recs, days, events, snap, dates, tx, out>>

\* What the engine says of a place, from the rules and the bookings there are.
IsAvailable(p) ==
    /\ p \in Grid
    /\ \A b \in Bookings : Active(row[b]) => ~Clash(row[b].place, p)

\* BEGIN, and the snapshot its first statement takes.  row is the booking the
\* call will read: the one its record names, or the one it is about.
Begin(c) ==
    /\ pc[c] = "begin"
    /\ LET known == Recorded(KeyOf(c)) IN
       \E b \in IF known = {} THEN {req[c].booking} ELSE {r.booking : r \in known} :
             snap' = [snap EXCEPT ![c] =
                 [rec  |-> known,
                  row  |-> IF b = None THEN NoRow ELSE row[b],
                  free |-> IF req[c].op = "create" /\ IsAvailable(req[c].place) THEN "yes" ELSE "no",
                  days |-> days]]
    /\ Goto(c, IF req[c].by = "operator" /\ req[c].op = "cancel" THEN "load" ELSE "reserve")
    /\ UNCHANGED <<row, recs, days, events, req, tries, dates, tx, out>>

\* The key was used before: the stored command is not carried out again.
Replay(c, r) ==
    \/ r.hash # HashOf(req[c]) /\ Refuse(c, "conflict")
    \/ r.hash = HashOf(req[c]) /\ r.status # "completed" /\ Refuse(c, "incomplete")
    \/ /\ r.hash = HashOf(req[c]) /\ r.status = "completed"
       /\ Return(c, "replayed", snap[c].row)
       /\ UNCHANGED <<row, recs, days, events>>

\* Mutated form of Reserve: the key is not looked up.
Reserve_Blind(c) ==
    /\ pc[c] = "reserve"
    /\ Step(c, IF req[c].op = "create" THEN "materialize" ELSE "load")
    /\ UNCHANGED <<dates, tx>>

\* INSERT ... ON CONFLICT DO NOTHING of the idempotency record.  The hash of a
\* customer's cancel holds the reason, and the column 128 characters.
Reserve(c) ==
    /\ pc[c] = "reserve"
    /\ \/ /\ req[c].op = "cancel" /\ req[c].note \in LongReasons
          /\ Refuse(c, "unstorable")
       \/ /\ ~(req[c].op = "cancel" /\ req[c].note \in LongReasons)
          /\ ~Waits(c)
          /\ \/ /\ Recorded(KeyOf(c)) = {}
                /\ Step(c, IF req[c].op = "create" THEN "materialize" ELSE "load")
                /\ UNCHANGED <<dates, tx>>
             \/ \E r \in Recorded(KeyOf(c)) :
                   \/ r \in snap[c].rec /\ Replay(c, r)
                   \/ r \notin snap[c].rec /\ Retry(c)

\* The record of c's command, as its transaction leaves it.
Record(c, status, b) ==
    IF KeyOf(c) = None THEN {}
    ELSE {[key |-> KeyOf(c), hash |-> HashOf(req[c]), status |-> status, booking |-> b]}

\* Mutated form of Expected: the expected version is not compared.
Expected_Any(c) == TRUE

\* An operator names the version they saw.
Expected(c) == req[c].by = "operator" => snap[c].row.ver = req[c].expect

\* The row is the one the snapshot shows.
Current(c) == row[req[c].booking] = snap[c].row

\* Mutated form of Changeable: the status is not looked at.
Changeable_Any(c) == TRUE

\* Only a confirmed booking is changed.
Changeable(c) == Active(snap[c].row)

\* A cancel that finds its work done.
Done(c) == req[c].op = "cancel" /\ snap[c].row.status = "cancelled"

\* SELECT ... FOR UPDATE of the booking, and the checks on what it returns.  A
\* booking that is cancelled already is a success, with the record as it is.
Load(c) ==
    /\ pc[c] = "load"
    /\ \/ ~Sees(c) /\ Refuse(c, "missing")
       \/ /\ Sees(c) /\ ~Waits(c)
          /\ \/ ~Current(c) /\ Retry(c)
             \/ /\ Current(c) /\ Done(c)
                /\ Answer(c, "already", snap[c].row)
                /\ recs' = recs \cup Record(c, "in_progress", None)
                /\ UNCHANGED <<row, days, events>>
             \/ Current(c) /\ ~Done(c) /\ ~Expected(c) /\ Refuse(c, "stale")
             \/ Current(c) /\ ~Done(c) /\ Expected(c) /\ ~Changeable(c) /\ Refuse(c, "state")
             \/ /\ Current(c) /\ ~Done(c) /\ Expected(c) /\ Changeable(c)
                /\ Step(c, IF req[c].op = "cancel" THEN "write" ELSE "materialize")
                /\ UNCHANGED <<dates, tx>>

\* acquireScheduleLocks, first loop: INSERT ... ON CONFLICT DO NOTHING of one
\* date's row.  One that was committed after the snapshot aborts the attempt.
Materialize(c) ==
    /\ pc[c] = "materialize"
    /\ ~Waits(c)
    /\ LET made == dates[c].made \cup {NextDate(c)} IN
       \/ NextDate(c) \in days \ snap[c].days /\ Retry(c)
       \/ /\ NextDate(c) \notin days \ snap[c].days
          /\ Step(c, IF made = LockDates(c) THEN "lock" ELSE "materialize")
          /\ dates' = [dates EXCEPT ![c].made = made]
          /\ UNCHANGED tx

\* Second loop: SELECT ... FOR UPDATE of one date's row.
LockDate(c) ==
    /\ pc[c] = "lock"
    /\ ~Waits(c)
    /\ LET held == dates[c].held \cup {NextDate(c)} IN
       /\ Step(c, IF held = LockDates(c) THEN "write" ELSE "lock")
       /\ dates' = [dates EXCEPT ![c].held = held]
       /\ UNCHANGED tx

\* Identifiers no row, committed or not, has.
Fresh == {b \in Bookings : row[b] = NoRow /\ \A d \in Calls : tx[d].booking # b}

\* INSERT INTO bookings, after the checks that the start is still ahead and, for
\* a customer, that the engine offers the slot.
Insert(c) ==
    /\ pc[c] = "write" /\ req[c].op = "create"
    /\ \/ Refuse(c, "unavailable")
       \/ /\ req[c].by = "agent" => snap[c].free = "yes"
          /\ \E b \in Fresh :
                tx' = [tx EXCEPT ![c] = [booking |-> b, new |->
                          [status |-> "confirmed", owner |-> req[c].owner,
                           place |-> req[c].place, ver |-> 1]]]
          /\ Step(c, "check")
          /\ UNCHANGED dates

\* UPDATE bookings, of the locked row.
Update(c) ==
    /\ pc[c] = "write" /\ req[c].op # "create"
    /\ LET old == snap[c].row IN
       tx' = [tx EXCEPT ![c] = [booking |-> req[c].booking, new |->
                [status |-> IF req[c].op = "cancel" THEN "cancelled" ELSE "confirmed",
                 owner |-> old.owner,
                 place |-> IF req[c].op = "cancel" THEN old.place ELSE NewPlace(c),
                 ver |-> old.ver + 1]]]
    /\ Step(c, IF req[c].op = "cancel" THEN "commit" ELSE "check")
    /\ UNCHANGED dates

\* Mutated form of Check: no constraint, only the recheck under the date locks.
Check_Skipped(c) == pc[c] = "check" /\ Step(c, "commit") /\ UNCHANGED <<dates, tx>>

\* The exclusion constraint bookings_no_staff_overlap, on the row just written.
Check(c) ==
    /\ pc[c] = "check"
    /\ ~Waits(c)
    /\ LET taken == \E b \in Bookings \ {tx[c].booking} :
                       Active(row[b]) /\ Clash(row[b].place, tx[c].new.place)
       IN  \/ taken /\ Refuse(c, "unavailable")
           \/ ~taken /\ Step(c, "commit") /\ UNCHANGED <<dates, tx>>

\* Mutated form of Commit: a lost answer is retried like a conflict.
Commit_Again(c) ==
    /\ pc[c] = "commit"
    /\ LET b == tx[c].booking IN
       /\ row' = [row EXCEPT ![b] = tx[c].new]
       /\ recs' = recs \cup Record(c, "completed", b)
       /\ events' = events \cup {[call |-> c, booking |-> b, from |-> row[b], to |-> tx[c].new]}
    /\ days' = days \cup dates[c].made
    /\ \/ Return(c, "ok", tx[c].new)
       \/ Goto(c, "begin") /\ Close(c) /\ UNCHANGED <<req, tries, out>>

\* The audit event, the completed record and COMMIT.
Commit(c) ==
    /\ pc[c] = "commit"
    /\ LET b == tx[c].booking IN
       /\ row' = [row EXCEPT ![b] = tx[c].new]
       /\ recs' = recs \cup Record(c, "completed", b)
       /\ events' = events \cup {[call |-> c, booking |-> b, from |-> row[b], to |-> tx[c].new]}
    /\ days' = days \cup dates[c].made
    /\ Answer(c, "ok", tx[c].new)

\* PostgreSQL may abort a serializable transaction at any statement.
Abort(c) == pc[c] \in Open /\ Retry(c)

\* The context ends or the connection is lost, in an attempt or between two.
Fail(c) == pc[c] \in Open \cup {"begin"} /\ Refuse(c, "error")

\* Calls that wait for one another in a circle.
Stuck(S) == \A c \in S : \E d \in S : WaitsFor(c, d)

\* The deadlock detector picks a victim.
Victim(c) == (\E S \in SUBSET Calls : c \in S /\ Stuck(S)) /\ Retry(c)

Is(c, by, op) == pc[c] # "idle" /\ req[c].by = by /\ req[c].op = op

\* The repository's methods, each with the statements it consists of.
createBookingOnce(c) ==
    /\ Is(c, "agent", "create")
    /\ Begin(c) \/ Reserve(c) \/ Materialize(c) \/ LockDate(c) \/ Insert(c) \/ Check(c) \/ Commit(c)

rescheduleBookingOnce(c) ==
    /\ Is(c, "agent", "move")
    /\ Begin(c) \/ Reserve(c) \/ Load(c) \/ Materialize(c) \/ LockDate(c) \/ Update(c) \/ Check(c)
       \/ Commit(c)

cancelBookingOnce(c) ==
    /\ Is(c, "agent", "cancel")
    /\ Begin(c) \/ Reserve(c) \/ Load(c) \/ Update(c) \/ Commit(c)

adminCreateBookingOnce(c) ==
    /\ Is(c, "operator", "create")
    /\ Begin(c) \/ Reserve(c) \/ Materialize(c) \/ LockDate(c) \/ Insert(c) \/ Check(c) \/ Commit(c)

adminRescheduleBookingOnce(c) ==
    /\ Is(c, "operator", "move")
    /\ Begin(c) \/ Reserve(c) \/ Load(c) \/ Materialize(c) \/ LockDate(c) \/ Update(c) \/ Check(c)
       \/ Commit(c)

adminCancelBookingOnce(c) ==
    /\ Is(c, "operator", "cancel")
    /\ Begin(c) \/ Load(c) \/ Update(c) \/ Commit(c)

Act(c) ==
    \/ createBookingOnce(c) \/ rescheduleBookingOnce(c) \/ cancelBookingOnce(c)
    \/ adminCreateBookingOnce(c) \/ adminRescheduleBookingOnce(c) \/ adminCancelBookingOnce(c)

Next ==
    \E c \in Calls :
        \/ \E r \in Requests : Start(c, r)
        \/ Act(c)
        \/ Abort(c)
        \/ Fail(c)
        \/ Victim(c)

Spec == Init /\ [][Next]_vars

\* A connection that may run its next statement does, and the deadlock detector
\* does not sleep.
FairSpec == Spec /\ \A c \in Calls : WF_vars(Act(c)) /\ WF_vars(Victim(c))

-----------------------------------------------------------------------------
(* Properties.                                                             *)

RowType ==
    {NoRow} \cup [status : {"confirmed", "cancelled"}, owner : {r.owner : r \in Requests} \cup
                    {Existing[b].owner : b \in {x \in Bookings : Existing[x] # None}},
                  place : Places, ver : Nat \ {0}]

TypeOK ==
    /\ row \in [Bookings -> RowType]
    /\ \A r \in recs : r.key \in Keys /\ r.booking \in Bookings \cup {None}
    /\ events \in SUBSET [call : Calls, booking : Bookings, from : RowType, to : RowType]
    /\ req \in [Calls -> Requests \cup {None}]
    /\ pc \in [Calls -> {"idle", "begin", "returned"} \cup Open]
    /\ tries \in [Calls -> 0 .. Attempts]
    /\ dates \in [Calls -> [made : SUBSET (Staff \X Int), held : SUBSET (Staff \X Int)]]
    /\ tx \in [Calls -> [booking : Bookings \cup {None}, new : RowType]]

\* No two confirmed bookings of a staff member overlap, whatever the isolation
\* level let the writers see: CreateBooking's comment calls the exclusion
\* constraint the final guard.
NoDoubleBooking ==
    \A a, b \in Bookings :
        a # b /\ Active(row[a]) /\ Active(row[b]) => ~Clash(row[a].place, row[b].place)

\* A command with an idempotency key is carried out once, however often it is
\* issued, retried or raced (idempotency_records).
OneEffectPerKey ==
    \A e, f \in events :
        KeyOf(e.call) # None /\ KeyOf(e.call) = KeyOf(f.call) => e = f

\* The events of one booking lead from its first row to the row there is: each
\* starts from the row the one before it left, and no version has two successors.
Gapless(first, last, of) ==
    /\ \A e \in of : /\ e.from = first \/ \E f \in of : f.to = e.from
                     /\ e.to.ver = e.from.ver + 1
                     /\ \A f \in of : f.from = e.from => f = e
    /\ last = first \/ \E e \in of : e.to = last
    /\ Cardinality(of) = last.ver - first.ver

\* booking_events is a gapless history of every booking: no writer overwrites a
\* version it did not read.
AuditTrail ==
    \A b \in Bookings : Gapless(InitialRow(b), row[b], {e \in events : e.booking = b})

\* An answer and the events of the call it answers.
Matches(answer, of) ==
    CASE answer.kind = "ok" -> \E e \in of : of = {e} /\ e.to = answer.row
      [] answer.kind = "lost" -> Cardinality(of) <= 1
      [] OTHER -> of = {}

\* What a caller is told matches what was done: a success is one event ending in
\* the booking that is reported, a refusal none, and only a lost answer or an
\* exhausted call leaves the caller in doubt.
AnswerMatchesEffect ==
    \A c \in Calls : pc[c] = "returned" => Matches(out[c], {e \in events : e.call = c})

\* An operator changes only the version they saw (AdminRescheduleBooking and
\* AdminCancelBooking: "verifies ExpectedVersion under a row lock"), even when
\* it changed between their request and the lock.
OperatorChangesWhatTheySaw ==
    \A e \in events :
        req[e.call].by = "operator" /\ req[e.call].op # "create" => e.from.ver = req[e.call].expect

\* Keys, rows and date locks are taken in an order that cannot deadlock
\* (acquireScheduleLocks: "All writers use that order, preventing a
\* cross-midnight booking from deadlocking another writer on the next day");
\* only the exclusion constraint can make writers wait in a circle.
LocksNeverDeadlock ==
    \A S \in SUBSET {c \in Calls : pc[c] # "check"} : Stuck(S) => S = {}

\* Every call returns: waiters are let through, circles are broken and the
\* attempts run out.
CallsReturn == \A c \in Calls : pc[c] = "begin" ~> pc[c] = "returned"

\* The repository, seen through its committed rows, is a Calendar.
calendar ==
    INSTANCE Calendar WITH
        Existing <- [b \in Bookings |-> InitialRow(b).place],
        appt  <- [b \in Bookings |-> IF Active(row[b]) THEN row[b].place ELSE None],
        gone  <- {b \in Bookings : row[b].status = "cancelled"},
        spent <- {r.key : r \in recs}

\* Transactions, retries and locks implement a calendar that is changed one
\* command at a time and carries out no key twice.
ImplementsCalendar == calendar!Spec

-----------------------------------------------------------------------------
(* What comments and documents promise and the code does not keep; the     *)
(* README says how each of them fails.                                      *)

\* gateway.go, adoptIdempotencyKey: the derived key is "identical for the same
\* appointment, different for any other, and stable across the confirming turn,
\* which is exactly what backend idempotency needs".  So a create that succeeds
\* reports the appointment that was asked for, and it stands.
SuccessMeansBooked ==
    \A c \in Calls :
        out[c].kind \in {"ok", "replayed"} /\ req[c].op = "create" =>
            Active(out[c].row) /\ out[c].row.place = req[c].place

\* tool_backend.go: "RescheduleBooking re-checks the proposed new slot and
\* atomically updates the booking": a customer's move ends on the slot they
\* confirmed, and the engine offers it.
MoveTakesTheConfirmedSlot ==
    \A e \in events :
        req[e.call].by = "agent" /\ req[e.call].op = "move" =>
            e.to.place = req[e.call].place /\ e.to.place \in Grid

\* cancelBookingOnce: "Already cancelled — idempotent."  Cancelling a cancelled
\* booking again succeeds.
CancelIsIdempotent ==
    \A c \in Calls : req[c] # None /\ out[c].kind = "incomplete" => req[c].op # "cancel"

\* contracts.go lets a customer's reason have 500 characters, and so does the
\* bookings table; no reason keeps a booking from being cancelled.
AnyReasonCancels == \A c \in Calls : out[c].kind # "unstorable"

=============================================================================
