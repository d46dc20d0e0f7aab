------------------------------ MODULE JobQueue ------------------------------
(***************************************************************************)
(* The transactional outbox: the jobs and dead_letter_jobs tables of       *)
(* jobqueue.Queue, the workers of cmd/worker that drain them, and the      *)
(* booking transactions of scheduling that enqueue, move and retire jobs.  *)
(*                                                                         *)
(* Time appears as what it makes true: a retry delay has passed (due), a   *)
(* claim is older than the lease (stale).  Statements may fail, a claim's  *)
(* answer may be lost, workers stop or die between any two statements.     *)
(***************************************************************************)
EXTENDS Integers, FiniteSets

CONSTANTS
    Bookings,
    Workers,
    MaxAttempts,  \* jobs.max_attempts
    Batch,        \* Worker.batchSize
    Concurrency,  \* Worker.concurrency
    MaxMoves,     \* bound on the reschedules of a booking
    MaxStops,     \* bound on shutdowns and deaths of workers
    MaxReplays    \* bound on the replays of a dead job

ASSUME JobQueueAssumption ==
    /\ MaxAttempts \in Nat \ {0} /\ Batch \in Nat \ {0} /\ Concurrency \in Nat \ {0}
    /\ MaxMoves \in Nat /\ MaxStops \in Nat /\ MaxReplays \in Nat

VARIABLES
    booking,    \* bookings: status, and starts_at as the number of moves
    job,        \* jobs rows, one of each type for a booking
    graves,     \* number of dead_letter_jobs rows of each job
    replays,    \* history: times each dead job was replayed
    delivered,  \* history: jobs whose reminder or CRM call took effect
    worker,     \* where each worker's loop is
    hand,       \* what each worker does with each job
    stops,      \* history: shutdowns and deaths so far
    stalled     \* history: jobs whose claim outlived the lease in a worker's hand

vars == <<booking, job, graves, replays, delivered, worker, hand, stops, stalled>>

JobTypes == {"send_reminder", "crm_upsert_contact"}

Jobs == Bookings \X JobTypes

Reminder(b) == <<b, "send_reminder">>

NoJob == [status |-> "none", attempts |-> 0, slot |-> 0, timer |-> "none"]

\* The row after an UPDATE of its status and of the times that go with it.
Becomes(row, status, timer) ==
    [status |-> status, attempts |-> row.attempts, slot |-> row.slot, timer |-> timer]

\* A fresh row: next_retry_at is now.
PendingJob == Becomes(NoJob, "pending", "due")

Work(phase, slot) == [phase |-> phase, slot |-> slot]

NoWork == Work("none", 0)

Init ==
    /\ booking = [b \in Bookings |-> [status |-> "none", slot |-> 0]]
    /\ job = [j \in Jobs |-> NoJob]
    /\ graves = [j \in Jobs |-> 0]
    /\ replays = [j \in Jobs |-> 0]
    /\ delivered = {}
    /\ worker = [w \in Workers |-> "top"]
    /\ hand = [w \in Workers |-> [j \in Jobs |-> NoWork]]
    /\ stops = 0
    /\ stalled = {}

Update(j, status, timer) == [job EXCEPT ![j] = Becomes(job[j], status, timer)]

Holds(w, j) == hand[w][j].phase # "none"

InHand(j) == \E w \in Workers : Holds(w, j)

-----------------------------------------------------------------------------
(* The booking transactions.                                               *)

\* enqueueBookingCreatedJobs commits with the booking.
CreateBooking(b) ==
    /\ booking[b].status = "none"
    /\ booking' = [booking EXCEPT ![b].status = "confirmed"]
    /\ job' = [j \in Jobs |-> IF j[1] = b THEN PendingJob ELSE job[j]]
    /\ UNCHANGED <<graves, replays, delivered, worker, hand, stops, stalled>>

\* UpdateReminderSchedule: a claimed reminder is left alone.
UpdateReminderSchedule(b, slot) ==
    job' = IF job[Reminder(b)].status = "pending"
           THEN [job EXCEPT ![Reminder(b)].slot = slot] ELSE job

RescheduleBooking(b) ==
    /\ booking[b].status = "confirmed" /\ booking[b].slot < MaxMoves
    /\ booking' = [booking EXCEPT ![b].slot = booking[b].slot + 1]
    /\ UpdateReminderSchedule(b, booking[b].slot + 1)
    /\ UNCHANGED <<graves, replays, delivered, worker, hand, stops, stalled>>

\* Mutated form of CancelBookingJobs: claimed rows are left alone.
CancelBookingJobs_PendingOnly(b) ==
    job' = IF job[Reminder(b)].status = "pending"
           THEN Update(Reminder(b), "cancelled", "none") ELSE job

\* CancelBookingJobs for send_reminder: pending and claimed rows.
CancelBookingJobs(b) ==
    job' = IF job[Reminder(b)].status \in {"pending", "claimed"}
           THEN Update(Reminder(b), "cancelled", "none") ELSE job

CancelBooking(b) ==
    /\ booking[b].status = "confirmed"
    /\ booking' = [booking EXCEPT ![b].status = "cancelled"]
    /\ CancelBookingJobs(b)
    /\ UNCHANGED <<graves, replays, delivered, worker, hand, stops, stalled>>

-----------------------------------------------------------------------------
(* Time and the operator.                                                  *)

\* next_retry_at passes.
RetryDelayPasses(j) ==
    /\ job[j].timer = "waiting"
    /\ job' = Update(j, "pending", "due")
    /\ UNCHANGED <<booking, graves, replays, delivered, worker, hand, stops, stalled>>

\* The claim outlives the lease, perhaps while a worker still works on the job.
LeasePasses(j) ==
    /\ job[j].timer = "fresh"
    /\ job' = Update(j, "claimed", "stale")
    /\ stalled' = IF InHand(j) THEN stalled \union {j} ELSE stalled
    /\ UNCHANGED <<booking, graves, replays, delivered, worker, hand, stops>>

ReplayDeadLetter(j) ==
    /\ job[j].status = "dead" /\ replays[j] < MaxReplays
    /\ job' = [job EXCEPT ![j] = [PendingJob EXCEPT !.slot = job[j].slot]]
    /\ replays' = [replays EXCEPT ![j] = replays[j] + 1]
    /\ UNCHANGED <<booking, graves, delivered, worker, hand, stops, stalled>>

-----------------------------------------------------------------------------
(* The worker's loop: reap, claim, process the batch.                      *)

Loop(w, step) == worker' = [worker EXCEPT ![w] = step]

Abandoned(j) == job[j].status = "claimed" /\ job[j].timer = "stale"

Exhausted(j) == job[j].attempts >= MaxAttempts

\* Mutated form of Requeue: stale claims stay claimed.
Requeue_Never(row) == row

Requeue(row) == Becomes(row, "pending", "due")

\* One transaction: exhausted stale claims die and are copied, others return.
RequeueStaleClaims(w) ==
    /\ worker[w] = "top"
    /\ job' = [j \in Jobs |-> IF ~Abandoned(j) THEN job[j]
                              ELSE IF Exhausted(j) THEN Becomes(job[j], "dead", "none") ELSE Requeue(job[j])]
    /\ graves' = [j \in Jobs |-> IF Abandoned(j) /\ Exhausted(j) THEN graves[j] + 1 ELSE graves[j]]
    /\ Loop(w, "claim")
    /\ UNCHANGED <<booking, replays, delivered, hand, stops, stalled>>

\* maybeReapStaleClaims returns early within reapInterval, or logs an error.
SkipReap(w) ==
    /\ worker[w] = "top"
    /\ Loop(w, "claim")
    /\ UNCHANGED <<booking, job, graves, replays, delivered, hand, stops, stalled>>

\* Mutated form of Ready: claimed rows are selected too.
Ready_Claimed == {j \in Jobs : job[j].status = "claimed" \/ job[j].timer = "due"}

Ready == {j \in Jobs : job[j].status = "pending" /\ job[j].timer = "due"}

Taken(row) == [Becomes(row, "claimed", "fresh") EXCEPT !.attempts = row.attempts + 1]

Claim(S) ==
    job' = [j \in Jobs |-> IF j \in S THEN Taken(job[j]) ELSE job[j]]

\* Up to Batch rows; SKIP LOCKED may pass over any of the others.
ClaimBatch(w, S) ==
    /\ worker[w] = "claim"
    /\ S # {} /\ S \subseteq Ready /\ Cardinality(S) <= Batch
    /\ Claim(S)
    /\ hand' = [hand EXCEPT ![w] = [j \in Jobs |-> IF j \in S
                                     THEN Work("queued", job[j].slot) ELSE NoWork]]
    /\ Loop(w, "batch")
    /\ UNCHANGED <<booking, graves, replays, delivered, stops, stalled>>

\* The claim committed but reading its rows failed: nobody works on them.
ClaimLost(w, S) ==
    /\ worker[w] = "claim"
    /\ S # {} /\ S \subseteq Ready /\ Cardinality(S) <= Batch
    /\ Claim(S)
    /\ Loop(w, "top")
    /\ UNCHANGED <<booking, graves, replays, delivered, hand, stops, stalled>>

\* Nothing to claim, or the statement failed: wait for the next poll.
ClaimNothing(w) ==
    /\ worker[w] = "claim"
    /\ Loop(w, "top")
    /\ UNCHANGED <<booking, job, graves, replays, delivered, hand, stops, stalled>>

\* wg.Wait returns.
BatchDone(w) ==
    /\ worker[w] \in {"batch", "draining"}
    /\ \A j \in Jobs : ~Holds(w, j)
    /\ Loop(w, IF worker[w] = "batch" THEN "top" ELSE "down")
    /\ UNCHANGED <<booking, job, graves, replays, delivered, hand, stops, stalled>>

\* SIGTERM: the loop returns; a batch in progress drains.
Shutdown(w) ==
    /\ worker[w] \in {"top", "claim", "batch"} /\ stops < MaxStops
    /\ Loop(w, IF worker[w] = "batch" THEN "draining" ELSE "down")
    /\ stops' = stops + 1
    /\ UNCHANGED <<booking, job, graves, replays, delivered, hand, stalled>>

Die(w) ==
    /\ worker[w] # "down" /\ stops < MaxStops
    /\ Loop(w, "down")
    /\ hand' = [hand EXCEPT ![w] = [j \in Jobs |-> NoWork]]
    /\ stops' = stops + 1
    /\ UNCHANGED <<booking, job, graves, replays, delivered, stalled>>

Restart(w) ==
    /\ worker[w] = "down"
    /\ Loop(w, "top")
    /\ UNCHANGED <<booking, job, graves, replays, delivered, hand, stops, stalled>>

-----------------------------------------------------------------------------
(* processOne, one goroutine for each job of the batch.                    *)

Phase(w, j, phase) == hand' = [hand EXCEPT ![w][j] = Work(phase, 0)]

LetGo(w, j) == Phase(w, j, "none")

Busy(w) == Cardinality({j \in Jobs : Holds(w, j) /\ hand[w][j].phase # "queued"})

\* The goroutine gets a place in the semaphore.
Start(w, j) ==
    /\ hand[w][j].phase = "queued" /\ Busy(w) < Concurrency
    /\ hand' = [hand EXCEPT ![w][j] = Work("running", hand[w][j].slot)]
    /\ UNCHANGED <<booking, job, graves, replays, delivered, worker, stops, stalled>>

\* The batch loop breaks after a shutdown: the claim is left to the reaper.
Drop(w, j) ==
    /\ worker[w] = "draining" /\ hand[w][j].phase = "queued"
    /\ LetGo(w, j)
    /\ UNCHANGED <<booking, job, graves, replays, delivered, worker, stops, stalled>>

DispatchSucceeds(w, j) ==
    /\ hand[w][j].phase = "running"
    /\ delivered' = delivered \union {j}
    /\ Phase(w, j, "completing")
    /\ UNCHANGED <<booking, job, graves, replays, worker, stops, stalled>>

\* An error or the job timeout; the call may have taken effect all the same.
DispatchFails(w, j) ==
    /\ hand[w][j].phase = "running"
    /\ delivered' \in {delivered, delivered \union {j}}
    /\ Phase(w, j, "failing")
    /\ UNCHANGED <<booking, job, graves, replays, worker, stops, stalled>>

\* Mutated form of Claimed: the terminal writes do not look at the status.
Claimed_Any(j) == TRUE

\* The WHERE clause of every terminal write.
Claimed(j) == job[j].status = "claimed"

Complete(w, j) ==
    /\ hand[w][j].phase = "completing"
    /\ job' = IF Claimed(j) THEN Update(j, "completed", "none") ELSE job
    /\ LetGo(w, j)
    /\ UNCHANGED <<booking, graves, replays, delivered, worker, stops, stalled>>

\* Mutated form of AfterFailure: one attempt too many.
AfterFailure_OneMore(j) == IF job[j].attempts <= MaxAttempts THEN "retrying" ELSE "burying"

\* Fail's decision from the row it read.
AfterFailure(j) == IF job[j].attempts < MaxAttempts THEN "retrying" ELSE "burying"

Fail(w, j) ==
    /\ hand[w][j].phase = "failing"
    /\ IF Claimed(j) THEN Phase(w, j, AfterFailure(j)) ELSE LetGo(w, j)
    /\ UNCHANGED <<booking, job, graves, replays, delivered, worker, stops, stalled>>

RetryJob(w, j) ==
    /\ hand[w][j].phase = "retrying"
    /\ job' = IF Claimed(j) THEN Update(j, "pending", "waiting") ELSE job
    /\ LetGo(w, j)
    /\ UNCHANGED <<booking, graves, replays, delivered, worker, stops, stalled>>

\* Mutated form of Copied: the copy is made of a row already dead.
Copied_Dead(j) == job[j].status = "dead"

\* Whether INSERT ... SELECT finds the row.
Copied(j) == job[j].status = "claimed"

\* deadLetter's first statement; the copy is not visible before the commit.
DeadLetterCopy(w, j) ==
    /\ hand[w][j].phase = "burying"
    /\ Phase(w, j, IF Copied(j) THEN "copied" ELSE "missed")
    /\ UNCHANGED <<booking, job, graves, replays, delivered, worker, stops, stalled>>

\* deadLetter's second statement and its commit.
DeadLetter(w, j) ==
    /\ hand[w][j].phase \in {"copied", "missed"}
    /\ graves' = IF hand[w][j].phase = "copied" THEN [graves EXCEPT ![j] = graves[j] + 1] ELSE graves
    /\ job' = IF Claimed(j) THEN Update(j, "dead", "none") ELSE job
    /\ LetGo(w, j)
    /\ UNCHANGED <<booking, replays, delivered, worker, stops, stalled>>

\* A terminal write fails or runs out of its five seconds: it is only logged.
TerminalWriteFails(w, j) ==
    /\ hand[w][j].phase \in {"completing", "failing", "retrying", "burying", "copied", "missed"}
    /\ LetGo(w, j)
    /\ UNCHANGED <<booking, job, graves, replays, delivered, worker, stops, stalled>>

-----------------------------------------------------------------------------
ProcessOne(w, j) ==
    \/ Start(w, j) \/ Drop(w, j) \/ DispatchSucceeds(w, j) \/ DispatchFails(w, j)
    \/ Complete(w, j) \/ Fail(w, j) \/ RetryJob(w, j)
    \/ DeadLetterCopy(w, j) \/ DeadLetter(w, j) \/ TerminalWriteFails(w, j)

ClaimSome(w) == \E S \in SUBSET Jobs : ClaimBatch(w, S)

WorkerLoop(w) ==
    \/ RequeueStaleClaims(w) \/ SkipReap(w) \/ ClaimSome(w)
    \/ (\E S \in SUBSET Jobs : ClaimLost(w, S)) \/ ClaimNothing(w) \/ BatchDone(w) \/ Restart(w)

Next ==
    \/ \E b \in Bookings : CreateBooking(b) \/ RescheduleBooking(b) \/ CancelBooking(b)
    \/ \E j \in Jobs : RetryDelayPasses(j) \/ LeasePasses(j) \/ ReplayDeadLetter(j)
    \/ \E w \in Workers : WorkerLoop(w) \/ Shutdown(w) \/ Die(w)
    \/ \E w \in Workers, j \in Jobs : ProcessOne(w, j)

Spec == Init /\ [][Next]_vars

\* Time passes, a worker's goroutines keep running and a stopped worker is
\* restarted; its loop does not skip the reaper for ever (reapInterval), nor
\* does every claim of a ready job fail.
Fairness ==
    /\ \A j \in Jobs : WF_vars(RetryDelayPasses(j)) /\ WF_vars(LeasePasses(j))
    /\ \A w \in Workers : /\ WF_vars(WorkerLoop(w))
                          /\ SF_vars(RequeueStaleClaims(w))
                          /\ SF_vars(ClaimSome(w))
    /\ \A w \in Workers, j \in Jobs : WF_vars(ProcessOne(w, j))

FairSpec == Spec /\ Fairness

-----------------------------------------------------------------------------
Phases == {"none", "queued", "running", "completing", "failing", "retrying", "burying",
           "copied", "missed"}

Statuses == {"none", "pending", "claimed", "completed", "dead", "cancelled"}

Timers == {"none", "waiting", "due", "fresh", "stale"}

JobRows == [status : Statuses, attempts : Nat, slot : 0..MaxMoves, timer : Timers]

WorkRows == [phase : Phases, slot : 0..MaxMoves]

\* The values of the tables and of the workers' variables; only a claimed row
\* has a claim to outlive, only a pending one waits for its retry time.
TypeOK ==
    /\ booking \in [Bookings -> [status : {"none", "confirmed", "cancelled"}, slot : 0..MaxMoves]]
    /\ job \in [Jobs -> JobRows]
    /\ \A j \in Jobs : /\ job[j].timer \in {"fresh", "stale"} <=> job[j].status = "claimed"
                       /\ job[j].timer \in {"waiting", "due"} <=> job[j].status = "pending"
    /\ graves \in [Jobs -> Nat]
    /\ replays \in [Jobs -> Nat]
    /\ delivered \subseteq Jobs
    /\ worker \in [Workers -> {"top", "claim", "batch", "draining", "down"}]
    /\ hand \in [Workers -> [Jobs -> WorkRows]]
    /\ stops \in Nat
    /\ stalled \subseteq Jobs

\* A job that left the queue stays out: whatever a slow worker, a reaper or a
\* cancellation still writes, completed and cancelled rows do not change and a
\* dead one changes only by a replay (the status guard of every UPDATE).
SettledStays ==
    [][\A j \in Jobs :
         \/ job[j].status \notin {"completed", "cancelled", "dead"}
         \/ job'[j] = job[j]
         \/ job[j].status = "dead" /\ replays'[j] > replays[j]]_vars

\* No reminder of a cancelled booking can be claimed again, even when the
\* cancellation came while a worker was about to retry it, unless an operator
\* replayed it (CancelBookingJobs against retryJob and the reaper).
NoReminderAfterCancel ==
    \A b \in Bookings :
        booking[b].status = "cancelled" /\ replays[Reminder(b)] = 0 =>
            job[Reminder(b)].status \notin {"pending", "claimed"}

\* The outbox guarantee: a job is completed only if its effect took place.
CompletedWasDelivered ==
    \A j \in Jobs : job[j].status = "completed" => j \in delivered

\* While a job is done within its lease no two workers work on it, and it is
\* not offered to a third (SKIP LOCKED, the lease).
OneWorkerPerJob ==
    \A j \in Jobs \ stalled :
        /\ \A v, w \in Workers : Holds(v, j) /\ Holds(w, j) => v = w
        /\ InHand(j) => job[j].status \in {"claimed", "cancelled"}

\* Unless it outlived its lease a job is attempted at most max_attempts times
\* between replays, crashes and lost claims included (Fail, RequeueStaleClaims).
AttemptsBounded == \A j \in Jobs \ stalled : job[j].attempts <= MaxAttempts

\* Every death of a job that kept within its lease leaves its dead_letter_jobs
\* row for the operator (deadLetter, RequeueStaleClaims).
DeadIsRecorded ==
    \A j \in Jobs \ stalled : graves[j] >= replays[j] + (IF job[j].status = "dead" THEN 1 ELSE 0)

\* What the lease promises a job that keeps within it: one worker at a time,
\* max_attempts attempts between replays, and a record of every death.
TimelyJobs == OneWorkerPerJob /\ AttemptsBounded /\ DeadIsRecorded

\* A job is never stranded: completed, dead or cancelled in the end, whoever
\* dies holding it (RequeueStaleClaims).
EveryJobSettles ==
    \A j \in Jobs : job[j].status \in {"pending", "claimed"}
                      ~> job[j].status \in {"completed", "dead", "cancelled"}

-----------------------------------------------------------------------------
(* What comments and documents promise and the code does not keep; the     *)
(* README says how each of them fails.                                      *)

\* What RescheduleBooking's comment promises: the pending reminder of a
\* booking carries the booking's current time.
PendingReminderIsCurrent ==
    \A b \in Bookings :
        booking[b].status = "confirmed" /\ job[Reminder(b)].status = "pending" =>
            job[Reminder(b)].slot = booking[b].slot

\* What CancelBookingJobs' comment promises: a claimed reminder of a cancelled
\* booking is not sent.
CancelledReminderIsNotSent ==
    [][\A b \in Bookings :
         booking[b].status = "cancelled" /\ Reminder(b) \notin delivered =>
            Reminder(b) \notin delivered']_vars

-----------------------------------------------------------------------------
(* The inductive strengthening of the safety properties above.             *)

\* A job row exists only with its booking.
OutboxInv ==
    \A j \in Jobs : booking[j[1]].status = "none" => job[j].status = "none"

\* A worker that is about to record a success has had it.
DoneInv ==
    /\ CompletedWasDelivered
    /\ \A w \in Workers, j \in Jobs : hand[w][j].phase = "completing" => j \in delivered

\* As long as a job keeps within its lease: a stale claim is in nobody's hand,
\* a job that will be tried again has attempts left, and a death about to be
\* committed has its copy unless the job was cancelled meanwhile.
ClaimInv ==
    /\ OneWorkerPerJob
    /\ AttemptsBounded
    /\ DeadIsRecorded
    /\ \A j \in Jobs \ stalled :
        /\ job[j].timer = "stale" => ~InHand(j)
        /\ job[j].status = "pending" => job[j].attempts < MaxAttempts
    /\ \A w \in Workers, j \in Jobs \ stalled :
        job[j].status = "claimed" =>
            /\ hand[w][j].phase = "retrying" => job[j].attempts < MaxAttempts
            /\ hand[w][j].phase # "missed"

\* The queue's invariant.
QueueInv ==
    /\ TypeOK
    /\ NoReminderAfterCancel
    /\ OutboxInv
    /\ DoneInv
    /\ ClaimInv
=============================================================================
