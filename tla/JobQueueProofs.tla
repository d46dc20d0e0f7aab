--------------------------- MODULE JobQueueProofs ---------------------------
(***************************************************************************)
(* Proofs about JobQueue for every number of bookings and workers, every   *)
(* batch size and every max_attempts.                                      *)
(***************************************************************************)
EXTENDS JobQueue, TLAPS

\* The queue starts empty.
LEMMA InitQueue == Init => QueueInv
BY JobQueueAssumption
   DEF Init, QueueInv, TypeOK, NoReminderAfterCancel, OutboxInv, ClaimInv, OneWorkerPerJob,
       DoneInv, CompletedWasDelivered,
       AttemptsBounded, DeadIsRecorded, InHand, Holds, NoJob, NoWork, Work, JobRows, WorkRows,
       Statuses, Timers, Phases, Jobs, JobTypes, Reminder

\* A job names its booking, and a booking has one reminder.
LEMMA JobFacts ==
    /\ \A j \in Jobs : j[1] \in Bookings
    /\ \A b \in Bookings : Reminder(b) \in Jobs /\ Reminder(b)[1] = b
BY Zenon DEF Jobs, Reminder, JobTypes

\* The columns of a jobs row, and what an UPDATE of its status leaves alone.
LEMMA RowFacts ==
    /\ \A row \in JobRows : /\ row.status \in Statuses /\ row.attempts \in Nat
                            /\ row.slot \in 0..MaxMoves /\ row.timer \in Timers
    /\ \A row \in JobRows, s \in Statuses, t \in Timers :
          /\ Becomes(row, s, t) \in JobRows
          /\ Becomes(row, s, t).status = s /\ Becomes(row, s, t).timer = t
          /\ Becomes(row, s, t).attempts = row.attempts /\ Becomes(row, s, t).slot = row.slot
    /\ \A row \in JobRows, n \in 0..MaxMoves :
          /\ [row EXCEPT !.slot = n] \in JobRows /\ [row EXCEPT !.slot = n].slot = n
          /\ [row EXCEPT !.slot = n].status = row.status
          /\ [row EXCEPT !.slot = n].timer = row.timer
          /\ [row EXCEPT !.slot = n].attempts = row.attempts
    /\ \A row \in JobRows :
          /\ Taken(row) \in JobRows /\ Taken(row).attempts = row.attempts + 1
          /\ Taken(row).status = "claimed" /\ Taken(row).timer = "fresh"
    /\ PendingJob \in JobRows /\ PendingJob.attempts = 0
    /\ PendingJob.status = "pending" /\ PendingJob.timer = "due"
<1>1. \A row \in JobRows : /\ row.status \in Statuses /\ row.attempts \in Nat
                           /\ row.slot \in 0..MaxMoves /\ row.timer \in Timers
  BY Zenon DEF JobRows
<1>2. ASSUME NEW row \in JobRows, NEW s \in Statuses, NEW t \in Timers
      PROVE  /\ Becomes(row, s, t) \in JobRows
             /\ Becomes(row, s, t).status = s /\ Becomes(row, s, t).timer = t
             /\ Becomes(row, s, t).attempts = row.attempts /\ Becomes(row, s, t).slot = row.slot
  BY Zenon DEF JobRows, Becomes
<1>3. ASSUME NEW row \in JobRows, NEW n \in 0..MaxMoves
      PROVE  /\ [row EXCEPT !.slot = n] \in JobRows /\ [row EXCEPT !.slot = n].slot = n
             /\ [row EXCEPT !.slot = n].status = row.status
             /\ [row EXCEPT !.slot = n].timer = row.timer
             /\ [row EXCEPT !.slot = n].attempts = row.attempts
  BY Zenon DEF JobRows
<1>4. ASSUME NEW row \in JobRows
      PROVE  /\ Taken(row) \in JobRows /\ Taken(row).attempts = row.attempts + 1
             /\ Taken(row).status = "claimed" /\ Taken(row).timer = "fresh"
  <2>1. Becomes(row, "claimed", "fresh") \in JobRows
    BY <1>2 DEF Statuses, Timers
  <2>2. row.attempts + 1 \in Nat
    BY <1>1
  <2> QED
    BY <2>1, <2>2, <1>2 DEF Taken, JobRows, Statuses, Timers
<1>5. NoJob \in JobRows /\ NoJob.attempts = 0
  BY JobQueueAssumption DEF NoJob, JobRows, Statuses, Timers
<1>6. /\ PendingJob \in JobRows /\ PendingJob.attempts = 0
      /\ PendingJob.status = "pending" /\ PendingJob.timer = "due"
  BY <1>2, <1>5 DEF PendingJob, Statuses, Timers
<1> QED
  BY <1>1, <1>2, <1>3, <1>4, <1>6, Zenon

\* What a worker remembers of a job.
LEMMA WorkFacts ==
    /\ \A x \in WorkRows : x.phase \in Phases /\ x.slot \in 0..MaxMoves
    /\ \A p \in Phases, n \in 0..MaxMoves :
          Work(p, n) \in WorkRows /\ Work(p, n).phase = p /\ Work(p, n).slot = n
    /\ 0 \in 0..MaxMoves
BY JobQueueAssumption DEF WorkRows, Work

\* Every statement of the workers and of the booking transactions keeps the types.
LEMMA TypeStep == TypeOK /\ [Next]_vars => TypeOK'
<1> SUFFICES ASSUME TypeOK, [Next]_vars PROVE TypeOK'
  BY Zenon
<1> USE JobQueueAssumption, JobFacts, RowFacts, WorkFacts
<1>1. ASSUME NEW b \in Bookings, CreateBooking(b) PROVE TypeOK'
  <2>1. booking' \in [Bookings -> [status : {"none", "confirmed", "cancelled"}, slot : 0..MaxMoves]]
    <3>1. booking' = [booking EXCEPT ![b].status = "confirmed"]
      BY <1>1, Zenon DEF CreateBooking
    <3>2. booking \in [Bookings -> [status : {"none", "confirmed", "cancelled"}, slot : 0..MaxMoves]]
      BY Zenon DEF TypeOK
    <3> QED
      BY <3>1, <3>2
  <2>2. \A j \in Jobs : job'[j] \in {PendingJob, job[j]}
    BY <1>1, Zenon DEF CreateBooking
  <2>3. job' \in [Jobs -> JobRows]
    BY <1>1, <2>2, Zenon DEF CreateBooking, TypeOK
  <2> QED
    BY <1>1, <2>1, <2>2, <2>3 DEF CreateBooking, TypeOK
<1>2. ASSUME NEW b \in Bookings, RescheduleBooking(b) PROVE TypeOK'
  BY <1>2 DEF RescheduleBooking, UpdateReminderSchedule, TypeOK, Statuses, Timers, Phases
<1>3. ASSUME NEW b \in Bookings, CancelBooking(b) PROVE TypeOK'
  <2>1. booking' \in [Bookings -> [status : {"none", "confirmed", "cancelled"}, slot : 0..MaxMoves]]
    <3>1. booking' = [booking EXCEPT ![b].status = "cancelled"]
      BY <1>3, Zenon DEF CancelBooking
    <3>2. booking \in [Bookings -> [status : {"none", "confirmed", "cancelled"}, slot : 0..MaxMoves]]
      BY Zenon DEF TypeOK
    <3> QED
      BY <3>1, <3>2
  <2> QED
    BY <1>3, <2>1 DEF CancelBooking, CancelBookingJobs, Update, TypeOK, Statuses, Timers
<1>4. ASSUME NEW k \in Jobs, RetryDelayPasses(k) PROVE TypeOK'
  BY <1>4 DEF RetryDelayPasses, Update, TypeOK, Statuses, Timers, Phases
<1>5. ASSUME NEW k \in Jobs, LeasePasses(k) PROVE TypeOK'
  BY <1>5 DEF LeasePasses, Update, TypeOK, Statuses, Timers, Phases
<1>6. ASSUME NEW k \in Jobs, ReplayDeadLetter(k) PROVE TypeOK'
  BY <1>6 DEF ReplayDeadLetter, TypeOK, Statuses, Timers, Phases
<1>7. ASSUME NEW w \in Workers, RequeueStaleClaims(w) PROVE TypeOK'
  BY <1>7 DEF RequeueStaleClaims, Abandoned, Exhausted, Requeue, Loop, TypeOK, Statuses,
    Timers, Phases
<1>8. ASSUME NEW w \in Workers, SkipReap(w) PROVE TypeOK'
  BY <1>8 DEF SkipReap, Loop, TypeOK, Statuses, Timers, Phases
<1>9. ASSUME NEW w \in Workers, ClaimNothing(w) PROVE TypeOK'
  BY <1>9 DEF ClaimNothing, Loop, TypeOK, Statuses, Timers, Phases
<1>10. ASSUME NEW w \in Workers, BatchDone(w) PROVE TypeOK'
  BY <1>10 DEF BatchDone, Loop, TypeOK, Statuses, Timers, Phases
<1>11. ASSUME NEW w \in Workers, Shutdown(w) PROVE TypeOK'
  BY <1>11 DEF Shutdown, Loop, TypeOK, Statuses, Timers, Phases
<1>12. ASSUME NEW w \in Workers, Die(w) PROVE TypeOK'
  BY <1>12 DEF Die, Loop, NoWork, TypeOK, Statuses, Timers, Phases
<1>13. ASSUME NEW w \in Workers, Restart(w) PROVE TypeOK'
  BY <1>13 DEF Restart, Loop, TypeOK, Statuses, Timers, Phases
<1>14. ASSUME NEW w \in Workers, NEW S \in SUBSET Jobs, ClaimBatch(w, S) PROVE TypeOK'
  BY <1>14 DEF ClaimBatch, Ready, Claim, Loop, NoWork, TypeOK, Statuses, Timers, Phases
<1>15. ASSUME NEW w \in Workers, NEW S \in SUBSET Jobs, ClaimLost(w, S) PROVE TypeOK'
  BY <1>15 DEF ClaimLost, Ready, Claim, Loop, TypeOK, Statuses, Timers, Phases
<1>16. ASSUME NEW w \in Workers, NEW k \in Jobs, Start(w, k) PROVE TypeOK'
  BY <1>16 DEF Start, TypeOK, Statuses, Timers, Phases
<1>17. ASSUME NEW w \in Workers, NEW k \in Jobs, Drop(w, k) PROVE TypeOK'
  BY <1>17 DEF Drop, LetGo, Phase, TypeOK, Statuses, Timers, Phases
<1>18. ASSUME NEW w \in Workers, NEW k \in Jobs, DispatchSucceeds(w, k) PROVE TypeOK'
  BY <1>18 DEF DispatchSucceeds, Phase, TypeOK, Statuses, Timers, Phases
<1>19. ASSUME NEW w \in Workers, NEW k \in Jobs, DispatchFails(w, k) PROVE TypeOK'
  BY <1>19 DEF DispatchFails, Phase, TypeOK, Statuses, Timers, Phases
<1>20. ASSUME NEW w \in Workers, NEW k \in Jobs, Complete(w, k) PROVE TypeOK'
  BY <1>20 DEF Complete, Claimed, Update, LetGo, Phase, TypeOK, Statuses, Timers, Phases
<1>21. ASSUME NEW w \in Workers, NEW k \in Jobs, Fail(w, k) PROVE TypeOK'
  <2>1. PICK p \in Phases : hand' = [hand EXCEPT ![w][k] = Work(p, 0)]
    BY <1>21, Zenon DEF Fail, AfterFailure, LetGo, Phase, Phases
  <2> QED
    BY <1>21, <2>1 DEF Fail, TypeOK
<1>22. ASSUME NEW w \in Workers, NEW k \in Jobs, RetryJob(w, k) PROVE TypeOK'
  BY <1>22 DEF RetryJob, Claimed, Update, LetGo, Phase, TypeOK, Statuses, Timers, Phases
<1>23. ASSUME NEW w \in Workers, NEW k \in Jobs, DeadLetterCopy(w, k) PROVE TypeOK'
  BY <1>23 DEF DeadLetterCopy, Copied, Phase, TypeOK, Statuses, Timers, Phases
<1>24. ASSUME NEW w \in Workers, NEW k \in Jobs, DeadLetter(w, k) PROVE TypeOK'
  BY <1>24 DEF DeadLetter, Claimed, Update, LetGo, Phase, TypeOK, Statuses, Timers, Phases
<1>25. ASSUME NEW w \in Workers, NEW k \in Jobs, TerminalWriteFails(w, k) PROVE TypeOK'
  BY <1>25 DEF TerminalWriteFails, LetGo, Phase, TypeOK, Statuses, Timers, Phases
<1>26. ASSUME UNCHANGED vars PROVE TypeOK'
  BY <1>26 DEF vars, TypeOK, Statuses, Timers, Phases
<1> QED
  BY Zenon, <1>1, <1>2, <1>3, <1>4, <1>5, <1>6, <1>7, <1>8, <1>9, <1>10, <1>11, <1>12, <1>13,
    <1>14, <1>15, <1>16, <1>17, <1>18, <1>19, <1>20, <1>21, <1>22, <1>23, <1>24, <1>25,
    <1>26
     DEF Next, WorkerLoop, ClaimSome, ProcessOne

\* No statement revives the reminder of a cancelled booking.
LEMMA CancelStep == TypeOK /\ NoReminderAfterCancel /\ [Next]_vars => NoReminderAfterCancel'
<1> SUFFICES ASSUME TypeOK, NoReminderAfterCancel, [Next]_vars PROVE NoReminderAfterCancel'
  BY Zenon
<1> USE JobQueueAssumption, JobFacts, RowFacts, WorkFacts
<1>1. ASSUME NEW b \in Bookings, CreateBooking(b) PROVE NoReminderAfterCancel'
  BY <1>1 DEF CreateBooking, TypeOK, Statuses, Timers, NoReminderAfterCancel
<1>2. ASSUME NEW b \in Bookings, RescheduleBooking(b) PROVE NoReminderAfterCancel'
  BY <1>2 DEF RescheduleBooking, UpdateReminderSchedule, TypeOK, Statuses, Timers,
    NoReminderAfterCancel
<1>3. ASSUME NEW b \in Bookings, CancelBooking(b) PROVE NoReminderAfterCancel'
  BY <1>3 DEF CancelBooking, CancelBookingJobs, Update, TypeOK, Statuses, Timers,
    NoReminderAfterCancel
<1>4. ASSUME NEW k \in Jobs, RetryDelayPasses(k) PROVE NoReminderAfterCancel'
  BY <1>4 DEF RetryDelayPasses, Update, TypeOK, Statuses, Timers, NoReminderAfterCancel
<1>5. ASSUME NEW k \in Jobs, LeasePasses(k) PROVE NoReminderAfterCancel'
  BY <1>5 DEF LeasePasses, Update, TypeOK, Statuses, Timers, NoReminderAfterCancel
<1>6. ASSUME NEW k \in Jobs, ReplayDeadLetter(k) PROVE NoReminderAfterCancel'
  BY <1>6 DEF ReplayDeadLetter, TypeOK, Statuses, Timers, NoReminderAfterCancel
<1>7. ASSUME NEW w \in Workers, RequeueStaleClaims(w) PROVE NoReminderAfterCancel'
  BY <1>7 DEF RequeueStaleClaims, Abandoned, Exhausted, Requeue, Loop, TypeOK, Statuses,
    Timers, NoReminderAfterCancel
<1>8. ASSUME NEW w \in Workers, SkipReap(w) PROVE NoReminderAfterCancel'
  BY <1>8 DEF SkipReap, Loop, TypeOK, Statuses, Timers, NoReminderAfterCancel
<1>9. ASSUME NEW w \in Workers, ClaimNothing(w) PROVE NoReminderAfterCancel'
  BY <1>9 DEF ClaimNothing, Loop, TypeOK, Statuses, Timers, NoReminderAfterCancel
<1>10. ASSUME NEW w \in Workers, BatchDone(w) PROVE NoReminderAfterCancel'
  BY <1>10 DEF BatchDone, Loop, TypeOK, Statuses, Timers, NoReminderAfterCancel
<1>11. ASSUME NEW w \in Workers, Shutdown(w) PROVE NoReminderAfterCancel'
  BY <1>11 DEF Shutdown, Loop, TypeOK, Statuses, Timers, NoReminderAfterCancel
<1>12. ASSUME NEW w \in Workers, Die(w) PROVE NoReminderAfterCancel'
  BY <1>12 DEF Die, Loop, NoWork, TypeOK, Statuses, Timers, NoReminderAfterCancel
<1>13. ASSUME NEW w \in Workers, Restart(w) PROVE NoReminderAfterCancel'
  BY <1>13 DEF Restart, Loop, TypeOK, Statuses, Timers, NoReminderAfterCancel
<1>14. ASSUME NEW w \in Workers, NEW S \in SUBSET Jobs, ClaimBatch(w, S) PROVE NoReminderAfterCancel'
  BY <1>14 DEF ClaimBatch, Ready, Claim, Loop, NoWork, TypeOK, Statuses, Timers,
    NoReminderAfterCancel
<1>15. ASSUME NEW w \in Workers, NEW S \in SUBSET Jobs, ClaimLost(w, S) PROVE NoReminderAfterCancel'
  BY <1>15 DEF ClaimLost, Ready, Claim, Loop, TypeOK, Statuses, Timers,
    NoReminderAfterCancel
<1>16. ASSUME NEW w \in Workers, NEW k \in Jobs, Start(w, k) PROVE NoReminderAfterCancel'
  BY <1>16 DEF Start, TypeOK, Statuses, Timers, NoReminderAfterCancel
<1>17. ASSUME NEW w \in Workers, NEW k \in Jobs, Drop(w, k) PROVE NoReminderAfterCancel'
  BY <1>17 DEF Drop, LetGo, Phase, TypeOK, Statuses, Timers, NoReminderAfterCancel
<1>18. ASSUME NEW w \in Workers, NEW k \in Jobs, DispatchSucceeds(w, k) PROVE NoReminderAfterCancel'
  BY <1>18 DEF DispatchSucceeds, Phase, TypeOK, Statuses, Timers, NoReminderAfterCancel
<1>19. ASSUME NEW w \in Workers, NEW k \in Jobs, DispatchFails(w, k) PROVE NoReminderAfterCancel'
  BY <1>19 DEF DispatchFails, Phase, TypeOK, Statuses, Timers, NoReminderAfterCancel
<1>20. ASSUME NEW w \in Workers, NEW k \in Jobs, Complete(w, k) PROVE NoReminderAfterCancel'
  BY <1>20 DEF Complete, Claimed, Update, LetGo, Phase, TypeOK, Statuses, Timers,
    NoReminderAfterCancel
<1>21. ASSUME NEW w \in Workers, NEW k \in Jobs, Fail(w, k) PROVE NoReminderAfterCancel'
  BY <1>21 DEF Fail, Claimed, AfterFailure, Phase, LetGo, TypeOK, Statuses, Timers,
    NoReminderAfterCancel
<1>22. ASSUME NEW w \in Workers, NEW k \in Jobs, RetryJob(w, k) PROVE NoReminderAfterCancel'
  BY <1>22 DEF RetryJob, Claimed, Update, LetGo, Phase, TypeOK, Statuses, Timers,
    NoReminderAfterCancel
<1>23. ASSUME NEW w \in Workers, NEW k \in Jobs, DeadLetterCopy(w, k) PROVE NoReminderAfterCancel'
  BY <1>23 DEF DeadLetterCopy, Copied, Phase, TypeOK, Statuses, Timers,
    NoReminderAfterCancel
<1>24. ASSUME NEW w \in Workers, NEW k \in Jobs, DeadLetter(w, k) PROVE NoReminderAfterCancel'
  BY <1>24 DEF DeadLetter, Claimed, Update, LetGo, Phase, TypeOK, Statuses, Timers,
    NoReminderAfterCancel
<1>25. ASSUME NEW w \in Workers, NEW k \in Jobs, TerminalWriteFails(w, k) PROVE NoReminderAfterCancel'
  BY <1>25 DEF TerminalWriteFails, LetGo, Phase, TypeOK, Statuses, Timers,
    NoReminderAfterCancel
<1>26. ASSUME UNCHANGED vars PROVE NoReminderAfterCancel'
  BY SMTT(60), <1>26 DEF vars, TypeOK, Statuses, Timers, NoReminderAfterCancel
<1> QED
  BY Zenon, <1>1, <1>2, <1>3, <1>4, <1>5, <1>6, <1>7, <1>8, <1>9, <1>10, <1>11, <1>12, <1>13,
    <1>14, <1>15, <1>16, <1>17, <1>18, <1>19, <1>20, <1>21, <1>22, <1>23, <1>24, <1>25,
    <1>26
     DEF Next, WorkerLoop, ClaimSome, ProcessOne

\* A row is written only for a booking that exists.
LEMMA OutboxStep == TypeOK /\ OutboxInv /\ [Next]_vars => OutboxInv'
<1> SUFFICES ASSUME TypeOK, OutboxInv, [Next]_vars PROVE OutboxInv'
  BY Zenon
<1> USE JobQueueAssumption, JobFacts, RowFacts, WorkFacts
<1>1. ASSUME NEW b \in Bookings, CreateBooking(b) PROVE OutboxInv'
  BY <1>1 DEF CreateBooking, TypeOK, Statuses, Timers, OutboxInv
<1>2. ASSUME NEW b \in Bookings, RescheduleBooking(b) PROVE OutboxInv'
  BY <1>2 DEF RescheduleBooking, UpdateReminderSchedule, TypeOK, Statuses, Timers, OutboxInv
<1>3. ASSUME NEW b \in Bookings, CancelBooking(b) PROVE OutboxInv'
  BY <1>3 DEF CancelBooking, CancelBookingJobs, Update, TypeOK, Statuses, Timers, OutboxInv
<1>4. ASSUME NEW k \in Jobs, RetryDelayPasses(k) PROVE OutboxInv'
  BY <1>4 DEF RetryDelayPasses, Update, TypeOK, Statuses, Timers, OutboxInv
<1>5. ASSUME NEW k \in Jobs, LeasePasses(k) PROVE OutboxInv'
  BY <1>5 DEF LeasePasses, Update, TypeOK, Statuses, Timers, OutboxInv
<1>6. ASSUME NEW k \in Jobs, ReplayDeadLetter(k) PROVE OutboxInv'
  BY <1>6 DEF ReplayDeadLetter, TypeOK, Statuses, Timers, OutboxInv
<1>7. ASSUME NEW w \in Workers, RequeueStaleClaims(w) PROVE OutboxInv'
  BY <1>7 DEF RequeueStaleClaims, Abandoned, Exhausted, Requeue, Loop, TypeOK, Statuses,
    Timers, OutboxInv
<1>8. ASSUME NEW w \in Workers, SkipReap(w) PROVE OutboxInv'
  BY <1>8 DEF SkipReap, Loop, TypeOK, Statuses, Timers, OutboxInv
<1>9. ASSUME NEW w \in Workers, ClaimNothing(w) PROVE OutboxInv'
  BY <1>9 DEF ClaimNothing, Loop, TypeOK, Statuses, Timers, OutboxInv
<1>10. ASSUME NEW w \in Workers, BatchDone(w) PROVE OutboxInv'
  BY <1>10 DEF BatchDone, Loop, TypeOK, Statuses, Timers, OutboxInv
<1>11. ASSUME NEW w \in Workers, Shutdown(w) PROVE OutboxInv'
  BY <1>11 DEF Shutdown, Loop, TypeOK, Statuses, Timers, OutboxInv
<1>12. ASSUME NEW w \in Workers, Die(w) PROVE OutboxInv'
  BY <1>12 DEF Die, Loop, NoWork, TypeOK, Statuses, Timers, OutboxInv
<1>13. ASSUME NEW w \in Workers, Restart(w) PROVE OutboxInv'
  BY <1>13 DEF Restart, Loop, TypeOK, Statuses, Timers, OutboxInv
<1>14. ASSUME NEW w \in Workers, NEW S \in SUBSET Jobs, ClaimBatch(w, S) PROVE OutboxInv'
  BY <1>14 DEF ClaimBatch, Ready, Claim, Loop, NoWork, TypeOK, Statuses, Timers, OutboxInv
<1>15. ASSUME NEW w \in Workers, NEW S \in SUBSET Jobs, ClaimLost(w, S) PROVE OutboxInv'
  BY <1>15 DEF ClaimLost, Ready, Claim, Loop, TypeOK, Statuses, Timers, OutboxInv
<1>16. ASSUME NEW w \in Workers, NEW k \in Jobs, Start(w, k) PROVE OutboxInv'
  BY <1>16 DEF Start, TypeOK, Statuses, Timers, OutboxInv
<1>17. ASSUME NEW w \in Workers, NEW k \in Jobs, Drop(w, k) PROVE OutboxInv'
  BY <1>17 DEF Drop, LetGo, Phase, TypeOK, Statuses, Timers, OutboxInv
<1>18. ASSUME NEW w \in Workers, NEW k \in Jobs, DispatchSucceeds(w, k) PROVE OutboxInv'
  BY <1>18 DEF DispatchSucceeds, Phase, TypeOK, Statuses, Timers, OutboxInv
<1>19. ASSUME NEW w \in Workers, NEW k \in Jobs, DispatchFails(w, k) PROVE OutboxInv'
  BY <1>19 DEF DispatchFails, Phase, TypeOK, Statuses, Timers, OutboxInv
<1>20. ASSUME NEW w \in Workers, NEW k \in Jobs, Complete(w, k) PROVE OutboxInv'
  BY <1>20 DEF Complete, Claimed, Update, LetGo, Phase, TypeOK, Statuses, Timers, OutboxInv
<1>21. ASSUME NEW w \in Workers, NEW k \in Jobs, Fail(w, k) PROVE OutboxInv'
  BY <1>21 DEF Fail, Claimed, AfterFailure, Phase, LetGo, TypeOK, Statuses, Timers,
    OutboxInv
<1>22. ASSUME NEW w \in Workers, NEW k \in Jobs, RetryJob(w, k) PROVE OutboxInv'
  BY <1>22 DEF RetryJob, Claimed, Update, LetGo, Phase, TypeOK, Statuses, Timers, OutboxInv
<1>23. ASSUME NEW w \in Workers, NEW k \in Jobs, DeadLetterCopy(w, k) PROVE OutboxInv'
  BY <1>23 DEF DeadLetterCopy, Copied, Phase, TypeOK, Statuses, Timers, OutboxInv
<1>24. ASSUME NEW w \in Workers, NEW k \in Jobs, DeadLetter(w, k) PROVE OutboxInv'
  BY <1>24 DEF DeadLetter, Claimed, Update, LetGo, Phase, TypeOK, Statuses, Timers,
    OutboxInv
<1>25. ASSUME NEW w \in Workers, NEW k \in Jobs, TerminalWriteFails(w, k) PROVE OutboxInv'
  BY <1>25 DEF TerminalWriteFails, LetGo, Phase, TypeOK, Statuses, Timers, OutboxInv
<1>26. ASSUME UNCHANGED vars PROVE OutboxInv'
  BY <1>26 DEF vars, TypeOK, Statuses, Timers, OutboxInv
<1> QED
  BY Zenon, <1>1, <1>2, <1>3, <1>4, <1>5, <1>6, <1>7, <1>8, <1>9, <1>10, <1>11, <1>12, <1>13,
    <1>14, <1>15, <1>16, <1>17, <1>18, <1>19, <1>20, <1>21, <1>22, <1>23, <1>24, <1>25,
    <1>26
     DEF Next, WorkerLoop, ClaimSome, ProcessOne

\* A job is recorded as completed only by a worker that had its effect.
LEMMA DoneStep == TypeOK /\ DoneInv /\ [Next]_vars => DoneInv'
<1> SUFFICES ASSUME TypeOK, DoneInv, [Next]_vars PROVE DoneInv'
  BY Zenon
<1> USE JobQueueAssumption, JobFacts, RowFacts, WorkFacts
<1>1. ASSUME NEW b \in Bookings, CreateBooking(b) PROVE DoneInv'
  BY <1>1 DEF CreateBooking, TypeOK, Statuses, Timers, Phases, DoneInv,
    CompletedWasDelivered
<1>2. ASSUME NEW b \in Bookings, RescheduleBooking(b) PROVE DoneInv'
  BY <1>2 DEF RescheduleBooking, UpdateReminderSchedule, TypeOK, Statuses, Timers, Phases, DoneInv,
    CompletedWasDelivered
<1>3. ASSUME NEW b \in Bookings, CancelBooking(b) PROVE DoneInv'
  BY <1>3 DEF CancelBooking, CancelBookingJobs, Update, TypeOK, Statuses, Timers, Phases, DoneInv,
    CompletedWasDelivered
<1>4. ASSUME NEW k \in Jobs, RetryDelayPasses(k) PROVE DoneInv'
  BY <1>4 DEF RetryDelayPasses, Update, TypeOK, Statuses, Timers, Phases, DoneInv,
    CompletedWasDelivered
<1>5. ASSUME NEW k \in Jobs, LeasePasses(k) PROVE DoneInv'
  BY <1>5 DEF LeasePasses, Update, TypeOK, Statuses, Timers, Phases, DoneInv,
    CompletedWasDelivered
<1>6. ASSUME NEW k \in Jobs, ReplayDeadLetter(k) PROVE DoneInv'
  BY <1>6 DEF ReplayDeadLetter, TypeOK, Statuses, Timers, Phases, DoneInv,
    CompletedWasDelivered
<1>7. ASSUME NEW w \in Workers, RequeueStaleClaims(w) PROVE DoneInv'
  BY <1>7 DEF RequeueStaleClaims, Abandoned, Exhausted, Requeue, Loop, TypeOK, Statuses,
    Timers, Phases, DoneInv,
    CompletedWasDelivered
<1>8. ASSUME NEW w \in Workers, SkipReap(w) PROVE DoneInv'
  BY <1>8 DEF SkipReap, Loop, TypeOK, Statuses, Timers, Phases, DoneInv,
    CompletedWasDelivered
<1>9. ASSUME NEW w \in Workers, ClaimNothing(w) PROVE DoneInv'
  BY <1>9 DEF ClaimNothing, Loop, TypeOK, Statuses, Timers, Phases, DoneInv,
    CompletedWasDelivered
<1>10. ASSUME NEW w \in Workers, BatchDone(w) PROVE DoneInv'
  BY <1>10 DEF BatchDone, Loop, TypeOK, Statuses, Timers, Phases, DoneInv,
    CompletedWasDelivered
<1>11. ASSUME NEW w \in Workers, Shutdown(w) PROVE DoneInv'
  BY <1>11 DEF Shutdown, Loop, TypeOK, Statuses, Timers, Phases, DoneInv,
    CompletedWasDelivered
<1>12. ASSUME NEW w \in Workers, Die(w) PROVE DoneInv'
  BY <1>12 DEF Die, Loop, NoWork, TypeOK, Statuses, Timers, Phases, DoneInv,
    CompletedWasDelivered
<1>13. ASSUME NEW w \in Workers, Restart(w) PROVE DoneInv'
  BY <1>13 DEF Restart, Loop, TypeOK, Statuses, Timers, Phases, DoneInv,
    CompletedWasDelivered
<1>14. ASSUME NEW w \in Workers, NEW S \in SUBSET Jobs, ClaimBatch(w, S) PROVE DoneInv'
  BY <1>14 DEF ClaimBatch, Ready, Claim, Loop, NoWork, TypeOK, Statuses, Timers, Phases, DoneInv,
    CompletedWasDelivered
<1>15. ASSUME NEW w \in Workers, NEW S \in SUBSET Jobs, ClaimLost(w, S) PROVE DoneInv'
  BY <1>15 DEF ClaimLost, Ready, Claim, Loop, TypeOK, Statuses, Timers, Phases, DoneInv,
    CompletedWasDelivered
<1>16. ASSUME NEW w \in Workers, NEW k \in Jobs, Start(w, k) PROVE DoneInv'
  BY <1>16 DEF Start, TypeOK, Statuses, Timers, Phases, DoneInv,
    CompletedWasDelivered
<1>17. ASSUME NEW w \in Workers, NEW k \in Jobs, Drop(w, k) PROVE DoneInv'
  BY <1>17 DEF Drop, LetGo, Phase, TypeOK, Statuses, Timers, Phases, DoneInv,
    CompletedWasDelivered
<1>18. ASSUME NEW w \in Workers, NEW k \in Jobs, DispatchSucceeds(w, k) PROVE DoneInv'
  BY <1>18 DEF DispatchSucceeds, Phase, TypeOK, Statuses, Timers, Phases, DoneInv,
    CompletedWasDelivered
<1>19. ASSUME NEW w \in Workers, NEW k \in Jobs, DispatchFails(w, k) PROVE DoneInv'
  BY <1>19 DEF DispatchFails, Phase, TypeOK, Statuses, Timers, Phases, DoneInv,
    CompletedWasDelivered
<1>20. ASSUME NEW w \in Workers, NEW k \in Jobs, Complete(w, k) PROVE DoneInv'
  BY <1>20 DEF Complete, Claimed, Update, LetGo, Phase, TypeOK, Statuses, Timers, Phases, DoneInv,
    CompletedWasDelivered
<1>21. ASSUME NEW w \in Workers, NEW k \in Jobs, Fail(w, k) PROVE DoneInv'
  <2>1. PICK p \in Phases : hand' = [hand EXCEPT ![w][k] = Work(p, 0)] /\ p # "completing"
    BY <1>21, Zenon DEF Fail, AfterFailure, LetGo, Phase, Phases
  <2> QED
    BY <1>21, <2>1 DEF Fail, TypeOK, DoneInv, CompletedWasDelivered
<1>22. ASSUME NEW w \in Workers, NEW k \in Jobs, RetryJob(w, k) PROVE DoneInv'
  BY <1>22 DEF RetryJob, Claimed, Update, LetGo, Phase, TypeOK, Statuses, Timers, Phases, DoneInv,
    CompletedWasDelivered
<1>23. ASSUME NEW w \in Workers, NEW k \in Jobs, DeadLetterCopy(w, k) PROVE DoneInv'
  BY <1>23 DEF DeadLetterCopy, Copied, Phase, TypeOK, Statuses, Timers, Phases, DoneInv,
    CompletedWasDelivered
<1>24. ASSUME NEW w \in Workers, NEW k \in Jobs, DeadLetter(w, k) PROVE DoneInv'
  BY <1>24 DEF DeadLetter, Claimed, Update, LetGo, Phase, TypeOK, Statuses, Timers,
    Phases, DoneInv,
    CompletedWasDelivered
<1>25. ASSUME NEW w \in Workers, NEW k \in Jobs, TerminalWriteFails(w, k) PROVE DoneInv'
  BY <1>25 DEF TerminalWriteFails, LetGo, Phase, TypeOK, Statuses, Timers, Phases, DoneInv,
    CompletedWasDelivered
<1>26. ASSUME UNCHANGED vars PROVE DoneInv'
  BY <1>26 DEF vars, TypeOK, Statuses, Timers, Phases, DoneInv,
    CompletedWasDelivered
<1> QED
  BY Zenon, <1>1, <1>2, <1>3, <1>4, <1>5, <1>6, <1>7, <1>8, <1>9, <1>10, <1>11, <1>12, <1>13,
    <1>14, <1>15, <1>16, <1>17, <1>18, <1>19, <1>20, <1>21, <1>22, <1>23, <1>24, <1>25,
    <1>26
     DEF Next, WorkerLoop, ClaimSome, ProcessOne

\* The claims and deaths of jobs that keep within their lease stay accounted for.
LEMMA ClaimStep == TypeOK /\ OutboxInv /\ ClaimInv /\ [Next]_vars => ClaimInv'
<1> SUFFICES ASSUME TypeOK, OutboxInv, ClaimInv, [Next]_vars PROVE ClaimInv'
  BY Zenon
<1> USE JobQueueAssumption, JobFacts, RowFacts, WorkFacts
<1>1. ASSUME NEW b \in Bookings, CreateBooking(b) PROVE ClaimInv'
  <2> HIDE RowFacts, WorkFacts
  <2>1. \A j \in Jobs : job'[j] = job[j] \/ (job'[j] = PendingJob /\ job[j].status = "none")
    BY <1>1, Zenon DEF CreateBooking, OutboxInv
  <2>2. UNCHANGED <<graves, replays, hand, stalled>>
    BY <1>1, Zenon DEF CreateBooking
  <2>3. \A j \in Jobs \ stalled : job[j].status = "none" => ~InHand(j)
    BY Zenon DEF ClaimInv, OneWorkerPerJob
  <2>4. OneWorkerPerJob'
    BY <2>1, <2>2, <2>3 DEF ClaimInv, OneWorkerPerJob, InHand, Holds
  <2>5. AttemptsBounded'
    BY <2>1, <2>2, RowFacts DEF ClaimInv, AttemptsBounded
  <2>6. DeadIsRecorded'
    BY <2>1, <2>2, RowFacts DEF ClaimInv, DeadIsRecorded
  <2>7. PendingJob.attempts = 0 /\ PendingJob.timer = "due" /\ PendingJob.status = "pending"
    BY RowFacts, Zenon
  <2>8. ASSUME NEW j \in Jobs \ stalled
        PROVE  /\ job'[j].timer = "stale" => ~InHand(j)'
               /\ job'[j].status = "pending" => job'[j].attempts < MaxAttempts
    BY <2>1, <2>2, <2>7 DEF ClaimInv, InHand, Holds
  <2>9. ASSUME NEW v \in Workers, NEW j \in Jobs \ stalled, job'[j].status = "claimed"
        PROVE  /\ hand'[v][j].phase = "retrying" => job'[j].attempts < MaxAttempts
               /\ hand'[v][j].phase # "missed"
    BY <2>1, <2>2, <2>7, <2>9 DEF ClaimInv
  <2> QED
    BY <2>2, <2>4, <2>5, <2>6, <2>8, <2>9, Zenon DEF ClaimInv
<1>2. ASSUME NEW b \in Bookings, RescheduleBooking(b) PROVE ClaimInv'
  BY <1>2 DEF RescheduleBooking, UpdateReminderSchedule, TypeOK, Statuses, Timers, Phases,
    OutboxInv, ClaimInv, OneWorkerPerJob, AttemptsBounded, DeadIsRecorded, InHand, Holds
<1>3. ASSUME NEW b \in Bookings, CancelBooking(b) PROVE ClaimInv'
  BY <1>3 DEF CancelBooking, CancelBookingJobs, Update, TypeOK, Statuses, Timers, Phases,
    OutboxInv, ClaimInv, OneWorkerPerJob, AttemptsBounded, DeadIsRecorded, InHand, Holds
<1>4. ASSUME NEW k \in Jobs, RetryDelayPasses(k) PROVE ClaimInv'
  BY <1>4 DEF RetryDelayPasses, Update, TypeOK, Statuses, Timers, Phases, OutboxInv,
    ClaimInv, OneWorkerPerJob, AttemptsBounded, DeadIsRecorded, InHand, Holds
<1>5. ASSUME NEW k \in Jobs, LeasePasses(k) PROVE ClaimInv'
  BY <1>5 DEF LeasePasses, Update, TypeOK, Statuses, Timers, Phases, OutboxInv, ClaimInv,
    OneWorkerPerJob, AttemptsBounded, DeadIsRecorded, InHand, Holds
<1>6. ASSUME NEW k \in Jobs, ReplayDeadLetter(k) PROVE ClaimInv'
  BY <1>6 DEF ReplayDeadLetter, TypeOK, Statuses, Timers, Phases, OutboxInv, ClaimInv,
    OneWorkerPerJob, AttemptsBounded, DeadIsRecorded, InHand, Holds
<1>7. ASSUME NEW w \in Workers, RequeueStaleClaims(w) PROVE ClaimInv'
  BY <1>7 DEF RequeueStaleClaims, Abandoned, Exhausted, Requeue, Loop, TypeOK, Statuses,
    Timers, Phases, OutboxInv, ClaimInv, OneWorkerPerJob, AttemptsBounded, DeadIsRecorded,
    InHand, Holds
<1>8. ASSUME NEW w \in Workers, SkipReap(w) PROVE ClaimInv'
  BY <1>8 DEF SkipReap, Loop, TypeOK, Statuses, Timers, Phases, OutboxInv, ClaimInv,
    OneWorkerPerJob, AttemptsBounded, DeadIsRecorded, InHand, Holds
<1>9. ASSUME NEW w \in Workers, ClaimNothing(w) PROVE ClaimInv'
  BY <1>9 DEF ClaimNothing, Loop, TypeOK, Statuses, Timers, Phases, OutboxInv, ClaimInv,
    OneWorkerPerJob, AttemptsBounded, DeadIsRecorded, InHand, Holds
<1>10. ASSUME NEW w \in Workers, BatchDone(w) PROVE ClaimInv'
  BY <1>10 DEF BatchDone, Loop, TypeOK, Statuses, Timers, Phases, OutboxInv, ClaimInv,
    OneWorkerPerJob, AttemptsBounded, DeadIsRecorded, InHand, Holds
<1>11. ASSUME NEW w \in Workers, Shutdown(w) PROVE ClaimInv'
  BY <1>11 DEF Shutdown, Loop, TypeOK, Statuses, Timers, Phases, OutboxInv, ClaimInv,
    OneWorkerPerJob, AttemptsBounded, DeadIsRecorded, InHand, Holds
<1>12. ASSUME NEW w \in Workers, Die(w) PROVE ClaimInv'
  BY <1>12 DEF Die, Loop, NoWork, TypeOK, Statuses, Timers, Phases, OutboxInv, ClaimInv,
    OneWorkerPerJob, AttemptsBounded, DeadIsRecorded, InHand, Holds
<1>13. ASSUME NEW w \in Workers, Restart(w) PROVE ClaimInv'
  BY <1>13 DEF Restart, Loop, TypeOK, Statuses, Timers, Phases, OutboxInv, ClaimInv,
    OneWorkerPerJob, AttemptsBounded, DeadIsRecorded, InHand, Holds
<1>14. ASSUME NEW w \in Workers, NEW S \in SUBSET Jobs, ClaimBatch(w, S) PROVE ClaimInv'
  <2> HIDE RowFacts, WorkFacts
  <2>1. \A j \in S \ stalled : job[j].status = "pending" /\ job[j].attempts < MaxAttempts /\ ~InHand(j)
    BY <1>14, Zenon DEF ClaimBatch, Ready, ClaimInv, OneWorkerPerJob
  <2>2. \A j \in Jobs : job'[j] = IF j \in S THEN Taken(job[j]) ELSE job[j]
    BY <1>14, Zenon DEF ClaimBatch, Claim
  <2>3. \A v \in Workers, j \in Jobs :
           \/ hand'[v][j] = hand[v][j]
           \/ hand'[v][j].phase = "none"
           \/ v = w /\ j \in S /\ hand'[v][j].phase = "queued"
    <3>1. \A j \in Jobs : hand'[w][j] = IF j \in S THEN Work("queued", job[j].slot) ELSE Work("none", 0)
      BY <1>14, Zenon DEF ClaimBatch, NoWork, TypeOK
    <3>2. \A v \in Workers : v # w => hand'[v] = hand[v]
      BY <1>14, Zenon DEF ClaimBatch, TypeOK
    <3> QED
      BY <3>1, <3>2, WorkFacts, RowFacts DEF TypeOK, Phases
  <2>4. UNCHANGED <<graves, replays, stalled>>
    BY <1>14, Zenon DEF ClaimBatch
  <2>5. /\ \A j \in Jobs : j \notin S => job'[j] = job[j]
        /\ \A j \in S \ stalled : /\ job'[j].status = "claimed" /\ job'[j].timer = "fresh"
                       /\ job'[j].attempts <= MaxAttempts
    <3>1. \A j \in S \ stalled : job[j] \in JobRows /\ job'[j] = Taken(job[j])
      BY <2>2, Zenon DEF TypeOK
    <3>2. \A row \in JobRows : /\ row.attempts \in Nat /\ Taken(row).attempts = row.attempts + 1
                               /\ Taken(row).status = "claimed" /\ Taken(row).timer = "fresh"
      BY RowFacts, Zenon
    <3> QED
      BY <2>1, <2>2, <3>1, <3>2
  <2>6. \A v \in Workers, j \in S \ stalled : hand[v][j].phase = "none"
    BY <2>1, Zenon DEF InHand, Holds
  <2>7. OneWorkerPerJob'
    <3>1. ASSUME NEW j \in Jobs \ stalled, NEW u \in Workers, NEW v \in Workers, Holds(u, j)', Holds(v, j)'
          PROVE  u = v
      BY <2>3, <2>6, <3>1 DEF ClaimInv, OneWorkerPerJob, Holds
    <3>2. ASSUME NEW j \in Jobs \ stalled, NEW v \in Workers, Holds(v, j)'
          PROVE  job'[j].status \in {"claimed", "cancelled"}
      BY <2>3, <2>5, <3>2 DEF ClaimInv, OneWorkerPerJob, InHand, Holds
    <3> QED
      BY <2>4, <3>1, <3>2, Zenon DEF OneWorkerPerJob, InHand
  <2>8. AttemptsBounded'
    BY <2>4, <2>5, Zenon DEF ClaimInv, AttemptsBounded
  <2>9. DeadIsRecorded'
    BY <2>1, <2>4, <2>5 DEF TypeOK, ClaimInv, DeadIsRecorded
  <2>10. ASSUME NEW j \in Jobs \ stalled
         PROVE  /\ job'[j].timer = "stale" => ~InHand(j)'
                /\ job'[j].status = "pending" => job'[j].attempts < MaxAttempts
    BY <2>3, <2>5 DEF ClaimInv, InHand, Holds
  <2>11. ASSUME NEW v \in Workers, NEW j \in Jobs \ stalled, job'[j].status = "claimed"
         PROVE  /\ hand'[v][j].phase = "retrying" => job'[j].attempts < MaxAttempts
                /\ hand'[v][j].phase # "missed"
    BY <2>3, <2>5, <2>6, <2>11 DEF ClaimInv
  <2> QED
    BY <2>4, <2>7, <2>8, <2>9, <2>10, <2>11, Zenon DEF ClaimInv
<1>15. ASSUME NEW w \in Workers, NEW S \in SUBSET Jobs, ClaimLost(w, S) PROVE ClaimInv'
  <2> HIDE RowFacts, WorkFacts
  <2>1. \A j \in S \ stalled : job[j].status = "pending" /\ job[j].attempts < MaxAttempts /\ ~InHand(j)
    BY <1>15, Zenon DEF ClaimLost, Ready, ClaimInv, OneWorkerPerJob
  <2>2. \A j \in Jobs : job'[j] = IF j \in S THEN Taken(job[j]) ELSE job[j]
    BY <1>15, Zenon DEF ClaimLost, Claim
  <2>3. hand' = hand
    BY <1>15, Zenon DEF ClaimLost
  <2>4. UNCHANGED <<graves, replays, stalled>>
    BY <1>15, Zenon DEF ClaimLost
  <2>5. /\ \A j \in Jobs : j \notin S => job'[j] = job[j]
        /\ \A j \in S \ stalled : /\ job'[j].status = "claimed" /\ job'[j].timer = "fresh"
                       /\ job'[j].attempts <= MaxAttempts
    <3>1. \A j \in S \ stalled : job[j] \in JobRows /\ job'[j] = Taken(job[j])
      BY <2>2, Zenon DEF TypeOK
    <3>2. \A row \in JobRows : /\ row.attempts \in Nat /\ Taken(row).attempts = row.attempts + 1
                               /\ Taken(row).status = "claimed" /\ Taken(row).timer = "fresh"
      BY RowFacts, Zenon
    <3> QED
      BY <2>1, <2>2, <3>1, <3>2
  <2>6. \A v \in Workers, j \in S \ stalled : hand[v][j].phase = "none"
    BY <2>1, Zenon DEF InHand, Holds
  <2>7. OneWorkerPerJob'
    <3>1. ASSUME NEW j \in Jobs \ stalled, NEW u \in Workers, NEW v \in Workers, Holds(u, j)', Holds(v, j)'
          PROVE  u = v
      BY <2>3, <2>6, <3>1, Zenon DEF ClaimInv, OneWorkerPerJob, Holds
    <3>2. ASSUME NEW j \in Jobs \ stalled, NEW v \in Workers, Holds(v, j)'
          PROVE  job'[j].status \in {"claimed", "cancelled"}
      BY <2>3, <2>5, <3>2, Zenon DEF ClaimInv, OneWorkerPerJob, InHand, Holds
    <3> QED
      BY <2>4, <3>1, <3>2, Zenon DEF OneWorkerPerJob, InHand
  <2>8. AttemptsBounded'
    BY <2>4, <2>5, Zenon DEF ClaimInv, AttemptsBounded
  <2>9. DeadIsRecorded'
    BY <2>1, <2>4, <2>5 DEF TypeOK, ClaimInv, DeadIsRecorded
  <2>10. ASSUME NEW j \in Jobs \ stalled
         PROVE  /\ job'[j].timer = "stale" => ~InHand(j)'
                /\ job'[j].status = "pending" => job'[j].attempts < MaxAttempts
    BY <2>3, <2>5, Zenon DEF ClaimInv, InHand, Holds
  <2>11. ASSUME NEW v \in Workers, NEW j \in Jobs \ stalled, job'[j].status = "claimed"
         PROVE  /\ hand'[v][j].phase = "retrying" => job'[j].attempts < MaxAttempts
                /\ hand'[v][j].phase # "missed"
    BY SMTT(60), <2>3, <2>5, <2>6, <2>11 DEF ClaimInv
  <2> QED
    BY <2>4, <2>7, <2>8, <2>9, <2>10, <2>11, Zenon DEF ClaimInv
<1>16. ASSUME NEW w \in Workers, NEW k \in Jobs, Start(w, k) PROVE ClaimInv'
  BY <1>16 DEF Start, TypeOK, Statuses, Timers, Phases, OutboxInv, ClaimInv,
    OneWorkerPerJob, AttemptsBounded, DeadIsRecorded, InHand, Holds
<1>17. ASSUME NEW w \in Workers, NEW k \in Jobs, Drop(w, k) PROVE ClaimInv'
  BY <1>17 DEF Drop, LetGo, Phase, TypeOK, Statuses, Timers, Phases, OutboxInv, ClaimInv,
    OneWorkerPerJob, AttemptsBounded, DeadIsRecorded, InHand, Holds
<1>18. ASSUME NEW w \in Workers, NEW k \in Jobs, DispatchSucceeds(w, k) PROVE ClaimInv'
  BY <1>18 DEF DispatchSucceeds, Phase, TypeOK, Statuses, Timers, Phases, OutboxInv,
    ClaimInv, OneWorkerPerJob, AttemptsBounded, DeadIsRecorded, InHand, Holds
<1>19. ASSUME NEW w \in Workers, NEW k \in Jobs, DispatchFails(w, k) PROVE ClaimInv'
  BY <1>19 DEF DispatchFails, Phase, TypeOK, Statuses, Timers, Phases, OutboxInv, ClaimInv,
    OneWorkerPerJob, AttemptsBounded, DeadIsRecorded, InHand, Holds
<1>20. ASSUME NEW w \in Workers, NEW k \in Jobs, Complete(w, k) PROVE ClaimInv'
  BY <1>20 DEF Complete, Claimed, Update, LetGo, Phase, TypeOK, Statuses, Timers, Phases,
    OutboxInv, ClaimInv, OneWorkerPerJob, AttemptsBounded, DeadIsRecorded, InHand, Holds
<1>21. ASSUME NEW w \in Workers, NEW k \in Jobs, Fail(w, k) PROVE ClaimInv'
  <2>1. job' = job /\ graves' = graves /\ replays' = replays /\ stalled' = stalled
    BY <1>21, Zenon DEF Fail
  <2>2. PICK p \in {"none", "retrying", "burying"} :
           /\ hand' = [hand EXCEPT ![w][k] = Work(p, 0)]
           /\ p = "retrying" => job[k].attempts < MaxAttempts
    BY <1>21, Zenon DEF Fail, AfterFailure, LetGo, Phase
  <2>3. \A v \in Workers, j \in Jobs :
           \/ hand'[v][j] = hand[v][j]
           \/ v = w /\ j = k /\ hand'[v][j].phase = p
    BY <2>2 DEF TypeOK, Phases
  <2>4. Holds(w, k)
    BY <1>21, Zenon DEF Fail, Holds
  <2> QED
    BY <2>1, <2>2, <2>3, <2>4 DEF TypeOK, ClaimInv, OneWorkerPerJob, AttemptsBounded,
       DeadIsRecorded, InHand, Holds
<1>22. ASSUME NEW w \in Workers, NEW k \in Jobs, RetryJob(w, k) PROVE ClaimInv'
  BY <1>22 DEF RetryJob, Claimed, Update, LetGo, Phase, TypeOK, Statuses, Timers, Phases,
    OutboxInv, ClaimInv, OneWorkerPerJob, AttemptsBounded, DeadIsRecorded, InHand, Holds
<1>23. ASSUME NEW w \in Workers, NEW k \in Jobs, DeadLetterCopy(w, k) PROVE ClaimInv'
  BY SMTT(60), <1>23 DEF DeadLetterCopy, Copied, Phase, TypeOK, Statuses, Timers, Phases, OutboxInv,
    ClaimInv, OneWorkerPerJob, AttemptsBounded, DeadIsRecorded, InHand, Holds
<1>24. ASSUME NEW w \in Workers, NEW k \in Jobs, DeadLetter(w, k) PROVE ClaimInv'
  BY SMTT(60), <1>24 DEF DeadLetter, Claimed, Update, LetGo, Phase, TypeOK, Statuses, Timers, Phases,
    OutboxInv, ClaimInv, OneWorkerPerJob, AttemptsBounded, DeadIsRecorded, InHand, Holds
<1>25. ASSUME NEW w \in Workers, NEW k \in Jobs, TerminalWriteFails(w, k) PROVE ClaimInv'
  BY <1>25 DEF TerminalWriteFails, LetGo, Phase, TypeOK, Statuses, Timers, Phases,
    OutboxInv, ClaimInv, OneWorkerPerJob, AttemptsBounded, DeadIsRecorded, InHand, Holds
<1>26. ASSUME UNCHANGED vars PROVE ClaimInv'
  BY <1>26 DEF vars, TypeOK, Statuses, Timers, Phases, OutboxInv, ClaimInv, OneWorkerPerJob,
    AttemptsBounded, DeadIsRecorded, InHand, Holds
<1> QED
  BY Zenon, <1>1, <1>2, <1>3, <1>4, <1>5, <1>6, <1>7, <1>8, <1>9, <1>10, <1>11, <1>12, <1>13,
    <1>14, <1>15, <1>16, <1>17, <1>18, <1>19, <1>20, <1>21, <1>22, <1>23, <1>24, <1>25,
    <1>26
     DEF Next, WorkerLoop, ClaimSome, ProcessOne

\* JobQueue: the queue's invariant holds in every reachable state, for any
\* number of bookings and workers, any batch size and any max_attempts.
THEOREM QueueHolds == Spec => []QueueInv
<1>1. QueueInv /\ [Next]_vars => QueueInv'
  BY TypeStep, CancelStep, OutboxStep, DoneStep, ClaimStep, Zenon DEF QueueInv
<1> QED
  BY <1>1, InitQueue, PTL DEF Spec

\* The jobs table and the workers' variables keep their types.
THEOREM QueueTypeCorrect == Spec => []TypeOK
<1>1. QueueInv => TypeOK
  BY Zenon DEF QueueInv
<1> QED
  BY <1>1, QueueHolds, PTL

\* CancelBookingJobs against every racing worker write and the reaper, however
\* slow the workers are: the reminder of a cancelled booking never becomes claimable again.
THEOREM CancelledStaysOut == Spec => []NoReminderAfterCancel
<1>1. QueueInv => NoReminderAfterCancel
  BY Zenon DEF QueueInv
<1> QED
  BY <1>1, QueueHolds, PTL

\* No two workers share a job that is done within its lease.
THEOREM TimelyExclusive == Spec => []OneWorkerPerJob
<1>1. QueueInv => OneWorkerPerJob
  BY Zenon DEF QueueInv, ClaimInv
<1> QED
  BY <1>1, QueueHolds, PTL

\* A job that keeps within its lease is tried at most max_attempts times between
\* replays, lost claims and crashes included.
THEOREM TimelyAttempts == Spec => []AttemptsBounded
<1>1. QueueInv => AttemptsBounded
  BY Zenon DEF QueueInv, ClaimInv
<1> QED
  BY <1>1, QueueHolds, PTL

\* Every dead job that kept within its lease has its dead_letter_jobs row.
THEOREM TimelyDeaths == Spec => []DeadIsRecorded
<1>1. QueueInv => DeadIsRecorded
  BY Zenon DEF QueueInv, ClaimInv
<1> QED
  BY <1>1, QueueHolds, PTL

\* What the lease promises holds together, for every job no worker kept past it.
THEOREM TimelyJobsAreSafe == Spec => []TimelyJobs
  BY TimelyExclusive, TimelyAttempts, TimelyDeaths, PTL DEF TimelyJobs

\* Complete is reached only after the handler's effect: no job the table calls
\* completed was left undone, whoever stalled, died or was cancelled meanwhile.
THEOREM CompletedMeansDone == Spec => []CompletedWasDelivered
<1>1. QueueInv => CompletedWasDelivered
  BY Zenon DEF QueueInv, DoneInv
<1> QED
  BY <1>1, QueueHolds, PTL

\* The action SettledStays allows.
KeepsSettled ==
    \A j \in Jobs :
        \/ job[j].status \notin {"completed", "cancelled", "dead"}
        \/ job'[j] = job[j]
        \/ job[j].status = "dead" /\ replays'[j] > replays[j]

\* No statement touches a settled row, a replay excepted.
LEMMA SettledStep == TypeOK /\ OutboxInv /\ [Next]_vars => KeepsSettled
<1> SUFFICES ASSUME TypeOK, OutboxInv, [Next]_vars PROVE KeepsSettled
  BY Zenon
<1> USE JobQueueAssumption, JobFacts, RowFacts, WorkFacts
<1>1. ASSUME NEW b \in Bookings, CreateBooking(b) PROVE KeepsSettled
  <2> HIDE RowFacts, WorkFacts
  <2>1. \A j \in Jobs : job'[j] = job[j] \/ job[j].status = "none"
    BY <1>1, Zenon DEF CreateBooking, OutboxInv
  <2> QED
    BY <2>1, Zenon DEF KeepsSettled
<1>2. ASSUME NEW b \in Bookings, RescheduleBooking(b) PROVE KeepsSettled
  BY <1>2 DEF RescheduleBooking, UpdateReminderSchedule, TypeOK, Statuses, Timers,
    OutboxInv, KeepsSettled
<1>3. ASSUME NEW b \in Bookings, CancelBooking(b) PROVE KeepsSettled
  BY <1>3 DEF CancelBooking, CancelBookingJobs, Update, TypeOK, Statuses, Timers, OutboxInv,
    KeepsSettled
<1>4. ASSUME NEW k \in Jobs, RetryDelayPasses(k) PROVE KeepsSettled
  BY <1>4 DEF RetryDelayPasses, Update, TypeOK, Statuses, Timers, OutboxInv, KeepsSettled
<1>5. ASSUME NEW k \in Jobs, LeasePasses(k) PROVE KeepsSettled
  BY <1>5 DEF LeasePasses, Update, TypeOK, Statuses, Timers, OutboxInv, KeepsSettled
<1>6. ASSUME NEW k \in Jobs, ReplayDeadLetter(k) PROVE KeepsSettled
  BY <1>6 DEF ReplayDeadLetter, TypeOK, Statuses, Timers, OutboxInv, KeepsSettled
<1>7. ASSUME NEW w \in Workers, RequeueStaleClaims(w) PROVE KeepsSettled
  BY <1>7 DEF RequeueStaleClaims, Abandoned, Exhausted, Requeue, Loop, TypeOK, Statuses,
    Timers, OutboxInv, KeepsSettled
<1>8. ASSUME NEW w \in Workers, SkipReap(w) PROVE KeepsSettled
  BY <1>8, Zenon DEF SkipReap, Loop, TypeOK, Statuses, Timers, OutboxInv, KeepsSettled
<1>9. ASSUME NEW w \in Workers, ClaimNothing(w) PROVE KeepsSettled
  BY <1>9, Zenon DEF ClaimNothing, Loop, TypeOK, Statuses, Timers, OutboxInv, KeepsSettled
<1>10. ASSUME NEW w \in Workers, BatchDone(w) PROVE KeepsSettled
  BY <1>10, Zenon DEF BatchDone, Loop, TypeOK, Statuses, Timers, OutboxInv, KeepsSettled
<1>11. ASSUME NEW w \in Workers, Shutdown(w) PROVE KeepsSettled
  BY <1>11, Zenon DEF Shutdown, Loop, TypeOK, Statuses, Timers, OutboxInv, KeepsSettled
<1>12. ASSUME NEW w \in Workers, Die(w) PROVE KeepsSettled
  BY <1>12, Zenon DEF Die, Loop, NoWork, TypeOK, Statuses, Timers, OutboxInv, KeepsSettled
<1>13. ASSUME NEW w \in Workers, Restart(w) PROVE KeepsSettled
  BY <1>13, Zenon DEF Restart, Loop, TypeOK, Statuses, Timers, OutboxInv, KeepsSettled
<1>14. ASSUME NEW w \in Workers, NEW S \in SUBSET Jobs, ClaimBatch(w, S) PROVE KeepsSettled
  BY <1>14 DEF ClaimBatch, Ready, Claim, Loop, NoWork, TypeOK, Statuses, Timers, OutboxInv,
    KeepsSettled
<1>15. ASSUME NEW w \in Workers, NEW S \in SUBSET Jobs, ClaimLost(w, S) PROVE KeepsSettled
  BY <1>15 DEF ClaimLost, Ready, Claim, Loop, TypeOK, Statuses, Timers, OutboxInv,
    KeepsSettled
<1>16. ASSUME NEW w \in Workers, NEW k \in Jobs, Start(w, k) PROVE KeepsSettled
  BY <1>16, Zenon DEF Start, TypeOK, Statuses, Timers, OutboxInv, KeepsSettled
<1>17. ASSUME NEW w \in Workers, NEW k \in Jobs, Drop(w, k) PROVE KeepsSettled
  BY <1>17, Zenon DEF Drop, LetGo, Phase, TypeOK, Statuses, Timers, OutboxInv, KeepsSettled
<1>18. ASSUME NEW w \in Workers, NEW k \in Jobs, DispatchSucceeds(w, k) PROVE KeepsSettled
  BY <1>18, Zenon DEF DispatchSucceeds, Phase, TypeOK, Statuses, Timers, OutboxInv, KeepsSettled
<1>19. ASSUME NEW w \in Workers, NEW k \in Jobs, DispatchFails(w, k) PROVE KeepsSettled
  BY <1>19, Zenon DEF DispatchFails, Phase, TypeOK, Statuses, Timers, OutboxInv, KeepsSettled
<1>20. ASSUME NEW w \in Workers, NEW k \in Jobs, Complete(w, k) PROVE KeepsSettled
  BY <1>20 DEF Complete, Claimed, Update, LetGo, Phase, TypeOK, Statuses, Timers, OutboxInv,
    KeepsSettled
<1>21. ASSUME NEW w \in Workers, NEW k \in Jobs, Fail(w, k) PROVE KeepsSettled
  BY Zenon, <1>21 DEF Fail, Claimed, AfterFailure, Phase, LetGo, TypeOK, Statuses, Timers,
    OutboxInv, KeepsSettled
<1>22. ASSUME NEW w \in Workers, NEW k \in Jobs, RetryJob(w, k) PROVE KeepsSettled
  BY <1>22 DEF RetryJob, Claimed, Update, LetGo, Phase, TypeOK, Statuses, Timers, OutboxInv,
    KeepsSettled
<1>23. ASSUME NEW w \in Workers, NEW k \in Jobs, DeadLetterCopy(w, k) PROVE KeepsSettled
  BY Zenon, <1>23 DEF DeadLetterCopy, Copied, Phase, TypeOK, Statuses, Timers, OutboxInv,
    KeepsSettled
<1>24. ASSUME NEW w \in Workers, NEW k \in Jobs, DeadLetter(w, k) PROVE KeepsSettled
  BY <1>24 DEF DeadLetter, Claimed, Update, LetGo, Phase, TypeOK, Statuses, Timers,
    OutboxInv, KeepsSettled
<1>25. ASSUME NEW w \in Workers, NEW k \in Jobs, TerminalWriteFails(w, k) PROVE KeepsSettled
  BY Zenon, <1>25 DEF TerminalWriteFails, LetGo, Phase, TypeOK, Statuses, Timers, OutboxInv,
    KeepsSettled
<1>26. ASSUME UNCHANGED vars PROVE KeepsSettled
  BY <1>26, Zenon DEF vars, TypeOK, Statuses, Timers, OutboxInv, KeepsSettled
<1> QED
  BY Zenon, <1>1, <1>2, <1>3, <1>4, <1>5, <1>6, <1>7, <1>8, <1>9, <1>10, <1>11, <1>12, <1>13,
    <1>14, <1>15, <1>16, <1>17, <1>18, <1>19, <1>20, <1>21, <1>22, <1>23, <1>24, <1>25,
    <1>26
     DEF Next, WorkerLoop, ClaimSome, ProcessOne

\* Completed and cancelled jobs never change again and dead ones only by a
\* replay, however slow the workers still writing to them are.
THEOREM SettledForGood == Spec => SettledStays
<1>1. QueueInv /\ [Next]_vars => [KeepsSettled]_vars
  BY SettledStep, Zenon DEF QueueInv
<1> QED
  BY <1>1, QueueHolds, PTL DEF Spec, SettledStays, KeepsSettled

=============================================================================
