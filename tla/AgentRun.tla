------------------------------ MODULE AgentRun ------------------------------
(***************************************************************************)
(* One run of agent.Runner: the bounded loop of model responses, the batch *)
(* of tool calls a response carries, the attempts agenttools.Executor      *)
(* makes of a call, and the tool_executions rows agenttrace.Store writes.  *)
(*                                                                         *)
(* The model answers anything and a tool ends in any way the gateway       *)
(* reports.  The turn's deadline may pass between any two steps, and a     *)
(* trace statement may fail.  The price of a model call is TokenBudget's.  *)
(***************************************************************************)
EXTENDS Integers, Sequences, SequencesExt

CONSTANTS
    MaxIterations,   \* Config.MaxIterations
    MaxAttempts,     \* Executor.maxAttempts
    MaxCalls,        \* bound on the tool calls of one response
    Names,           \* tools a response may call, besides respond_to_customer
    ProviderIDs,     \* call ids a provider may send, besides none
    Faults           \* "trace", "deadline": what may happen

\* runner.go: the correction messages one run may send.
maxProtocolCorrections == 2

NoID == <<>>

\* What the code guarantees of the constants.
AgentRunAssumption ==
    /\ MaxIterations \in Nat \ {0} /\ MaxAttempts \in Nat \ {0} /\ MaxCalls \in Nat \ {0}
    /\ Names \subseteq {"create_booking", "escalate_to_human", "find_slots", "unregistered"}
    /\ NoID \notin ProviderIDs

VARIABLES
    pc,           \* where Run is
    iteration,    \* of the loop
    corrections,  \* protocolCorrections
    pending,      \* proposalPending
    skip,         \* why the rest of the batch is skipped
    batch,        \* the calls of the response, ids normalized
    index,        \* the call being handled
    seen,         \* usedToolCallIDs
    execution,    \* ToolExecution of the call being handled
    result,       \* TurnResult's flags and how Run returned
    rows,         \* tool_executions, in the order of insertion
    expired,      \* the turn's deadline has passed
    did           \* history: what the backend and the model did

loop == <<iteration, corrections, pending, skip, batch, index, seen>>
vars == <<pc, loop, execution, result, rows, expired, did>>

NoExecution == [status |-> "none", attempts |-> 0, committed |-> FALSE, error |-> FALSE]

Init ==
    /\ pc = "model" /\ iteration = 1 /\ corrections = 0 /\ pending = FALSE
    /\ skip = "none" /\ batch = <<>> /\ index = 1 /\ seen = {}
    /\ execution = NoExecution
    /\ result = [booked |-> FALSE, refused |-> FALSE, escalated |-> FALSE, outcome |-> "none"]
    /\ rows = <<>> /\ expired = FALSE
    \* a booking committed; the proposal or hand-off that decided the run;
    \* responses in a row that broke the protocol
    /\ did = [booked |-> FALSE, decided |-> FALSE, strikes |-> 0]

Return(outcome) ==
    /\ pc' = "returned" /\ result' = [result EXCEPT !.outcome = outcome]

-----------------------------------------------------------------------------
(* The response *)

\* The first free id for call i: the provider's, or a generated one that no
\* earlier call of the run has.
FreshID(id, i, taken) ==
    IF id # NoID /\ id \notin taken THEN id
    ELSE LET suffix == CHOOSE n \in 1..(Len(rows) + MaxCalls + 1) :
                 /\ <<iteration, i, n>> \notin taken
                 /\ \A m \in 1..(n - 1) : <<iteration, i, m>> \in taken
         IN <<iteration, i, suffix>>

\* Mutant: ids are made unique within one response only.
normalizeToolCallIDs_PerResponse(calls) ==
    FoldLeft(LAMBDA done, call :
                 Append(done, [name |-> call.name,
                               id |-> FreshID(call.id, Len(done) + 1, {d.id : d \in ToSet(done)})]),
             <<>>, calls)

normalizeToolCallIDs(calls) ==
    FoldLeft(LAMBDA done, call :
                 Append(done, [name |-> call.name,
                               id |-> FreshID(call.id, Len(done) + 1, seen \cup {d.id : d \in ToSet(done)})]),
             <<>>, calls)

ProviderCalls == [name : Names, id : ProviderIDs \cup {NoID}]

\* The context is done, the budget is spent, the provider failed, a statement
\* failed, or the response had another role: Run returns before any tool.
ModelFails ==
    /\ pc = "model"
    /\ Return("error")
    /\ UNCHANGED <<loop, execution, rows, expired, did>>

\* A response that breaks the protocol is corrected within the same run, or
\* ends it when the corrections or the iterations are used up.
LastCorrection == corrections + 1 > maxProtocolCorrections \/ iteration = MaxIterations

Correct ==
    /\ corrections' = corrections + 1
    /\ did' = [did EXCEPT !.strikes = @ + 1]
    /\ IF LastCorrection
       THEN Return("protocol") /\ UNCHANGED iteration
       ELSE pc' = "model" /\ iteration' = iteration + 1 /\ UNCHANGED result

\* Prose without a tool call is never delivered.
Prose ==
    /\ pc = "model" /\ ~expired
    /\ Correct
    /\ UNCHANGED <<pending, skip, batch, index, seen, execution, rows, expired>>

Row(id, status) == [id |-> id, status |-> status, attempts |-> 0]

\* respond_to_customer with siblings or prose beside it: the whole response is
\* refused before any sibling runs.
RespondMixed ==
    /\ pc = "model" /\ ~expired
    /\ Return("terminal")
    /\ UNCHANGED <<loop, execution, rows, expired, did>>

\* respond_to_customer alone: its row is opened and closed, no executor runs.
RespondStarted == \E id \in ProviderIDs \cup {NoID} :
    /\ pc = "model" /\ ~expired
    /\ pc' = "respond" /\ index' = 1
    /\ batch' = normalizeToolCallIDs(<<[name |-> "respond_to_customer", id |-> id]>>)
    /\ rows' = Append(rows, Row(batch'[1].id, "running"))
    /\ UNCHANGED <<iteration, corrections, pending, skip, seen, execution, result, expired, did>>

StartBatch(calls) ==
    /\ pc' = "tool" /\ batch' = normalizeToolCallIDs(calls) /\ index' = 1 /\ skip' = "none"
    /\ seen' = seen \cup {batch'[i].id : i \in DOMAIN batch'}
    /\ did' = [did EXCEPT !.strikes = 0]
    /\ UNCHANGED <<result, iteration, corrections>>

NoRoom ==
    /\ Return("iterations")
    /\ UNCHANGED <<batch, index, skip, seen, iteration, corrections, did>>

\* Mutant: a proposal only skips the rest of its own batch.
Batch_IgnoresProposal(calls) == IF iteration = MaxIterations THEN NoRoom ELSE StartBatch(calls)

\* A batch of tool calls: refused while a proposal waits for the customer, not
\* started when no iteration is left for the answer.
Batch(calls) ==
    IF pending THEN Correct /\ UNCHANGED <<batch, index, skip, seen>>
    ELSE IF iteration = MaxIterations THEN NoRoom
    ELSE StartBatch(calls)

ToolCalls ==
    /\ pc = "model" /\ ~expired
    /\ \E n \in 1..MaxCalls : \E calls \in [1..n -> ProviderCalls] : Batch(calls)
    /\ UNCHANGED <<pending, execution, rows, expired>>

-----------------------------------------------------------------------------
(* One call of the batch *)

Call == batch[index]

Update(id, status, attempts) ==
    [i \in DOMAIN rows |->
        IF rows[i].id = id THEN [rows[i] EXCEPT !.status = status, !.attempts = attempts] ELSE rows[i]]

\* After the last call: the hand-off returns, otherwise the model is called.
NextCall(handoff) ==
    IF index < Len(batch)
    THEN pc' = "tool" /\ index' = index + 1 /\ UNCHANGED <<iteration, result>>
    ELSE IF handoff
    THEN Return("handoff") /\ UNCHANGED <<index, iteration>>
    ELSE pc' = "model" /\ iteration' = iteration + 1 /\ UNCHANGED <<index, result>>

\* The arguments are parsed; the message is delivered unless they are invalid,
\* the row cannot be closed or the deadline has passed.
executeCustomerResponse == \E valid \in BOOLEAN :
    /\ pc = "respond"
    /\ rows' = Update(Call.id, IF valid THEN "succeeded" ELSE "failed", 0)
    /\ Return(IF ~valid THEN "terminal" ELSE IF expired THEN "error" ELSE "answered")
    /\ UNCHANGED <<loop, execution, expired, did>>

DeadlineInBatch ==
    /\ pc = "tool" /\ expired
    /\ Return("error")
    /\ UNCHANGED <<loop, execution, rows, expired, did>>

\* Mutant: a skipped call's row is opened and never closed.
recordSkippedTool_Open ==
    /\ pc = "tool" /\ ~expired /\ skip # "none"
    /\ rows' = Append(rows, Row(Call.id, "running"))
    /\ NextCall(skip = "handoff")
    /\ UNCHANGED <<corrections, pending, skip, batch, seen, execution, expired, did>>

\* A call behind a proposal or a hand-off is traced and not executed.
recordSkippedTool ==
    /\ pc = "tool" /\ ~expired /\ skip # "none"
    /\ rows' = Append(rows, Row(Call.id, "refused"))
    /\ NextCall(skip = "handoff")
    /\ UNCHANGED <<corrections, pending, skip, batch, seen, execution, expired, did>>

\* The parent row is written before anything runs.  A name that is not
\* registered, or arguments that are no object, never reach the executor: an
\* error the model may mend.
RecordToolExecutionStarted == \E usable \in BOOLEAN :
    /\ pc = "tool" /\ ~expired /\ skip = "none"
    /\ \A i \in DOMAIN rows : rows[i].id # Call.id
    /\ rows' = Append(rows, Row(Call.id, "running"))
    /\ IF usable /\ Call.name # "unregistered"
       THEN pc' = "attempt" /\ execution' = NoExecution
       ELSE pc' = "finish" /\ execution' = [NoExecution EXCEPT !.status = "failed"]
    /\ UNCHANGED <<loop, result, expired, did>>

\* A trace statement of a call that has not run fails: the run ends and a row
\* already written stays open.
StartFails ==
    /\ "trace" \in Faults /\ pc \in {"tool", "respond"} /\ ~expired
    /\ Return("error")
    /\ UNCHANGED <<loop, execution, rows, expired, did>>

Outcome(status, retryable, committed) ==
    [status |-> status, retryable |-> retryable, committed |-> committed]

\* What one call of Gateway.Execute may report for a tool.
Results(name) ==
    {Outcome(s, FALSE, FALSE) : s \in {"succeeded", "refused"}}
    \cup {Outcome("failed", r, FALSE) : r \in BOOLEAN}
    \cup IF name # "create_booking" THEN {}
         ELSE {Outcome("confirmation_required", FALSE, FALSE), Outcome("succeeded", FALSE, TRUE)}
              \cup {Outcome("failed", r, TRUE) : r \in BOOLEAN}

\* Mutant: the last attempt decides whether a side effect was committed.
Sticky_Last(before, now) == now

\* A side effect an attempt committed stays committed whatever follows.
Sticky(before, now) == before \/ now

\* One attempt within its own timeout.  A timed-out attempt and a retryable
\* error are tried again while attempts are left and the turn's deadline has
\* not passed; a timeout of the last one is an error of the executor.
Attempt == pc = "attempt" /\ \E r \in Results(Call.name), late \in BOOLEAN :
    LET n == execution.attempts + 1
        over == late \/ expired
        again == n < MaxAttempts /\ (over \/ r.retryable)
    IN /\ execution' = [status |-> r.status, attempts |-> n,
                        committed |-> Sticky(execution.committed, r.committed),
                        error |-> over /\ (expired \/ n = MaxAttempts)]
       /\ pc' = IF again /\ ~expired THEN "attempt" ELSE "finish"
       /\ did' = [did EXCEPT !.booked = @ \/ r.committed]
       /\ UNCHANGED <<loop, result, rows, expired>>

\* waitBackoff sees the deadline pass before the next attempt.
waitBackoff ==
    /\ pc = "attempt" /\ execution.attempts > 0 /\ expired
    /\ execution' = [execution EXCEPT !.error = TRUE]
    /\ pc' = "finish"
    /\ UNCHANGED <<loop, result, rows, expired, did>>

\* resolveTrustedContext fails: no attempt is made.
ResolveFails ==
    /\ pc = "attempt" /\ execution.attempts = 0 /\ "trace" \in Faults
    /\ execution' = [NoExecution EXCEPT !.status = "failed", !.error = TRUE]
    /\ pc' = "finish"
    /\ UNCHANGED <<loop, result, rows, expired, did>>

\* An executor error or a result the runner cannot use is a failed tool.
Status(usable) == IF execution.error \/ ~usable THEN "failed" ELSE execution.status

\* An invoked executor that reports no attempt is traced as one.
Traced == IF execution.error /\ execution.attempts = 0 THEN 1 ELSE execution.attempts

\* The runner notes a committed booking before it looks at any error.
Booked == result.booked \/ (execution.committed /\ Call.name = "create_booking")

\* Attempts and completion are recorded even after the deadline; a statement
\* that fails leaves the row running and ends the run.
RecordFails ==
    /\ pc = "finish" /\ "trace" \in Faults
    /\ pc' = "returned"
    /\ result' = [result EXCEPT !.outcome = "error", !.booked = Booked]
    /\ UNCHANGED <<loop, execution, rows, expired, did>>

RecordToolExecutionCompleted == pc = "finish" /\ \E usable \in BOOLEAN :
    LET status == Status(usable)
        escalated == status = "succeeded" /\ Call.name = "escalate_to_human"
        handoff == status = "refused" \/ escalated
        proposed == status = "confirmation_required"
        last == index = Len(batch)
    IN /\ rows' = Update(Call.id, status, Traced)
       /\ IF expired
          THEN /\ pc' = "returned"
               /\ result' = [result EXCEPT !.outcome = "error", !.booked = Booked]
               /\ UNCHANGED <<pending, skip, index, iteration, did>>
          ELSE /\ skip' = IF proposed THEN "proposal" ELSE IF handoff THEN "handoff" ELSE skip
               /\ pending' = (pending \/ proposed)
               /\ did' = [did EXCEPT !.decided = @ \/ proposed \/ handoff]
               /\ result' = [booked |-> Booked, refused |-> result.refused \/ status = "refused",
                             escalated |-> result.escalated \/ escalated,
                             outcome |-> IF last /\ handoff THEN "handoff" ELSE "none"]
               /\ pc' = IF ~last THEN "tool" ELSE IF handoff THEN "returned" ELSE "model"
               /\ index' = IF last THEN index ELSE index + 1
               /\ iteration' = IF last /\ ~handoff THEN iteration + 1 ELSE iteration
       /\ UNCHANGED <<corrections, batch, seen, execution, expired>>

DeadlinePasses ==
    /\ "deadline" \in Faults /\ ~expired /\ pc # "returned"
    /\ expired' = TRUE
    /\ UNCHANGED <<pc, loop, execution, result, rows, did>>

-----------------------------------------------------------------------------
Run ==
    \/ ModelFails \/ Prose \/ RespondMixed \/ RespondStarted \/ executeCustomerResponse \/ ToolCalls
    \/ DeadlineInBatch \/ recordSkippedTool
    \/ RecordToolExecutionStarted \/ StartFails \/ Attempt \/ waitBackoff \/ ResolveFails
    \/ RecordFails \/ RecordToolExecutionCompleted

Next == Run \/ DeadlinePasses

Spec == Init /\ [][Next]_vars

-----------------------------------------------------------------------------
(* Properties *)

\* Types and bounds: an iteration within MaxIterations is left for the answer
\* to every batch of tools that runs, and the executor stops at maxAttempts.
TypeOK ==
    /\ pc \in {"model", "respond", "tool", "attempt", "finish", "returned"}
    /\ iteration \in 1..MaxIterations
    /\ pc \in {"tool", "attempt", "finish"} => iteration < MaxIterations
    /\ corrections \in 0..(maxProtocolCorrections + 1)
    /\ skip \in {"none", "handoff", "proposal"}
    /\ execution.attempts \in 0..MaxAttempts
    /\ result.outcome \in {"none", "answered", "handoff", "iterations", "protocol", "terminal", "error"}

\* tool_executions is unique by call id within a run, and RecordToolAttempt and
\* RecordToolExecutionCompleted find their row by it: whatever ids the provider
\* sends, repeats or imitates, no two calls of the run share one.
CallIDsAreUnique ==
    /\ \A i, j \in DOMAIN rows : rows[i].id = rows[j].id => i = j
    /\ pc = "tool" => \A i \in DOMAIN rows : rows[i].id # Call.id

\* Once a tool asked for confirmation, was refused or handed over, the run
\* executes no tool any more: neither the rest of the batch nor later batches.
QuietAfterDecision == did.decided => pc # "attempt"

\* BookingCommitted of the returned result is exactly whether some attempt of
\* create_booking committed, after timeouts, retries and failed trace writes too.
BookingReported == pc = "returned" => result.booked = did.booked

\* A run that returns without an error leaves no tool_executions row open, and
\* while an attempt is made its parent row exists and is running.
TraceIsComplete ==
    /\ pc = "returned" /\ result.outcome # "error" =>
        \A i \in DOMAIN rows : rows[i].status # "running"
    /\ pc = "attempt" =>
        \E i \in DOMAIN rows : rows[i].id = Call.id /\ rows[i].status = "running"

-----------------------------------------------------------------------------
(* What comments and documents promise and the code does not keep; the     *)
(* README says how each of them fails.                                      *)

\* ADR-013: the turn fails closed "after `maxProtocolCorrections` consecutive
\* violations".
OnlyConsecutiveViolationsFail ==
    result.outcome = "protocol" /\ iteration < MaxIterations => did.strikes > maxProtocolCorrections
=============================================================================
