----------------------------- MODULE TokenBudget ----------------------------
(***************************************************************************)
(* The token budget of one conversation: conversations.token_budget,       *)
(* tokens_used and tokens_reserved, the reservations agentbudget takes     *)
(* before a model call and settles after it, the retries inside            *)
(* OpenRouterAdapter.Complete, the price chargeForModelCall puts on them,  *)
(* and the recalibration every start of a tenant's runtime performs.       *)
(*                                                                         *)
(* Calls of one turn follow each other; calls of two turns may overlap     *)
(* when a turn outlives its serialization lock.  The tokens a provider     *)
(* really consumed are a history variable no program sees.                 *)
(***************************************************************************)
EXTENDS Integers, FiniteSetsExt

CONSTANTS
    Calls,      \* model calls of the conversation
    Budget,     \* conversations.token_budget
    Attempts,   \* attempts of one Complete, ProviderAttempts of the estimator
    MaxOutput,  \* Request.MaxOutputTokens
    Prompts,    \* what may be sent: bytes, messages, tools, and its real tokens
    Outputs,    \* the completion tokens of an answer
    Penalty,    \* failedIterationPenalty of the recalibration
    Silent,     \* whether an answer may come without usage
    Faults      \* "crash", "settle", "trace", "recalibrate": what may happen

ASSUME TokenBudgetAssumption ==
    /\ Budget \in Nat \ {0} /\ Attempts \in Nat \ {0} /\ MaxOutput \in Nat \ {0}
    /\ Prompts \subseteq [bytes : Nat, messages : Nat, tools : Nat, tokens : Nat \ {0}]
    /\ Outputs \subseteq Nat /\ Penalty \in Nat \ {0} /\ Silent \in BOOLEAN

VARIABLES
    used,          \* conversations.tokens_used
    reserved,      \* conversations.tokens_reserved
    conversation,  \* conversations.status
    call,          \* where each call is, and the usage reported to it
    rows,          \* number of agent_iterations rows of the conversation
    recorded,      \* the usage those rows add up to, as the recalibration counts
    outstanding,   \* history: calls whose reservation was never settled
    spent,         \* history: tokens the provider consumed
    refunded       \* history: charges a recalibration took back

vars == <<used, reserved, conversation, call, rows, recorded, outstanding, spent, refunded>>

\* The estimator's defaults: BytesPerToken below 1 means 4.
BytesPerToken == 4

PerAttempt(p) ==
    MaxOutput + (p.bytes + BytesPerToken - 1) \div BytesPerToken
    + 256 + 64 * p.messages + 64 * p.tools

Estimate(p) == PerAttempt(p) * Attempts

NoPrompt == [bytes |-> 0, messages |-> 0, tools |-> 0, tokens |-> 1]

\* llm.Response as the attempts add to it; error tells a failed Complete.
NoCall == [pc |-> "idle", prompt |-> NoPrompt, tried |-> 0, unknown |-> 0,
           input |-> 0, total |-> 0, error |-> "none"]

Init ==
    /\ used = 0 /\ reserved = 0 /\ spent = 0 /\ refunded = 0 /\ conversation = "open"
    /\ call = [c \in Calls |-> NoCall]
    /\ rows = 0 /\ recorded = 0 /\ outstanding = {}

Move(c, pc) == call' = [call EXCEPT ![c].pc = pc]

-----------------------------------------------------------------------------
(* Reservation *)

\* Mutant: only settled usage is compared with the cap.
Reserve_UsedOnly(c) == \E p \in Prompts :
    /\ call[c].pc = "idle"
    /\ used + Estimate(p) <= Budget
    /\ reserved' = reserved + Estimate(p)
    /\ call' = [call EXCEPT ![c].pc = "calling", ![c].prompt = p]
    /\ outstanding' = outstanding \cup {c}
    /\ UNCHANGED <<used, conversation, rows, recorded, spent, refunded>>

\* One UPDATE guarded by the cap; the turn then calls the model.
Reserve(c) == \E p \in Prompts :
    /\ call[c].pc = "idle"
    /\ used + reserved + Estimate(p) <= Budget
    /\ reserved' = reserved + Estimate(p)
    /\ call' = [call EXCEPT ![c].pc = "calling", ![c].prompt = p]
    /\ outstanding' = outstanding \cup {c}
    /\ UNCHANGED <<used, conversation, rows, recorded, spent, refunded>>

\* No row updated: ErrTokenBudgetExceeded ends the run.
BudgetExceeded(c) == \E p \in Prompts :
    /\ call[c].pc = "idle"
    /\ used + reserved + Estimate(p) > Budget
    /\ Move(c, "failed")
    /\ UNCHANGED <<used, reserved, conversation, rows, recorded, outstanding, spent, refunded>>

-----------------------------------------------------------------------------
(* The attempts of one Complete *)

\* The tokens an attempt that fails without usage may have cost: it sent the
\* prompt and returned no completion.
UnreportedCosts(p) == {0, p.tokens}

\* An attempt answers; Complete returns.  The usage is the sum over attempts.
AttemptSucceeds(c) == \E out \in Outputs, reports \in {TRUE} \cup {~Silent} :
    LET k == call[c]
        n == IF reports THEN k.prompt.tokens + out ELSE 0
    IN /\ k.pc = "calling" /\ k.tried < Attempts
       /\ call' = [call EXCEPT ![c].pc = "priced", ![c].tried = @ + 1, ![c].total = @ + n,
                               ![c].input = @ + IF reports THEN k.prompt.tokens ELSE 0]
       /\ spent' = spent + k.prompt.tokens + out
       /\ UNCHANGED <<used, reserved, conversation, rows, recorded, outstanding, refunded>>

\* An attempt fails.  A partial answer may carry usage; without it the attempt
\* is counted unknown.  Another attempt follows only when some are left, the
\* failure is retryable and the deadline has not passed.
AttemptFails(c) == \E reports \in BOOLEAN, again \in BOOLEAN :
    LET k == call[c]
        n == IF reports THEN k.prompt.tokens ELSE 0
    IN /\ k.pc = "calling" /\ k.tried < Attempts
       /\ again => k.tried + 1 < Attempts
       /\ call' = [call EXCEPT
            ![c].pc = IF again THEN "calling" ELSE "priced",
            ![c].error = IF again THEN "none" ELSE "provider",
            ![c].tried = @ + 1, ![c].total = @ + n, ![c].input = @ + n,
            ![c].unknown = @ + IF reports THEN 0 ELSE 1]
       /\ \E cost \in (IF reports THEN {n} ELSE UnreportedCosts(k.prompt)) : spent' = spent + cost
       /\ UNCHANGED <<used, reserved, conversation, rows, recorded, outstanding, refunded>>

-----------------------------------------------------------------------------
(* Price and settlement *)

\* The price of a call that reported usage and had unknown attempts.
Surcharged(k) == k.total + k.unknown * (IF k.input > 0 THEN k.input ELSE k.total)

\* Mutant: the extra price of attempts that reported nothing is forgotten.
chargeForModelCall_Reported(k) ==
    IF k.error # "none" \/ k.total = 0 THEN Estimate(k.prompt) ELSE k.total

chargeForModelCall(k) ==
    IF k.error # "none" \/ k.total = 0 THEN Estimate(k.prompt)
    ELSE IF k.unknown = 0 THEN k.total
    ELSE Min({Surcharged(k), Estimate(k.prompt)})

\* An impossible report settles the whole reservation and is an error.
Settlement(k) == Min({chargeForModelCall(k), Estimate(k.prompt)})

\* Mutant: the reservation is compared but only the charge is given back.
SettleTokens_Partly(c) ==
    /\ reserved' = reserved - Settlement(call[c])
    /\ used' = used + Settlement(call[c])

SettleTokens(c) ==
    /\ reserved' = reserved - Estimate(call[c].prompt)
    /\ used' = used + Settlement(call[c])

\* The guards of the UPDATE.
SettleAccepted(c) ==
    /\ reserved >= Estimate(call[c].prompt)
    /\ used + Settlement(call[c]) <= Budget

Settle(c) ==
    /\ call[c].pc = "priced" /\ SettleAccepted(c)
    /\ SettleTokens(c)
    /\ Move(c, IF chargeForModelCall(call[c]) > Estimate(call[c].prompt) THEN "failed" ELSE "settled")
    /\ outstanding' = outstanding \ {c}
    /\ UNCHANGED <<conversation, rows, recorded, spent, refunded>>

\* The UPDATE finds no row or the database fails; the reservation is marked
\* settled in memory all the same and nobody tries again.
SettleFails(c) ==
    /\ call[c].pc = "priced"
    /\ SettleAccepted(c) => "settle" \in Faults
    /\ Move(c, "failed")
    /\ UNCHANGED <<used, reserved, conversation, rows, recorded, outstanding, spent, refunded>>

RecordModelCall(c) ==
    /\ call[c].pc = "settled"
    /\ Move(c, IF call[c].error = "none" THEN "over" ELSE "failed")
    /\ rows' = rows + 1
    /\ recorded' = recorded + (IF call[c].total > 0 THEN call[c].total ELSE Penalty)
    /\ UNCHANGED <<used, reserved, conversation, outstanding, spent, refunded>>

TraceFails(c) ==
    /\ "trace" \in Faults /\ call[c].pc = "settled"
    /\ Move(c, "failed")
    /\ UNCHANGED <<used, reserved, conversation, rows, recorded, outstanding, spent, refunded>>

\* A failed run ends in a hand-off, which closes the conversation to the agent.
HandOff(c) ==
    /\ call[c].pc = "failed"
    /\ Move(c, "over") /\ conversation' = "human_required"
    /\ UNCHANGED <<used, reserved, rows, recorded, outstanding, spent, refunded>>

\* The process dies during the call; nothing ever settles its reservation.
Crash(c) ==
    /\ "crash" \in Faults /\ call[c].pc \notin {"idle", "over"}
    /\ Move(c, "over")
    /\ UNCHANGED <<used, reserved, conversation, rows, recorded, outstanding, spent, refunded>>

-----------------------------------------------------------------------------
(* Recalibration when a runtime is built *)

RecalibrateInflatedUsage ==
    /\ "recalibrate" \in Faults
    /\ conversation = "open" /\ reserved = 0 /\ rows > 0
    /\ used > recorded
    /\ used' = recorded /\ refunded' = refunded + (used - recorded)
    /\ UNCHANGED <<reserved, conversation, call, rows, recorded, outstanding, spent>>

-----------------------------------------------------------------------------
ModelCall(c) ==
    \/ Reserve(c) \/ BudgetExceeded(c)
    \/ AttemptSucceeds(c) \/ AttemptFails(c)
    \/ Settle(c) \/ SettleFails(c)
    \/ RecordModelCall(c) \/ TraceFails(c) \/ HandOff(c)

Next ==
    \/ \E c \in Calls : ModelCall(c) \/ Crash(c)
    \/ RecalibrateInflatedUsage

Spec == Init /\ [][Next]_vars

-----------------------------------------------------------------------------
(* Properties *)

Phases == {"idle", "calling", "priced", "settled", "failed", "over"}

\* Types, with the signs the CHECK constraints of conversations demand.
TypeOK ==
    /\ used \in Nat /\ reserved \in Nat /\ spent \in Nat /\ refunded \in Nat
    /\ conversation \in {"open", "human_required"}
    /\ rows \in Nat /\ recorded \in Nat /\ outstanding \subseteq Calls
    /\ \A c \in Calls :
        /\ call[c].pc \in Phases /\ call[c].error \in {"none", "provider"}
        /\ call[c].prompt \in Prompts \cup {NoPrompt}
        /\ \A f \in {"tried", "unknown", "input", "total"} : call[c][f] \in Nat

\* ReserveTokens and SettleTokens keep used and reserved tokens under the cap
\* however calls overlap, so conversations' CHECK never rejects a write.
HardCap == used + reserved <= Budget

\* tokens_reserved is the sum of the reservations not settled: settling gives
\* back exactly what Reserve took, and only a dead process or a failed
\* settlement leaves any behind.
ReservedIsOutstanding ==
    reserved = MapThenSumSet(LAMBDA c : Estimate(call[c].prompt), outstanding)

\* chargeForModelCall: "spend the provider never accounted for is always
\* charged".  Real consumption never exceeds what is charged, still reserved or
\* was charged until a recalibration took it back.
SpendIsAccounted == spent <= used + reserved + refunded

\* The two accounts of a conversation's row are right at every moment.
BudgetIsAccounted == ReservedIsOutstanding /\ SpendIsAccounted

\* chargeForModelCall: "the result never exceeds the reservation the budget
\* already holds".  It holds when no attempt costs more than the estimate.
ChargeWithinReservation ==
    \A c \in Calls : call[c].pc = "priced" => chargeForModelCall(call[c]) <= Estimate(call[c].prompt)

-----------------------------------------------------------------------------
(* What comments and documents promise and the code does not keep; the     *)
(* README says how each of them fails.                                      *)

\* RecalibrateInflatedUsage: "running it when usage is already correct changes
\* nothing meaningful".  Charges priced by chargeForModelCall are never undone.
ChargesStand == [][used' >= used]_vars

\* ADR-012: a reservation counts a token for every three bytes of content.
ReservesAtThreeBytes ==
    \A c \in outstanding :
        LET p == call[c].prompt
        IN Estimate(p) >= Attempts * (MaxOutput + (p.bytes + 2) \div 3
                                      + 256 + 64 * p.messages + 64 * p.tools)
=============================================================================
