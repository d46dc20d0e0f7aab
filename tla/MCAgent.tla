------------------------------ MODULE MCAgent ------------------------------
(***************************************************************************)
(* The agent's side of a turn: the token budget of its model calls         *)
(* (TokenBudget) and the loop of one run (AgentRun).  A behaviour is one   *)
(* of either, chosen by subject.                                           *)
(***************************************************************************)
EXTENDS TokenBudget, TLC

VARIABLES
    subject,
    pc, iteration, corrections, pending, skip, batch, index, seen, execution, result,
    traced, expired, did

runVars == <<pc, iteration, corrections, pending, skip, batch, index, seen, execution, result,
             traced, expired, did>>

\* English text and JSON: fewer tokens than the estimate allows for.
Plain == {[bytes |-> 800, messages |-> 2, tools |-> 1, tokens |-> 210],
          [bytes |-> 4000, messages |-> 3, tools |-> 1, tokens |-> 1500]}

\* Three iterations, batches of two calls and two attempts; the provider
\* may send an id of its own, which looks like a generated one.
loop == INSTANCE AgentRun WITH
    MaxIterations <- 3, MaxAttempts <- 2, MaxCalls <- 2,
    Names <- {"create_booking", "escalate_to_human"},
    ProviderIDs <- {<<2, 1, 1>>}, Faults <- {"trace", "deadline"}, rows <- traced

ASSUME LoopAssumption == loop!AgentRunAssumption

AgentInit == subject \in {"budget", "loop"} /\ Init /\ loop!Init

AgentNext ==
    \/ subject = "budget" /\ Next /\ UNCHANGED <<subject, runVars>>
    \/ subject = "loop" /\ loop!Next /\ UNCHANGED <<subject, vars>>

AgentSpec == AgentInit /\ [][AgentNext]_<<subject, vars, runVars>>

Symmetry == Permutations(Calls)

-----------------------------------------------------------------------------
\* After a proposal, a refusal or a hand-off the run executes no further tool.
QuietAfterDecision == loop!QuietAfterDecision

\* A run keeps within its bounds and what it leaves behind is true of it: it
\* leaves an iteration for the answer to every batch of tools, no two of its calls share an id,
\* whatever ids the provider sends, BookingCommitted of the result tells
\* whether some attempt committed, and a run that returns without an error
\* leaves no tool_executions row open.
RunIsRecorded ==
    /\ loop!TypeOK
    /\ loop!CallIDsAreUnique
    /\ loop!BookingReported
    /\ loop!TraceIsComplete
=============================================================================
