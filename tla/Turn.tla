-------------------------------- MODULE Turn --------------------------------
(***************************************************************************)
(* One conversation of the booking front desk: the turns that             *)
(* app.Service.SendMessage runs under the conversation's advisory lock,    *)
(* the action proposals of confirmations.PostgreSQL, and the mutation path *)
(* of tools.Gateway (propose, verify, execute, consume).                   *)
(*                                                                         *)
(* The language model is untrusted: at every iteration it may make any     *)
(* call, with any confirmation id and any arguments.  Statements may fail, *)
(* the turn's deadline may pass at any moment, a commit may succeed while  *)
(* its answer is lost, and the process may die between any two statements. *)
(***************************************************************************)
EXTENDS Integers, Sequences, FiniteSets

CONSTANTS
    Requests,    \* calls of SendMessage, each with its own inbound message
    Proposals,   \* identifiers of action_proposals rows
    Acts,        \* frozen actions: the tool and the canonical arguments
    Creates,     \* the actions whose tool is create_booking
    MaxCalls,    \* bound on the mutating tool calls of one turn
    MaxCrashes,  \* bound on the calls whose process dies
    None

ASSUME TurnAssumption ==
    /\ Creates \subseteq Acts
    /\ MaxCalls \in Nat /\ MaxCrashes \in Nat
    /\ None \notin Requests /\ None \notin Proposals /\ None \notin Acts

VARIABLES
    clock,     \* database clock; stamps are only ever compared with a reply's,
               \* so it advances when a reply's transaction begins and ends
    conv,      \* conversations row: status, consecutive_clarification_failures
    lock,      \* holder of the conversation's advisory lock
    pc,        \* where each SendMessage call is
    turn,      \* the local variables of each call
    run,       \* agent_runs.status of each call's run, the terminal ones as one
    prop,      \* action_proposals
    replies,   \* committed assistant messages: created_at, the card of their
               \* turn event, what they say, when they became visible
    effects    \* history: committed booking mutations, in order

vars == <<clock, conv, lock, pc, turn, run, prop, replies, effects>>

Texts == {"consent", "human", "other"}

\* Steps at which a call holds the conversation lock.
InTurn == {"locked", "ack", "supersede", "start", "human", "authorize",
           "agent", "respond", "executing", "consume", "finish", "failing",
           "persist", "persisting"}

\* A call that saved its message returned its answer, or failed: its process
\* died or not even the hand-off could be stored.
Ended == {"done", "failed"}

Outcomes == {"none", "complete", "clarification", "refused", "escalated"}

\* What the assistant message tells the customer.
Says == {"none", "ack", "reply", "clarification", "booked", "handoff", "failure"}

\* heard is the message's receive time; the rest are SendMessage's variables.
NewTurn == [text |-> "other", heard |-> 0, late |-> FALSE, calls |-> 0, clar |-> 0, committed |-> FALSE,
            outcome |-> "none", prop |-> None, act |-> None, card |-> None,
            says |-> "none", handoff |-> FALSE, last |-> FALSE, began |-> 0]

NoProposal == [status |-> "none", act |-> None, from |-> None, by |-> None,
               heard |-> 0, at |-> 0, overdue |-> FALSE]

Init ==
    /\ clock = 0
    /\ conv = [status |-> "open", clar |-> 0]
    /\ lock = None
    /\ pc = [r \in Requests |-> "idle"]
    /\ turn = [r \in Requests |-> NewTurn]
    /\ run = [r \in Requests |-> "none"]
    /\ prop = [p \in Proposals |-> NoProposal]
    /\ replies = <<>>
    /\ effects = <<>>

-----------------------------------------------------------------------------
(* confirmations.PostgreSQL: the statements on action_proposals.           *)

Outstanding(p) == prop[p].status \in {"pending", "confirmed"}

Live(p) == Outstanding(p) /\ ~prop[p].overdue

\* The newest live proposal, if any.
Latest == {p \in Proposals : Live(p) /\ \A q \in Proposals : Live(q) => prop[q].at <= prop[p].at}

InvalidateLatest ==
    [p \in Proposals |-> IF Live(p) THEN [prop[p] EXCEPT !.status = "rejected"] ELSE prop[p]]

\* Rows past expires_at are retired before a proposal is looked up or inserted.
ExpireOverdue ==
    [p \in Proposals |-> IF Outstanding(p) /\ prop[p].overdue
                         THEN [prop[p] EXCEPT !.status = "expired"] ELSE prop[p]]

\* Insert proposal p for action a; every other outstanding row is retired.
ProposeNew(p, a, r) ==
    [q \in Proposals |->
        IF q = p THEN [status |-> "pending", act |-> a, from |-> r, by |-> None,
                       heard |-> 0, at |-> clock, overdue |-> FALSE]
        ELSE IF Live(q) THEN [prop[q] EXCEPT !.status = "rejected"]
        ELSE ExpireOverdue[q]]

\* Mutated form of Presented: the receive time is not compared.
Presented_AnyReply(p, r) ==
    \E i \in DOMAIN replies : replies[i].at >= prop[p].at

\* Some assistant message was written after the proposal and before message r.
Presented(p, r) ==
    \E i \in DOMAIN replies : /\ replies[i].at >= prop[p].at
                              /\ replies[i].at < turn[r].heard

CanAuthorize(p, r) ==
    /\ prop[p].status = "pending"
    /\ ~prop[p].overdue
    /\ prop[p].from # r
    /\ Presented(p, r)

\* Mutated form of VerifyAuthorized: once confirmed is enough, rejected since or not.
VerifyAuthorized_EverConfirmed(p, a) ==
    /\ prop[p].by # None
    /\ ~prop[p].overdue
    /\ prop[p].act = a

VerifyAuthorized(p, a) ==
    /\ prop[p].status \in {"confirmed", "consumed"}
    /\ ~prop[p].overdue
    /\ prop[p].act = a

\* restoreFrozenAction: a call that names the live proposal of its own tool
\* runs the stored arguments, not the ones the model echoed.
RestoreFrozenAction(p, a) ==
    IF p \in Latest /\ (prop[p].act \in Creates <=> a \in Creates) THEN prop[p].act ELSE a

-----------------------------------------------------------------------------
(* Arrival, admission and the conversation lock.                           *)

Go(r, step) == pc' = [pc EXCEPT ![r] = step]

\* SendMessage returns: the lock is released and its locals are gone.
Return(r, step) ==
    /\ Go(r, step)
    /\ lock' = IF lock = r THEN None ELSE lock
    /\ turn' = [turn EXCEPT ![r] = NewTurn]

\* The receive time is read from the database before waiting for the lock.
Receive(r) ==
    /\ pc[r] = "idle"
    /\ turn' = [turn EXCEPT ![r].heard = clock]
    /\ Go(r, "waiting")
    /\ UNCHANGED <<clock, conv, lock, run, prop, replies, effects>>

AcquireConversationTurn(r) ==
    /\ pc[r] = "waiting"
    /\ lock = None
    /\ lock' = r
    /\ Go(r, "locked")
    /\ UNCHANGED <<clock, conv, turn, run, prop, replies, effects>>

\* The bounded wait ends with TurnOverloadError or the caller's cancellation,
\* or the process dies.  Nothing was stored and the caller may send again.
GiveUpWaiting(r) ==
    /\ pc[r] = "waiting"
    /\ Return(r, "idle")
    /\ UNCHANGED <<clock, conv, run, prop, replies, effects>>

\* The turn's context reaches its deadline: later statements on it fail.  The
\* excluded steps run on a detached context and do not look at this one.
DeadlinePasses(r) ==
    /\ pc[r] \in InTurn \ {"ack", "persist", "persisting"}
    /\ ~turn[r].late
    /\ turn' = [turn EXCEPT ![r].late = TRUE]
    /\ UNCHANGED <<clock, conv, lock, pc, run, prop, replies, effects>>

\* The process dies: the session lock goes with its connection, and an open
\* transaction is rolled back.
Crash(r) ==
    /\ pc[r] \in InTurn \ {"locked"}
    /\ Cardinality({s \in Requests : pc[s] = "failed"}) < MaxCrashes
    /\ Return(r, "failed")
    /\ UNCHANGED <<clock, conv, run, prop, replies, effects>>

\* A proposal's expires_at passes.
ProposalExpires(p) ==
    /\ prop[p].status \in {"pending", "confirmed", "consumed"}
    /\ ~prop[p].overdue
    /\ prop' = [prop EXCEPT ![p].overdue = TRUE]
    /\ UNCHANGED <<clock, conv, lock, pc, turn, run, replies, effects>>

-----------------------------------------------------------------------------
(* SendMessage up to the agent run.                                        *)

\* Mutated form of AfterSave: the conversation's owner is not checked.
AfterSave_IgnoresOwner(text) ==
    IF text = "consent" THEN "start" ELSE "supersede"

\* A conversation owned by a person is only acknowledged; any message but
\* explicit consent withdraws the live proposal first.
AfterSave(text) ==
    IF conv.status = "escalated" THEN "ack"
    ELSE IF text = "consent" THEN "start" ELSE "supersede"

\* Get and AppendMessageAt; the text is looked at from here on.
SaveMessage(r, text) ==
    /\ pc[r] = "locked"
    /\ ~turn[r].late
    /\ turn' = [turn EXCEPT ![r].text = text, ![r].clar = conv.clar]
    /\ Go(r, AfterSave(text))
    /\ UNCHANGED <<clock, conv, lock, run, prop, replies, effects>>

\* Nothing is saved, or the process dies before.
SaveFails(r) ==
    /\ pc[r] = "locked"
    /\ Return(r, "idle")
    /\ UNCHANGED <<clock, conv, run, prop, replies, effects>>

\* The rows a non-consent message leaves behind.
Superseded == InvalidateLatest

Supersede(r) ==
    /\ pc[r] = "supersede"
    /\ ~turn[r].late
    /\ prop' = Superseded
    /\ Go(r, "start")
    /\ UNCHANGED <<clock, conv, lock, turn, run, replies, effects>>

\* CaptureContactFromMessage and StartRun.
StartRun(r) ==
    /\ pc[r] = "start"
    /\ ~turn[r].late
    /\ run' = [run EXCEPT ![r] = "running"]
    /\ Go(r, CASE turn[r].text = "human" -> "human"
               [] turn[r].text = "consent" -> "authorize"
               [] OTHER -> "agent")
    /\ UNCHANGED <<clock, conv, lock, turn, prop, replies, effects>>

EscalateCustomerRequest(r) ==
    /\ pc[r] = "human"
    /\ ~turn[r].late
    /\ prop' = InvalidateLatest
    /\ turn' = [turn EXCEPT ![r].says = "handoff", ![r].handoff = TRUE]
    /\ Go(r, "persist")
    /\ UNCHANGED <<clock, conv, lock, run, replies, effects>>

\* Latest and Authorize.  Consent that authorizes nothing (no live proposal,
\* not yet presented, already authorized) lets the turn continue.
Authorize(r) ==
    /\ pc[r] = "authorize"
    /\ ~turn[r].late
    /\ prop' = [p \in Proposals |->
                  IF p \in Latest /\ CanAuthorize(p, r)
                  THEN [prop[p] EXCEPT !.status = "confirmed", !.by = r,
                                        !.heard = turn[r].heard] ELSE prop[p]]
    /\ Go(r, "agent")
    /\ UNCHANGED <<clock, conv, lock, turn, run, replies, effects>>

\* Mutated form of PrepareFails: the error is returned without a hand-off.
PrepareFails_Silent(r) ==
    /\ pc[r] \in {"supersede", "start", "human", "authorize"}
    /\ Return(r, "idle")
    /\ UNCHANGED <<clock, conv, run, prop, replies, effects>>

\* One of the statements above fails; Authorize may have taken effect.
PrepareFails(r) ==
    /\ pc[r] \in {"supersede", "start", "human", "authorize"}
    /\ Go(r, "failing")
    /\ \/ UNCHANGED prop
       \/ /\ pc[r] = "authorize"
          /\ \E p \in Latest : /\ CanAuthorize(p, r)
                               /\ prop' = [prop EXCEPT ![p].status = "confirmed", ![p].by = r,
                                                    ![p].heard = turn[r].heard]
    /\ UNCHANGED <<clock, conv, lock, turn, run, replies, effects>>

-----------------------------------------------------------------------------
(* The agent run: Runner.Run, Executor.Execute and Gateway.Execute.  Read- *)
(* only calls and calls refused by a check change nothing and are omitted. *)

MayCall(r) == pc[r] = "agent" /\ ~turn[r].late /\ turn[r].calls < MaxCalls

\* A mutating call without a confirmation id stores a proposal, or replays
\* the live one for the same action.  Then only a reply may follow, unless
\* the call's answer is lost and the model goes on.
Propose(r, a) ==
    /\ MayCall(r)
    /\ LET same == {p \in Proposals : Live(p) /\ prop[p].act = a} IN
         \/ /\ same # {}
            /\ prop' = ExpireOverdue
         \/ /\ same = {}
            /\ \E p \in Proposals : /\ prop[p].status = "none"
                                    /\ prop' = ProposeNew(p, a, r)
    /\ turn' = [turn EXCEPT ![r].calls = @ + 1]
    /\ \E step \in {"respond", "agent"} : Go(r, step)
    /\ UNCHANGED <<clock, conv, lock, run, replies, effects>>

\* A mutating call with a confirmation id p and echoed arguments a.
Execute(r, p, a) ==
    /\ MayCall(r)
    /\ VerifyAuthorized(p, RestoreFrozenAction(p, a))
    /\ turn' = [turn EXCEPT ![r].calls = @ + 1, ![r].prop = p,
                            ![r].act = RestoreFrozenAction(p, a)]
    /\ Go(r, "executing")
    /\ UNCHANGED <<clock, conv, lock, run, prop, replies, effects>>

\* Mutated form of Mutate: the idempotency record is not consulted.
Mutate_Always(r) ==
    effects' = Append(effects, [act |-> turn[r].act, prop |-> turn[r].prop])

\* The backend's transaction: the idempotency record in the action's own
\* arguments makes a repeated action a replay.
Mutate(r) ==
    effects' = IF \E i \in DOMAIN effects : effects[i].act = turn[r].act THEN effects
               ELSE Append(effects, [act |-> turn[r].act, prop |-> turn[r].prop])

EndCall(r, step) ==
    /\ Go(r, step)
    /\ turn' = [turn EXCEPT ![r].prop = None, ![r].act = None,
                            ![r].outcome = IF step = "finish" THEN "refused" ELSE turn[r].outcome]

BackendCommits(r) ==
    /\ pc[r] = "executing"
    /\ Mutate(r)
    /\ \/ ~turn[r].late /\ Go(r, "consume") /\ UNCHANGED turn
       \/ EndCall(r, "agent")    \* committed, but the answer is lost
    /\ UNCHANGED <<clock, conv, lock, run, prop, replies>>

\* Slot taken, booking changed, dependency down; or not owned: a refusal.
BackendFails(r) ==
    /\ pc[r] = "executing"
    /\ EndCall(r, "agent") \/ EndCall(r, "finish")
    /\ UNCHANGED <<clock, conv, lock, run, prop, replies, effects>>

\* MarkConsumed compares expires_at with the time VerifyAuthorized used, so a
\* proposal that expires in between is still consumed.  The side effect is
\* remembered whether or not the statement succeeds.
MarkConsumed(r) ==
    /\ pc[r] = "consume"
    /\ \/ UNCHANGED prop
       \/ /\ ~turn[r].late
          /\ prop[turn[r].prop].status \in {"confirmed", "consumed"}
          /\ prop' = [prop EXCEPT ![turn[r].prop].status = "consumed"]
    /\ turn' = [turn EXCEPT ![r].committed = @ \/ turn[r].act \in Creates,
                            ![r].prop = None, ![r].act = None]
    /\ Go(r, "agent")
    /\ UNCHANGED <<clock, conv, lock, run, replies, effects>>

\* escalate_to_human; when its answer is lost the model may go on.
EscalateToHuman(r) ==
    /\ MayCall(r)
    /\ conv' = [conv EXCEPT !.status = "escalated"]
    /\ \/ /\ Go(r, "finish")
          /\ turn' = [turn EXCEPT ![r].outcome = "escalated", ![r].calls = @ + 1]
       \/ /\ Go(r, "agent")
          /\ turn' = [turn EXCEPT ![r].calls = @ + 1]
    /\ UNCHANGED <<clock, lock, run, prop, replies, effects>>

\* A call is refused by policy, ownership or the allowlist.
ToolRefused(r) ==
    /\ pc[r] = "agent" /\ ~turn[r].late
    /\ turn' = [turn EXCEPT ![r].outcome = "refused"]
    /\ Go(r, "finish")
    /\ UNCHANGED <<clock, conv, lock, run, prop, replies, effects>>

RespondToCustomer(r) ==
    /\ pc[r] \in {"agent", "respond"} /\ ~turn[r].late
    /\ \E d \in {"complete", "clarification"} : turn' = [turn EXCEPT ![r].outcome = d]
    /\ Go(r, "finish")
    /\ UNCHANGED <<clock, conv, lock, run, prop, replies, effects>>

\* Provider failure, exhausted budget, iteration limit, protocol violation or
\* turn timeout.  A run that booked keeps that fact for the customer.
RunFails(r) ==
    /\ pc[r] \in {"agent", "respond"}
    /\ turn' = [turn EXCEPT ![r].says = IF turn[r].committed THEN "booked" ELSE "failure",
                            ![r].calls = 0]
    /\ Go(r, "failing")
    /\ UNCHANGED <<clock, conv, lock, run, prop, replies, effects>>

-----------------------------------------------------------------------------
(* SendMessage after the agent run.                                        *)

\* Mutated form of NextClarification: a clarification restarts the count.
NextClarification_Restarts(r) ==
    IF turn[r].outcome = "clarification" /\ ~turn[r].committed THEN 1 ELSE 0

NextClarification(r) ==
    IF turn[r].outcome = "clarification" /\ ~turn[r].committed
    THEN IF turn[r].clar + 1 > 3 THEN 3 ELSE turn[r].clar + 1
    ELSE 0

\* Mutated form of Withdrawn: a clarification leaves the proposal live.
Withdrawn_Never(r) == prop

\* A clarification, hand-off or refusal does not present a proposal.
Withdrawn(r) ==
    IF ~turn[r].committed /\ turn[r].outcome # "complete" THEN InvalidateLatest ELSE prop

\* The reply's words and card; the card is the live proposal after Withdrawn.
\* From here on the turn runs on a detached context.
FinishTurn(r) ==
    /\ pc[r] = "finish"
    /\ ~turn[r].late
    /\ prop' = Withdrawn(r)
    /\ LET handoff == turn[r].outcome = "refused" \/ NextClarification(r) >= 3
           live == IF ~turn[r].committed /\ turn[r].outcome # "complete" THEN {} ELSE Latest
           card == IF live = {} \/ handoff THEN None ELSE CHOOSE p \in live : TRUE
       IN turn' = [turn EXCEPT ![r].calls = 0, ![r].late = FALSE,
                               ![r].card = card, ![r].handoff = handoff,
                               ![r].says = IF turn[r].committed THEN "booked"
                                           ELSE IF handoff \/ turn[r].outcome = "escalated" THEN "handoff"
                                           ELSE IF turn[r].outcome = "clarification" THEN "clarification"
                                           ELSE "reply"]
    /\ Go(r, "persist")
    /\ UNCHANGED <<clock, conv, lock, run, replies, effects>>

\* InvalidateLatest or Latest fails, or the reply is empty.
FinishFails(r) ==
    /\ pc[r] = "finish"
    /\ prop' \in {prop, Withdrawn(r)}
    /\ turn' = [turn EXCEPT ![r].says = "failure", ![r].calls = 0]
    /\ Go(r, "failing")
    /\ UNCHANGED <<clock, conv, lock, run, replies, effects>>

\* handleSavedTurnFailure: the live proposal is rejected unless the run failed
\* after booking.  The statement uses the turn's context, so it cannot succeed
\* once the deadline has passed; its failure does not stop the hand-off.
HandleSavedTurnFailure(r) ==
    /\ pc[r] = "failing"
    /\ \/ UNCHANGED prop
       \/ turn[r].says # "booked" /\ ~turn[r].late /\ prop' = InvalidateLatest
    /\ turn' = [turn EXCEPT ![r] =
                  [NewTurn EXCEPT !.says = IF turn[r].says = "booked" THEN "booked" ELSE "failure",
                                  !.committed = turn[r].committed,
                                  !.handoff = TRUE, !.last = TRUE]]
    /\ Go(r, "persist")
    /\ UNCHANGED <<clock, conv, lock, run, replies, effects>>

\* BEGIN of the transaction that stores the assistant message: now() is fixed
\* here.  The transaction runs on a detached context.
BeginReply(r) ==
    /\ pc[r] \in {"persist", "ack"}
    /\ clock' = clock + 2
    /\ turn' = [turn EXCEPT ![r].began = clock + 1,
                            ![r].says = IF pc[r] = "ack" THEN "ack" ELSE turn[r].says]
    /\ Go(r, "persisting")
    /\ UNCHANGED <<conv, lock, run, prop, replies, effects>>

\* The conversations row after persistReplyAndFinish or persistHandoff.
ReplyConversation(r) ==
    IF turn[r].says = "ack" THEN conv
    ELSE IF turn[r].handoff
    THEN [status |-> "escalated",
          clar |-> IF ~turn[r].last /\ NextClarification(r) >= 3 THEN 3 ELSE conv.clar]
    ELSE [conv EXCEPT !.clar = NextClarification(r)]

\* The effects of the commit: message, event, conversation and run together.
StoreReply(r) ==
    /\ replies' = Append(replies, [at |-> turn[r].began, card |-> turn[r].card,
                                   says |-> turn[r].says, shown |-> clock + 1])
    /\ clock' = clock + 2
    /\ conv' = ReplyConversation(r)
    /\ run' = [run EXCEPT ![r] = IF turn[r].says = "ack" THEN @ ELSE "finished"]

CommitReply(r) ==
    /\ pc[r] = "persisting"
    /\ StoreReply(r)
    /\ Return(r, "done")
    /\ UNCHANGED <<prop, effects>>

\* The transaction fails, or commits and its answer is lost.  The first
\* failure leads to a durable hand-off, a second one to an error.
ReplyFails(r) ==
    /\ pc[r] = "persisting"
    /\ \/ StoreReply(r)
       \/ UNCHANGED <<clock, conv, run, replies>>
    /\ IF turn[r].last \/ turn[r].says = "ack"
       THEN Return(r, "failed")
       ELSE /\ Go(r, "failing") /\ UNCHANGED lock
            /\ turn' = [turn EXCEPT ![r].says = "failure"]
    /\ UNCHANGED <<prop, effects>>

-----------------------------------------------------------------------------
RequestStep(r) ==
    \/ AcquireConversationTurn(r) \/ GiveUpWaiting(r)
    \/ (\E text \in Texts : SaveMessage(r, text)) \/ SaveFails(r) \/ Supersede(r) \/ StartRun(r)
    \/ EscalateCustomerRequest(r) \/ Authorize(r) \/ PrepareFails(r)
    \/ \E a \in Acts : Propose(r, a)
    \/ \E p \in Proposals, a \in Acts : Execute(r, p, a)
    \/ BackendCommits(r) \/ BackendFails(r) \/ MarkConsumed(r)
    \/ EscalateToHuman(r) \/ ToolRefused(r) \/ RespondToCustomer(r) \/ RunFails(r)
    \/ FinishTurn(r) \/ FinishFails(r) \/ HandleSavedTurnFailure(r)
    \/ BeginReply(r) \/ CommitReply(r) \/ ReplyFails(r)

Next ==
    \/ \E r \in Requests : Receive(r) \/ RequestStep(r) \/ DeadlinePasses(r) \/ Crash(r)
    \/ \E p \in Proposals : ProposalExpires(p)

Spec == Init /\ [][Next]_vars

\* A call that has started keeps executing statements until it returns.
Fairness == \A r \in Requests : WF_vars(RequestStep(r))

FairSpec == Spec /\ Fairness

-----------------------------------------------------------------------------
ProposalRows ==
    [status : {"none", "pending", "confirmed", "consumed", "rejected", "expired"},
     act : Acts \union {None}, from : Requests \union {None},
     by : Requests \union {None}, heard : Nat, at : Nat, overdue : BOOLEAN]

TurnRecords ==
    [text : Texts, heard : Nat, late : BOOLEAN, calls : 0..MaxCalls, clar : 0..3, committed : BOOLEAN,
     outcome : Outcomes, prop : Proposals \union {None}, act : Acts \union {None},
     card : Proposals \union {None}, says : Says, handoff : BOOLEAN,
     last : BOOLEAN, began : Nat]

ReplyRows == [at : Nat, card : Proposals \union {None}, says : Says, shown : Nat]

EffectRows == [act : Acts, prop : Proposals]

\* Every variable stays within the values the tables and locals may hold.
TypeOK ==
    /\ clock \in Nat
    /\ conv \in [status : {"open", "escalated"}, clar : 0..3]
    /\ lock \in Requests \union {None}
    /\ pc \in [Requests -> InTurn \union Ended \union {"idle", "waiting"}]
    /\ turn \in [Requests -> TurnRecords]
    /\ run \in [Requests -> {"none", "running", "finished"}]
    /\ prop \in [Proposals -> ProposalRows]
    /\ replies \in Seq(ReplyRows)
    /\ effects \in Seq(EffectRows)

\* Turns of one conversation never overlap and no exit of SendMessage, error
\* or crash leaves the advisory lock behind (acquireConversationTurn).
TurnsExclusive == \A r \in Requests : pc[r] \in InTurn <=> lock = r

\* ADR-001: a booking changes only by the exact action of a proposal that a
\* later explicit consent authorized, and that consent was received after a
\* reply whose card showed this very proposal had been written (Authorize,
\* VerifyAuthorized and restoreFrozenAction together).
MutationIsAuthorized ==
    \A i \in DOMAIN effects :
        LET row == prop[effects[i].prop] IN
        /\ effects[i].act = row.act
        /\ row.by \notin {None, row.from}
        /\ \E k \in DOMAIN replies : /\ replies[k].card = effects[i].prop
                                     /\ replies[k].at < row.heard

\* Free-text consent never faces two actions: at most one proposal of the
\* conversation is pending or confirmed (Propose under the conversation row
\* lock, the one-active unique index).
OneOutstandingProposal ==
    \A p, q \in Proposals : Outstanding(p) /\ Outstanding(q) => p = q

\* One consent changes the calendar once, whatever combination of lost
\* answers, failed MarkConsumed, retries and crashes follows it.
OneMutationPerProposal ==
    \A i, j \in DOMAIN effects : effects[i].prop = effects[j].prop => i = j

\* Between turns of an open conversation, the only proposal a consent could
\* authorize or execute is the one on the card of the newest reply, so an old
\* card cannot silently authorize a superseded action (SendMessage's
\* invalidations and its final card snapshot).
OnlyTheCardCanBeConfirmed ==
    lock = None /\ conv.status = "open" =>
        \A p \in Proposals :
            Live(p) /\ (\E i \in DOMAIN replies : replies[i].at >= prop[p].at) =>
                replies[Len(replies)].card = p

\* A proposal that was rejected or has expired is not executed afterwards:
\* the row is still authorized at the instant the backend commits.
WithdrawnNeverRuns ==
    [][effects' # effects =>
         prop[effects'[Len(effects')].prop].status \in {"confirmed", "consumed"}]_vars

\* When a message that is not consent has been answered, every proposal still
\* live was made in that very turn (InvalidateLatest before the run).
NonConsentSupersedes ==
    [][\A r \in Requests :
         /\ pc[r] = "persisting" /\ pc'[r] = "done"
         /\ turn[r].text # "consent" /\ turn[r].says # "ack" /\ ~turn[r].last
         => \A p \in Proposals : Live(p) => prop[p].from = r]_vars

\* Once a reply has told the customer that a person takes over, no agent run
\* starts in the conversation again (persistHandoff, acknowledgeEscalated).
HandoffIsFinal ==
    [][\A r \in Requests :
         run[r] = "none" /\ run'[r] = "running" =>
            \A i \in DOMAIN replies : replies[i].says \notin {"handoff", "failure"}]_vars

\* The automation never asks for clarification three times in a row: the third
\* one is a hand-off (consecutive_clarification_failures).
ThirdClarificationHandsOff ==
    \A i \in DOMAIN replies :
        i + 2 \in DOMAIN replies =>
            \E k \in i..(i + 2) : replies[k].says # "clarification"

\* A saved message is answered by a durable reply, unless the process dies or
\* even the detached hand-off transaction fails (save-first, persistHandoff).
SavedIsAnswered ==
    \A r \in Requests : pc[r] \in InTurn \ {"locked"} ~> pc[r] \in {"done", "failed"}

-----------------------------------------------------------------------------
(* What comments and documents promise and the code does not keep; the     *)
(* README says how each of them fails.                                      *)

\* What acquireConversationTurn's comment promises: consent authorizes only a
\* summary the customer could already see when the consent was received.
ConsentFollowsVisibleSummary ==
    \A p \in Proposals : prop[p].by # None =>
        \E i \in DOMAIN replies : replies[i].card = p /\ replies[i].shown < prop[p].heard

\* What ADR-011 promises of a failed turn, here one that ran out of time
\* before it booked: live proposals are rejected.
FailedTurnRejectsProposals ==
    [][\A r \in Requests :
         pc[r] = "failing" /\ pc'[r] = "persist" /\ turn[r].late /\ ~turn[r].committed
         => \A p \in Proposals : ~Live(p)']_vars

\* What SendMessage's comment promises: once the run has committed a booking,
\* no reply of that turn denies it.
BookedTurnSaysBooked ==
    [][\A r \in Requests :
         turn[r].committed /\ replies' # replies => replies'[Len(replies')].says = "booked"]_vars

-----------------------------------------------------------------------------
(* The inductive strengthening of the safety properties above.             *)

\* What a turn in progress relies on.  Only the holder of the lock hands the
\* conversation over, so what SaveMessage saw of its owner holds until the run
\* starts; the card of an ordinary reply on its way shows the live proposal;
\* what VerifyAuthorized checked still holds when the backend commits.
LocalInv(r) ==
    /\ pc[r] = "persisting" => turn[r].began < clock
    /\ pc[r] \in {"supersede", "start", "human", "authorize"} => conv.status = "open"
    /\ pc[r] = "ack" \/ turn[r].says = "ack" => conv.status = "escalated"
    /\ pc[r] \in {"persist", "persisting"} /\ ~turn[r].handoff /\ turn[r].says # "ack" =>
          \A p \in Proposals : Live(p) => turn[r].card = p
    /\ pc[r] \in {"executing", "consume"} =>
          /\ turn[r].prop \in Proposals
          /\ turn[r].act \in Acts
          /\ prop[turn[r].prop].status \in {"confirmed", "consumed"}
          /\ turn[r].act = prop[turn[r].prop].act

Shown(p) ==
    \E k \in DOMAIN replies : replies[k].card = p /\ replies[k].at < prop[p].heard

\* A reply written since a live proposal was made shows that proposal, unless
\* the conversation was handed over.
CardInv ==
    \A p \in Proposals, i \in DOMAIN replies :
        Live(p) /\ replies[i].at >= prop[p].at =>
            replies[i].card = p \/ conv.status = "escalated"

\* Consent recorded on a row is a later turn's, about a card already written.
AuthInv ==
    \A p \in Proposals :
        /\ prop[p].status # "none" => prop[p].act \in Acts
        /\ prop[p].status = "none" => prop[p].by = None
        /\ prop[p].status \in {"confirmed", "consumed"} => prop[p].by # None
        /\ prop[p].by # None => prop[p].by # prop[p].from /\ Shown(p)

\* What the tables guarantee between any two statements.
TablesInv ==
    /\ \A i \in DOMAIN replies : replies[i].at < clock
    /\ OneOutstandingProposal
    /\ CardInv
    /\ AuthInv
    /\ MutationIsAuthorized
    /\ OneMutationPerProposal

\* The booking protocol's invariant: everything the mutation path relies on,
\* preserved by every statement, failure, crash and expiry.
ProtocolInv ==
    /\ TypeOK
    /\ TurnsExclusive
    /\ TablesInv
    /\ \A r \in Requests : LocalInv(r)

\* Steps between saving a message and deciding what to answer.
Deciding == {"supersede", "start", "human", "authorize", "agent", "respond",
             "executing", "consume", "finish"}

\* What the answer of a turn in progress relies on: it will be the newest reply;
\* words that announce a person come with a hand-off; the clarification count
\* read with the message is still the stored one; and after Supersede every
\* live proposal is the turn's own.
DialogueLocal(r) ==
    /\ pc[r] = "persisting" => \A i \in DOMAIN replies : replies[i].at <= turn[r].began
    /\ turn[r].outcome = "escalated" => conv.status = "escalated"
    /\ pc[r] \in {"persist", "persisting"} /\ turn[r].says \in {"handoff", "failure"} =>
          turn[r].handoff \/ conv.status = "escalated"
    /\ pc[r] \in Deciding => turn[r].clar = conv.clar
    /\ pc[r] \in {"persist", "persisting"} /\ turn[r].says = "clarification" =>
          ~turn[r].handoff /\ NextClarification(r) = conv.clar + 1 /\ conv.clar < 2
    /\ /\ \/ pc[r] \in Deciding \ {"supersede"}
          \/ pc[r] \in {"persist", "persisting"} /\ turn[r].says # "ack"
       /\ turn[r].text # "consent" /\ ~turn[r].last
       => \A p \in Proposals : Live(p) => prop[p].from = r

Asks(i) == i \in DOMAIN replies /\ replies[i].says = "clarification"

\* What the replies guarantee between any two statements: the last one is the
\* newest, one that announced a person left the conversation handed over, and
\* the stored count covers the clarifications at the end.
RepliesInv ==
    /\ \A i \in DOMAIN replies : replies[i].at <= replies[Len(replies)].at
    /\ \A i \in DOMAIN replies : replies[i].says \in {"handoff", "failure"} => conv.status = "escalated"
    /\ Asks(Len(replies)) => conv.clar >= 1
    /\ Asks(Len(replies)) /\ Asks(Len(replies) - 1) => conv.clar >= 2
    /\ ThirdClarificationHandsOff

\* The dialogue's invariant, inductive together with ProtocolInv.
DialogueInv == RepliesInv /\ \A r \in Requests : DialogueLocal(r)
=============================================================================
