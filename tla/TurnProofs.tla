----------------------------- MODULE TurnProofs -----------------------------
(* Proofs about Turn, for any number of messages, proposals and calls.     *)
EXTENDS Turn, TLAPS

Steps == InTurn \union Ended \union {"idle", "waiting"}

\* The ways a proposal row changes other than by Propose and Authorize: it is
\* rejected, expires, becomes overdue or is consumed; what it binds stays.
Withdraws ==
    \A p \in Proposals :
        /\ prop'[p].act = prop[p].act /\ prop'[p].from = prop[p].from
        /\ prop'[p].by = prop[p].by /\ prop'[p].heard = prop[p].heard
        /\ prop'[p].at = prop[p].at
        /\ prop[p].overdue => prop'[p].overdue
        /\ \/ prop'[p].status = prop[p].status
           \/ /\ prop[p].status \in {"pending", "confirmed"}
              /\ prop'[p].status \in {"rejected", "expired"}
           \/ /\ prop[p].status \in {"confirmed", "consumed"}
              /\ prop'[p].status = "consumed"

-----------------------------------------------------------------------------
(* Frame lemmas: what a step of a given shape preserves.                   *)

\* Every committed mutation names a proposal and an action.
LEMMA EffectTypes ==
    ASSUME TypeOK, NEW i \in DOMAIN effects
    PROVE  effects[i].prop \in Proposals /\ effects[i].act \in Acts
<1>1. effects \in Seq(EffectRows)
    BY Zenon DEF TypeOK
<1>2. effects[i] \in EffectRows
    BY <1>1
<1>. QED
    BY <1>2, Zenon DEF EffectRows

\* Rejecting or expiring rows (InvalidateLatest, Propose's expiry) disturbs no table invariant.
LEMMA WithdrawKeepsTables ==
    ASSUME TablesInv, Withdraws, UNCHANGED <<clock, replies, effects>>,
           conv.status = "escalated" => conv'.status = "escalated",
           TypeOK, TypeOK'
    PROVE  TablesInv'
<1>1. (\A i \in DOMAIN replies : replies[i].at < clock)'
    BY Zenon DEF TablesInv
<1>2. OneOutstandingProposal'
    BY Zenon DEF TablesInv, OneOutstandingProposal, Outstanding, Withdraws
<1>3. \A p \in Proposals : Live(p)' => Live(p)
    BY Zenon DEF Live, Outstanding, Withdraws
<1>4. CardInv'
    BY <1>3, Zenon DEF TablesInv, CardInv, Withdraws
<1>5. \A p \in Proposals : Shown(p) => Shown(p)'
    BY Zenon DEF Shown, Withdraws
<1>6. AuthInv'
    BY <1>5 DEF TablesInv, AuthInv, Withdraws
<1>7. \A i \in DOMAIN effects : effects[i].prop \in Proposals
    BY EffectTypes, Zenon
<1>8. MutationIsAuthorized'
    BY <1>7 DEF TablesInv, MutationIsAuthorized, Withdraws
<1>9. OneMutationPerProposal'
    BY Zenon DEF TablesInv, OneMutationPerProposal
<1>. QED
    BY <1>1, <1>2, <1>4, <1>6, <1>8, <1>9, Zenon DEF TablesInv

\* A step of the turn that holds the lock: it stays in the turn.
LEMMA TurnStep ==
    ASSUME ProtocolInv, TypeOK', NEW r \in Requests, pc[r] \in InTurn,
           NEW step \in InTurn, pc' = [pc EXCEPT ![r] = step], lock' = lock,
           \A s \in Requests \ {r} : turn'[s] = turn[s],
           conv.status = "escalated" => conv'.status = "escalated",
           TablesInv', LocalInv(r)'
    PROVE  ProtocolInv'
<1>1. TurnsExclusive'
    BY Zenon DEF ProtocolInv, TypeOK, TurnsExclusive
<1>2. \A s \in Requests \ {r} : pc'[s] = pc[s] /\ pc[s] \notin InTurn
    BY ZenonT(60) DEF ProtocolInv, TypeOK, TurnsExclusive
<1>3. ASSUME NEW s \in Requests \ {r} PROVE LocalInv(s)'
    BY <1>2, <1>3 DEF ProtocolInv, LocalInv, InTurn
<1>. QED
    BY <1>1, <1>3, Zenon DEF ProtocolInv

\* A step that ends with SendMessage returning.
LEMMA ReturnStep ==
    ASSUME ProtocolInv, TypeOK', NEW r \in Requests,
           NEW step \in Ended \union {"idle"}, Return(r, step),
           conv.status = "escalated" => conv'.status = "escalated",
           pc[r] \in InTurn \/ UNCHANGED <<clock, conv, prop>>,
           TablesInv'
    PROVE  ProtocolInv'
<1>1. TurnsExclusive'
    BY TurnAssumption DEF ProtocolInv, TypeOK, TurnsExclusive, Return, Go, Ended, InTurn
<1>2. ASSUME NEW s \in Requests PROVE LocalInv(s)'
  <2>1. CASE s = r
    <3>1. pc'[s] \notin InTurn /\ turn'[s].says # "ack"
        BY <2>1, ZenonT(60) DEF ProtocolInv, TypeOK, Return, Go, Ended, InTurn, NewTurn
    <3>. QED
        BY <3>1, Zenon DEF LocalInv, InTurn
  <2>2. CASE s # r /\ pc[r] \in InTurn
    <3>1. pc'[s] = pc[s] /\ pc[s] \notin InTurn /\ turn'[s] = turn[s]
        BY <2>2 DEF ProtocolInv, TypeOK, TurnsExclusive, Return, Go
    <3>. QED
        BY <3>1, Zenon DEF ProtocolInv, LocalInv, InTurn
  <2>3. CASE s # r /\ pc[r] \notin InTurn
    <3>1. pc'[s] = pc[s] /\ turn'[s] = turn[s]
        BY <2>3, Zenon DEF ProtocolInv, TypeOK, Return, Go
    <3>. QED
        BY <2>3, <3>1 DEF ProtocolInv, LocalInv, Live, Outstanding
  <2>. QED
    BY <2>1, <2>2, <2>3, Zenon
<1>. QED
    BY <1>1, <1>2, Zenon DEF ProtocolInv

-----------------------------------------------------------------------------
(* What the statements on action_proposals do to the rows.                 *)

\* Leaving action_proposals alone is a special case of withdrawing.
LEMMA SameRows ==
    ASSUME UNCHANGED prop
    PROVE  Withdraws
BY Zenon DEF Withdraws

\* InvalidateLatest only withdraws, and keeps the rows well typed.
LEMMA InvalidateRows ==
    ASSUME TypeOK, prop' = InvalidateLatest
    PROVE  /\ prop' \in [Proposals -> ProposalRows]
           /\ Withdraws
           /\ \A p \in Proposals : ~Live(p)'
<1>1. prop \in [Proposals -> ProposalRows]
    BY Zenon DEF TypeOK
<1>2. prop' \in [Proposals -> ProposalRows]
    BY <1>1 DEF InvalidateLatest, ProposalRows
<1>3. Withdraws
    BY <1>1, Zenon DEF InvalidateLatest, ProposalRows, Withdraws, Live, Outstanding
<1>4. \A p \in Proposals : ~Live(p)'
    BY <1>1, Zenon DEF InvalidateLatest, ProposalRows, Live, Outstanding
<1>. QED
    BY <1>2, <1>3, <1>4, Zenon

\* Propose's expiry of overdue rows only withdraws, and keeps them well typed.
LEMMA ExpireRows ==
    ASSUME TypeOK, prop' = ExpireOverdue
    PROVE  prop' \in [Proposals -> ProposalRows] /\ Withdraws
<1>1. prop \in [Proposals -> ProposalRows]
    BY Zenon DEF TypeOK
<1>2. prop' \in [Proposals -> ProposalRows]
    BY <1>1 DEF ExpireOverdue, ProposalRows
<1>3. Withdraws
    BY <1>1, ZenonT(60) DEF ExpireOverdue, ProposalRows, Withdraws, Outstanding
<1>. QED
    BY <1>2, <1>3, Zenon

\* The locals of one call have their type.
LEMMA TurnTypes ==
    ASSUME TypeOK, NEW r \in Requests
    PROVE  turn[r] \in TurnRecords
BY Zenon DEF TypeOK

\* The locals a call starts from have their type.
LEMMA NewTurnType == NewTurn \in TurnRecords
BY TurnAssumption DEF TurnRecords, NewTurn, Texts, Outcomes, Says

\* Types after a step that only moves one call and touches the proposals.
LEMMA LocalTypes ==
    ASSUME TypeOK, NEW r \in Requests, NEW step \in Steps, Go(r, step),
           NEW t \in TurnRecords, turn' = [turn EXCEPT ![r] = t],
           prop' \in [Proposals -> ProposalRows],
           run' \in [Requests -> {"none", "running", "finished"}],
           UNCHANGED <<clock, conv, lock, replies, effects>>
    PROVE  TypeOK'
<1>1. pc' \in [Requests -> Steps]
    BY Zenon DEF TypeOK, Go, Steps
<1>2. turn' \in [Requests -> TurnRecords]
    BY Zenon DEF TypeOK
<1>. QED
    BY <1>1, <1>2, Zenon DEF TypeOK, Steps

\* A step of the lock's holder that only moves it on and withdraws proposals.
LEMMA LocalStep ==
    ASSUME ProtocolInv, NEW r \in Requests, pc[r] \in InTurn,
           NEW step \in InTurn, Go(r, step),
           NEW t \in TurnRecords, turn' = [turn EXCEPT ![r] = t],
           prop' \in [Proposals -> ProposalRows], Withdraws,
           run' \in [Requests -> {"none", "running", "finished"}],
           UNCHANGED <<clock, conv, lock, replies, effects>>,
           LocalInv(r)'
    PROVE  ProtocolInv'
<1>1. TypeOK'
    BY LocalTypes, Zenon DEF ProtocolInv, Steps
<1>2. TablesInv'
    BY <1>1, WithdrawKeepsTables, Zenon DEF ProtocolInv
<1>3. \A s \in Requests \ {r} : turn'[s] = turn[s]
    BY Zenon DEF ProtocolInv, TypeOK
<1>. QED
    BY <1>1, <1>2, <1>3, TurnStep, Zenon DEF Go

-----------------------------------------------------------------------------
(* One lemma per action.                                                   *)

\* A message that is not consent withdraws the live proposal.
LEMMA SupersedeStep ==
    ASSUME ProtocolInv, NEW r \in Requests, Supersede(r)
    PROVE  ProtocolInv'
<1>1. pc[r] = "supersede" /\ Go(r, "start") /\ prop' = InvalidateLatest
    BY Zenon DEF Supersede, Superseded
<1>2. pc'[r] = "start" /\ turn' = [turn EXCEPT ![r] = turn[r]]
    BY <1>1, Zenon DEF ProtocolInv, TypeOK, Go, Supersede
<1>3. LocalInv(r)'
    BY <1>1, <1>2, Zenon DEF ProtocolInv, LocalInv, Supersede
<1>. QED
    BY <1>1, <1>2, <1>3, LocalStep, TurnTypes, InvalidateRows, Zenon
       DEF ProtocolInv, TypeOK, Supersede, InTurn

\* Saving the inbound message and reading the conversation's owner.
LEMMA SaveStep ==
    ASSUME ProtocolInv, NEW r \in Requests, NEW text \in Texts, SaveMessage(r, text)
    PROVE  ProtocolInv'
<1> DEFINE t == [turn[r] EXCEPT !.text = text, !.clar = conv.clar]
<1>1. conv.clar \in 0..3 /\ conv.status \in {"open", "escalated"}
    BY Zenon DEF ProtocolInv, TypeOK
<1>2. t \in TurnRecords /\ t.says = turn[r].says
    BY ZenonT(60), <1>1, TurnTypes DEF ProtocolInv, TurnRecords
<1>3. turn' = [turn EXCEPT ![r] = t] /\ turn'[r] = t
    BY Zenon DEF ProtocolInv, TypeOK, SaveMessage
<1>4. pc'[r] = AfterSave(text) /\ AfterSave(text) \in InTurn
    BY Zenon DEF ProtocolInv, TypeOK, Go, SaveMessage, AfterSave, InTurn
<1>5. LocalInv(r)'
    BY <1>1, <1>2, <1>3, <1>4, Zenon DEF ProtocolInv, LocalInv, SaveMessage, AfterSave
<1>. QED
    BY <1>2, <1>3, <1>4, <1>5, LocalStep, SameRows, Zenon
       DEF ProtocolInv, TypeOK, SaveMessage, InTurn

\* agenttrace's StartRun.
LEMMA StartRunStep ==
    ASSUME ProtocolInv, NEW r \in Requests, StartRun(r)
    PROVE  ProtocolInv'
<1>1. PICK step \in {"human", "authorize", "agent"} : Go(r, step)
    BY TurnTypes, Zenon DEF ProtocolInv, StartRun, TurnRecords, Texts
<1>2. pc'[r] = step /\ turn' = [turn EXCEPT ![r] = turn[r]]
    BY <1>1, Zenon DEF ProtocolInv, TypeOK, Go, StartRun
<1>3. LocalInv(r)'
    BY <1>2, Zenon DEF ProtocolInv, LocalInv, StartRun
<1>4. run' \in [Requests -> {"none", "running", "finished"}]
    BY Zenon DEF ProtocolInv, TypeOK, StartRun
<1>. QED
    BY <1>1, <1>2, <1>3, <1>4, LocalStep, TurnTypes, SameRows, Zenon
       DEF ProtocolInv, TypeOK, StartRun, InTurn

\* A customer's request for a person.
LEMMA HumanStep ==
    ASSUME ProtocolInv, NEW r \in Requests, EscalateCustomerRequest(r)
    PROVE  ProtocolInv'
<1> DEFINE t == [turn[r] EXCEPT !.says = "handoff", !.handoff = TRUE]
<1>1. t \in TurnRecords /\ t.says = "handoff" /\ t.handoff
    BY ZenonT(60), TurnTypes DEF ProtocolInv, TurnRecords, Says
<1>2. turn' = [turn EXCEPT ![r] = t] /\ turn'[r] = t
    BY Zenon DEF ProtocolInv, TypeOK, EscalateCustomerRequest
<1>3. pc'[r] = "persist"
    BY Zenon DEF ProtocolInv, TypeOK, Go, EscalateCustomerRequest
<1>4. LocalInv(r)'
    BY <1>1, <1>2, <1>3, Zenon DEF LocalInv
<1>. QED
    BY <1>1, <1>2, <1>4, LocalStep, InvalidateRows, Zenon
       DEF ProtocolInv, TypeOK, EscalateCustomerRequest, InTurn

\* A refused tool call.
LEMMA RefusedStep ==
    ASSUME ProtocolInv, NEW r \in Requests, ToolRefused(r)
    PROVE  ProtocolInv'
<1> DEFINE t == [turn[r] EXCEPT !.outcome = "refused"]
<1>1. t \in TurnRecords /\ t.says = turn[r].says
    BY TurnTypes DEF ProtocolInv, TurnRecords, Outcomes
<1>2. turn' = [turn EXCEPT ![r] = t] /\ turn'[r] = t
    BY Zenon DEF ProtocolInv, TypeOK, ToolRefused
<1>3. pc'[r] = "finish"
    BY Zenon DEF ProtocolInv, TypeOK, Go, ToolRefused
<1>4. LocalInv(r)'
    BY <1>1, <1>2, <1>3 DEF ProtocolInv, LocalInv, ToolRefused
<1>. QED
    BY <1>1, <1>2, <1>4, LocalStep, SameRows, Zenon
       DEF ProtocolInv, TypeOK, ToolRefused, InTurn

\* The model's structured reply ends the run.
LEMMA RespondStep ==
    ASSUME ProtocolInv, NEW r \in Requests, RespondToCustomer(r)
    PROVE  ProtocolInv'
<1>1. PICK d \in {"complete", "clarification"} : turn' = [turn EXCEPT ![r].outcome = d]
    BY Zenon DEF RespondToCustomer
<1> DEFINE t == [turn[r] EXCEPT !.outcome = d]
<1>2. t \in TurnRecords /\ t.says = turn[r].says
    BY TurnTypes DEF ProtocolInv, TurnRecords, Outcomes
<1>3. turn' = [turn EXCEPT ![r] = t] /\ turn'[r] = t
    BY <1>1, Zenon DEF ProtocolInv, TypeOK
<1>4. pc'[r] = "finish"
    BY Zenon DEF ProtocolInv, TypeOK, Go, RespondToCustomer
<1>5. LocalInv(r)'
    BY <1>2, <1>3, <1>4, Zenon DEF ProtocolInv, LocalInv, RespondToCustomer
<1>. QED
    BY <1>2, <1>3, <1>5, LocalStep, SameRows, Zenon
       DEF ProtocolInv, TypeOK, RespondToCustomer, InTurn

\* The run ends in an error.
LEMMA RunFailsStep ==
    ASSUME ProtocolInv, NEW r \in Requests, RunFails(r)
    PROVE  ProtocolInv'
<1>1. PICK w \in {"booked", "failure"} : turn' = [turn EXCEPT ![r].says = w, ![r].calls = 0]
    BY Zenon DEF RunFails
<1> DEFINE t == [turn[r] EXCEPT !.says = w, !.calls = 0]
<1>2. t \in TurnRecords /\ t.says # "ack"
  <2>1. 0 \in 0..MaxCalls /\ w \in Says
    BY TurnAssumption DEF Says
  <2>. QED
    BY ZenonT(60), <2>1, TurnTypes DEF ProtocolInv, TurnRecords
<1>3. turn' = [turn EXCEPT ![r] = t] /\ turn'[r] = t
    BY <1>1, Zenon DEF ProtocolInv, TypeOK
<1>4. pc'[r] = "failing"
    BY Zenon DEF ProtocolInv, TypeOK, Go, RunFails
<1>5. LocalInv(r)'
    BY <1>2, <1>3, <1>4, Zenon DEF LocalInv
<1>. QED
    BY <1>2, <1>3, <1>5, LocalStep, SameRows, Zenon
       DEF ProtocolInv, TypeOK, RunFails, InTurn

\* The booking backend refuses or its answer is lost.
LEMMA BackendFailsStep ==
    ASSUME ProtocolInv, NEW r \in Requests, BackendFails(r)
    PROVE  ProtocolInv'
<1>1. PICK step \in {"agent", "finish"} : EndCall(r, step)
    BY Zenon DEF BackendFails
<1> DEFINE t == [turn[r] EXCEPT !.prop = None, !.act = None,
                     !.outcome = IF step = "finish" THEN "refused" ELSE turn[r].outcome]
<1>2. t \in TurnRecords /\ t.says = turn[r].says
    BY ZenonT(60), TurnTypes DEF ProtocolInv, TurnRecords, Outcomes
<1>3. turn' = [turn EXCEPT ![r] = t] /\ turn'[r] = t
    BY <1>1, Zenon DEF ProtocolInv, TypeOK, EndCall
<1>4. Go(r, step) /\ pc'[r] = step
    BY <1>1, Zenon DEF ProtocolInv, TypeOK, Go, EndCall
<1>5. LocalInv(r)'
    BY <1>2, <1>3, <1>4, Zenon DEF ProtocolInv, LocalInv, BackendFails
<1>. QED
    BY <1>2, <1>3, <1>4, <1>5, LocalStep, SameRows, Zenon
       DEF ProtocolInv, TypeOK, BackendFails, InTurn

\* The turn's deadline passes.
LEMMA DeadlineStep ==
    ASSUME ProtocolInv, NEW r \in Requests, DeadlinePasses(r)
    PROVE  ProtocolInv'
<1> DEFINE t == [turn[r] EXCEPT !.late = TRUE]
<1>1. t \in TurnRecords
    BY ZenonT(60), TurnTypes DEF ProtocolInv, TurnRecords
<1>2. /\ t.says = turn[r].says /\ t.prop = turn[r].prop /\ t.act = turn[r].act
      /\ t.began = turn[r].began /\ t.handoff = turn[r].handoff /\ t.card = turn[r].card
    BY TurnTypes, Zenon DEF ProtocolInv, TurnRecords
<1>3. turn' = [turn EXCEPT ![r] = t] /\ turn'[r] = t
    BY Zenon DEF ProtocolInv, TypeOK, DeadlinePasses
<1>4. Go(r, pc[r]) /\ pc'[r] = pc[r]
    BY Zenon DEF ProtocolInv, TypeOK, Go, DeadlinePasses
<1>5. LocalInv(r)'
    BY <1>2, <1>3, <1>4 DEF ProtocolInv, LocalInv, DeadlinePasses, Live, Outstanding
<1>. QED
    BY <1>1, <1>3, <1>4, <1>5, LocalStep, SameRows, Zenon
       DEF ProtocolInv, TypeOK, DeadlinePasses

\* A mutating call with a confirmation id passes VerifyAuthorized.
LEMMA ExecuteStep ==
    ASSUME ProtocolInv, NEW r \in Requests, NEW p \in Proposals, NEW a \in Acts,
           Execute(r, p, a)
    PROVE  ProtocolInv'
<1> DEFINE b == RestoreFrozenAction(p, a)
           t == [turn[r] EXCEPT !.calls = turn[r].calls + 1, !.prop = p, !.act = b]
<1>1. /\ prop[p].status \in {"confirmed", "consumed"}
      /\ b = prop[p].act /\ b \in Acts
    BY Zenon DEF ProtocolInv, TablesInv, AuthInv, Execute, VerifyAuthorized
<1>2. turn[r].calls + 1 \in 0..MaxCalls
    BY TurnAssumption, TurnTypes DEF ProtocolInv, Execute, MayCall, TurnRecords
<1> HIDE DEF b
<1>3. t \in TurnRecords /\ t.says = turn[r].says /\ t.prop = p /\ t.act = b
    BY ZenonT(60), <1>1, <1>2, TurnTypes DEF ProtocolInv, TurnRecords
<1>4. turn' = [turn EXCEPT ![r] = t] /\ turn'[r] = t
    BY Zenon DEF ProtocolInv, TypeOK, Execute, b
<1>5. pc'[r] = "executing"
    BY Zenon DEF ProtocolInv, TypeOK, Go, Execute
<1>6. LocalInv(r)'
    BY ZenonT(60), <1>1, <1>3, <1>4, <1>5 DEF ProtocolInv, LocalInv, Execute
<1>. QED
    BY <1>3, <1>4, <1>6, LocalStep, SameRows, Zenon
       DEF ProtocolInv, TypeOK, Execute, MayCall, InTurn

\* MarkConsumed succeeds or fails.
LEMMA ConsumeStep ==
    ASSUME ProtocolInv, NEW r \in Requests, MarkConsumed(r)
    PROVE  ProtocolInv'
<1>1. PICK c \in BOOLEAN :
        turn' = [turn EXCEPT ![r].committed = c, ![r].prop = None, ![r].act = None]
    BY TurnTypes, Zenon DEF ProtocolInv, TypeOK, MarkConsumed, TurnRecords
<1> DEFINE t == [turn[r] EXCEPT !.committed = c, !.prop = None, !.act = None]
<1>2. t \in TurnRecords /\ t.says = turn[r].says
    BY ZenonT(60), TurnTypes DEF ProtocolInv, TurnRecords
<1>3. turn' = [turn EXCEPT ![r] = t] /\ turn'[r] = t
    BY <1>1, Zenon DEF ProtocolInv, TypeOK
<1>4. pc'[r] = "agent"
    BY Zenon DEF ProtocolInv, TypeOK, Go, MarkConsumed
<1>5. prop' \in [Proposals -> ProposalRows] /\ Withdraws
  <2>1. CASE UNCHANGED prop
    BY <2>1, SameRows, Zenon DEF ProtocolInv, TypeOK
  <2>2. CASE /\ prop[turn[r].prop].status \in {"confirmed", "consumed"}
             /\ prop' = [prop EXCEPT ![turn[r].prop].status = "consumed"]
    <3>1. prop \in [Proposals -> ProposalRows]
        BY Zenon DEF ProtocolInv, TypeOK
    <3>2. prop' \in [Proposals -> ProposalRows]
        BY ZenonT(60), <2>2, <3>1 DEF ProposalRows
    <3>3. Withdraws
        BY <2>2, <3>1 DEF ProposalRows, Withdraws
    <3>. QED
        BY <3>2, <3>3, Zenon
  <2>. QED
    BY <2>1, <2>2, Zenon DEF MarkConsumed
<1>6. LocalInv(r)'
    BY ZenonT(60), <1>2, <1>3, <1>4 DEF ProtocolInv, LocalInv, MarkConsumed
<1>. QED
    BY <1>2, <1>3, <1>5, <1>6, LocalStep, Zenon
       DEF ProtocolInv, TypeOK, MarkConsumed, InTurn

\* SendMessage decides on withdrawal, card and clarification count.
LEMMA FinishStep ==
    ASSUME ProtocolInv, NEW r \in Requests, FinishTurn(r)
    PROVE  ProtocolInv'
<1> DEFINE handoff == turn[r].outcome = "refused" \/ NextClarification(r) >= 3
           live == IF ~turn[r].committed /\ turn[r].outcome # "complete" THEN {} ELSE Latest
           card == IF live = {} \/ handoff THEN None ELSE CHOOSE p \in live : TRUE
           says == IF turn[r].committed THEN "booked"
                   ELSE IF handoff \/ turn[r].outcome = "escalated" THEN "handoff"
                   ELSE IF turn[r].outcome = "clarification" THEN "clarification"
                   ELSE "reply"
           t == [turn[r] EXCEPT !.calls = 0, !.late = FALSE, !.card = card,
                                !.handoff = handoff, !.says = says]
<1>1. live \subseteq Proposals /\ card \in Proposals \union {None}
    BY Zenon DEF Latest
<1>2. handoff \in BOOLEAN /\ says \in Says /\ says # "ack" /\ 0 \in 0..MaxCalls
    BY TurnAssumption DEF Says
<1>3. turn' = [turn EXCEPT ![r] = t] /\ turn'[r] = t
    BY ZenonT(60) DEF ProtocolInv, TypeOK, FinishTurn
<1>4. prop' \in [Proposals -> ProposalRows] /\ Withdraws
    BY SameRows, InvalidateRows, Zenon DEF ProtocolInv, TypeOK, FinishTurn, Withdrawn
<1>5. ASSUME ~handoff, NEW p \in Proposals, Live(p)'  PROVE card = p
  <2>1. Live(p)
    BY <1>4, <1>5, Zenon DEF Withdraws, Live, Outstanding
  <2>2. ~(~turn[r].committed /\ turn[r].outcome # "complete")
    BY <1>5, InvalidateRows, Zenon DEF ProtocolInv, FinishTurn, Withdrawn
  <2>3. \A q \in Proposals : Live(q) => q = p
    BY <2>1, Zenon DEF ProtocolInv, TablesInv, OneOutstandingProposal, Live
  <2>4. prop[p].at <= prop[p].at
    BY DEF ProtocolInv, TypeOK, ProposalRows
  <2>5. Latest = {p}
    BY <2>1, <2>3, <2>4, Zenon DEF Latest
  <2>. QED
    BY <1>5, <2>2, <2>5, Zenon
<1> HIDE DEF handoff, live, card, says
<1>6. t \in TurnRecords /\ t.says = says /\ t.handoff = handoff /\ t.card = card
    BY ZenonT(60), <1>1, <1>2, TurnTypes DEF ProtocolInv, TurnRecords
<1>7. pc'[r] = "persist"
    BY Zenon DEF ProtocolInv, TypeOK, Go, FinishTurn
<1>8. LocalInv(r)'
    BY <1>2, <1>3, <1>5, <1>6, <1>7, Zenon DEF LocalInv
<1>. QED
    BY <1>3, <1>4, <1>6, <1>8, LocalStep, Zenon
       DEF ProtocolInv, TypeOK, FinishTurn, InTurn

\* One of the statements that finish a turn fails.
LEMMA FinishFailsStep ==
    ASSUME ProtocolInv, NEW r \in Requests, FinishFails(r)
    PROVE  ProtocolInv'
<1> DEFINE t == [turn[r] EXCEPT !.says = "failure", !.calls = 0]
<1>1. t \in TurnRecords /\ t.says # "ack"
  <2>1. 0 \in 0..MaxCalls /\ "failure" \in Says
    BY TurnAssumption DEF Says
  <2>. QED
    BY <2>1, TurnTypes, Zenon DEF ProtocolInv, TurnRecords
<1>2. turn' = [turn EXCEPT ![r] = t] /\ turn'[r] = t
    BY Zenon DEF ProtocolInv, TypeOK, FinishFails
<1>3. prop' \in [Proposals -> ProposalRows] /\ Withdraws
    BY SameRows, InvalidateRows, Zenon DEF ProtocolInv, TypeOK, FinishFails, Withdrawn
<1>4. pc'[r] = "failing"
    BY Zenon DEF ProtocolInv, TypeOK, Go, FinishFails
<1>5. LocalInv(r)'
    BY <1>1, <1>2, <1>4, Zenon DEF LocalInv
<1>. QED
    BY <1>1, <1>2, <1>3, <1>5, LocalStep, Zenon
       DEF ProtocolInv, TypeOK, FinishFails, InTurn

\* handleSavedTurnFailure, whether or not its cleanup succeeds.
LEMMA HandoffStep ==
    ASSUME ProtocolInv, NEW r \in Requests, HandleSavedTurnFailure(r)
    PROVE  ProtocolInv'
<1>1. PICK w \in {"booked", "failure"} :
        turn' = [turn EXCEPT ![r] = [NewTurn EXCEPT !.says = w, !.committed = turn[r].committed,
                                                    !.handoff = TRUE, !.last = TRUE]]
    BY Zenon DEF HandleSavedTurnFailure
<1> DEFINE t == [NewTurn EXCEPT !.says = w, !.committed = turn[r].committed,
                                !.handoff = TRUE, !.last = TRUE]
<1>2. t \in TurnRecords /\ t.says # "ack" /\ t.handoff
  <2>1. w \in Says /\ turn[r].committed \in BOOLEAN
    BY TurnTypes, Zenon DEF ProtocolInv, TurnRecords, Says
  <2>. QED
    BY <2>1, NewTurnType, Zenon DEF TurnRecords
<1>3. turn' = [turn EXCEPT ![r] = t] /\ turn'[r] = t
    BY <1>1, Zenon DEF ProtocolInv, TypeOK
<1>4. prop' \in [Proposals -> ProposalRows] /\ Withdraws
    BY SameRows, InvalidateRows, Zenon DEF ProtocolInv, TypeOK, HandleSavedTurnFailure
<1>5. pc'[r] = "persist"
    BY Zenon DEF ProtocolInv, TypeOK, Go, HandleSavedTurnFailure
<1>6. LocalInv(r)'
    BY <1>2, <1>3, <1>5, Zenon DEF LocalInv
<1>. QED
    BY <1>2, <1>3, <1>4, <1>6, LocalStep, Zenon
       DEF ProtocolInv, TypeOK, HandleSavedTurnFailure, InTurn

\* A call stamps its message's arrival.
LEMMA ReceiveStep ==
    ASSUME ProtocolInv, NEW r \in Requests, Receive(r)
    PROVE  ProtocolInv'
<1> DEFINE t == [turn[r] EXCEPT !.heard = clock]
<1>1. t \in TurnRecords /\ t.says = turn[r].says
    BY ZenonT(60), TurnTypes DEF ProtocolInv, TypeOK, TurnRecords
<1>2. turn' = [turn EXCEPT ![r] = t] /\ turn'[r] = t /\ pc'[r] = "waiting"
    BY Zenon DEF ProtocolInv, TypeOK, Receive, Go
<1>3. TypeOK'
  <2>1. /\ Go(r, "waiting") /\ "waiting" \in Steps
        /\ prop' \in [Proposals -> ProposalRows]
        /\ run' \in [Requests -> {"none", "running", "finished"}]
        /\ UNCHANGED <<clock, conv, lock, replies, effects>>
    BY Zenon DEF ProtocolInv, TypeOK, Receive, Steps
  <2>. QED
    BY <1>1, <1>2, <2>1, LocalTypes, Zenon DEF ProtocolInv
<1>4. TablesInv'
    BY <1>3, WithdrawKeepsTables, SameRows, Zenon DEF ProtocolInv, Receive
<1>5. TurnsExclusive'
    BY <1>2, Zenon DEF ProtocolInv, TypeOK, TurnsExclusive, Receive, Go, InTurn
<1>6. ASSUME NEW s \in Requests PROVE LocalInv(s)'
  <2>1. CASE s = r
    BY <1>1, <1>2, <2>1, Zenon DEF ProtocolInv, LocalInv, Receive
  <2>2. CASE s # r
    <3>1. turn'[s] = turn[s] /\ pc'[s] = pc[s]
        BY <1>2, <2>2, Zenon DEF ProtocolInv, TypeOK, Receive, Go
    <3>. QED
        BY <3>1 DEF ProtocolInv, LocalInv, Receive, Live, Outstanding
  <2>. QED
    BY <2>1, <2>2, Zenon
<1>. QED
    BY <1>3, <1>4, <1>5, <1>6, Zenon DEF ProtocolInv

\* A call gets the conversation's lock.
LEMMA AcquireStep ==
    ASSUME ProtocolInv, NEW r \in Requests, AcquireConversationTurn(r)
    PROVE  ProtocolInv'
<1>1. pc'[r] = "locked" /\ \A s \in Requests \ {r} : pc'[s] = pc[s]
    BY Zenon DEF ProtocolInv, TypeOK, AcquireConversationTurn, Go
<1>2. pc' \in [Requests -> Steps]
    BY Zenon DEF ProtocolInv, TypeOK, AcquireConversationTurn, Go, Steps, InTurn
<1>3. TypeOK'
    BY <1>2, Zenon DEF ProtocolInv, TypeOK, AcquireConversationTurn, Steps
<1>4. TablesInv'
    BY <1>3, WithdrawKeepsTables, SameRows, Zenon DEF ProtocolInv, AcquireConversationTurn
<1>5. TurnsExclusive'
    BY <1>1, TurnAssumption, Zenon DEF ProtocolInv, TurnsExclusive, AcquireConversationTurn, InTurn
<1>6. ASSUME NEW s \in Requests PROVE LocalInv(s)'
    BY <1>1, Zenon DEF ProtocolInv, LocalInv, AcquireConversationTurn, Live, Outstanding
<1>. QED
    BY <1>3, <1>4, <1>5, <1>6, Zenon DEF ProtocolInv

\* A call that returns leaves everything well typed.
LEMMA ReturnTypes ==
    ASSUME TypeOK, NEW r \in Requests, NEW step \in Ended \union {"idle"}, Return(r, step)
    PROVE  /\ pc' \in [Requests -> Steps]
           /\ turn' \in [Requests -> TurnRecords]
           /\ lock' \in Requests \union {None}
BY NewTurnType, Zenon DEF TypeOK, Return, Go, Steps

\* GiveUpWaiting, SaveFails, Crash and a second failure to store a reply.
LEMMA PlainReturn ==
    ASSUME ProtocolInv, NEW r \in Requests,
           NEW step \in Ended \union {"idle"}, Return(r, step),
           UNCHANGED <<clock, conv, run, prop, replies, effects>>
    PROVE  ProtocolInv'
<1>1. TypeOK'
    BY ReturnTypes, Zenon DEF ProtocolInv, TypeOK, Steps
<1>2. TablesInv'
    BY <1>1, WithdrawKeepsTables, SameRows, Zenon DEF ProtocolInv
<1>. QED
    BY <1>1, <1>2, ReturnStep, Zenon

\* A proposal's expires_at passes.
LEMMA ExpiryStep ==
    ASSUME ProtocolInv, NEW p \in Proposals, ProposalExpires(p)
    PROVE  ProtocolInv'
<1>1. prop \in [Proposals -> ProposalRows] /\ prop' = [prop EXCEPT ![p].overdue = TRUE]
    BY Zenon DEF ProtocolInv, TypeOK, ProposalExpires
<1>2. prop' \in [Proposals -> ProposalRows]
    BY ZenonT(60), <1>1 DEF ProposalRows
<1>3. Withdraws
    BY <1>1, Zenon DEF ProposalRows, Withdraws
<1>4. TypeOK'
    BY <1>2, Zenon DEF ProtocolInv, TypeOK, ProposalExpires
<1>5. TablesInv'
    BY <1>3, <1>4, WithdrawKeepsTables, Zenon DEF ProtocolInv, ProposalExpires
<1>6. \A q \in Proposals : /\ Live(q)' => Live(q)
                           /\ prop'[q].status = prop[q].status /\ prop'[q].act = prop[q].act
    BY <1>1, Zenon DEF ProposalRows, Live, Outstanding
<1>7. ASSUME NEW r \in Requests PROVE LocalInv(r)'
    BY <1>6 DEF ProtocolInv, LocalInv, ProposalExpires
<1>. QED
    BY <1>4, <1>5, <1>7, Zenon DEF ProtocolInv, TurnsExclusive, ProposalExpires

\* escalate_to_human: the conversation changes hands, the turn goes on.
LEMMA EscalateStep ==
    ASSUME ProtocolInv, NEW r \in Requests, EscalateToHuman(r)
    PROVE  ProtocolInv'
<1>1. PICK step \in {"finish", "agent"}, o \in Outcomes :
        /\ Go(r, step)
        /\ turn' = [turn EXCEPT ![r].outcome = o, ![r].calls = turn[r].calls + 1]
    <2>1. turn[r].outcome \in Outcomes
        BY TurnTypes, Zenon DEF ProtocolInv, TurnRecords
    <2>2. [turn EXCEPT ![r].outcome = turn[r].outcome] = turn
        BY TurnTypes, Zenon DEF ProtocolInv, TypeOK, TurnRecords
    <2>. QED
        BY <2>1, <2>2, Zenon DEF ProtocolInv, TypeOK, EscalateToHuman, Outcomes
<1> DEFINE t == [turn[r] EXCEPT !.outcome = o, !.calls = turn[r].calls + 1]
<1>2. turn[r].calls + 1 \in 0..MaxCalls
    BY TurnAssumption, TurnTypes DEF ProtocolInv, EscalateToHuman, MayCall, TurnRecords
<1>3. t \in TurnRecords /\ t.says = turn[r].says
    BY ZenonT(60), <1>2, TurnTypes DEF ProtocolInv, TurnRecords
<1>4. turn' = [turn EXCEPT ![r] = t] /\ turn'[r] = t /\ pc'[r] = step
    BY <1>1, Zenon DEF ProtocolInv, TypeOK, Go
<1>5. conv'.status = "escalated" /\ conv' \in [status : {"open", "escalated"}, clar : 0..3]
    BY Zenon DEF ProtocolInv, TypeOK, EscalateToHuman
<1>6. pc' \in [Requests -> Steps] /\ turn' \in [Requests -> TurnRecords]
    BY <1>1, <1>3, <1>4 DEF ProtocolInv, TypeOK, Go, Steps, InTurn
<1>7. TypeOK'
    BY <1>5, <1>6, Zenon DEF ProtocolInv, TypeOK, EscalateToHuman, Steps
<1>8. TablesInv'
    BY <1>5, <1>7, WithdrawKeepsTables, SameRows, Zenon DEF ProtocolInv, EscalateToHuman
<1>9. LocalInv(r)'
    BY <1>4, <1>5, Zenon DEF LocalInv
<1>10. \A s \in Requests \ {r} : turn'[s] = turn[s]
    BY <1>4, Zenon DEF ProtocolInv, TypeOK
<1>. QED
    BY <1>1, <1>5, <1>7, <1>8, <1>9, <1>10, TurnStep, Zenon DEF Go, EscalateToHuman, MayCall, InTurn

-----------------------------------------------------------------------------
(* Consent.  The reply that Presented finds was written after the proposal, *)
(* and the proposal is live, so by CardInv it is the proposal's own card.   *)

Consents(r) ==
    \A p \in Proposals :
        \/ prop'[p] = prop[p]
        \/ /\ p \in Latest /\ CanAuthorize(p, r)
           /\ prop'[p] = [prop[p] EXCEPT !.status = "confirmed", !.by = r,
                                         !.heard = turn[r].heard]

\* Authorize keeps the table invariants: the card was written before the consent was heard.
LEMMA ConsentTables ==
    ASSUME ProtocolInv, NEW r \in Requests, conv.status = "open", Consents(r),
           prop' \in [Proposals -> ProposalRows],
           UNCHANGED <<clock, conv, replies, effects>>
    PROVE  TablesInv'
<1> DEFINE Ok(p) == p \in Latest /\ CanAuthorize(p, r)
<1>1. prop \in [Proposals -> ProposalRows] /\ r # None
    BY TurnAssumption, Zenon DEF ProtocolInv, TypeOK
<1>2. \A p \in Proposals :
        /\ prop'[p].act = prop[p].act /\ prop'[p].from = prop[p].from
        /\ prop'[p].at = prop[p].at /\ prop'[p].overdue = prop[p].overdue
        /\ \/ /\ prop'[p].status = prop[p].status
              /\ prop'[p].by = prop[p].by /\ prop'[p].heard = prop[p].heard
           \/ /\ Ok(p) /\ prop[p].status = "pending" /\ prop'[p].status = "confirmed"
              /\ prop'[p].by = r /\ prop'[p].heard = turn[r].heard /\ prop[p].from # r
  <2> TAKE p \in Proposals
  <2>1. prop[p] \in ProposalRows
    BY <1>1, Zenon
  <2>2. CASE prop'[p] = prop[p]
    BY <2>2, Zenon
  <2>3. CASE /\ Ok(p)
             /\ prop'[p] = [prop[p] EXCEPT !.status = "confirmed", !.by = r,
                                           !.heard = turn[r].heard]
    <3>1. prop[p].status = "pending" /\ prop[p].from # r
        BY <2>3, Zenon DEF CanAuthorize
    <3> HIDE DEF Ok
    <3>. QED
        BY <2>1, <2>3, <3>1, Zenon DEF ProposalRows
  <2>. QED
    BY <2>2, <2>3, Zenon DEF Consents
<1>3. \A p \in Proposals : /\ Live(p)' <=> Live(p)
                           /\ Outstanding(p)' <=> Outstanding(p)
    BY <1>2, Zenon DEF Live, Outstanding
<1>4. OneOutstandingProposal'
    BY <1>3, Zenon DEF ProtocolInv, TablesInv, OneOutstandingProposal
<1>5. CardInv'
    BY <1>2, <1>3, Zenon DEF ProtocolInv, TablesInv, CardInv
<1>6. ASSUME NEW p \in Proposals, Ok(p)
      PROVE  \E k \in DOMAIN replies : replies[k].card = p /\ replies[k].at < turn[r].heard
  <2>1. Live(p)
    BY <1>6, Zenon DEF Latest
  <2>. QED
    BY <1>6, <2>1, Zenon DEF ProtocolInv, TablesInv, CardInv, CanAuthorize, Presented
<1> HIDE DEF Ok
<1>7. AuthInv'
  <2>1. ASSUME NEW p \in Proposals, prop'[p].by # None PROVE prop'[p].by # prop'[p].from /\ Shown(p)'
    BY <1>1, <1>2, <1>6, <2>1 DEF ProtocolInv, TablesInv, AuthInv, Shown
  <2>. QED
    BY SMTT(60), <1>1, <1>2, <2>1 DEF ProtocolInv, TablesInv, AuthInv
<1>8. MutationIsAuthorized'
  <2> SUFFICES ASSUME NEW i \in DOMAIN effects
               PROVE  LET row == prop'[effects[i].prop] IN
                      /\ effects[i].act = row.act
                      /\ row.by \notin {None, row.from}
                      /\ \E k \in DOMAIN replies : /\ replies[k].card = effects[i].prop
                                                   /\ replies[k].at < row.heard
    BY Zenon DEF MutationIsAuthorized
  <2>1. effects[i].prop \in Proposals
    BY EffectTypes, Zenon DEF ProtocolInv
  <2>2. effects[i].act = prop[effects[i].prop].act /\ prop[effects[i].prop].by # None
    BY Zenon DEF ProtocolInv, TablesInv, MutationIsAuthorized
  <2>3. prop'[effects[i].prop].by # None /\ prop'[effects[i].prop].act = effects[i].act
    BY <1>1, <1>2, <2>1, <2>2, Zenon
  <2>. QED
    BY <1>7, <2>1, <2>3, Zenon DEF AuthInv, Shown
<1>. QED
    BY <1>4, <1>5, <1>7, <1>8, Zenon DEF ProtocolInv, TablesInv, OneMutationPerProposal

\* A consent is matched with the live proposal.
LEMMA AuthorizeStep ==
    ASSUME ProtocolInv, NEW r \in Requests, Authorize(r)
    PROVE  ProtocolInv'
<1>1. conv.status = "open" /\ turn[r].says # "ack" /\ turn[r].heard \in Nat
    BY ZenonT(60), TurnTypes DEF ProtocolInv, LocalInv, Authorize, TurnRecords
<1>2. Consents(r) /\ prop' \in [Proposals -> ProposalRows]
    BY ZenonT(60), <1>1 DEF ProtocolInv, TypeOK, Authorize, Consents, ProposalRows
<1>3. TablesInv'
    BY <1>1, <1>2, ConsentTables, Zenon DEF Authorize
<1>4. Go(r, "agent") /\ pc'[r] = "agent" /\ turn' = [turn EXCEPT ![r] = turn[r]]
    BY Zenon DEF ProtocolInv, TypeOK, Authorize, Go
<1>5. TypeOK'
  <2>1. "agent" \in Steps /\ UNCHANGED <<clock, conv, lock, replies, effects>>
        /\ run' \in [Requests -> {"none", "running", "finished"}]
    BY Zenon DEF ProtocolInv, TypeOK, Authorize, Steps, InTurn
  <2>. QED
    BY ZenonT(60), <1>2, <1>4, <2>1, LocalTypes, TurnTypes DEF ProtocolInv
<1>6. LocalInv(r)'
    BY ZenonT(60), <1>1, <1>4 DEF LocalInv, Authorize
<1>. QED
    BY ZenonT(60), <1>3, <1>4, <1>5, <1>6, TurnStep DEF Authorize, Go, InTurn

\* A statement before the run fails.
LEMMA PrepareFailsStep ==
    ASSUME ProtocolInv, NEW r \in Requests, PrepareFails(r)
    PROVE  ProtocolInv'
<1>1. conv.status = "open" /\ turn[r].says # "ack" /\ turn[r].heard \in Nat
    BY ZenonT(60), TurnTypes DEF ProtocolInv, LocalInv, PrepareFails, TurnRecords
<1>2. Consents(r) /\ prop' \in [Proposals -> ProposalRows]
  <2>1. prop \in [Proposals -> ProposalRows]
    BY Zenon DEF ProtocolInv, TypeOK
  <2>2. CASE UNCHANGED prop
    BY <2>1, <2>2, Zenon DEF Consents
  <2>3. ASSUME NEW p \in Latest, CanAuthorize(p, r),
               prop' = [prop EXCEPT ![p].status = "confirmed", ![p].by = r,
                                    ![p].heard = turn[r].heard]
        PROVE  Consents(r) /\ prop' \in [Proposals -> ProposalRows]
    <3>1. p \in Proposals
        BY Zenon DEF Latest
    <3>2. prop' = [prop EXCEPT ![p] = [prop[p] EXCEPT !.status = "confirmed", !.by = r,
                                                      !.heard = turn[r].heard]]
        BY <2>1, <2>3, <3>1, Zenon
    <3>3. [prop[p] EXCEPT !.status = "confirmed", !.by = r, !.heard = turn[r].heard]
            \in ProposalRows
        BY <1>1, <2>1, <3>1, Zenon DEF ProposalRows
    <3>4. Consents(r)
        BY ZenonT(60), <2>1, <2>3, <3>1, <3>2 DEF Consents
    <3>. QED
        BY <2>1, <3>1, <3>2, <3>3, <3>4, Zenon
  <2>. QED
    BY <2>2, <2>3, Zenon DEF PrepareFails
<1>3. TablesInv'
    BY <1>1, <1>2, ConsentTables, Zenon DEF PrepareFails
<1>4. Go(r, "failing") /\ pc'[r] = "failing" /\ turn' = [turn EXCEPT ![r] = turn[r]]
    BY Zenon DEF ProtocolInv, TypeOK, PrepareFails, Go
<1>5. TypeOK'
  <2>1. "failing" \in Steps /\ UNCHANGED <<clock, conv, lock, replies, effects>>
        /\ run' \in [Requests -> {"none", "running", "finished"}]
    BY Zenon DEF ProtocolInv, TypeOK, PrepareFails, Steps, InTurn
  <2>. QED
    BY ZenonT(60), <1>2, <1>4, <2>1, LocalTypes, TurnTypes DEF ProtocolInv
<1>6. LocalInv(r)'
    BY <1>1, <1>4, Zenon DEF LocalInv, PrepareFails
<1>. QED
    BY ZenonT(60), <1>3, <1>4, <1>5, <1>6, TurnStep DEF PrepareFails, Go, InTurn

-----------------------------------------------------------------------------
(* A new proposal.  Every reply is older than it, and no other proposal is  *)
(* left outstanding.                                                        *)

\* A new proposal keeps the table invariants: older ones are rejected first.
LEMMA ProposeNewTables ==
    ASSUME ProtocolInv, NEW r \in Requests, NEW p \in Proposals, NEW a \in Acts,
           prop[p].status = "none", prop' = ProposeNew(p, a, r),
           UNCHANGED <<clock, conv, replies, effects>>
    PROVE  TablesInv' /\ prop' \in [Proposals -> ProposalRows]
<1>1. prop \in [Proposals -> ProposalRows] /\ clock \in Nat
    BY Zenon DEF ProtocolInv, TypeOK
<1>2. prop' \in [Proposals -> ProposalRows]
    BY SMTT(60), <1>1 DEF ProposeNew, ExpireOverdue, ProposalRows
<1>3. /\ prop'[p].act = a /\ prop'[p].by = None /\ prop'[p].at = clock
      /\ prop'[p].status = "pending"
    BY Zenon DEF ProposeNew
<1>4. \A q \in Proposals \ {p} :
        /\ prop'[q].act = prop[q].act /\ prop'[q].from = prop[q].from
        /\ prop'[q].by = prop[q].by /\ prop'[q].heard = prop[q].heard
        /\ prop'[q].status \notin {"pending", "confirmed"}
        /\ prop'[q].status = prop[q].status
           \/ (prop'[q].status \in {"rejected", "expired"} /\ prop[q].status # "none")
    BY <1>1, ZenonT(60) DEF ProposeNew, ExpireOverdue, ProposalRows, Live, Outstanding
<1>5. OneOutstandingProposal'
    BY <1>4, Zenon DEF OneOutstandingProposal, Outstanding
<1>6. CardInv'
  <2> SUFFICES ASSUME NEW q \in Proposals, NEW i \in DOMAIN replies, Live(q)'
               PROVE  ~(replies[i].at >= prop'[q].at)
    BY Zenon DEF CardInv
  <2>1. q = p
    BY <1>4, Zenon DEF Live, Outstanding
  <2>2. replies[i].at \in Nat
    <3>1. replies \in Seq(ReplyRows)
        BY Zenon DEF ProtocolInv, TypeOK
    <3>2. replies[i] \in ReplyRows
        BY <3>1
    <3>. QED
        BY <3>2, Zenon DEF ReplyRows
  <2>. QED
    BY <1>1, <1>3, <2>1, <2>2 DEF ProtocolInv, TablesInv
<1>7. AuthInv'
    BY SMTT(60), <1>3, <1>4 DEF ProtocolInv, TablesInv, AuthInv, Shown
<1>8. MutationIsAuthorized'
  <2> SUFFICES ASSUME NEW i \in DOMAIN effects
               PROVE  LET row == prop'[effects[i].prop] IN
                      /\ effects[i].act = row.act
                      /\ row.by \notin {None, row.from}
                      /\ \E k \in DOMAIN replies : /\ replies[k].card = effects[i].prop
                                                   /\ replies[k].at < row.heard
    BY Zenon DEF MutationIsAuthorized
  <2>1. effects[i].prop \in Proposals
    BY EffectTypes, Zenon DEF ProtocolInv
  <2>2. prop[effects[i].prop].by # None
    BY Zenon DEF ProtocolInv, TablesInv, MutationIsAuthorized
  <2>3. effects[i].prop # p
    BY <2>2, Zenon DEF ProtocolInv, TablesInv, AuthInv
  <2>. QED
    BY SMTT(60), <1>4, <2>1, <2>3 DEF ProtocolInv, TablesInv, MutationIsAuthorized
<1>. QED
    BY <1>2, <1>5, <1>6, <1>7, <1>8, Zenon DEF ProtocolInv, TablesInv, OneMutationPerProposal

\* A mutating call without a confirmation id.
LEMMA ProposeStep ==
    ASSUME ProtocolInv, NEW r \in Requests, NEW a \in Acts, Propose(r, a)
    PROVE  ProtocolInv'
<1> DEFINE t == [turn[r] EXCEPT !.calls = turn[r].calls + 1]
<1>1. turn[r].calls + 1 \in 0..MaxCalls
    BY TurnAssumption, TurnTypes DEF ProtocolInv, Propose, MayCall, TurnRecords
<1>2. t \in TurnRecords /\ t.says = turn[r].says
    BY <1>1, TurnTypes, ZenonT(60) DEF ProtocolInv, TurnRecords
<1>3. turn' = [turn EXCEPT ![r] = t] /\ turn'[r] = t
    BY Zenon DEF ProtocolInv, TypeOK, Propose
<1>4. PICK step \in {"respond", "agent"} : Go(r, step)
    BY Zenon DEF Propose
<1>5. pc'[r] = step
    BY <1>4, Zenon DEF ProtocolInv, TypeOK, Go
<1>6. /\ step \in Steps /\ step \in InTurn /\ pc[r] \in InTurn
      /\ UNCHANGED <<clock, conv, lock, replies, effects>>
      /\ run' \in [Requests -> {"none", "running", "finished"}]
    BY Zenon DEF ProtocolInv, TypeOK, Propose, MayCall, Steps, InTurn
<1>7. LocalInv(r)'
    BY <1>2, <1>3, <1>5, <1>6, ZenonT(60) DEF ProtocolInv, LocalInv
<1>8. CASE prop' = ExpireOverdue
    BY <1>2, <1>3, <1>4, <1>6, <1>7, <1>8, LocalStep, ExpireRows, Zenon DEF ProtocolInv
<1>9. ASSUME NEW p \in Proposals, prop[p].status = "none", prop' = ProposeNew(p, a, r)
      PROVE  ProtocolInv'
  <2>1. TablesInv' /\ prop' \in [Proposals -> ProposalRows]
    BY <1>6, <1>9, ProposeNewTables, Zenon
  <2>2. TypeOK'
    BY ZenonT(60), <1>2, <1>3, <1>4, <1>6, <2>1, LocalTypes DEF ProtocolInv
  <2>3. \A s \in Requests \ {r} : turn'[s] = turn[s]
    BY <1>3, Zenon DEF ProtocolInv, TypeOK
  <2>. QED
    BY <1>4, <1>6, <1>7, <2>1, <2>2, <2>3, TurnStep, Zenon DEF Go
<1>. QED
    BY <1>8, <1>9, Zenon DEF Propose

-----------------------------------------------------------------------------
(* The mutation.                                                           *)

\* A mutation by a verified call keeps the table invariants.
LEMMA MutateTables ==
    ASSUME ProtocolInv, NEW r \in Requests, pc[r] = "executing", Mutate(r),
           UNCHANGED <<clock, conv, prop, replies>>
    PROVE  TablesInv' /\ effects' \in Seq(EffectRows)
<1> DEFINE e == [act |-> turn[r].act, prop |-> turn[r].prop]
<1>1. /\ turn[r].prop \in Proposals /\ turn[r].act \in Acts
      /\ turn[r].act = prop[turn[r].prop].act
      /\ prop[turn[r].prop].status \in {"confirmed", "consumed"}
    BY Zenon DEF ProtocolInv, LocalInv
<1>2. effects \in Seq(EffectRows) /\ e \in EffectRows
    BY <1>1, Zenon DEF ProtocolInv, TypeOK, EffectRows
<1>3. CASE effects' = effects
    BY ZenonT(60), <1>2, <1>3 DEF ProtocolInv, TablesInv, OneOutstandingProposal, Outstanding, CardInv,
                      Live, AuthInv, Shown, MutationIsAuthorized, OneMutationPerProposal
<1>4. CASE /\ \A i \in DOMAIN effects : effects[i].act # turn[r].act
           /\ effects' = Append(effects, e)
  <2>1. /\ effects' \in Seq(EffectRows)
        /\ DOMAIN effects' = 1..(Len(effects) + 1) /\ DOMAIN effects = 1..Len(effects)
        /\ \A i \in DOMAIN effects : effects'[i] = effects[i]
        /\ effects'[Len(effects) + 1] = e
    BY <1>2, <1>4
  <2>2. \A i \in DOMAIN effects' : i \in DOMAIN effects \/ effects'[i] = e
    BY SMTT(60), <1>2, <2>1
  <2>3. MutationIsAuthorized'
    <3>1. prop[turn[r].prop].by \notin {None, prop[turn[r].prop].from} /\ Shown(turn[r].prop)
        BY <1>1, Zenon DEF ProtocolInv, TablesInv, AuthInv
    <3>. QED
        BY SMTT(60), <1>1, <2>1, <2>2, <3>1 DEF ProtocolInv, TablesInv, MutationIsAuthorized, Shown
  <2>4. \A i \in DOMAIN effects : effects[i].prop # turn[r].prop
    BY <1>1, <1>4, Zenon DEF ProtocolInv, TablesInv, MutationIsAuthorized
  <2>5. OneMutationPerProposal'
    <3> SUFFICES ASSUME NEW i \in DOMAIN effects', NEW j \in DOMAIN effects',
                        effects'[i].prop = effects'[j].prop
                 PROVE  i = j
        BY Zenon DEF OneMutationPerProposal
    <3>1. CASE i \in DOMAIN effects /\ j \in DOMAIN effects
        BY <2>1, <3>1, Zenon DEF ProtocolInv, TablesInv, OneMutationPerProposal
    <3>2. CASE i \notin DOMAIN effects /\ j \in DOMAIN effects
        BY <2>1, <2>2, <2>4, <3>2
    <3>3. CASE i \in DOMAIN effects /\ j \notin DOMAIN effects
        BY <2>1, <2>2, <2>4, <3>3
    <3>4. CASE i \notin DOMAIN effects /\ j \notin DOMAIN effects
        BY SMTT(60), <1>2, <2>1, <3>4
    <3>. QED
        BY <3>1, <3>2, <3>3, <3>4, Zenon
  <2>. QED
    BY ZenonT(60), <2>1, <2>3, <2>5 DEF ProtocolInv, TablesInv, OneOutstandingProposal, Outstanding,
                            CardInv, Live, AuthInv, Shown
<1>. QED
    BY <1>3, <1>4, Zenon DEF Mutate

\* The booking transaction commits.
LEMMA BackendCommitsStep ==
    ASSUME ProtocolInv, NEW r \in Requests, BackendCommits(r)
    PROVE  ProtocolInv'
<1>1. TablesInv' /\ effects' \in Seq(EffectRows)
    BY MutateTables, Zenon DEF BackendCommits
<1>2. PICK step \in {"consume", "agent"}, t \in TurnRecords :
        /\ Go(r, step) /\ turn' = [turn EXCEPT ![r] = t]
        /\ t.says = turn[r].says
        /\ step = "consume" => t = turn[r]
  <2>1. CASE Go(r, "consume") /\ UNCHANGED turn
    <3>1. turn' = [turn EXCEPT ![r] = turn[r]]
        BY <2>1, Zenon DEF ProtocolInv, TypeOK
    <3>. QED
        BY <2>1, <3>1, TurnTypes, Zenon DEF ProtocolInv
  <2>2. CASE EndCall(r, "agent")
    <3> DEFINE t == [turn[r] EXCEPT !.prop = None, !.act = None, !.outcome = turn[r].outcome]
    <3>1. t \in TurnRecords /\ t.says = turn[r].says
        BY ZenonT(60), TurnTypes DEF ProtocolInv, TurnRecords
    <3>2. turn' = [turn EXCEPT ![r] = t]
        BY <2>2, Zenon DEF ProtocolInv, TypeOK, EndCall
    <3>. QED
        BY <2>2, <3>1, <3>2, Zenon DEF EndCall
  <2>. QED
    BY <2>1, <2>2, Zenon DEF BackendCommits
<1>3. pc'[r] = step /\ turn'[r] = t /\ \A s \in Requests \ {r} : turn'[s] = turn[s]
    BY <1>2, Zenon DEF ProtocolInv, TypeOK, Go
<1>4. pc' \in [Requests -> Steps] /\ turn' \in [Requests -> TurnRecords]
    BY <1>2, Zenon DEF ProtocolInv, TypeOK, Go, Steps, InTurn
<1>5. TypeOK'
    BY <1>1, <1>4, Zenon DEF ProtocolInv, TypeOK, BackendCommits, Steps
<1>6. LocalInv(r)'
    BY SMTT(60), <1>2, <1>3 DEF ProtocolInv, LocalInv, BackendCommits
<1>. QED
    BY <1>1, <1>2, <1>3, <1>5, <1>6, TurnStep, Zenon DEF BackendCommits, Go, InTurn

-----------------------------------------------------------------------------
(* The transaction of the reply.                                           *)

\* The reply's transaction begins and fixes its created_at.
LEMMA BeginReplyStep ==
    ASSUME ProtocolInv, NEW r \in Requests, BeginReply(r)
    PROVE  ProtocolInv'
<1>1. clock \in Nat /\ clock' = clock + 2 /\ UNCHANGED <<conv, lock, run, prop, replies, effects>>
    BY Zenon DEF ProtocolInv, TypeOK, BeginReply
<1>2. PICK w \in Says : /\ turn' = [turn EXCEPT ![r].began = clock + 1, ![r].says = w]
                        /\ w = IF pc[r] = "ack" THEN "ack" ELSE turn[r].says
  <2>1. turn[r].says \in Says /\ "ack" \in Says
    BY TurnTypes, Zenon DEF ProtocolInv, TurnRecords, Says
  <2>. QED
    BY <2>1, Zenon DEF ProtocolInv, TypeOK, BeginReply
<1> DEFINE t == [turn[r] EXCEPT !.began = clock + 1, !.says = w]
<1>3. /\ t \in TurnRecords /\ t.began = clock + 1 /\ t.says = w
      /\ t.handoff = turn[r].handoff /\ t.card = turn[r].card
  <2>1. turn[r] \in TurnRecords /\ clock + 1 \in Nat
    BY <1>1, TurnTypes DEF ProtocolInv
  <2>. QED
    BY <2>1, Zenon DEF TurnRecords
<1>4. turn' = [turn EXCEPT ![r] = t] /\ turn'[r] = t /\ pc'[r] = "persisting"
    BY <1>2, Zenon DEF ProtocolInv, TypeOK, BeginReply, Go
<1>5. pc' \in [Requests -> Steps] /\ turn' \in [Requests -> TurnRecords]
    BY <1>3, <1>4 DEF ProtocolInv, TypeOK, BeginReply, Go, Steps, InTurn
<1>6. TypeOK'
    BY <1>1, <1>5 DEF ProtocolInv, TypeOK, Steps
<1>7. TablesInv'
  <2>1. \A i \in DOMAIN replies : replies[i].at \in Nat
    <3>1. \A i \in DOMAIN replies : replies[i] \in ReplyRows
        BY DEF ProtocolInv, TypeOK
    <3>. QED
        BY <3>1, Zenon DEF ReplyRows
  <2>2. \A i \in DOMAIN replies : replies[i].at < clock + 2
    BY <1>1, <2>1 DEF ProtocolInv, TablesInv
  <2>3. OneOutstandingProposal' /\ CardInv'
    BY <1>1, Zenon DEF ProtocolInv, TablesInv, OneOutstandingProposal, Outstanding, CardInv, Live
  <2>4. AuthInv'
    BY <1>1, Zenon DEF ProtocolInv, TablesInv, AuthInv, Shown
  <2>5. MutationIsAuthorized' /\ OneMutationPerProposal'
    BY <1>1, Zenon DEF ProtocolInv, TablesInv, MutationIsAuthorized, OneMutationPerProposal
  <2>. QED
    BY <1>1, <2>2, <2>3, <2>4, <2>5, Zenon DEF TablesInv
<1>8. LocalInv(r)'
  <2>1. w = "ack" => conv.status = "escalated"
    BY <1>2, Zenon DEF ProtocolInv, LocalInv
  <2>2. pc[r] = "ack" \/ (pc[r] = "persist" /\ w = turn[r].says)
    BY <1>2, Zenon DEF BeginReply
  <2>3. ~turn[r].handoff /\ w # "ack" => \A p \in Proposals : Live(p) => turn[r].card = p
    BY <1>2, <2>2, Zenon DEF ProtocolInv, LocalInv
  <2>4. /\ turn'[r].began < clock' /\ turn'[r].says = w
        /\ turn'[r].handoff = turn[r].handoff /\ turn'[r].card = turn[r].card
    <3> HIDE DEF t
    <3>. QED
        BY <1>1, <1>3, <1>4
  <2>5. \A p \in Proposals : Live(p)' <=> Live(p)
    BY <1>1, Zenon DEF Live, Outstanding
  <2>. QED
    BY <1>1, <1>4, <2>1, <2>3, <2>4, <2>5, Zenon DEF LocalInv
<1>9. \A s \in Requests \ {r} : turn'[s] = turn[s]
    BY <1>4, Zenon DEF ProtocolInv, TypeOK
<1>. QED
    BY <1>1, <1>4, <1>6, <1>7, <1>8, <1>9, TurnStep, Zenon DEF BeginReply, Go, InTurn

\* A committed reply keeps the table invariants: its card is the live proposal.
LEMMA StoreReplyTables ==
    ASSUME ProtocolInv, NEW r \in Requests, pc[r] = "persisting", StoreReply(r),
           UNCHANGED <<prop, effects>>
    PROVE  /\ TablesInv'
           /\ clock' \in Nat
           /\ replies' \in Seq(ReplyRows)
           /\ conv' \in [status : {"open", "escalated"}, clar : 0..3]
           /\ conv.status = "escalated" => conv'.status = "escalated"
           /\ run' \in [Requests -> {"none", "running", "finished"}]
<1> DEFINE m == [at |-> turn[r].began, card |-> turn[r].card,
                 says |-> turn[r].says, shown |-> clock + 1]
           n == Len(replies) + 1
<1>1. clock \in Nat /\ clock' = clock + 2 /\ replies \in Seq(ReplyRows)
    BY Zenon DEF ProtocolInv, TypeOK, StoreReply
<1>2. turn[r].began \in Nat /\ m \in ReplyRows
    BY <1>1, TurnTypes DEF ProtocolInv, TurnRecords, ReplyRows
<1>3. replies' = Append(replies, m)
    BY Zenon DEF StoreReply
<1>4. /\ replies' \in Seq(ReplyRows)
      /\ DOMAIN replies' = 1..n /\ DOMAIN replies = 1..Len(replies)
      /\ \A i \in DOMAIN replies : i \in DOMAIN replies' /\ replies'[i] = replies[i]
      /\ \A i \in DOMAIN replies' : i \in DOMAIN replies \/ replies'[i] = m
    BY SMTT(60), <1>1, <1>2, <1>3
<1>5. NextClarification(r) \in 0..3
    BY TurnTypes DEF ProtocolInv, NextClarification, TurnRecords
<1>6. /\ conv' \in [status : {"open", "escalated"}, clar : 0..3]
      /\ conv.status = "escalated" => conv'.status = "escalated"
      /\ turn[r].says # "ack" /\ turn[r].handoff => conv'.status = "escalated"
      /\ turn[r].says = "ack" => conv' = conv
  <2>1. conv \in [status : {"open", "escalated"}, clar : 0..3]
    BY Zenon DEF ProtocolInv, TypeOK
  <2>2. conv' = ReplyConversation(r)
    BY Zenon DEF StoreReply
  <2>. QED
    BY <1>5, <2>1, <2>2 DEF ReplyConversation
<1>7. \A i \in DOMAIN replies' : replies'[i].at < clock'
  <2>1. \A i \in DOMAIN replies : replies[i].at \in Nat
    <3>1. \A i \in DOMAIN replies : replies[i] \in ReplyRows
        BY <1>1
    <3>. QED
        BY <3>1, Zenon DEF ReplyRows
  <2>2. \A i \in DOMAIN replies : replies[i].at < clock'
    BY SMTT(60), <1>1, <2>1 DEF ProtocolInv, TablesInv
  <2>3. m.at < clock'
    BY <1>1, <1>2 DEF ProtocolInv, LocalInv
  <2> HIDE DEF m
  <2>. QED
    BY <1>4, <2>2, <2>3, Zenon
<1>8. \A p \in Proposals : Live(p)' <=> Live(p)
    BY Zenon DEF Live, Outstanding
<1>9. CardInv'
  <2> SUFFICES ASSUME NEW p \in Proposals, NEW i \in DOMAIN replies', Live(p),
                      replies'[i].at >= prop[p].at, conv'.status # "escalated"
               PROVE  replies'[i].card = p
    BY <1>8, Zenon DEF CardInv
  <2>1. CASE i \in DOMAIN replies
    BY <1>4, <1>6, <2>1, ZenonT(60) DEF ProtocolInv, TablesInv, CardInv
  <2>2. CASE replies'[i] = m
    <3>1. turn[r].says # "ack" /\ ~turn[r].handoff
        BY <1>6, Zenon DEF ProtocolInv, LocalInv
    <3>. QED
        BY SMTT(60), <2>2, <3>1 DEF ProtocolInv, LocalInv
  <2>. QED
    BY <1>4, <2>1, <2>2, Zenon
<1> HIDE DEF m, n
<1>10. \A p \in Proposals : Shown(p) => Shown(p)'
    BY <1>4, Zenon DEF Shown
<1>11. AuthInv'
    BY <1>10, ZenonT(60) DEF ProtocolInv, TablesInv, AuthInv
<1>12. MutationIsAuthorized'
    BY SMTT(60), <1>4 DEF ProtocolInv, TablesInv, MutationIsAuthorized
<1>13. OneOutstandingProposal' /\ OneMutationPerProposal'
    BY Zenon DEF ProtocolInv, TablesInv, OneOutstandingProposal, Outstanding, OneMutationPerProposal
<1>14. run' \in [Requests -> {"none", "running", "finished"}]
    BY Zenon DEF ProtocolInv, TypeOK, StoreReply
<1>. QED
    BY <1>1, <1>4, <1>6, <1>7, <1>9, <1>11, <1>12, <1>13, <1>14 DEF TablesInv

\* The reply's transaction commits.
LEMMA CommitStep ==
    ASSUME ProtocolInv, NEW r \in Requests, NEW step \in Ended, pc[r] = "persisting",
           StoreReply(r), Return(r, step), UNCHANGED <<prop, effects>>
    PROVE  ProtocolInv'
<1>1. TypeOK'
    BY StoreReplyTables, ReturnTypes, Zenon DEF ProtocolInv, TypeOK, Steps
<1>. QED
    BY <1>1, StoreReplyTables, ReturnStep, Zenon DEF InTurn

\* The reply's transaction fails or its answer is lost.
LEMMA ReplyFailsStep ==
    ASSUME ProtocolInv, NEW r \in Requests, ReplyFails(r)
    PROVE  ProtocolInv'
<1>1. CASE Return(r, "failed")
  <2>1. "failed" \in Ended
    BY Zenon DEF Ended
  <2>. QED
    BY <1>1, <2>1, CommitStep, PlainReturn, Zenon DEF ReplyFails
<1>2. CASE /\ Go(r, "failing") /\ UNCHANGED lock
           /\ turn' = [turn EXCEPT ![r].says = "failure"]
  <2> DEFINE t == [turn[r] EXCEPT !.says = "failure"]
  <2>1. t \in TurnRecords /\ t.says # "ack"
    BY TurnTypes DEF ProtocolInv, TurnRecords, Says
  <2>2. turn' = [turn EXCEPT ![r] = t] /\ turn'[r] = t /\ pc'[r] = "failing"
    BY <1>2, Zenon DEF ProtocolInv, TypeOK, Go
  <2>3. LocalInv(r)'
    BY <2>1, <2>2, Zenon DEF LocalInv
  <2>4. CASE UNCHANGED <<clock, conv, run, replies>>
    BY <1>2, <2>1, <2>2, <2>3, <2>4, LocalStep, SameRows, ZenonT(60)
       DEF ProtocolInv, TypeOK, ReplyFails, InTurn
  <2>5. CASE StoreReply(r)
    <3>1. pc' \in [Requests -> Steps] /\ turn' \in [Requests -> TurnRecords]
        BY <1>2, <2>1, <2>2 DEF ProtocolInv, TypeOK, Go, Steps, InTurn
    <3>2. TypeOK'
        BY <1>2, <2>5, <3>1, StoreReplyTables, ZenonT(60) DEF ProtocolInv, TypeOK, ReplyFails, Steps
    <3>3. \A s \in Requests \ {r} : turn'[s] = turn[s]
        BY <2>2, Zenon DEF ProtocolInv, TypeOK
    <3>. QED
        BY <1>2, <2>3, <2>5, <3>2, <3>3, StoreReplyTables, TurnStep, Zenon DEF ReplyFails, Go, InTurn
  <2>. QED
    BY <2>4, <2>5, Zenon DEF ReplyFails
<1>. QED
    BY <1>1, <1>2, Zenon DEF ReplyFails

-----------------------------------------------------------------------------
(* The theorems.                                                           *)

\* A new conversation satisfies the invariant.
LEMMA InitHolds == Init => ProtocolInv
<1> SUFFICES ASSUME Init PROVE ProtocolInv
    BY Zenon
<1>1. turn \in [Requests -> TurnRecords]
    BY NewTurnType, Zenon DEF Init
<1>2. prop \in [Proposals -> ProposalRows]
    BY Zenon DEF Init, NoProposal, ProposalRows
<1>3. TypeOK
    BY <1>1, <1>2 DEF Init, TypeOK
<1>4. TurnsExclusive
    BY TurnAssumption, Zenon DEF Init, TurnsExclusive, InTurn
<1>5. \A p \in Proposals : prop[p].status = "none" /\ prop[p].by = None
    BY Zenon DEF Init, NoProposal
<1>6. TablesInv
    BY SMTT(60), <1>5 DEF Init, TablesInv, OneOutstandingProposal, Outstanding, CardInv, AuthInv,
                MutationIsAuthorized, OneMutationPerProposal
<1>7. ASSUME NEW r \in Requests PROVE LocalInv(r)
    BY Zenon DEF Init, LocalInv, NewTurn
<1>. QED
    BY <1>3, <1>4, <1>6, <1>7, Zenon DEF ProtocolInv

\* Every step of every call preserves the invariant.
LEMMA StepHolds == ProtocolInv /\ [Next]_vars => ProtocolInv'
<1> SUFFICES ASSUME ProtocolInv, [Next]_vars PROVE ProtocolInv'
    BY Zenon
<1>1. ASSUME NEW r \in Requests, Receive(r) PROVE ProtocolInv'
    BY <1>1, ReceiveStep, Zenon
<1>2. ASSUME NEW r \in Requests, RequestStep(r) PROVE ProtocolInv'
  <2>1. CASE GiveUpWaiting(r) \/ SaveFails(r)
    BY <2>1, PlainReturn, Zenon DEF GiveUpWaiting, SaveFails
  <2>2. CASE CommitReply(r)
    BY <2>2, CommitStep, Zenon DEF CommitReply, Ended
  <2>. QED
    BY Zenon, <1>2, <2>1, <2>2, AcquireStep, SaveStep, SupersedeStep, StartRunStep, HumanStep,
       AuthorizeStep, PrepareFailsStep, ProposeStep, ExecuteStep, BackendCommitsStep,
       BackendFailsStep, ConsumeStep, EscalateStep, RefusedStep, RespondStep, RunFailsStep,
       FinishStep, FinishFailsStep, HandoffStep, BeginReplyStep, ReplyFailsStep
       DEF RequestStep
<1>3. ASSUME NEW r \in Requests, DeadlinePasses(r) PROVE ProtocolInv'
    BY <1>3, DeadlineStep, Zenon
<1>4. ASSUME NEW r \in Requests, Crash(r) PROVE ProtocolInv'
    BY <1>4, PlainReturn, ZenonT(60) DEF Crash, Ended
<1>5. ASSUME NEW p \in Proposals, ProposalExpires(p) PROVE ProtocolInv'
    BY <1>5, ExpiryStep, Zenon
<1>6. CASE UNCHANGED vars
    BY ZenonT(60), <1>6 DEF vars, ProtocolInv, TypeOK, TurnsExclusive, TablesInv, OneOutstandingProposal,
                Outstanding, CardInv, Live, AuthInv, Shown, MutationIsAuthorized,
                OneMutationPerProposal, LocalInv
<1>. QED
    BY <1>1, <1>2, <1>3, <1>4, <1>5, <1>6, Zenon DEF Next

\* The booking protocol's invariant holds of every behaviour of SendMessage,
\* the confirmation store and the tool gateway.
THEOREM ProtocolHolds == Spec => []ProtocolInv
BY InitHolds, StepHolds, PTL DEF Spec

\* Every variable keeps its type.
THEOREM TypeCorrect == Spec => []TypeOK
<1>1. ProtocolInv => TypeOK
    BY Zenon DEF ProtocolInv
<1>. QED
    BY <1>1, ProtocolHolds, PTL

\* Turns of one conversation never overlap and never leak the lock.
THEOREM ExclusiveTurns == Spec => []TurnsExclusive
<1>1. ProtocolInv => TurnsExclusive
    BY Zenon DEF ProtocolInv
<1>. QED
    BY <1>1, ProtocolHolds, PTL

\* ADR-001: a booking changes only by the frozen action of a proposal whose
\* card was written before the consent that authorized it.
THEOREM AuthorizedMutations == Spec => []MutationIsAuthorized
<1>1. ProtocolInv => MutationIsAuthorized
    BY Zenon DEF ProtocolInv, TablesInv
<1>. QED
    BY <1>1, ProtocolHolds, PTL

\* At most one proposal of a conversation is outstanding.
THEOREM SingleProposal == Spec => []OneOutstandingProposal
<1>1. ProtocolInv => OneOutstandingProposal
    BY Zenon DEF ProtocolInv, TablesInv
<1>. QED
    BY <1>1, ProtocolHolds, PTL

\* One proposal changes the calendar at most once.
THEOREM SingleMutation == Spec => []OneMutationPerProposal
<1>1. ProtocolInv => OneMutationPerProposal
    BY Zenon DEF ProtocolInv, TablesInv
<1>. QED
    BY <1>1, ProtocolHolds, PTL

\* Only a commit of the booking backend adds to the effects.
LEMMA OnlyBackendMutates ==
    ASSUME [Next]_vars, effects' # effects
    PROVE  \E r \in Requests : BackendCommits(r)
<1>1. ASSUME NEW r \in Requests, RequestStep(r) PROVE BackendCommits(r)
    BY Zenon, <1>1 DEF RequestStep, AcquireConversationTurn, GiveUpWaiting, SaveMessage, SaveFails,
       Supersede, StartRun, EscalateCustomerRequest, Authorize, PrepareFails, Propose,
       Execute, BackendFails, MarkConsumed, EscalateToHuman, ToolRefused, RespondToCustomer,
       RunFails, FinishTurn, FinishFails, HandleSavedTurnFailure, BeginReply, CommitReply,
       ReplyFails
<1>. QED
    BY <1>1, Zenon DEF Next, vars, Receive, DeadlinePasses, Crash, ProposalExpires

\* A proposal that was rejected or has expired is never executed afterwards.
THEOREM WithdrawnStays == Spec => WithdrawnNeverRuns
<1>1. ASSUME ProtocolInv, [Next]_vars
      PROVE  [effects' # effects =>
                prop[effects'[Len(effects')].prop].status \in {"confirmed", "consumed"}]_vars
  <2> SUFFICES ASSUME effects' # effects
               PROVE  prop[effects'[Len(effects')].prop].status \in {"confirmed", "consumed"}
    BY Zenon
  <2>1. PICK r \in Requests : BackendCommits(r)
    BY <1>1, OnlyBackendMutates, Zenon
  <2>2. effects \in Seq(EffectRows) /\ prop[turn[r].prop].status \in {"confirmed", "consumed"}
        /\ turn[r].prop \in Proposals /\ turn[r].act \in Acts
    BY <1>1, <2>1, Zenon DEF ProtocolInv, TypeOK, LocalInv, BackendCommits
  <2>3. effects' = Append(effects, [act |-> turn[r].act, prop |-> turn[r].prop])
    BY <2>1, Zenon DEF BackendCommits, Mutate
  <2>4. effects'[Len(effects')] = [act |-> turn[r].act, prop |-> turn[r].prop]
    BY <2>2, <2>3
  <2>. QED
    BY <2>2, <2>4
<1>. QED
    BY <1>1, ProtocolHolds, PTL DEF Spec, WithdrawnNeverRuns
-----------------------------------------------------------------------------
(* The dialogue: what the replies say, in which order, and who answers.    *)

Others(r) == \A s \in Requests \ {r} : pc'[s] = pc[s] /\ turn'[s] = turn[s]

\* A step of the lock's holder that stores no reply.
LEMMA SilentStep ==
    ASSUME ProtocolInv, DialogueInv, NEW r \in Requests, pc[r] \in InTurn, Others(r),
           replies' = replies, conv'.clar = conv.clar,
           conv.status = "escalated" => conv'.status = "escalated",
           DialogueLocal(r)'
    PROVE  DialogueInv'
<1>1. RepliesInv'
    BY Zenon DEF DialogueInv, RepliesInv, ThirdClarificationHandsOff, Asks
<1>2. ASSUME NEW s \in Requests \ {r} PROVE DialogueLocal(s)'
  <2>1. pc'[s] \notin InTurn /\ turn'[s] = turn[s]
    BY Zenon DEF ProtocolInv, TurnsExclusive, Others
  <2>2. turn[s].outcome = "escalated" => conv.status = "escalated"
    BY Zenon DEF DialogueInv, DialogueLocal
  <2>. QED
    BY <2>1, <2>2, Zenon DEF DialogueLocal, Deciding, InTurn
<1>. QED
    BY <1>1, <1>2, Zenon DEF DialogueInv

\* A step of the turn between Supersede and the answer.
LEMMA DecidingStep ==
    ASSUME ProtocolInv, DialogueInv, NEW r \in Requests, Others(r),
           pc[r] \in Deciding \ {"supersede"}, pc'[r] \in Deciding \ {"supersede"},
           replies' = replies, conv'.clar = conv.clar,
           conv.status = "escalated" => conv'.status = "escalated",
           turn'[r].text = turn[r].text, turn'[r].clar = turn[r].clar,
           turn'[r].says = turn[r].says, turn'[r].last = turn[r].last,
           turn'[r].outcome = "escalated" => conv'.status = "escalated",
           \A p \in Proposals : Live(p)' =>
              prop'[p].from = r \/ (Live(p) /\ prop'[p].from = prop[p].from)
    PROVE  DialogueInv'
<1>1. DialogueLocal(r)
    BY Zenon DEF DialogueInv
<1>2. DialogueLocal(r)'
    BY <1>1, Zenon DEF DialogueLocal, Deciding
<1>. QED
    BY <1>2, SilentStep, Zenon DEF Deciding, InTurn

\* A step to handleSavedTurnFailure.
LEMMA FailingStep ==
    ASSUME ProtocolInv, DialogueInv, NEW r \in Requests, Others(r),
           pc[r] \in InTurn, pc'[r] = "failing", replies' = replies, conv' = conv,
           turn'[r].outcome = turn[r].outcome
    PROVE  DialogueInv'
<1>1. DialogueLocal(r)
    BY Zenon DEF DialogueInv
<1>2. DialogueLocal(r)'
    BY <1>1, Zenon DEF DialogueLocal, Deciding
<1>. QED
    BY <1>2, SilentStep, Zenon

\* A step that returns from SendMessage and stores no reply.
LEMMA SilentReturn ==
    ASSUME ProtocolInv, DialogueInv, NEW r \in Requests, NEW step \in Ended \union {"idle"},
           Return(r, step), UNCHANGED <<conv, prop, replies>>
    PROVE  DialogueInv'
<1>1. RepliesInv'
    BY Zenon DEF DialogueInv, RepliesInv, ThirdClarificationHandsOff, Asks
<1>2. pc'[r] = step /\ turn'[r] = NewTurn
    BY ZenonT(60) DEF ProtocolInv, TypeOK, Return, Go
<1>3. DialogueLocal(r)'
    BY <1>2 DEF DialogueLocal, Deciding, NewTurn, Ended
<1>4. ASSUME NEW s \in Requests \ {r} PROVE DialogueLocal(s)'
  <2>1. pc'[s] = pc[s] /\ turn'[s] = turn[s]
    BY Zenon DEF ProtocolInv, TypeOK, Return, Go
  <2>2. DialogueLocal(s)
    BY Zenon DEF DialogueInv
  <2>. QED
    BY <2>1, <2>2, Zenon DEF DialogueLocal, NextClarification, Live, Outstanding
<1>. QED
    BY <1>1, <1>3, <1>4, Zenon DEF DialogueInv

\* A step that changes one call's locals leaves the other calls alone.
LEMMA OthersStay ==
    ASSUME TypeOK, NEW r \in Requests, NEW step, Go(r, step),
           NEW t, turn' = [turn EXCEPT ![r] = t]
    PROVE  Others(r) /\ pc'[r] = step /\ turn'[r] = t
BY Zenon DEF TypeOK, Go, Others

\* A message arrives, or its turn acquires the lock.
LEMMA ArrivalTalk ==
    ASSUME ProtocolInv, DialogueInv, NEW r \in Requests,
           Receive(r) \/ AcquireConversationTurn(r)
    PROVE  DialogueInv'
<1>1. RepliesInv'
    BY Zenon DEF DialogueInv, RepliesInv, ThirdClarificationHandsOff, Asks, Receive,
           AcquireConversationTurn
<1>2. turn'[r].outcome = turn[r].outcome /\ pc'[r] \in {"waiting", "locked"}
    BY TurnTypes DEF ProtocolInv, TypeOK, TurnRecords, Receive, AcquireConversationTurn, Go
<1>3. turn[r].outcome = "escalated" => conv.status = "escalated"
    BY Zenon DEF DialogueInv, DialogueLocal
<1>4. conv' = conv /\ prop' = prop /\ replies' = replies
    BY Zenon DEF Receive, AcquireConversationTurn
<1>5. DialogueLocal(r)'
    BY <1>2, <1>3, <1>4, Zenon DEF DialogueLocal, Deciding
<1>6. ASSUME NEW s \in Requests \ {r} PROVE DialogueLocal(s)'
  <2>1. pc'[s] = pc[s] /\ turn'[s] = turn[s]
    BY Zenon DEF ProtocolInv, TypeOK, Receive, AcquireConversationTurn, Go
  <2>2. DialogueLocal(s)
    BY Zenon DEF DialogueInv
  <2>. QED
    BY <1>4, <2>1, <2>2, Zenon DEF DialogueLocal, NextClarification, Live, Outstanding
<1>. QED
    BY <1>1, <1>5, <1>6, Zenon DEF DialogueInv

\* Saving the message reads the stored clarification count.
LEMMA SaveTalk ==
    ASSUME ProtocolInv, DialogueInv, NEW r \in Requests, NEW text \in Texts,
           SaveMessage(r, text)
    PROVE  DialogueInv'
<1> DEFINE t == [turn[r] EXCEPT !.text = text, !.clar = conv.clar]
<1>1. t.text = text /\ t.clar = conv.clar /\ t.outcome = turn[r].outcome
    BY ZenonT(60), TurnTypes DEF ProtocolInv, TurnRecords
<1>2. turn' = [turn EXCEPT ![r] = t]
    BY Zenon DEF ProtocolInv, TypeOK, SaveMessage
<1>3. Others(r) /\ pc'[r] = AfterSave(text) /\ turn'[r] = t
    BY <1>2, OthersStay, Zenon DEF ProtocolInv, SaveMessage
<1>4. pc'[r] \in {"ack", "supersede"} \/ (pc'[r] = "start" /\ text = "consent")
    BY <1>3, Zenon DEF AfterSave
<1>5. DialogueLocal(r)
    BY Zenon DEF DialogueInv
<1>6. conv' = conv /\ replies' = replies
    BY Zenon DEF SaveMessage
<1>7. DialogueLocal(r)'
    BY <1>1, <1>3, <1>4, <1>5, <1>6, Zenon DEF DialogueLocal, Deciding
<1>. QED
    BY <1>3, <1>6, <1>7, SilentStep, Zenon DEF SaveMessage, InTurn

\* After Supersede no proposal is live.
LEMMA SupersedeTalk ==
    ASSUME ProtocolInv, DialogueInv, NEW r \in Requests, Supersede(r)
    PROVE  DialogueInv'
<1>1. turn' = turn /\ conv' = conv /\ replies' = replies /\ pc[r] = "supersede"
    BY Zenon DEF Supersede
<1>2. Others(r) /\ pc'[r] = "start"
    BY Zenon DEF ProtocolInv, TypeOK, Supersede, Go, Others
<1>3. \A p \in Proposals : ~Live(p)'
    BY InvalidateRows, Zenon DEF ProtocolInv, Supersede, Superseded
<1>4. DialogueLocal(r)
    BY Zenon DEF DialogueInv
<1>5. DialogueLocal(r)'
    BY <1>1, <1>2, <1>3, <1>4, Zenon DEF DialogueLocal, Deciding
<1>. QED
    BY <1>1, <1>2, <1>5, SilentStep, Zenon DEF InTurn

\* Rows that are only withdrawn keep the turn they came from.
LEMMA WithdrawnOrigin ==
    ASSUME Withdraws, NEW p \in Proposals, Live(p)'
    PROVE  Live(p) /\ prop'[p].from = prop[p].from
BY Zenon DEF Withdraws, Live, Outstanding

\* StartRun and Authorize leave the locals alone and create no proposal.
LEMMA PrepareTalk ==
    ASSUME ProtocolInv, DialogueInv, NEW r \in Requests, StartRun(r) \/ Authorize(r)
    PROVE  DialogueInv'
<1>1. turn' = turn /\ conv' = conv /\ replies' = replies /\ pc[r] \in {"start", "authorize"}
    BY Zenon DEF StartRun, Authorize
<1>2. Others(r) /\ pc'[r] \in {"human", "authorize", "agent"}
  <2>1. PICK step \in {"human", "authorize", "agent"} : Go(r, step)
    BY Zenon DEF StartRun, Authorize
  <2>. QED
    BY <1>1, <2>1, Zenon DEF ProtocolInv, TypeOK, Go, Others
<1>3. ASSUME NEW p \in Proposals, Live(p)' PROVE Live(p) /\ prop'[p].from = prop[p].from
  <2>1. CASE StartRun(r)
    BY <1>3, <2>1, Zenon DEF StartRun, Live, Outstanding
  <2>2. CASE Authorize(r)
    <3>1. prop[p] \in ProposalRows
        BY Zenon DEF ProtocolInv, TypeOK
    <3>. QED
        <4>1. CASE prop'[p] = prop[p]
            BY <1>3, <4>1, Zenon DEF Live, Outstanding
        <4>2. CASE /\ p \in Latest
                   /\ prop'[p] = [prop[p] EXCEPT !.status = "confirmed", !.by = r,
                                                 !.heard = turn[r].heard]
            BY <3>1, <4>2, Zenon DEF Latest, ProposalRows
        <4>. QED
            BY <2>2, <4>1, <4>2, Zenon DEF Authorize
  <2>. QED
    BY <2>1, <2>2, Zenon
<1>4. turn[r].outcome = "escalated" => conv.status = "escalated"
    BY Zenon DEF DialogueInv, DialogueLocal
<1>. QED
    BY <1>1, <1>2, <1>3, <1>4, DecidingStep, Zenon DEF Deciding

\* A statement before the run fails.
LEMMA PrepareFailsTalk ==
    ASSUME ProtocolInv, DialogueInv, NEW r \in Requests, PrepareFails(r)
    PROVE  DialogueInv'
<1>1. turn' = turn /\ conv' = conv /\ replies' = replies /\ pc[r] \in InTurn
    BY Zenon DEF PrepareFails, InTurn
<1>2. Others(r) /\ pc'[r] = "failing"
  <2>1. Go(r, "failing")
    BY Zenon DEF PrepareFails
  <2>. QED
    BY <1>1, <2>1, Zenon DEF ProtocolInv, TypeOK, Go, Others
<1>. QED
    BY <1>1, <1>2, FailingStep, Zenon

\* A customer's request for a person is answered by a hand-off.
LEMMA HumanTalk ==
    ASSUME ProtocolInv, DialogueInv, NEW r \in Requests, EscalateCustomerRequest(r)
    PROVE  DialogueInv'
<1> DEFINE t == [turn[r] EXCEPT !.says = "handoff", !.handoff = TRUE]
<1>1. t.says = "handoff" /\ t.handoff /\ t.outcome = turn[r].outcome
    BY ZenonT(60), TurnTypes DEF ProtocolInv, TurnRecords
<1>2. turn' = [turn EXCEPT ![r] = t]
    BY Zenon DEF ProtocolInv, TypeOK, EscalateCustomerRequest
<1>3. Others(r) /\ pc'[r] = "persist" /\ turn'[r] = t
    BY <1>2, OthersStay, Zenon DEF ProtocolInv, EscalateCustomerRequest
<1>4. \A p \in Proposals : ~Live(p)'
    BY InvalidateRows, Zenon DEF ProtocolInv, EscalateCustomerRequest
<1>5. DialogueLocal(r)
    BY Zenon DEF DialogueInv
<1>6. conv' = conv /\ replies' = replies /\ pc[r] = "human"
    BY Zenon DEF EscalateCustomerRequest
<1>7. DialogueLocal(r)'
    BY <1>1, <1>3, <1>4, <1>5, <1>6, Zenon DEF DialogueLocal, Deciding
<1>. QED
    BY <1>3, <1>6, <1>7, SilentStep, Zenon DEF InTurn

\* A new proposal is the turn's own; the older ones are withdrawn.
LEMMA ProposeTalk ==
    ASSUME ProtocolInv, DialogueInv, NEW r \in Requests, NEW a \in Acts, Propose(r, a)
    PROVE  DialogueInv'
<1> DEFINE t == [turn[r] EXCEPT !.calls = @ + 1]
<1>1. /\ t.text = turn[r].text /\ t.clar = turn[r].clar /\ t.says = turn[r].says
      /\ t.last = turn[r].last /\ t.outcome = turn[r].outcome
    BY ZenonT(60), TurnTypes DEF ProtocolInv, TurnRecords
<1>2. turn' = [turn EXCEPT ![r] = t] /\ pc[r] = "agent" /\ conv' = conv /\ replies' = replies
    BY Zenon DEF ProtocolInv, TypeOK, Propose, MayCall
<1>3. PICK step \in {"respond", "agent"} : Go(r, step)
    BY Zenon DEF Propose
<1>4. Others(r) /\ pc'[r] = step /\ turn'[r] = t
    BY <1>2, <1>3, OthersStay, Zenon DEF ProtocolInv
<1>5. ASSUME NEW p \in Proposals, Live(p)'
      PROVE  prop'[p].from = r \/ (Live(p) /\ prop'[p].from = prop[p].from)
  <2>1. CASE prop' = ExpireOverdue
    BY <1>5, <2>1, ExpireRows, WithdrawnOrigin, Zenon DEF ProtocolInv
  <2>2. ASSUME NEW q \in Proposals, prop' = ProposeNew(q, a, r)
        PROVE  prop'[p].from = r \/ (Live(p) /\ prop'[p].from = prop[p].from)
    <3>1. CASE p = q
        BY <2>2, <3>1, Zenon DEF ProposeNew
    <3>2. CASE p # q /\ Live(p)
        <4>1. prop'[p] = [prop[p] EXCEPT !.status = "rejected"] /\ prop[p] \in ProposalRows
            BY <2>2, <3>2, Zenon DEF ProposeNew, ProtocolInv, TypeOK
        <4>. QED
            BY <3>2, <4>1, Zenon DEF ProposalRows
    <3>3. CASE p # q /\ ~Live(p)
        <4>1. prop'[p] = ExpireOverdue[p] /\ prop[p] \in ProposalRows
            BY <2>2, <3>3, Zenon DEF ProposeNew, ProtocolInv, TypeOK
        <4>. QED
            BY <1>5, <3>3, <4>1, Zenon DEF ExpireOverdue, ProposalRows, Live, Outstanding
    <3>. QED
        BY <3>1, <3>2, <3>3, Zenon
  <2>. QED
    BY <2>1, <2>2, Zenon DEF Propose
<1>6. turn[r].outcome = "escalated" => conv.status = "escalated"
    BY Zenon DEF DialogueInv, DialogueLocal
<1> HIDE DEF t
<1>. QED
    BY <1>1, <1>2, <1>4, <1>5, <1>6, DecidingStep, Zenon DEF Deciding

\* A call of the model that changes only what the call binds and decides.
LEMMA CallTalk ==
    ASSUME ProtocolInv, DialogueInv, NEW r \in Requests,
           pc[r] \in Deciding \ {"supersede"},
           NEW step \in Deciding \ {"supersede"}, Go(r, step),
           NEW t, turn' = [turn EXCEPT ![r] = t],
           t.text = turn[r].text, t.clar = turn[r].clar, t.says = turn[r].says,
           t.last = turn[r].last,
           replies' = replies, conv'.clar = conv.clar,
           conv.status = "escalated" => conv'.status = "escalated",
           t.outcome \in {turn[r].outcome, "refused", "complete", "clarification"}
             \/ conv'.status = "escalated",
           Withdraws
    PROVE  DialogueInv'
<1>1. Others(r) /\ pc'[r] = step /\ turn'[r] = t
    BY OthersStay, Zenon DEF ProtocolInv
<1>2. turn[r].outcome = "escalated" => conv.status = "escalated"
    BY Zenon DEF DialogueInv, DialogueLocal
<1>3. t.outcome = "escalated" => conv'.status = "escalated"
    BY <1>2, Zenon
<1>. QED
    BY <1>1, <1>3, WithdrawnOrigin, DecidingStep, Zenon

\* A mutating call with a confirmation id.
LEMMA ExecuteTalk ==
    ASSUME ProtocolInv, DialogueInv, NEW r \in Requests, NEW p \in Proposals, NEW a \in Acts,
           Execute(r, p, a)
    PROVE  DialogueInv'
<1> DEFINE t == [turn[r] EXCEPT !.calls = @ + 1, !.prop = p, !.act = RestoreFrozenAction(p, a)]
<1>1. /\ t.text = turn[r].text /\ t.clar = turn[r].clar /\ t.says = turn[r].says
      /\ t.last = turn[r].last /\ t.outcome = turn[r].outcome
    BY ZenonT(60), TurnTypes DEF ProtocolInv, TurnRecords
<1>2. turn' = [turn EXCEPT ![r] = t]
    BY Zenon DEF ProtocolInv, TypeOK, Execute
<1>3. /\ pc[r] = "agent" /\ Go(r, "executing")
      /\ conv' = conv /\ replies' = replies /\ prop' = prop
    BY Zenon DEF Execute, MayCall
<1> HIDE DEF t
<1>. QED
    BY <1>1, <1>2, <1>3, CallTalk, SameRows, Zenon DEF Deciding

\* A call that ends without the gateway remembering it.
LEMMA EndCallTalk ==
    ASSUME ProtocolInv, DialogueInv, NEW r \in Requests, pc[r] = "executing",
           NEW step \in {"agent", "finish"}, EndCall(r, step),
           UNCHANGED <<conv, prop, replies>>
    PROVE  DialogueInv'
<1> DEFINE t == [turn[r] EXCEPT !.prop = None, !.act = None,
                    !.outcome = IF step = "finish" THEN "refused" ELSE turn[r].outcome]
<1>1. /\ t.text = turn[r].text /\ t.clar = turn[r].clar /\ t.says = turn[r].says
      /\ t.last = turn[r].last /\ t.outcome \in {turn[r].outcome, "refused"}
    BY ZenonT(60), TurnTypes DEF ProtocolInv, TurnRecords
<1>2. turn' = [turn EXCEPT ![r] = t]
    BY Zenon DEF ProtocolInv, TypeOK, EndCall
<1>3. Go(r, step) /\ conv' = conv /\ replies' = replies /\ prop' = prop
    BY Zenon DEF EndCall
<1> HIDE DEF t
<1>. QED
    BY <1>1, <1>2, <1>3, CallTalk, SameRows, Zenon DEF Deciding

\* The backend's answer.
LEMMA BackendTalk ==
    ASSUME ProtocolInv, DialogueInv, NEW r \in Requests, BackendCommits(r) \/ BackendFails(r)
    PROVE  DialogueInv'
<1>1. /\ pc[r] = "executing" /\ UNCHANGED <<conv, prop, replies>>
      /\ \/ UNCHANGED turn /\ Go(r, "consume")
         \/ EndCall(r, "agent") \/ EndCall(r, "finish")
    BY Zenon DEF BackendCommits, BackendFails
<1>2. CASE UNCHANGED turn /\ Go(r, "consume")
  <2>1. turn' = [turn EXCEPT ![r] = turn[r]]
    BY <1>2, Zenon DEF ProtocolInv, TypeOK
  <2>2. conv' = conv /\ prop' = prop /\ replies' = replies
    BY <1>1, Zenon
  <2>. QED
    BY <1>1, <1>2, <2>1, <2>2, CallTalk, SameRows, Zenon DEF Deciding
<1>. QED
    BY <1>1, <1>2, EndCallTalk, Zenon

\* MarkConsumed keeps or consumes the confirmed row.
LEMMA ConsumeTalk ==
    ASSUME ProtocolInv, DialogueInv, NEW r \in Requests, MarkConsumed(r)
    PROVE  DialogueInv'
<1> DEFINE t == [turn[r] EXCEPT !.committed = @ \/ turn[r].act \in Creates,
                    !.prop = None, !.act = None]
<1>1. /\ t.text = turn[r].text /\ t.clar = turn[r].clar /\ t.says = turn[r].says
      /\ t.last = turn[r].last /\ t.outcome = turn[r].outcome
    BY ZenonT(60), TurnTypes DEF ProtocolInv, TurnRecords
<1>2. turn' = [turn EXCEPT ![r] = t]
    BY Zenon DEF ProtocolInv, TypeOK, MarkConsumed
<1>3. pc[r] = "consume" /\ Go(r, "agent") /\ conv' = conv /\ replies' = replies
    BY Zenon DEF MarkConsumed
<1>4. Withdraws
  <2>1. CASE UNCHANGED prop
    BY <2>1, SameRows, Zenon
  <2>2. CASE /\ prop[turn[r].prop].status \in {"confirmed", "consumed"}
             /\ prop' = [prop EXCEPT ![turn[r].prop].status = "consumed"]
    BY <2>2 DEF ProtocolInv, TypeOK, ProposalRows, Withdraws
  <2>. QED
    BY <2>1, <2>2, Zenon DEF MarkConsumed
<1> HIDE DEF t
<1>. QED
    BY <1>1, <1>2, <1>3, <1>4, CallTalk, Zenon DEF Deciding

\* escalate_to_human hands the conversation over before the turn says so.
LEMMA EscalateTalk ==
    ASSUME ProtocolInv, DialogueInv, NEW r \in Requests, EscalateToHuman(r)
    PROVE  DialogueInv'
<1>1. PICK step \in {"finish", "agent"}, o \in {"escalated", turn[r].outcome} :
        Go(r, step) /\ turn' = [turn EXCEPT ![r] = [turn[r] EXCEPT !.outcome = o, !.calls = @ + 1]]
  <2>1. CASE Go(r, "agent") /\ turn' = [turn EXCEPT ![r].calls = @ + 1]
    <3>1. [turn[r] EXCEPT !.outcome = turn[r].outcome, !.calls = @ + 1]
            = [turn[r] EXCEPT !.calls = @ + 1]
        BY ZenonT(60), TurnTypes DEF ProtocolInv, TurnRecords
    <3>. QED
        BY <2>1, <3>1, Zenon DEF ProtocolInv, TypeOK
  <2>2. CASE Go(r, "finish") /\ turn' = [turn EXCEPT ![r].outcome = "escalated", ![r].calls = @ + 1]
    BY <2>2, Zenon DEF ProtocolInv, TypeOK
  <2>. QED
    BY <2>1, <2>2, Zenon DEF EscalateToHuman
<1> DEFINE t == [turn[r] EXCEPT !.outcome = o, !.calls = @ + 1]
<1>2. /\ t.text = turn[r].text /\ t.clar = turn[r].clar /\ t.says = turn[r].says
      /\ t.last = turn[r].last
    BY ZenonT(60), TurnTypes DEF ProtocolInv, TurnRecords
<1>3. pc[r] = "agent" /\ replies' = replies /\ prop' = prop
    BY Zenon DEF EscalateToHuman, MayCall
<1>4. conv'.clar = conv.clar /\ conv'.status = "escalated"
    BY Zenon DEF ProtocolInv, TypeOK, EscalateToHuman
<1> HIDE DEF t
<1>5. turn' = [turn EXCEPT ![r] = t]
    BY <1>1, Zenon DEF t
<1>. QED
    BY <1>1, <1>2, <1>3, <1>4, <1>5, CallTalk, SameRows, Zenon DEF Deciding

\* The run ends with a refusal or a structured reply.
LEMMA DecisionTalk ==
    ASSUME ProtocolInv, DialogueInv, NEW r \in Requests, ToolRefused(r) \/ RespondToCustomer(r)
    PROVE  DialogueInv'
<1>1. PICK d \in {"refused", "complete", "clarification"} : turn' = [turn EXCEPT ![r].outcome = d]
    BY Zenon DEF ToolRefused, RespondToCustomer
<1> DEFINE t == [turn[r] EXCEPT !.outcome = d]
<1>2. /\ t.text = turn[r].text /\ t.clar = turn[r].clar /\ t.says = turn[r].says
      /\ t.last = turn[r].last /\ t.outcome = d
    BY ZenonT(60), TurnTypes DEF ProtocolInv, TurnRecords
<1>3. turn' = [turn EXCEPT ![r] = t]
    BY <1>1, Zenon DEF ProtocolInv, TypeOK
<1>4. /\ pc[r] \in {"agent", "respond"} /\ Go(r, "finish")
      /\ conv' = conv /\ replies' = replies /\ prop' = prop
    BY Zenon DEF ToolRefused, RespondToCustomer
<1> HIDE DEF t
<1>. QED
    BY <1>2, <1>3, <1>4, CallTalk, SameRows, Zenon DEF Deciding

\* The run or the end of the turn fails.
LEMMA FailTalk ==
    ASSUME ProtocolInv, DialogueInv, NEW r \in Requests, RunFails(r) \/ FinishFails(r)
    PROVE  DialogueInv'
<1>1. PICK w \in {"booked", "failure"} : turn' = [turn EXCEPT ![r].says = w, ![r].calls = 0]
    BY Zenon DEF RunFails, FinishFails
<1> DEFINE t == [turn[r] EXCEPT !.says = w, !.calls = 0]
<1>2. t.outcome = turn[r].outcome
    BY ZenonT(60), TurnTypes DEF ProtocolInv, TurnRecords
<1>3. turn' = [turn EXCEPT ![r] = t]
    BY <1>1, Zenon DEF ProtocolInv, TypeOK
<1>4. pc[r] \in InTurn /\ Go(r, "failing") /\ conv' = conv /\ replies' = replies
    BY Zenon DEF RunFails, FinishFails, InTurn
<1>5. Others(r) /\ pc'[r] = "failing" /\ turn'[r] = t
    BY <1>3, <1>4, OthersStay, Zenon DEF ProtocolInv
<1>. QED
    BY <1>2, <1>4, <1>5, FailingStep, Zenon

\* The words of the answer: a third clarification becomes a hand-off.
LEMMA FinishTalk ==
    ASSUME ProtocolInv, DialogueInv, NEW r \in Requests, FinishTurn(r)
    PROVE  DialogueInv'
<1> DEFINE h == turn[r].outcome = "refused" \/ NextClarification(r) >= 3
           w == IF turn[r].committed THEN "booked"
                ELSE IF h \/ turn[r].outcome = "escalated" THEN "handoff"
                ELSE IF turn[r].outcome = "clarification" THEN "clarification" ELSE "reply"
<1>1. PICK c : turn' = [turn EXCEPT ![r].calls = 0, ![r].late = FALSE, ![r].card = c,
                                    ![r].handoff = h, ![r].says = w]
    BY Zenon DEF FinishTurn
<1> DEFINE t == [turn[r] EXCEPT !.calls = 0, !.late = FALSE, !.card = c, !.handoff = h, !.says = w]
<1>2. turn' = [turn EXCEPT ![r] = t]
    BY <1>1, Zenon DEF ProtocolInv, TypeOK
<1> HIDE DEF h, w
<1>3. /\ t.text = turn[r].text /\ t.clar = turn[r].clar /\ t.outcome = turn[r].outcome
      /\ t.committed = turn[r].committed /\ t.last = turn[r].last /\ t.handoff = h /\ t.says = w
    BY ZenonT(60), TurnTypes DEF ProtocolInv, TurnRecords
<1> HIDE DEF t
<1>4. Others(r) /\ pc'[r] = "persist" /\ turn'[r] = t
    BY <1>2, OthersStay, Zenon DEF ProtocolInv, FinishTurn
<1>5. DialogueLocal(r) /\ pc[r] = "finish" /\ conv' = conv /\ replies' = replies
    BY Zenon DEF DialogueInv, FinishTurn
<1>6. conv.clar \in 0..3 /\ turn[r].clar = conv.clar
    BY <1>5, Zenon DEF ProtocolInv, TypeOK, DialogueLocal, Deciding
<1>7. NextClarification(r)' = NextClarification(r)
    BY <1>3, <1>4, Zenon DEF NextClarification
<1>8. w = "clarification" => ~h /\ NextClarification(r) = conv.clar + 1 /\ conv.clar < 2
  <2>1. w = "clarification" => turn[r].outcome = "clarification" /\ ~turn[r].committed /\ ~h
    BY Zenon DEF w
  <2>2. ~h => NextClarification(r) < 3
    BY <1>6 DEF h, NextClarification
  <2>. QED
    BY <1>6, <2>1, <2>2 DEF NextClarification
<1>9. w \in {"handoff", "failure"} => h \/ turn[r].outcome = "escalated"
    BY Zenon DEF w
<1>10. \A p \in Proposals : Live(p)' => Live(p) /\ prop'[p].from = prop[p].from
  <2>1. prop' = InvalidateLatest \/ prop' = prop
    BY Zenon DEF FinishTurn, Withdrawn
  <2>2. Withdraws
    BY <2>1, InvalidateRows, SameRows, Zenon DEF ProtocolInv
  <2>. QED
    BY <2>2, WithdrawnOrigin, Zenon
<1>11. w # "ack"
    BY Zenon DEF w
<1>12. DialogueLocal(r)'
    BY <1>3, <1>4, <1>5, <1>7, <1>8, <1>9, <1>10, <1>11, Zenon DEF DialogueLocal, Deciding
<1>. QED
    BY <1>4, <1>5, <1>12, SilentStep, Zenon DEF InTurn

\* The failed turn's hand-off.
LEMMA HandoffTalk ==
    ASSUME ProtocolInv, DialogueInv, NEW r \in Requests, HandleSavedTurnFailure(r)
    PROVE  DialogueInv'
<1> DEFINE w == IF turn[r].says = "booked" THEN "booked" ELSE "failure"
           t == [NewTurn EXCEPT !.says = w, !.committed = turn[r].committed,
                                !.handoff = TRUE, !.last = TRUE]
<1>1. turn' = [turn EXCEPT ![r] = t]
    BY Zenon DEF HandleSavedTurnFailure
<1>2. t.says # "clarification" /\ t.handoff /\ t.last /\ t.outcome = "none"
    BY Zenon DEF NewTurn
<1> HIDE DEF t
<1>3. Others(r) /\ pc'[r] = "persist" /\ turn'[r] = t
    BY <1>1, OthersStay, Zenon DEF ProtocolInv, HandleSavedTurnFailure
<1>4. pc[r] = "failing" /\ conv' = conv /\ replies' = replies
    BY Zenon DEF HandleSavedTurnFailure
<1>5. DialogueLocal(r)'
    BY <1>2, <1>3, Zenon DEF DialogueLocal, Deciding
<1>. QED
    BY <1>3, <1>4, <1>5, SilentStep, Zenon DEF InTurn

\* The turn's deadline passes.
LEMMA DeadlineTalk ==
    ASSUME ProtocolInv, DialogueInv, NEW r \in Requests, DeadlinePasses(r)
    PROVE  DialogueInv'
<1> DEFINE t == [turn[r] EXCEPT !.late = TRUE]
<1>1. /\ t.text = turn[r].text /\ t.clar = turn[r].clar /\ t.says = turn[r].says
      /\ t.last = turn[r].last /\ t.outcome = turn[r].outcome
    BY ZenonT(60), TurnTypes DEF ProtocolInv, TurnRecords
<1>2. turn' = [turn EXCEPT ![r] = t] /\ Go(r, pc[r])
    BY Zenon DEF ProtocolInv, TypeOK, DeadlinePasses, Go
<1> HIDE DEF t
<1>3. Others(r) /\ pc'[r] = pc[r] /\ turn'[r] = t
    BY <1>2, OthersStay, Zenon DEF ProtocolInv
<1>4. /\ pc[r] \in InTurn \ {"ack", "persist", "persisting"}
      /\ conv' = conv /\ replies' = replies /\ prop' = prop
    BY Zenon DEF DeadlinePasses
<1>5. DialogueLocal(r)
    BY Zenon DEF DialogueInv
<1>6. DialogueLocal(r)'
    BY <1>1, <1>3, <1>4, <1>5, Zenon DEF DialogueLocal, Live, Outstanding
<1>. QED
    BY <1>3, <1>4, <1>6, SilentStep, Zenon

\* The reply's transaction begins after every stored reply.
LEMMA BeginTalk ==
    ASSUME ProtocolInv, DialogueInv, NEW r \in Requests, BeginReply(r)
    PROVE  DialogueInv'
<1> DEFINE w == IF pc[r] = "ack" THEN "ack" ELSE turn[r].says
           t == [turn[r] EXCEPT !.began = clock + 1, !.says = w]
<1>1. turn' = [turn EXCEPT ![r] = t]
    BY Zenon DEF ProtocolInv, TypeOK, BeginReply
<1>2. /\ t.text = turn[r].text /\ t.clar = turn[r].clar /\ t.committed = turn[r].committed
      /\ t.last = turn[r].last /\ t.outcome = turn[r].outcome /\ t.handoff = turn[r].handoff
      /\ t.says = w /\ t.began = clock + 1
    BY ZenonT(60), TurnTypes DEF ProtocolInv, TurnRecords
<1> HIDE DEF t
<1>3. Others(r) /\ pc'[r] = "persisting" /\ turn'[r] = t
    BY <1>1, OthersStay, Zenon DEF ProtocolInv, BeginReply
<1>4. /\ pc[r] \in {"persist", "ack"}
      /\ conv' = conv /\ replies' = replies /\ prop' = prop
    BY Zenon DEF BeginReply
<1>5. \A i \in DOMAIN replies : replies[i].at <= clock + 1
  <2>1. ASSUME NEW i \in DOMAIN replies PROVE replies[i].at <= clock + 1
    <3>1. replies \in Seq(ReplyRows) /\ clock \in Nat
        BY Zenon DEF ProtocolInv, TypeOK
    <3>2. replies[i] \in ReplyRows
        BY <3>1
    <3>3. replies[i].at \in Nat /\ replies[i].at < clock
        BY <3>2, Zenon DEF ReplyRows, ProtocolInv, TablesInv
    <3>. QED
        BY <3>1, <3>3
  <2>. QED
    BY <2>1, Zenon
<1>6. DialogueLocal(r)
    BY Zenon DEF DialogueInv
<1>7. NextClarification(r)' = NextClarification(r)
    BY <1>2, <1>3, Zenon DEF NextClarification
<1>8. CASE pc[r] = "ack"
  <2>1. t.says = "ack"
    BY <1>2, <1>8, Zenon
  <2>2. DialogueLocal(r)'
    BY <1>2, <1>3, <1>4, <1>5, <1>6, <2>1, ZenonT(60) DEF DialogueLocal, Deciding
  <2>. QED
    BY <1>3, <1>4, <2>2, SilentStep, Zenon DEF InTurn
<1>9. CASE pc[r] = "persist"
  <2>1. t.says = turn[r].says
    BY <1>2, <1>9, Zenon
  <2>2. DialogueLocal(r)'
    BY <1>2, <1>3, <1>4, <1>5, <1>6, <1>7, <1>9, <2>1, ZenonT(60)
       DEF DialogueLocal, Deciding, Live, Outstanding
  <2>. QED
    BY <1>3, <1>4, <2>2, SilentStep, Zenon DEF InTurn
<1>. QED
    BY <1>4, <1>8, <1>9, Zenon

\* What the stored reply does to the dialogue.
LEMMA StoreTalk ==
    ASSUME ProtocolInv, DialogueInv, NEW r \in Requests, pc[r] = "persisting", StoreReply(r)
    PROVE  RepliesInv' /\ (conv.status = "escalated" => conv'.status = "escalated")
<1> DEFINE row == [at |-> turn[r].began, card |-> turn[r].card,
                   says |-> turn[r].says, shown |-> clock + 1]
<1>0. PICK n \in Nat : Len(replies) = n
    BY DEF ProtocolInv, TypeOK
<1>1. replies \in Seq(ReplyRows) /\ turn[r] \in TurnRecords /\ clock \in Nat
    BY Zenon DEF ProtocolInv, TypeOK
<1>2. row \in ReplyRows
    BY <1>1 DEF ReplyRows, TurnRecords
<1>3. replies' = Append(replies, row) /\ conv' = ReplyConversation(r)
    BY Zenon DEF StoreReply
<1>4. row.at = turn[r].began /\ row.says = turn[r].says
    BY Zenon
<1> HIDE DEF row
<1>5. /\ Len(replies') = n + 1 /\ DOMAIN replies' = 1..(n + 1)
      /\ DOMAIN replies = 1..n /\ replies'[n + 1] = row
      /\ \A i \in 1..n : replies'[i] = replies[i]
    BY <1>0, <1>1, <1>2, <1>3
<1>6. DialogueLocal(r) /\ RepliesInv
    BY Zenon DEF DialogueInv
<1>7. conv \in [status : {"open", "escalated"}, clar : 0..3] /\ conv.clar \in 0..3
    BY Zenon DEF ProtocolInv, TypeOK
<1>8. conv.status = "escalated" => conv'.status = "escalated"
    BY <1>3, <1>7, Zenon DEF ReplyConversation
<1>9. turn[r].says \in {"handoff", "failure"} => conv'.status = "escalated"
  <2>1. turn[r].says \in {"handoff", "failure"} => turn[r].handoff \/ conv.status = "escalated"
    BY <1>6, Zenon DEF DialogueLocal
  <2>. QED
    BY <1>3, <1>8, <2>1, Zenon DEF ReplyConversation
<1>10. turn[r].says = "clarification" => conv'.clar = conv.clar + 1 /\ conv.clar < 2
  <2> SUFFICES ASSUME turn[r].says = "clarification"
               PROVE  conv'.clar = conv.clar + 1 /\ conv.clar < 2
    BY Zenon
  <2>1. ~turn[r].handoff /\ NextClarification(r) = conv.clar + 1 /\ conv.clar < 2
    BY <1>6, Zenon DEF DialogueLocal
  <2>2. conv' = [conv EXCEPT !.clar = conv.clar + 1]
    BY <1>3, <2>1, Zenon DEF ReplyConversation
  <2>. QED
    BY <1>7, <2>1, <2>2, Zenon
<1>11. \A i \in DOMAIN replies' : replies'[i].at <= replies'[Len(replies')].at
  <2>1. \A i \in 1..n : replies[i].at <= turn[r].began
    BY <1>5, <1>6, Zenon DEF DialogueLocal
  <2>2. turn[r].began <= turn[r].began
    BY <1>1 DEF TurnRecords
  <2>. QED
    BY <1>4, <1>5, <2>1, <2>2
<1>12. \A i \in DOMAIN replies' :
         replies'[i].says \in {"handoff", "failure"} => conv'.status = "escalated"
    BY <1>4, <1>5, <1>6, <1>8, <1>9 DEF RepliesInv
<1>13. /\ Asks(n + 1)' => turn[r].says = "clarification"
       /\ \A i \in 1..n : Asks(i)' => Asks(i)
    BY <1>4, <1>5, Zenon DEF Asks
<1>14. Asks(n + 1)' => conv'.clar >= 1
    BY <1>7, <1>10, <1>13
<1>15. Asks(n + 1)' /\ Asks(n)' => conv'.clar >= 2
  <2>1. Asks(n)' => n \in 1..n
    BY <1>5 DEF Asks
  <2>. QED
    BY <1>0, <1>6, <1>7, <1>10, <1>13, <2>1 DEF RepliesInv
<1>16. ThirdClarificationHandsOff'
  <2> SUFFICES ASSUME NEW i \in DOMAIN replies', i + 2 \in DOMAIN replies',
                      \A k \in i..(i + 2) : replies'[k].says = "clarification"
               PROVE  FALSE
    BY Zenon DEF ThirdClarificationHandsOff
  <2>1. i \in 1..n /\ i + 1 \in 1..n
    BY <1>5
  <2>2. CASE i + 2 = n + 1
    <3>1. Asks(n) /\ Asks(n - 1)
        BY <1>5, <2>1, <2>2 DEF Asks
    <3>2. turn[r].says = "clarification"
        BY <1>4, <1>5, <2>2
    <3>. QED
        BY <1>0, <1>6, <1>7, <1>10, <3>1, <3>2 DEF RepliesInv
  <2>3. CASE i + 2 \in 1..n
    <3>1. \A k \in i..(i + 2) : replies[k].says = "clarification"
        BY <1>5, <2>1, <2>3
    <3>. QED
        BY <1>5, <1>6, <2>1, <2>3, <3>1, Zenon DEF RepliesInv, ThirdClarificationHandsOff
  <2>. QED
    BY <1>5, <2>2, <2>3
<1>. QED
    BY <1>5, <1>8, <1>11, <1>12, <1>14, <1>15, <1>16 DEF RepliesInv

\* The reply's transaction commits, or fails, or commits and its answer is lost.
LEMMA ReplyTalk ==
    ASSUME ProtocolInv, DialogueInv, NEW r \in Requests, CommitReply(r) \/ ReplyFails(r)
    PROVE  DialogueInv'
<1>1. pc[r] = "persisting" /\ prop' = prop
    BY Zenon DEF CommitReply, ReplyFails
<1>2. RepliesInv' /\ (conv.status = "escalated" => conv'.status = "escalated")
  <2>1. CASE StoreReply(r)
    BY <1>1, <2>1, StoreTalk, Zenon
  <2>2. CASE UNCHANGED <<clock, conv, run, replies>>
    BY <2>2, Zenon DEF DialogueInv, RepliesInv, ThirdClarificationHandsOff, Asks
  <2>. QED
    BY <2>1, <2>2, Zenon DEF CommitReply, ReplyFails
<1>3. Others(r) /\ pc'[r] \notin Deciding \union {"persist", "persisting"}
      /\ turn'[r].outcome \in {"none", turn[r].outcome}
  <2>1. CASE Return(r, "done") \/ Return(r, "failed")
    BY <2>1 DEF ProtocolInv, TypeOK, Return, Go, Others, Deciding, NewTurn
  <2>2. CASE Go(r, "failing") /\ turn' = [turn EXCEPT ![r].says = "failure"]
    <3>1. turn' = [turn EXCEPT ![r] = [turn[r] EXCEPT !.says = "failure"]]
        BY <2>2, Zenon DEF ProtocolInv, TypeOK
    <3>2. [turn[r] EXCEPT !.says = "failure"].outcome = turn[r].outcome
        BY ZenonT(60), TurnTypes DEF ProtocolInv, TurnRecords
    <3>3. Others(r) /\ pc'[r] = "failing" /\ turn'[r] = [turn[r] EXCEPT !.says = "failure"]
        BY <2>2, <3>1, OthersStay, Zenon DEF ProtocolInv
    <3>. QED
        BY <3>2, <3>3, Zenon DEF Deciding
  <2>. QED
    BY <2>1, <2>2, ZenonT(60) DEF CommitReply, ReplyFails
<1>4. \A s \in Requests : turn[s].outcome = "escalated" => conv.status = "escalated"
    BY Zenon DEF DialogueInv, DialogueLocal
<1>5. DialogueLocal(r)'
    BY <1>2, <1>3, <1>4, Zenon DEF DialogueLocal
<1>6. ASSUME NEW s \in Requests \ {r} PROVE DialogueLocal(s)'
  <2>1. pc'[s] \notin InTurn /\ turn'[s] = turn[s]
    BY <1>1, <1>3, Zenon DEF ProtocolInv, TurnsExclusive, Others, InTurn
  <2>. QED
    BY <1>2, <1>4, <2>1, Zenon DEF DialogueLocal, Deciding, InTurn
<1>. QED
    BY <1>2, <1>5, <1>6, Zenon DEF DialogueInv

\* A proposal's expires_at passes.
LEMMA ExpiryTalk ==
    ASSUME ProtocolInv, DialogueInv, NEW p \in Proposals, ProposalExpires(p)
    PROVE  DialogueInv'
<1>1. UNCHANGED <<conv, pc, turn, replies>>
    BY Zenon DEF ProposalExpires
<1>2. RepliesInv'
    BY <1>1, Zenon DEF DialogueInv, RepliesInv, ThirdClarificationHandsOff, Asks
<1>3. Withdraws
    BY ZenonT(60) DEF ProtocolInv, TypeOK, ProposalRows, ProposalExpires, Withdraws
<1>4. ASSUME NEW s \in Requests PROVE DialogueLocal(s)'
  <2>1. DialogueLocal(s)
    BY Zenon DEF DialogueInv
  <2>. QED
    BY <1>1, <1>3, <2>1, WithdrawnOrigin, Zenon DEF DialogueLocal, NextClarification
<1>. QED
    BY <1>2, <1>4, Zenon DEF DialogueInv

\* A new conversation satisfies the dialogue's invariant.
LEMMA DialogueInit == Init => DialogueInv
<1> SUFFICES ASSUME Init PROVE DialogueInv
    BY Zenon
<1>1. RepliesInv
    BY DEF Init, RepliesInv, ThirdClarificationHandsOff, Asks
<1>2. ASSUME NEW r \in Requests PROVE DialogueLocal(r)
    BY Zenon DEF Init, DialogueLocal, Deciding, NewTurn
<1>. QED
    BY <1>1, <1>2, Zenon DEF DialogueInv

\* Every step of every call preserves the dialogue's invariant.
LEMMA DialogueStep == ProtocolInv /\ DialogueInv /\ [Next]_vars => DialogueInv'
<1> SUFFICES ASSUME ProtocolInv, DialogueInv, [Next]_vars PROVE DialogueInv'
    BY Zenon
<1>1. ASSUME NEW r \in Requests, RequestStep(r) PROVE DialogueInv'
  <2>1. CASE GiveUpWaiting(r) \/ SaveFails(r)
    BY <2>1, SilentReturn, Zenon DEF GiveUpWaiting, SaveFails
  <2>. QED
    BY ZenonT(60), <1>1, <2>1, ArrivalTalk, SaveTalk, SupersedeTalk, PrepareTalk, PrepareFailsTalk,
       HumanTalk, ProposeTalk, ExecuteTalk, BackendTalk, ConsumeTalk, EscalateTalk,
       DecisionTalk, FailTalk, FinishTalk, HandoffTalk, BeginTalk, ReplyTalk
       DEF RequestStep
<1>2. ASSUME NEW r \in Requests, Receive(r) \/ DeadlinePasses(r) PROVE DialogueInv'
    BY <1>2, ArrivalTalk, DeadlineTalk, Zenon
<1>3. ASSUME NEW r \in Requests, Crash(r) PROVE DialogueInv'
    BY <1>3, SilentReturn, Zenon DEF Crash, Ended
<1>4. ASSUME NEW p \in Proposals, ProposalExpires(p) PROVE DialogueInv'
    BY <1>4, ExpiryTalk, Zenon
<1>5. CASE UNCHANGED vars
    BY ZenonT(60), <1>5 DEF vars, DialogueInv, RepliesInv, ThirdClarificationHandsOff, Asks,
       DialogueLocal, NextClarification, Live, Outstanding
<1>. QED
    BY <1>1, <1>2, <1>3, <1>4, <1>5, Zenon DEF Next

\* The dialogue's invariant holds of every behaviour.
THEOREM DialogueHolds == Spec => []DialogueInv
BY ProtocolHolds, DialogueInit, DialogueStep, PTL DEF Spec

\* The automation never asks for clarification three times in a row.
THEOREM NeverThreeClarifications == Spec => []ThirdClarificationHandsOff
<1>1. DialogueInv => ThirdClarificationHandsOff
    BY Zenon DEF DialogueInv, RepliesInv
<1>. QED
    BY <1>1, DialogueHolds, PTL

\* Between turns of an open conversation a consent can only reach the proposal
\* on the card of the newest reply.
THEOREM ConsentReachesTheCard == Spec => []OnlyTheCardCanBeConfirmed
<1>1. ASSUME ProtocolInv, DialogueInv PROVE OnlyTheCardCanBeConfirmed
  <2> SUFFICES ASSUME conv.status = "open", NEW p \in Proposals, Live(p),
                      NEW i \in DOMAIN replies, replies[i].at >= prop[p].at
               PROVE  replies[Len(replies)].card = p
    BY Zenon DEF OnlyTheCardCanBeConfirmed
  <2>1. replies \in Seq(ReplyRows) /\ prop[p] \in ProposalRows
    BY <1>1, Zenon DEF ProtocolInv, TypeOK
  <2>2. Len(replies) \in DOMAIN replies
    BY <2>1
  <2>3. replies[i] \in ReplyRows /\ replies[Len(replies)] \in ReplyRows
    BY <2>1, <2>2
  <2>4. replies[i].at <= replies[Len(replies)].at
    BY <1>1, Zenon DEF DialogueInv, RepliesInv
  <2>5. replies[Len(replies)].at >= prop[p].at
    BY <2>1, <2>3, <2>4 DEF ReplyRows, ProposalRows
  <2>. QED
    BY <1>1, <2>2, <2>5, ZenonT(60) DEF ProtocolInv, TablesInv, CardInv
<1>. QED
    BY <1>1, ProtocolHolds, DialogueHolds, PTL

\* Once a reply has announced a person, no agent run starts again.
THEOREM HandoffStays == Spec => HandoffIsFinal
<1>1. ASSUME ProtocolInv, DialogueInv, [Next]_vars
      PROVE  [\A r \in Requests :
                run[r] = "none" /\ run'[r] = "running" =>
                  \A i \in DOMAIN replies : replies[i].says \notin {"handoff", "failure"}]_vars
  <2> SUFFICES ASSUME NEW r \in Requests, run[r] = "none", run'[r] = "running",
                      NEW i \in DOMAIN replies
               PROVE  replies[i].says \notin {"handoff", "failure"}
    BY Zenon
  <2>1. \E s \in Requests : StartRun(s)
    <3>1. ASSUME NEW s \in Requests, StoreReply(s) PROVE FALSE
        BY <1>1, <3>1, ZenonT(60) DEF ProtocolInv, TypeOK, StoreReply
    <3>2. run' # run
        BY Zenon
    <3>3. ASSUME NEW s \in Requests, RequestStep(s) PROVE StartRun(s)
        BY ZenonT(60), <3>1, <3>2, <3>3
           DEF RequestStep, AcquireConversationTurn, GiveUpWaiting, SaveMessage, SaveFails,
               Supersede, EscalateCustomerRequest, Authorize, PrepareFails, Propose, Execute,
               BackendCommits, BackendFails, MarkConsumed, EscalateToHuman, ToolRefused,
               RespondToCustomer, RunFails, FinishTurn, FinishFails, HandleSavedTurnFailure,
               BeginReply, CommitReply, ReplyFails
    <3>. QED
        BY <1>1, <3>2, <3>3, Zenon DEF Next, vars, Receive, DeadlinePasses, Crash, ProposalExpires
  <2>2. conv.status = "open"
    BY <1>1, <2>1, ZenonT(60) DEF ProtocolInv, LocalInv, StartRun
  <2>. QED
    BY <1>1, <2>2, Zenon DEF DialogueInv, RepliesInv
<1>. QED
    BY <1>1, ProtocolHolds, DialogueHolds, PTL DEF Spec, HandoffIsFinal

\* A message that is not consent leaves no proposal of an earlier turn live.
THEOREM AnswerSupersedes == Spec => NonConsentSupersedes
<1>1. ASSUME DialogueInv
      PROVE  [\A r \in Requests :
                /\ pc[r] = "persisting" /\ pc'[r] = "done"
                /\ turn[r].text # "consent" /\ turn[r].says # "ack" /\ ~turn[r].last
                => \A p \in Proposals : Live(p) => prop[p].from = r]_vars
    BY <1>1, Zenon DEF DialogueInv, DialogueLocal
<1>. QED
    BY <1>1, DialogueHolds, PTL DEF Spec, NonConsentSupersedes
=============================================================================
